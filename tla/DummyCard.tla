----------------------------- MODULE DummyCard -----------------------------
(***************************************************************************)
(* Cards of the sound driver (patches/linux/dummy_sound.c): init registers *)
(* the driver, the pages of a fake buffer and one platform device for each *)
(* enabled card; registering a device runs its probe, which builds the     *)
(* card step by step and frees it when a step fails.  A user may unbind    *)
(* and bind a device at any moment, and exit takes everything down.        *)
(*                                                                         *)
(* ALSA and the driver core are external: each request may fail, a card is *)
(* seen by clients from snd_card_register until snd_card_free, and the     *)
(* core clears drvdata when a device loses its driver.  Every probe maps   *)
(* the register block once more; no path unmaps it, and nobody looks       *)
(* whether ioremap_nocache has succeeded.                                  *)
(***************************************************************************)
EXTENDS Integers

CONSTANTS SNDRV_CARDS,      \* cards the kernel allows
          enable,           \* the ones that are enabled
          Models,           \* values of the parameter model: names or "none"
          pcm_devs,         \* PCM devices of a card
          fake_buffer,      \* BOOLEAN
          Controls,         \* entries of snd_dummy_controls
          IoSpace           \* mappings of the register block the kernel has room for

MAX_PCM_DEVICES == 4
Cards == 0 .. SNDRV_CARDS - 1
PcmDevs == IF pcm_devs < MAX_PCM_DEVICES THEN pcm_devs ELSE MAX_PCM_DEVICES

ASSUME CardAssumption ==
  /\ SNDRV_CARDS \in Nat \ {0} /\ enable \subseteq Cards
  /\ Models # {} /\ pcm_devs \in Nat /\ fake_buffer \in BOOLEAN /\ Controls \in Nat \ {0}
  /\ IoSpace \in Nat
----------------------------------------------------------------------------
(* Hardware limits *)

\* dummy_pcm_hardware; sample is the size in bytes of the shortest format.
dummy_pcm_hardware ==
  [sample |-> 1, buffer_bytes_max |-> 65536, period_bytes_min |-> 64, period_bytes_max |-> 65536,
   periods_min |-> 1, periods_max |-> 1024, rate_min |-> 5500, rate_max |-> 48000,
   channels_min |-> 1, channels_max |-> 1]

Fields == DOMAIN dummy_pcm_hardware
NoLimits == [f \in Fields |-> 0]

\* A model gives some of the limits; the others are zero in the C record.
dummy_models ==
  [emu10k1 |-> [buffer_bytes_max |-> 128 * 1024],
   rme9652 |-> [buffer_bytes_max |-> 26 * 64 * 1024, sample |-> 4, channels_min |-> 26,
                channels_max |-> 26, periods_min |-> 2, periods_max |-> 2],
   ice1712 |-> [buffer_bytes_max |-> 256 * 1024, sample |-> 4, channels_min |-> 10,
                channels_max |-> 10, periods_min |-> 1, periods_max |-> 1024],
   uda1341 |-> [buffer_bytes_max |-> 16380, sample |-> 2, channels_min |-> 2,
                channels_max |-> 2, periods_min |-> 2, periods_max |-> 255],
   ac97    |-> [sample |-> 2, channels_min |-> 2, channels_max |-> 2,
                rate_min |-> 48000, rate_max |-> 48000],
   ca0106  |-> [sample |-> 2, buffer_bytes_max |-> (65536 - 64) * 8,
                period_bytes_max |-> 65536 - 64, periods_min |-> 2, periods_max |-> 8,
                channels_min |-> 2, channels_max |-> 2, rate_min |-> 48000, rate_max |-> 192000]]

\* The limits the model of that name gives; an unknown name gives none.
Given(m) == IF m \in DOMAIN dummy_models THEN dummy_models[m] ELSE [f \in {} |-> 0]

\* Mutant: a limit the model leaves out is copied as well.
CopiedHw(m) ==
  [f \in Fields |-> IF f \in DOMAIN Given(m) THEN Given(m)[f]
                    ELSE IF m \in DOMAIN dummy_models THEN 0 ELSE dummy_pcm_hardware[f]]
\* The limits of the driver where the model says nothing.
PcmHw(m) ==
  [f \in Fields |-> IF f \in DOMAIN Given(m) THEN Given(m)[f] ELSE dummy_pcm_hardware[f]]
----------------------------------------------------------------------------
VARIABLES ipc, i,           \* init and exit: control point and loop index
          driver,           \* platform driver registered
          pages,            \* pages of the fake buffer
          registered,       \* platform devices the kernel knows
          devices,          \* the pointers kept by init
          ppc,              \* probe or remove of each device: control point
          card,             \* the card of each device
          virt_io_base,     \* the pointer of all cards to the registers is not NULL
          mappings          \* how often the register block is mapped

io == <<virt_io_base, mappings>>
vars == <<ipc, i, driver, pages, registered, devices, ppc, card, io>>
module == <<ipc, i, driver, pages, devices>>

NoCard == [alloc |-> FALSE, model |-> "none", pcms |-> 0, hw |-> NoLimits,
           controls |-> 0, visible |-> FALSE, drvdata |-> FALSE]

Limits == {NoLimits} \cup {PcmHw(m) : m \in Models \cup {"none"}}

CardType == [alloc : BOOLEAN, model : Models \cup {"none"}, pcms : 0 .. PcmDevs, hw : Limits,
             controls : 0 .. Controls, visible : BOOLEAN, drvdata : BOOLEAN]

TypeOK ==
  /\ ipc \in {"start", "pages", "loop", "probe", "check", "up", "unregister", "gone"}
  /\ i \in Nat
  /\ driver \in BOOLEAN /\ pages \in {0, 2}
  /\ virt_io_base \in BOOLEAN /\ mappings \in 0 .. IoSpace
  /\ registered \subseteq Cards /\ devices \subseteq Cards
  /\ ppc \in [Cards -> {"unbound", "new", "pcm", "hw", "mixer", "register", "bound", "nodev"}]
  /\ card \in [Cards -> CardType]

Init ==
  /\ ipc = "start" /\ i = 0
  /\ driver = FALSE /\ pages = 0 /\ registered = {} /\ devices = {}
  /\ ppc = [c \in Cards |-> "unbound"]
  /\ card = [c \in Cards |-> NoCard]
  /\ virt_io_base = FALSE /\ mappings = 0
----------------------------------------------------------------------------
(* snd_dummy_probe *)

ProbeStep(c, from, to) == ppc[c] = from /\ ppc' = [ppc EXCEPT ![c] = to]

\* ioremap_nocache; the pointer is overwritten, also under cards in use
MapRegisters ==
  \/ mappings < IoSpace /\ virt_io_base' = TRUE /\ mappings' = mappings + 1
  \/ virt_io_base' = FALSE /\ UNCHANGED mappings

\* snd_card_new fails before there is a card to free.
CardNew(c) ==
  /\ \/ \E m \in Models :
          /\ ProbeStep(c, "new", "pcm")
          /\ card' = [card EXCEPT ![c] = [NoCard EXCEPT !.alloc = TRUE, !.model = m]]
     \/ ProbeStep(c, "new", "unbound") /\ UNCHANGED card
  /\ MapRegisters
  /\ UNCHANGED <<module, registered>>

\* snd_card_dummy_pcm for the next device
NewPcm(c) ==
  /\ \/ /\ card[c].pcms < PcmDevs
        /\ \/ ProbeStep(c, "pcm", "pcm") /\ card' = [card EXCEPT ![c].pcms = @ + 1]
           \/ ProbeStep(c, "pcm", "nodev") /\ UNCHANGED card
     \/ card[c].pcms = PcmDevs /\ ProbeStep(c, "pcm", "hw") /\ UNCHANGED card
  /\ UNCHANGED <<module, registered, io>>

FillHw(c) ==
  /\ ProbeStep(c, "hw", "mixer")
  /\ card' = [card EXCEPT ![c].hw = PcmHw(card[c].model)]
  /\ UNCHANGED <<module, registered, io>>

\* snd_card_dummy_new_mixer, one control
NewControl(c) ==
  /\ \/ /\ card[c].controls < Controls
        /\ \/ ProbeStep(c, "mixer", "mixer") /\ card' = [card EXCEPT ![c].controls = @ + 1]
           \/ ProbeStep(c, "mixer", "nodev") /\ UNCHANGED card
     \/ card[c].controls = Controls /\ ProbeStep(c, "mixer", "register") /\ UNCHANGED card
  /\ UNCHANGED <<module, registered, io>>

CardRegister(c) ==
  /\ \/ /\ ProbeStep(c, "register", "bound")
        /\ card' = [card EXCEPT ![c].visible = TRUE, ![c].drvdata = TRUE]
     \/ ProbeStep(c, "register", "nodev") /\ UNCHANGED card
  /\ UNCHANGED <<module, registered, io>>

\* Mutant: a failed probe returns without snd_card_free.
NodevLeaks(c) ==
  /\ ProbeStep(c, "nodev", "unbound")
  /\ UNCHANGED <<module, registered, card, io>>
\* __nodev: snd_card_free takes PCMs and controls along
Nodev(c) ==
  /\ ProbeStep(c, "nodev", "unbound")
  /\ card' = [card EXCEPT ![c] = NoCard]
  /\ UNCHANGED <<module, registered, io>>

Probe(c) ==
  CardNew(c) \/ NewPcm(c) \/ FillHw(c) \/ NewControl(c) \/ CardRegister(c) \/ Nodev(c)

\* A user binds the device again, once the probe of init has returned.
Bind(c) ==
  /\ driver /\ c \in registered /\ ~(ipc = "probe" /\ c = i)
  /\ ProbeStep(c, "unbound", "new")
  /\ UNCHANGED <<module, registered, card, io>>

\* snd_dummy_remove, called for a device that has its driver
Removed(c) == IF ppc[c] = "bound" THEN [card EXCEPT ![c] = NoCard] ELSE card

\* A user unbinds the device.
Unbind(c) ==
  /\ ProbeStep(c, "bound", "unbound")
  /\ card' = Removed(c)
  /\ UNCHANGED <<module, registered, io>>
----------------------------------------------------------------------------
(* alsa_card_dummy_init *)

DriverRegister ==
  /\ ipc = "start"
  /\ \/ driver' = TRUE /\ ipc' = "pages"
     \/ ipc' = "gone" /\ UNCHANGED driver
  /\ UNCHANGED <<i, pages, registered, devices, ppc, card, io>>

\* alloc_fake_buffer; a failure gives back the page it has and the driver.
AllocFakeBuffer ==
  /\ ipc = "pages"
  /\ \/ ipc' = "loop" /\ pages' = (IF fake_buffer THEN 2 ELSE 0) /\ UNCHANGED driver
     \/ fake_buffer /\ ipc' = "gone" /\ driver' = FALSE /\ UNCHANGED pages
  /\ UNCHANGED <<i, registered, devices, ppc, card, io>>

\* platform_device_register_simple, which calls probe; nothing happens for a
\* card that is not enabled or when it fails
DeviceRegister ==
  /\ ipc = "loop" /\ i \in Cards
  /\ \/ /\ i \in enable
        /\ registered' = registered \cup {i}
        /\ ProbeStep(i, "unbound", "new")
        /\ ipc' = "probe" /\ UNCHANGED i
     \/ i' = i + 1 /\ UNCHANGED <<ipc, registered, ppc>>
  /\ UNCHANGED <<driver, pages, devices, card, io>>

ProbeReturns ==
  /\ ipc = "probe" /\ ppc[i] \in {"bound", "unbound"}
  /\ ipc' = "check"
  /\ UNCHANGED <<i, driver, pages, registered, devices, ppc, card, io>>

\* Mutant: a device without a card stays registered.
CheckForgets ==
  /\ ipc = "check" /\ ppc[i] \in {"bound", "unbound"}
  /\ IF card[i].drvdata THEN devices' = devices \cup {i} ELSE UNCHANGED devices
  /\ ipc' = "loop" /\ i' = i + 1
  /\ UNCHANGED <<driver, pages, registered, ppc, card, io>>
\* if (!platform_get_drvdata(device)) platform_device_unregister(device), which
\* waits for a user's probe and removes what it has made
CheckDrvdata ==
  /\ ipc = "check"
  /\ IF card[i].drvdata
     THEN devices' = devices \cup {i} /\ UNCHANGED <<registered, ppc, card>>
     ELSE /\ ppc[i] \in {"bound", "unbound"}
          /\ registered' = registered \ {i}
          /\ ppc' = [ppc EXCEPT ![i] = "unbound"]
          /\ card' = Removed(i)
          /\ UNCHANGED devices
  /\ ipc' = "loop" /\ i' = i + 1
  /\ UNCHANGED <<driver, pages, io>>

\* No card at all: take everything down again.
InitReturns ==
  /\ ipc = "loop" /\ i \notin Cards
  /\ ipc' = IF devices = {} THEN "unregister" ELSE "up"
  /\ i' = 0
  /\ UNCHANGED <<driver, pages, registered, devices, ppc, card, io>>
----------------------------------------------------------------------------
(* snd_dummy_unregister_all *)

\* Mutant: the fake buffer is freed before the devices are gone.
ExitFreesFirst ==
  /\ ipc = "up"
  /\ ipc' = "unregister" /\ i' = 0
  /\ pages' = 0
  /\ UNCHANGED <<driver, registered, devices, ppc, card, io>>
\* alsa_card_dummy_exit
Exit ==
  /\ ipc = "up"
  /\ ipc' = "unregister" /\ i' = 0
  /\ UNCHANGED <<driver, pages, registered, devices, ppc, card, io>>

\* platform_device_unregister(devices[i]): NULL is fine, a bound device is
\* removed, and a probe in progress is waited for.
UnregisterDevice ==
  /\ ipc = "unregister" /\ i \in Cards
  /\ i \in devices => ppc[i] \in {"bound", "unbound"}
  /\ IF i \in devices
     THEN /\ registered' = registered \ {i}
          /\ ppc' = [ppc EXCEPT ![i] = "unbound"]
          /\ card' = Removed(i)
     ELSE UNCHANGED <<registered, ppc, card>>
  /\ i' = i + 1
  /\ UNCHANGED <<ipc, driver, pages, devices, io>>

\* platform_driver_unregister, free_fake_buffer
UnregisterDriver ==
  /\ ipc = "unregister" /\ i \notin Cards
  /\ ipc' = "gone"
  /\ driver' = FALSE
  /\ pages' = 0
  /\ UNCHANGED <<i, registered, devices, ppc, card, io>>

Stopped == ipc = "gone" /\ UNCHANGED vars

Next ==
  \/ \E c \in Cards : Probe(c) \/ Bind(c) \/ Unbind(c)
  \/ DriverRegister \/ AllocFakeBuffer \/ DeviceRegister \/ ProbeReturns \/ CheckDrvdata
  \/ InitReturns \/ Exit \/ UnregisterDevice \/ UnregisterDriver \/ Stopped

Spec == Init /\ [][Next]_vars
----------------------------------------------------------------------------
(* Properties *)

\* What a client can open is complete: every PCM device and control is there
\* (iobox_put follows the pointers to the CD controls), the hardware limits
\* are filled in and dummy_pcm_page has its pages.  The registers are not
\* among the things a client can count on: probe goes on without them, and the
\* probe of another card may replace the pointer by NULL.
VisibleComplete ==
  \A c \in Cards :
    card[c].visible =>
      /\ card[c].pcms = PcmDevs /\ card[c].controls = Controls
      /\ card[c].hw # NoLimits
      /\ fake_buffer => pages = 2

\* When init has failed or exit has returned no driver, device, card or page
\* is left behind.  What is left is every mapping of the registers a probe has
\* made: the driver has no iounmap.
OnlyMappingsLeft ==
  ipc = "gone" =>
    /\ ~driver /\ registered = {} /\ pages = 0
    /\ \A c \in Cards : ~card[c].alloc

\* Once init has returned it knows every device it has registered, so exit
\* will find them, whoever binds and unbinds meanwhile; and memory of a card
\* is held only by a device that is bound or being probed.
DevicesKnown ==
  /\ ipc \in {"up", "unregister"} => registered \subseteq devices
  /\ \A c \in Cards : card[c].alloc => c \in registered /\ ppc[c] # "unbound"

\* The limits of every model leave room for a stream: each interval is not
\* empty, the shortest periods fit into the buffer and a frame into a period.
LimitsPossible ==
  \A c \in Cards :
    card[c].visible =>
      LET hw == card[c].hw IN
      /\ hw.period_bytes_min <= hw.period_bytes_max
      /\ hw.periods_min <= hw.periods_max
      /\ hw.rate_min <= hw.rate_max
      /\ 0 < hw.channels_min /\ hw.channels_min <= hw.channels_max
      /\ hw.period_bytes_min * hw.periods_min <= hw.buffer_bytes_max
      /\ hw.channels_min * hw.sample <= hw.period_bytes_max
=============================================================================
