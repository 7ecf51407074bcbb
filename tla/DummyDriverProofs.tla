------------------------- MODULE DummyDriverProofs -------------------------
(***************************************************************************)
(* Proofs about DummyCard for any number of cards, models, PCM devices and *)
(* controls, whatever fails and whoever binds and unbinds: what clients    *)
(* see is complete, init keeps track of its devices, and only mappings of  *)
(* the registers are left when the module is gone.  Proofs about           *)
(* DummyMixer for any addresses and any values clients write: a watcher    *)
(* that has handled its events knows the volumes, the I/O box and which CD *)
(* controls are active.                                                    *)
(***************************************************************************)
EXTENDS DummyCard, DummyMixer, TLAPS

States == {"unbound", "new", "pcm", "hw", "mixer", "register", "bound", "nodev"}

Shape ==
  /\ i \in Nat
  /\ registered \subseteq Cards /\ devices \subseteq Cards
  /\ ppc \in [Cards -> States]
  /\ card \in [Cards -> CardType]

\* What probe has made of a card at each of its points
Built(c) ==
  /\ ppc[c] \in {"unbound", "new"} => card[c] = NoCard
  /\ ppc[c] # "bound" => ~card[c].visible /\ ~card[c].drvdata
  /\ ppc[c] \in {"hw", "mixer", "register", "bound"} => card[c].pcms = PcmDevs
  /\ ppc[c] \in {"mixer", "register", "bound"} => card[c].hw # NoLimits
  /\ ppc[c] \in {"register", "bound"} => card[c].controls = Controls

\* What init and exit hold while they run
Held ==
  /\ ipc \in {"start", "pages", "loop", "probe", "check", "up", "unregister", "gone"}
  /\ driver \in BOOLEAN /\ pages \in {0, 2}
  /\ ipc \in {"start", "gone"} => ~driver
  /\ ipc \in {"start", "pages", "gone"} => registered = {} /\ pages = 0
  /\ ipc \notin {"start", "pages", "gone"} => (fake_buffer => pages = 2)
  /\ ipc \in {"probe", "check"} => i \in registered
  /\ \A c \in registered : c \in devices \/ (ipc \in {"probe", "check"} /\ c = i)
  /\ ipc = "unregister" => \A c \in registered : i <= c

\* A device has a driver, or is being probed, only while it is registered.
Bound(c) == ppc[c] # "unbound" => c \in registered

Mapped == virt_io_base \in BOOLEAN /\ mappings \in 0 .. IoSpace

Inv == Shape /\ Mapped /\ Held /\ \A c \in Cards : Built(c) /\ Bound(c)

\* What LimitsPossible asks of one set of limits
Possible(hw) ==
  /\ hw.period_bytes_min <= hw.period_bytes_max
  /\ hw.periods_min <= hw.periods_max
  /\ hw.rate_min <= hw.rate_max
  /\ 0 < hw.channels_min /\ hw.channels_min <= hw.channels_max
  /\ hw.period_bytes_min * hw.periods_min <= hw.buffer_bytes_max
  /\ hw.channels_min * hw.sample <= hw.period_bytes_max

\* Every mixture of a model's limits with those of the driver is possible.
LEMMA HwPossible == \A m : Possible(PcmHw(m))
<1> SUFFICES ASSUME NEW m PROVE Possible(PcmHw(m))
  OBVIOUS
<1>1. Fields = {"sample", "buffer_bytes_max", "period_bytes_min", "period_bytes_max", "periods_min", "periods_max",
               "rate_min", "rate_max", "channels_min", "channels_max"}
  BY DEF Fields, dummy_pcm_hardware
<1>2. \A f \in Fields :
        PcmHw(m)[f] = IF f \in DOMAIN Given(m) THEN Given(m)[f] ELSE dummy_pcm_hardware[f]
  BY DEF PcmHw
<1>3. CASE m = "emu10k1"
  <2>1. Given(m) = dummy_models.emu10k1
    BY <1>3 DEF Given, dummy_models
  <2> QED BY <1>1, <1>2, <2>1 DEF dummy_models, dummy_pcm_hardware, Possible
<1>4. CASE m = "rme9652"
  <2>1. Given(m) = dummy_models.rme9652
    BY <1>4 DEF Given, dummy_models
  <2> QED BY <1>1, <1>2, <2>1 DEF dummy_models, dummy_pcm_hardware, Possible
<1>5. CASE m = "ice1712"
  <2>1. Given(m) = dummy_models.ice1712
    BY <1>5 DEF Given, dummy_models
  <2> QED BY <1>1, <1>2, <2>1 DEF dummy_models, dummy_pcm_hardware, Possible
<1>6. CASE m = "uda1341"
  <2>1. Given(m) = dummy_models.uda1341
    BY <1>6 DEF Given, dummy_models
  <2> QED BY <1>1, <1>2, <2>1 DEF dummy_models, dummy_pcm_hardware, Possible
<1>7. CASE m = "ac97"
  <2>1. Given(m) = dummy_models.ac97
    BY <1>7 DEF Given, dummy_models
  <2> QED BY <1>1, <1>2, <2>1 DEF dummy_models, dummy_pcm_hardware, Possible
<1>8. CASE m = "ca0106"
  <2>1. Given(m) = dummy_models.ca0106
    BY <1>8 DEF Given, dummy_models
  <2> QED BY <1>1, <1>2, <2>1 DEF dummy_models, dummy_pcm_hardware, Possible
<1>9. CASE m \notin DOMAIN dummy_models
  <2>1. DOMAIN Given(m) = {}
    BY <1>9 DEF Given
  <2> QED BY <1>1, <1>2, <2>1 DEF dummy_pcm_hardware, Possible
<1> QED
  BY <1>3, <1>4, <1>5, <1>6, <1>7, <1>8, <1>9 DEF dummy_models

\* A possible set of limits is not the empty record a new card starts with.
LEMMA HwFilled == \A m : PcmHw(m) # NoLimits
<1> SUFFICES ASSUME NEW m PROVE PcmHw(m) # NoLimits
  OBVIOUS
<1>1. 0 < PcmHw(m).channels_min
  BY HwPossible DEF Possible
<1>2. NoLimits.channels_min = 0
  BY DEF NoLimits, Fields, dummy_pcm_hardware
<1> QED
  BY <1>1, <1>2

LEMMA CountsNat == PcmDevs \in Nat /\ Controls \in Nat
BY CardAssumption DEF PcmDevs, MAX_PCM_DEVICES

\* A freed card is again a card of the type.
LEMMA NoCardType == NoCard \in CardType
BY CountsNat DEF NoCard, CardType, Limits

\* Before init nothing is held.
LEMMA InitInv == Init => Inv
<1> SUFFICES ASSUME Init PROVE Inv
  OBVIOUS
<1>1. Shape /\ Mapped
  <2>1. Shape
    BY NoCardType DEF Init, Shape, States
  <2>2. virt_io_base \in BOOLEAN
    BY Zenon DEF Init
  <2>3. mappings \in 0 .. IoSpace
    BY CardAssumption DEF Init
  <2> QED BY <2>1, <2>2, <2>3 DEF Mapped
<1>2. Held
  BY DEF Init, Held
<1>3. ASSUME NEW c \in Cards PROVE Built(c) /\ Bound(c)
  BY DEF Init, Built, Bound, NoCard
<1> QED
  BY <1>1, <1>2, <1>3 DEF Inv
----------------------------------------------------------------------------
(* A step of one device *)

\* A step that changes the card and the control point of c alone
Local(c) ==
  /\ \A d \in Cards \ {c} : ppc'[d] = ppc[d] /\ card'[d] = card[d]
  /\ virt_io_base' \in BOOLEAN /\ mappings' \in 0 .. IoSpace

\* Such a step keeps the invariant if it does so for c.
LEMMA LocalStep ==
  ASSUME NEW c \in Cards, Inv, Local(c), UNCHANGED <<module, registered>>,
         ppc' \in [Cards -> States], card' \in [Cards -> CardType],
         Built(c)', Bound(c)'
  PROVE  Inv'
<1>1. Shape' /\ Mapped'
  BY DEF Inv, Shape, module, Mapped, Local
<1>2. Held'
  BY DEF Inv, Held, module
<1>3. ASSUME NEW d \in Cards PROVE Built(d)' /\ Bound(d)'
  <2>1. CASE d = c
    BY <2>1
  <2>2. CASE d # c
    <3>1. ppc'[d] = ppc[d] /\ card'[d] = card[d] /\ registered' = registered
      BY <2>2 DEF Local
    <3>2. Built(d) /\ Bound(d)
      BY DEF Inv
    <3> QED BY <3>1, <3>2 DEF Built, Bound
  <2> QED BY <2>1, <2>2
<1> QED
  BY <1>1, <1>2, <1>3 DEF Inv

\* Probe, bind and unbind of any device, at any moment of init and exit
LEMMA DeviceStep ==
  ASSUME NEW c \in Cards, Inv, Probe(c) \/ Bind(c) \/ Unbind(c)
  PROVE  Inv'
<1> USE DEF ProbeStep
<1>0. /\ ppc \in [Cards -> States] /\ card \in [Cards -> CardType]
      /\ Built(c) /\ Bound(c) /\ virt_io_base \in BOOLEAN /\ mappings \in 0 .. IoSpace
  BY DEF Inv, Shape, Mapped
<1>1. CASE CardNew(c)
  <2>0. virt_io_base' \in BOOLEAN /\ mappings' \in 0 .. IoSpace
    <3>1. MapRegisters
      BY <1>1 DEF CardNew
    <3>2. virt_io_base' \in BOOLEAN
      BY <3>1, Zenon DEF MapRegisters
    <3>3. mappings' \in 0 .. IoSpace
      BY <1>0, <3>1, CardAssumption DEF MapRegisters
    <3> QED BY <3>2, <3>3
  <2>1. CASE ProbeStep(c, "new", "unbound") /\ UNCHANGED card
    <3>1. ppc' \in [Cards -> States] /\ card' \in [Cards -> CardType]
      BY <1>0, <2>1 DEF States
    <3>2. Built(c)' /\ Bound(c)' /\ Local(c)
      BY <1>0, <1>1, <2>0, <2>1 DEF CardNew, Built, Bound, Local, NoCard
    <3> QED BY <1>1, <3>1, <3>2, LocalStep DEF CardNew
  <2>2. ASSUME NEW m \in Models, ProbeStep(c, "new", "pcm"),
               card' = [card EXCEPT ![c] = [NoCard EXCEPT !.alloc = TRUE, !.model = m]]
        PROVE  Inv'
    <3>1. ppc' \in [Cards -> States]
      BY <1>0, <2>2 DEF States
    <3>2. [NoCard EXCEPT !.alloc = TRUE, !.model = m] \in CardType
      BY NoCardType DEF CardType
    <3>3. card' \in [Cards -> CardType]
      BY <1>0, <2>2, <3>2
    <3>4. ppc'[c] = "pcm" /\ card'[c] = [NoCard EXCEPT !.alloc = TRUE, !.model = m]
      BY <1>0, <2>2
    <3>5. ~card'[c].visible /\ ~card'[c].drvdata
      BY <3>4 DEF NoCard
    <3>6. Built(c)' /\ Bound(c)'
      BY <1>0, <1>1, <2>2, <3>4, <3>5 DEF CardNew, Built, Bound
    <3>7. Local(c)
      BY <1>0, <2>0, <2>2 DEF Local
    <3> QED BY <1>1, <3>1, <3>3, <3>6, <3>7, LocalStep DEF CardNew
  <2> QED BY <1>1, <2>1, <2>2 DEF CardNew
<1>2. CASE NewPcm(c)
  <2>1. ppc' \in [Cards -> States]
    BY <1>0, <1>2 DEF NewPcm, States
  <2>2. card' \in [Cards -> CardType]
    BY <1>0, <1>2, CountsNat DEF NewPcm, CardType
  <2>3. Local(c)
    BY <1>0, <1>2 DEF NewPcm, Local, io
  <2>4. Built(c)' /\ Bound(c)'
    BY <1>0, <1>2 DEF NewPcm, Built, Bound, CardType
  <2> QED BY <1>2, <2>1, <2>2, <2>3, <2>4, LocalStep DEF NewPcm
<1>3. CASE FillHw(c)
  <2>1. ppc' \in [Cards -> States]
    BY <1>0, <1>3 DEF FillHw, States
  <2>2. PcmHw(card[c].model) \in Limits /\ PcmHw(card[c].model) # NoLimits
    BY <1>0, HwFilled DEF CardType, Limits
  <2>3. card' \in [Cards -> CardType]
    BY <1>0, <1>3, <2>2 DEF FillHw, CardType
  <2>4. Local(c)
    BY <1>0, <1>3 DEF FillHw, Local, io
  <2>5. Built(c)' /\ Bound(c)'
    BY <1>0, <1>3, <2>2 DEF FillHw, Built, Bound, CardType
  <2> QED BY <1>3, <2>1, <2>3, <2>4, <2>5, LocalStep DEF FillHw
<1>4. CASE NewControl(c)
  <2>1. ppc' \in [Cards -> States]
    BY <1>0, <1>4 DEF NewControl, States
  <2>2. card' \in [Cards -> CardType]
    BY <1>0, <1>4, CountsNat DEF NewControl, CardType
  <2>3. Local(c)
    BY <1>0, <1>4 DEF NewControl, Local, io
  <2>4. Built(c)' /\ Bound(c)'
    BY <1>0, <1>4 DEF NewControl, Built, Bound, CardType
  <2> QED BY <1>4, <2>1, <2>2, <2>3, <2>4, LocalStep DEF NewControl
<1>5. CASE CardRegister(c)
  <2>1. ppc' \in [Cards -> States]
    BY <1>0, <1>5 DEF CardRegister, States
  <2>0. [card[c] EXCEPT !.visible = TRUE, !.drvdata = TRUE] \in CardType
    BY <1>0 DEF CardType
  <2>2. card' \in [Cards -> CardType]
    <3>1. CASE UNCHANGED card
      BY <1>0, <3>1
    <3>2. CASE card' = [card EXCEPT ![c].visible = TRUE, ![c].drvdata = TRUE]
      BY <1>0, <2>0, <3>2
    <3> QED BY <1>5, <3>1, <3>2 DEF CardRegister
  <2>3. Local(c)
    BY <1>0, <1>5 DEF CardRegister, Local, io
  <2>4. Built(c)' /\ Bound(c)'
    BY <1>0, <1>5 DEF CardRegister, Built, Bound, CardType
  <2> QED BY <1>5, <2>1, <2>2, <2>3, <2>4, LocalStep DEF CardRegister
<1>6. CASE Nodev(c)
  <2>1. ppc' \in [Cards -> States] /\ card' \in [Cards -> CardType]
    BY <1>0, <1>6, NoCardType DEF Nodev, States
  <2>2. Built(c)' /\ Bound(c)' /\ Local(c)
    BY <1>0, <1>6 DEF Nodev, Built, Bound, Local, NoCard, io
  <2> QED BY <1>6, <2>1, <2>2, LocalStep DEF Nodev
<1>7. CASE Bind(c)
  <2>1. ppc' \in [Cards -> States] /\ card' \in [Cards -> CardType]
    BY <1>0, <1>7 DEF Bind, States
  <2>2. Built(c)' /\ Bound(c)' /\ Local(c)
    BY <1>0, <1>7 DEF Bind, Built, Bound, Local, NoCard, io
  <2> QED BY <1>7, <2>1, <2>2, LocalStep DEF Bind
<1>8. CASE Unbind(c)
  <2>1. ppc' \in [Cards -> States] /\ card' \in [Cards -> CardType]
    BY <1>0, <1>8, NoCardType DEF Unbind, Removed, States
  <2>2. Built(c)' /\ Bound(c)' /\ Local(c)
    BY <1>0, <1>8 DEF Unbind, Removed, Built, Bound, Local, NoCard, io
  <2> QED BY <1>8, <2>1, <2>2, LocalStep DEF Unbind
<1> QED
  BY <1>1, <1>2, <1>3, <1>4, <1>5, <1>6, <1>7, <1>8 DEF Probe
----------------------------------------------------------------------------
(* The steps of init and exit *)

\* A step that leaves the devices alone keeps what is known of each.
LEMMA QuietStep ==
  ASSUME Inv, UNCHANGED <<ppc, card, io, registered>>, i' \in Nat, devices' \subseteq Cards, Held'
  PROVE  Inv'
<1>1. Shape' /\ Mapped'
  BY DEF Inv, Shape, Mapped, io
<1>2. ASSUME NEW c \in Cards PROVE Built(c)' /\ Bound(c)'
  BY DEF Inv, Built, Bound
<1> QED
  BY <1>1, <1>2 DEF Inv

\* Unregistering a device that is not in the middle of a probe empties it.
LEMMA UnregisterStep ==
  ASSUME NEW c \in Cards, Inv, ppc[c] \in {"bound", "unbound"},
         registered' = registered \ {c}, ppc' = [ppc EXCEPT ![c] = "unbound"],
         card' = Removed(c), UNCHANGED <<io, devices>>, i' \in Nat, Held'
  PROVE  Inv'
<1>0. /\ ppc \in [Cards -> States] /\ card \in [Cards -> CardType]
      /\ registered \subseteq Cards /\ devices \subseteq Cards
  BY DEF Inv, Shape
<1>1. Shape' /\ Mapped'
  BY <1>0, NoCardType DEF Shape, Removed, States, Inv, Mapped, io
<1>2. card'[c] = NoCard /\ ppc'[c] = "unbound"
  BY <1>0 DEF Inv, Built, Removed
<1>3. ASSUME NEW d \in Cards PROVE Built(d)' /\ Bound(d)'
  <2>1. CASE d = c
    BY <1>2, <2>1 DEF Built, Bound, NoCard
  <2>2. CASE d # c
    <3>1. ppc'[d] = ppc[d] /\ card'[d] = card[d] /\ (d \in registered' <=> d \in registered)
      BY <1>0, <2>2 DEF Removed
    <3>2. Built(d) /\ Bound(d)
      BY DEF Inv
    <3> QED BY <3>1, <3>2 DEF Built, Bound
  <2> QED BY <2>1, <2>2
<1> QED
  BY <1>1, <1>3 DEF Inv

\* Init, its unwinding and exit
LEMMA ModuleStep ==
  ASSUME Inv, \/ DriverRegister \/ AllocFakeBuffer \/ DeviceRegister \/ ProbeReturns \/ CheckDrvdata
              \/ InitReturns \/ Exit \/ UnregisterDevice \/ UnregisterDriver
  PROVE  Inv'
<1>0. /\ i \in Nat /\ registered \subseteq Cards /\ devices \subseteq Cards
      /\ ppc \in [Cards -> States] /\ card \in [Cards -> CardType] /\ Held
  BY DEF Inv, Shape
<1>1. CASE DriverRegister
  <2>0. driver' \in BOOLEAN /\ (ipc' = "gone" => ~driver')
    <3>1. CASE driver' = TRUE /\ ipc' = "pages"
      BY <3>1
    <3>2. CASE ipc' = "gone" /\ UNCHANGED driver
      <4>1. ~driver /\ driver \in BOOLEAN
        BY <1>0, <1>1 DEF DriverRegister, Held
      <4> QED BY <3>2, <4>1
    <3> QED BY <1>1, <3>1, <3>2 DEF DriverRegister
  <2>1. Held'
    BY <1>0, <1>1, <2>0 DEF DriverRegister, Held
  <2> QED BY <1>0, <1>1, <2>1, QuietStep DEF DriverRegister
<1>2. CASE AllocFakeBuffer
  <2>0. (fake_buffer => pages' \in {0, 2}) /\ (~fake_buffer => pages' = 0)
    BY <1>0, <1>2 DEF AllocFakeBuffer, Held
  <2>1. Held'
    BY <1>0, <1>2, <2>0 DEF AllocFakeBuffer, Held
  <2> QED BY <1>0, <1>2, <2>1, QuietStep DEF AllocFakeBuffer
<1>3. CASE DeviceRegister
  <2>1. CASE i' = i + 1 /\ UNCHANGED <<ipc, registered, ppc>>
    <3>1. Held'
      BY <1>0, <1>3, <2>1 DEF DeviceRegister, Held
    <3> QED BY <1>0, <1>3, <2>1, <3>1, QuietStep DEF DeviceRegister
  <2>2. CASE /\ registered' = registered \cup {i}
             /\ ProbeStep(i, "unbound", "new") /\ ipc' = "probe" /\ UNCHANGED i
    <3>0. Mapped'
      BY <1>3 DEF DeviceRegister, Inv, Mapped, io
    <3>1. Shape'
      BY <1>0, <1>3, <2>2 DEF DeviceRegister, ProbeStep, Shape, States
    <3>2. Held'
      BY <1>0, <1>3, <2>2 DEF DeviceRegister, Held
    <3>3. ASSUME NEW d \in Cards PROVE Built(d)' /\ Bound(d)'
      <4>1. Built(d) /\ Bound(d)
        BY DEF Inv
      <4>2. card' = card /\ i \in Cards
        BY <1>3 DEF DeviceRegister
      <4>3. CASE d = i
        <5>1. ppc[d] = "unbound" /\ ppc'[d] = "new" /\ d \in registered'
          BY <1>0, <2>2, <4>2, <4>3 DEF ProbeStep
        <5> QED BY <4>1, <4>2, <5>1 DEF Built, Bound, NoCard
      <4>4. CASE d # i
        <5>1. ppc'[d] = ppc[d] /\ (d \in registered => d \in registered')
          BY <1>0, <2>2, <4>2, <4>4 DEF ProbeStep
        <5> QED BY <4>1, <4>2, <5>1 DEF Built, Bound
      <4> QED BY <4>3, <4>4
    <3> QED BY <3>0, <3>1, <3>2, <3>3 DEF Inv
  <2> QED BY <1>3, <2>1, <2>2 DEF DeviceRegister
<1>4. CASE ProbeReturns
  <2>1. Held'
    BY <1>0, <1>4 DEF ProbeReturns, Held
  <2> QED BY <1>0, <1>4, <2>1, QuietStep DEF ProbeReturns
<1>5. CASE CheckDrvdata
  <2>1. i \in Cards
    BY <1>0, <1>5 DEF CheckDrvdata, Held
  <2>2. CASE card[i].drvdata
    <3>1. Held'
      BY <1>0, <1>5, <2>2 DEF CheckDrvdata, Held
    <3>2. UNCHANGED <<ppc, card, io, registered>> /\ i' = i + 1 /\ devices' = devices \cup {i}
      BY <1>5, <2>2 DEF CheckDrvdata
    <3>3. i' \in Nat /\ devices' \subseteq Cards
      BY <1>0, <2>1, <3>2
    <3> QED BY <3>1, <3>2, <3>3, QuietStep
  <2>3. CASE ~card[i].drvdata
    <3>1. Held'
      BY <1>0, <1>5, <2>3 DEF CheckDrvdata, Held
    <3> QED BY <1>0, <1>5, <2>1, <2>3, <3>1, UnregisterStep DEF CheckDrvdata
  <2> QED BY <2>2, <2>3
<1>6. CASE InitReturns
  <2>1. \A c \in registered : 0 <= c
    BY <1>0, CardAssumption DEF Cards
  <2>2. Held'
    BY <1>0, <1>6, <2>1 DEF InitReturns, Held
  <2> QED BY <1>0, <1>6, <2>2, QuietStep DEF InitReturns
<1>7. CASE Exit
  <2>1. \A c \in registered : 0 <= c
    BY <1>0, CardAssumption DEF Cards
  <2>2. Held'
    BY <1>0, <1>7, <2>1 DEF Exit, Held
  <2> QED BY <1>0, <1>7, <2>2, QuietStep DEF Exit
<1>8. CASE UnregisterDevice
  <2>0. \A c \in registered : c # i => i + 1 <= c
    <3> SUFFICES ASSUME NEW c \in registered, c # i PROVE i + 1 <= c
      OBVIOUS
    <3>1. c \in Int
      BY <1>0, CardAssumption DEF Cards
    <3>2. i <= c
      BY <1>0, <1>8 DEF UnregisterDevice, Held
    <3> QED BY <1>0, <3>1, <3>2
  <2>1. CASE i \in devices
    <3>1. Held'
      BY <1>0, <1>8, <2>0, <2>1 DEF UnregisterDevice, Held
    <3> QED BY <1>0, <1>8, <2>1, <3>1, UnregisterStep DEF UnregisterDevice
  <2>2. CASE i \notin devices
    <3>1. i \notin registered
      BY <1>0, <1>8, <2>2 DEF UnregisterDevice, Held
    <3>2. Held'
      BY <1>0, <1>8, <2>0, <2>2, <3>1 DEF UnregisterDevice, Held
    <3> QED BY <1>0, <1>8, <2>2, <3>2, QuietStep DEF UnregisterDevice
  <2> QED BY <2>1, <2>2
<1>9. CASE UnregisterDriver
  <2>1. registered = {}
    <3>1. \A c \in registered : c \in 0 .. SNDRV_CARDS - 1 /\ i <= c
      BY <1>0, <1>9 DEF UnregisterDriver, Held, Cards
    <3>2. i \notin 0 .. SNDRV_CARDS - 1
      BY <1>9 DEF UnregisterDriver, Cards
    <3> QED BY <1>0, <3>1, <3>2, CardAssumption
  <2>2. Held'
    BY <1>9, <2>1 DEF UnregisterDriver, Held
  <2> QED BY <1>0, <1>9, <2>2, QuietStep DEF UnregisterDriver
<1> QED
  BY <1>1, <1>2, <1>3, <1>4, <1>5, <1>6, <1>7, <1>8, <1>9

\* What is held at every point of init, exit and the probes; the inductive
\* invariant behind the theorems below.
THEOREM Invariance == Spec => []Inv
<1>1. ASSUME Inv, [Next]_vars PROVE Inv'
  <2>1. CASE UNCHANGED vars
    BY <1>1, <2>1 DEF vars, io, Inv, Shape, Mapped, Held, Built, Bound
  <2>2. ASSUME NEW c \in Cards, Probe(c) \/ Bind(c) \/ Unbind(c) PROVE Inv'
    BY <1>1, <2>2, DeviceStep
  <2>3. CASE Stopped
    BY <2>1, <2>3 DEF Stopped
  <2> QED BY <1>1, <2>1, <2>2, <2>3, ModuleStep DEF Next
<1> QED
  BY InitInv, <1>1, PTL DEF Spec

\* Every variable keeps its type; a card never has more PCM devices or
\* controls than the driver gives it.
THEOREM TypeCorrect == Spec => []TypeOK
<1>1. Inv => TypeOK
  BY DEF Inv, Shape, Mapped, States, Held, TypeOK
<1> QED
  BY Invariance, <1>1, PTL

\* Between snd_card_register and snd_card_free a client finds every PCM device
\* and control, the limits and the pages it may map.
THEOREM VisibleCompleteHolds == Spec => []VisibleComplete
<1>1. Inv => VisibleComplete
  <2> SUFFICES ASSUME Inv, NEW c \in Cards, card[c].visible
               PROVE  /\ card[c].pcms = PcmDevs /\ card[c].controls = Controls
                      /\ card[c].hw # NoLimits
                      /\ fake_buffer => pages = 2
    BY DEF VisibleComplete
  <2>1. ppc[c] = "bound" /\ c \in registered
    BY DEF Inv, Built, Bound
  <2>2. fake_buffer => pages = 2
    BY <2>1 DEF Inv, Held
  <2> QED BY <2>1, <2>2 DEF Inv, Built
<1> QED
  BY Invariance, <1>1, PTL

\* A failed init and a finished exit leave no driver, device, card or page,
\* whatever failed and whoever was binding; only mappings of the registers stay.
THEOREM OnlyMappingsLeftHolds == Spec => []OnlyMappingsLeft
<1>1. Inv => OnlyMappingsLeft
  BY DEF Inv, OnlyMappingsLeft, Held, Built, Bound, NoCard
<1> QED
  BY Invariance, <1>1, PTL

\* The pointers init keeps cover every device it leaves registered, whoever
\* binds and unbinds meanwhile.
THEOREM DevicesKnownHolds == Spec => []DevicesKnown
<1>1. Inv => DevicesKnown
  BY DEF Inv, DevicesKnown, Held, Built, Bound, NoCard
<1> QED
  BY Invariance, <1>1, PTL

\* Whatever the parameter model says, also a name the driver does not know,
\* the limits of a card a client can open leave room for a stream.
THEOREM LimitsPossibleHolds == Spec => []LimitsPossible
<1>1. Inv => LimitsPossible
  <2> SUFFICES ASSUME Inv, NEW c \in Cards, card[c].visible PROVE Possible(card[c].hw)
    BY DEF LimitsPossible, Possible
  <2>1. card[c].hw # NoLimits
    BY DEF Inv, Built
  <2>2. card[c].hw \in Limits
    BY DEF Inv, Shape, CardType
  <2> QED BY <2>1, <2>2, HwPossible DEF Limits
<1> QED
  BY Invariance, <1>1, PTL
-----------------------------------------------------------------------------
(* The mixer *)

Volumes == (MIN .. MAX) \X (MIN .. MAX)
Switched == (0 .. 1) \X (0 .. 1)

MixerTypes ==
  /\ MixerTypeOK
  /\ inactive = InactiveFor(iobox)
  /\ seen \in [volume : [Addrs -> Volumes], switch : [Addrs -> Switched], iobox : 0 .. 1,
               inactive : SUBSET CdControls]

VolumeSeen == \A a \in Addrs : <<"volume", a>> \notin events => seen.volume[a] = mixer_volume[a]
BoxSeen == <<"iobox", 0>> \notin events => seen.iobox = iobox
AccessSeen == \A c \in CdControls : <<"access", c>> \notin events => (c \in seen.inactive <=> c \in inactive)

MixerInv == MixerTypes /\ VolumeSeen /\ BoxSeen /\ AccessSeen

\* The watcher starts with what the driver starts with.
LEMMA MixerInitInv == MixerInit => MixerInv
<1> SUFFICES ASSUME MixerInit PROVE MixerInv
  OBVIOUS
<1>1. MixerTypes
  BY DEF MixerInit, MixerTypes, MixerTypeOK, Volumes, Switched, InactiveFor, MIN, MAX
<1>2. VolumeSeen /\ BoxSeen /\ AccessSeen
  BY DEF MixerInit, VolumeSeen, BoxSeen, AccessSeen
<1> QED
  BY <1>1, <1>2 DEF MixerInv

\* snd_dummy_volume_put: no event only if the clamped pair is the stored one
LEMMA VolumePutInv ==
  ASSUME MixerInv, NEW addr \in Addrs, VolumePut(addr) PROVE MixerInv'
<1> PICK l \in Levels, r \in Levels :
      /\ mixer_volume' = [mixer_volume EXCEPT ![addr] = <<Clamp(l), Clamp(r)>>]
      /\ events' = IF VolumeChange(mixer_volume[addr], Clamp(l), Clamp(r))
                   THEN events \cup {<<"volume", addr>>} ELSE events
      /\ UNCHANGED <<capture_source, iobox, inactive, seen>>
  BY DEF VolumePut
<1>1. <<Clamp(l), Clamp(r)>> \in Volumes
  BY MixerAssumption DEF Volumes, Clamp, MIN, MAX
<1>2. events \subseteq events' /\ events' \subseteq events \cup {<<"volume", addr>>}
  OBVIOUS
<1>3. mixer_volume' \in [Addrs -> Volumes]
  BY <1>1 DEF MixerInv, MixerTypes, MixerTypeOK, Volumes, Switched
<1>4. MixerTypes'
  BY <1>2, <1>3 DEF MixerInv, MixerTypes, MixerTypeOK, Volumes, Switched
<1>5. ASSUME NEW a \in Addrs, <<"volume", a>> \notin events' PROVE seen'.volume[a] = mixer_volume'[a]
  <2>1. seen.volume[a] = mixer_volume[a]
    BY <1>2, <1>5 DEF MixerInv, VolumeSeen
  <2>2. CASE a # addr
    BY <2>1, <2>2 DEF MixerInv, MixerTypes, MixerTypeOK, Volumes, Switched
  <2>3. CASE a = addr
    <3>1. mixer_volume[a] \in Volumes
      BY DEF MixerInv, MixerTypes, MixerTypeOK, Volumes, Switched
    <3>2. mixer_volume[a][1] = Clamp(l) /\ mixer_volume[a][2] = Clamp(r)
      BY <1>5, <2>3 DEF VolumeChange
    <3>3. mixer_volume[a] = <<Clamp(l), Clamp(r)>>
      BY <3>1, <3>2 DEF Volumes
    <3> QED BY <2>1, <2>3, <3>3 DEF MixerInv, MixerTypes, MixerTypeOK, Volumes, Switched
  <2> QED BY <2>2, <2>3
<1>6. BoxSeen' /\ AccessSeen'
  BY <1>2 DEF MixerInv, BoxSeen, AccessSeen
<1> QED
  BY <1>4, <1>5, <1>6 DEF MixerInv, VolumeSeen

\* snd_dummy_capsrc_put touches nothing the properties speak of.
LEMMA CapsrcPutInv ==
  ASSUME MixerInv, NEW addr \in Addrs, CapsrcPut(addr) PROVE MixerInv'
<1> PICK l \in Switches, r \in Switches :
      /\ capture_source' = [capture_source EXCEPT ![addr] = <<l % 2, r % 2>>]
      /\ events' = IF CapsrcChange(capture_source[addr], l % 2, r % 2)
                   THEN events \cup {<<"switch", addr>>} ELSE events
      /\ UNCHANGED <<mixer_volume, iobox, inactive, seen>>
  BY DEF CapsrcPut
<1>1. <<l % 2, r % 2>> \in Switched
  BY MixerAssumption DEF Switched
<1>2. events \subseteq events' /\ events' \subseteq events \cup {<<"switch", addr>>}
  OBVIOUS
<1>3. MixerTypes'
  BY <1>1, <1>2 DEF MixerInv, MixerTypes, MixerTypeOK, Volumes, Switched
<1>4. VolumeSeen' /\ BoxSeen' /\ AccessSeen'
  BY <1>2 DEF MixerInv, VolumeSeen, BoxSeen, AccessSeen
<1> QED
  BY <1>3, <1>4 DEF MixerInv

\* snd_dummy_iobox_put changes the access of both CD controls and says so.
LEMMA IoboxPutInv ==
  ASSUME MixerInv, IoboxPut PROVE MixerInv'
<1> PICK item \in Boxes :
      /\ item <= 1 /\ iobox' = item /\ inactive' = InactiveFor(item)
      /\ events' = events \cup {<<"iobox", 0>>} \cup IoboxEvents(item)
      /\ UNCHANGED <<mixer_volume, capture_source, seen>>
  BY DEF IoboxPut
<1>1. iobox' \in 0 .. 1
  BY MixerAssumption
<1>2. MixerTypes'
  BY <1>1 DEF MixerInv, MixerTypes, MixerTypeOK, IoboxEvents, InactiveFor, CdControls
<1>3. VolumeSeen' /\ BoxSeen'
  BY DEF MixerInv, VolumeSeen, BoxSeen
<1>4. AccessSeen'
  BY DEF AccessSeen, IoboxEvents
<1> QED
  BY <1>2, <1>3, <1>4 DEF MixerInv

\* The watcher reads one control and is up to date with it.
LEMMA WatchInv ==
  ASSUME MixerInv, Watch PROVE MixerInv'
<1> PICK e \in events :
      /\ events' = events \ {e}
      /\ \/ e[1] = "volume" /\ seen' = [seen EXCEPT !.volume[e[2]] = mixer_volume[e[2]]]
         \/ e[1] = "switch" /\ seen' = [seen EXCEPT !.switch[e[2]] = capture_source[e[2]]]
         \/ e[1] = "iobox"  /\ seen' = [seen EXCEPT !.iobox = iobox]
         \/ e[1] = "access" /\ seen' = [seen EXCEPT !.inactive = (@ \ {e[2]}) \cup (inactive \cap {e[2]})]
      /\ UNCHANGED <<mixer_volume, capture_source, iobox, inactive>>
  BY DEF Watch
<1>0. /\ e = <<e[1], e[2]>>
      /\ e[1] \in {"volume", "switch"} => e[2] \in Addrs
      /\ e[1] = "access" => e[2] \in CdControls
  BY DEF MixerInv, MixerTypes, MixerTypeOK, Volumes, Switched
<1>1. CASE e[1] = "volume" /\ seen' = [seen EXCEPT !.volume[e[2]] = mixer_volume[e[2]]]
  <2>1. MixerTypes'
    BY <1>0, <1>1 DEF MixerInv, MixerTypes, MixerTypeOK, Volumes, Switched
  <2>2. seen'.iobox = seen.iobox /\ seen'.inactive = seen.inactive
        /\ \A a \in Addrs : seen'.volume[a] = IF a = e[2] THEN mixer_volume[a] ELSE seen.volume[a]
    BY <1>0, <1>1 DEF MixerInv, MixerTypes, MixerTypeOK, Volumes, Switched
  <2>3. VolumeSeen' /\ BoxSeen' /\ AccessSeen'
    BY <1>0, <1>1, <2>2 DEF MixerInv, VolumeSeen, BoxSeen, AccessSeen
  <2> QED BY <2>1, <2>3 DEF MixerInv
<1>2. CASE e[1] = "switch" /\ seen' = [seen EXCEPT !.switch[e[2]] = capture_source[e[2]]]
  <2>1. MixerTypes'
    BY <1>0, <1>2 DEF MixerInv, MixerTypes, MixerTypeOK, Volumes, Switched
  <2>2. seen'.iobox = seen.iobox /\ seen'.inactive = seen.inactive /\ seen'.volume = seen.volume
    BY <1>0, <1>2 DEF MixerInv, MixerTypes, MixerTypeOK, Volumes, Switched
  <2>3. VolumeSeen' /\ BoxSeen' /\ AccessSeen'
    BY <1>0, <1>2, <2>2 DEF MixerInv, VolumeSeen, BoxSeen, AccessSeen
  <2> QED BY <2>1, <2>3 DEF MixerInv
<1>3. CASE e[1] = "iobox" /\ seen' = [seen EXCEPT !.iobox = iobox]
  <2>1. MixerTypes'
    BY <1>3 DEF MixerInv, MixerTypes, MixerTypeOK, Volumes, Switched
  <2>2. seen'.iobox = iobox /\ seen'.inactive = seen.inactive /\ seen'.volume = seen.volume
    BY <1>3 DEF MixerInv, MixerTypes, MixerTypeOK, Volumes, Switched
  <2>3. VolumeSeen' /\ BoxSeen' /\ AccessSeen'
    BY <1>0, <1>3, <2>2 DEF MixerInv, VolumeSeen, BoxSeen, AccessSeen
  <2> QED BY <2>1, <2>3 DEF MixerInv
<1>4. CASE e[1] = "access" /\ seen' = [seen EXCEPT !.inactive = (@ \ {e[2]}) \cup (inactive \cap {e[2]})]
  <2>1. /\ seen'.iobox = seen.iobox /\ seen'.volume = seen.volume
        /\ seen'.inactive = (seen.inactive \ {e[2]}) \cup (inactive \cap {e[2]})
    BY <1>4 DEF MixerInv, MixerTypes, MixerTypeOK, Volumes, Switched
  <2>2. seen'.inactive \subseteq CdControls
    BY <1>0, <1>4, <2>1 DEF MixerInv, MixerTypes, MixerTypeOK, Volumes, Switched
  <2>3. MixerTypes'
    BY <1>4, <2>2 DEF MixerInv, MixerTypes, MixerTypeOK, Volumes, Switched
  <2>4. VolumeSeen' /\ BoxSeen'
    BY <1>0, <1>4, <2>1 DEF MixerInv, VolumeSeen, BoxSeen
  <2>5. AccessSeen'
    BY <1>0, <1>4, <2>1 DEF MixerInv, AccessSeen
  <2> QED BY <2>3, <2>4, <2>5 DEF MixerInv
<1> QED
  BY <1>1, <1>2, <1>3, <1>4

\* The values read and the values stored agree wherever no event is pending;
\* the CD controls are inactive exactly while the box is disconnected.
THEOREM MixerInvariance == MixerSpec => []MixerInv
<1>1. ASSUME MixerInv, [MixerNext]_mixerVars PROVE MixerInv'
  <2>1. CASE UNCHANGED mixerVars
    BY <1>1, <2>1 DEF mixerVars, MixerInv, MixerTypes, MixerTypeOK, VolumeSeen, BoxSeen, AccessSeen
  <2> QED BY <1>1, <2>1, VolumePutInv, CapsrcPutInv, IoboxPutInv, WatchInv DEF MixerNext
<1> QED
  BY MixerInitInv, <1>1, PTL DEF MixerSpec

\* Stored volumes stay in the range of the controls, switches are 0 or 1.
THEOREM MixerTypeCorrect == MixerSpec => []MixerTypeOK
<1>1. MixerInv => MixerTypeOK
  BY DEF MixerInv, MixerTypes
<1> QED
  BY MixerInvariance, <1>1, PTL

\* No volume and no I/O box changes unannounced, for every value written.
THEOREM ViewFreshHolds == MixerSpec => []ViewFresh
<1>1. MixerInv => ViewFresh
  BY DEF MixerInv, VolumeSeen, BoxSeen, ViewFresh
<1> QED
  BY MixerInvariance, <1>1, PTL

\* A watcher without events of the CD controls knows whether they are active.
THEOREM CdSeenHolds == MixerSpec => []CdSeen
<1>1. MixerInv => CdSeen
  BY DEF MixerInv, MixerTypes, MixerTypeOK, Volumes, Switched, AccessSeen, InactiveFor, CdSeen
<1> QED
  BY MixerInvariance, <1>1, PTL
=============================================================================
