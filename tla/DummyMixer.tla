----------------------------- MODULE DummyMixer -----------------------------
(***************************************************************************)
(* The mixer of the sound driver (patches/linux/dummy_sound.c): stereo     *)
(* volumes and capture switches, and the I/O box that switches the two CD  *)
(* controls on and off.  put returns whether it has changed anything; the  *)
(* ALSA core (external) sends an event to every watcher if it has, and a   *)
(* watcher reads the control again when it sees the event.  Calls of put   *)
(* and get are serialised by the core and by mixer_lock: one call is one   *)
(* action.                                                                 *)
(***************************************************************************)
EXTENDS Integers

CONSTANTS Addrs,        \* mixer addresses
          Levels,       \* values a client writes to a volume
          Switches,     \* values a client writes to a switch
          Boxes         \* items a client selects for the I/O box

ASSUME MixerAssumption == Levels \subseteq Int /\ Switches \subseteq Nat /\ Boxes \subseteq Nat

VARIABLES mixer_volume, \* stored pairs <<left, right>>
          capture_source,
          iobox,
          inactive,     \* SNDRV_CTL_ELEM_ACCESS_INACTIVE of the CD controls
          events,       \* controls with an event the watcher has not seen
          seen          \* what the watcher has read last

mixerVars == <<mixer_volume, capture_source, iobox, inactive, events, seen>>

MIN == -50
MAX == 100
CdControls == {"CD Volume", "CD Capture Switch"}

MixerTypeOK ==
  /\ mixer_volume \in [Addrs -> (MIN .. MAX) \X (MIN .. MAX)]
  /\ capture_source \in [Addrs -> (0 .. 1) \X (0 .. 1)]
  /\ iobox \in 0 .. 1
  /\ inactive \subseteq CdControls
  /\ events \subseteq ({"volume", "switch"} \X Addrs) \cup {<<"iobox", 0>>} \cup ({"access"} \X CdControls)

\* snd_card_dummy_new_mixer on zeroed memory; the watcher has read everything.
MixerInit ==
  /\ mixer_volume = [a \in Addrs |-> <<0, 0>>]
  /\ capture_source = [a \in Addrs |-> <<0, 0>>]
  /\ iobox = 1
  /\ inactive = {}
  /\ events = {}
  /\ seen = [volume |-> mixer_volume, switch |-> capture_source, iobox |-> 1, inactive |-> {}]
----------------------------------------------------------------------------
Clamp(v) == IF v < MIN THEN MIN ELSE IF v > MAX THEN MAX ELSE v

\* Mutant: both channels have to differ.
VolumeBothChange(old, left, right) == old[1] # left /\ old[2] # right
\* change of snd_dummy_volume_put
VolumeChange(old, left, right) == old[1] # left \/ old[2] # right

\* snd_dummy_volume_put
VolumePut(addr) ==
  \E l, r \in Levels :
    /\ mixer_volume' = [mixer_volume EXCEPT ![addr] = <<Clamp(l), Clamp(r)>>]
    /\ events' = IF VolumeChange(mixer_volume[addr], Clamp(l), Clamp(r))
                 THEN events \cup {<<"volume", addr>>} ELSE events
    /\ UNCHANGED <<capture_source, iobox, inactive, seen>>

\* change of snd_dummy_capsrc_put: only if both channels differ.
CapsrcChange(old, left, right) == old[1] # left /\ old[2] # right

\* snd_dummy_capsrc_put
CapsrcPut(addr) ==
  \E l, r \in Switches :
    /\ capture_source' = [capture_source EXCEPT ![addr] = <<l % 2, r % 2>>]
    /\ events' = IF CapsrcChange(capture_source[addr], l % 2, r % 2)
                 THEN events \cup {<<"switch", addr>>} ELSE events
    /\ UNCHANGED <<mixer_volume, iobox, inactive, seen>>

\* Mutant: the CD controls are told only when the box is connected.
IoboxInfoEvents(item) == IF item = 1 THEN {"access"} \X CdControls ELSE {}
\* snd_ctl_notify for both CD controls, after their access has changed.
IoboxEvents(item) == {"access"} \X CdControls

\* The access of the CD controls, set or cleared for both.
InactiveFor(item) == IF item = 1 THEN {} ELSE CdControls

\* snd_dummy_iobox_put; an item above 1 is refused.
IoboxPut ==
  \E item \in Boxes :
    /\ item <= 1
    /\ item # iobox
    /\ iobox' = item
    /\ inactive' = InactiveFor(item)
    /\ events' = events \cup {<<"iobox", 0>>} \cup IoboxEvents(item)
    /\ UNCHANGED <<mixer_volume, capture_source, seen>>

\* The watcher handles an event: snd_dummy_volume_get, snd_dummy_capsrc_get or
\* snd_dummy_iobox_get for a value, the access flags for a CD control.
Watch ==
  \E e \in events :
    /\ events' = events \ {e}
    /\ \/ e[1] = "volume" /\ seen' = [seen EXCEPT !.volume[e[2]] = mixer_volume[e[2]]]
       \/ e[1] = "switch" /\ seen' = [seen EXCEPT !.switch[e[2]] = capture_source[e[2]]]
       \/ e[1] = "iobox"  /\ seen' = [seen EXCEPT !.iobox = iobox]
       \/ e[1] = "access" /\ seen' = [seen EXCEPT !.inactive = (@ \ {e[2]}) \cup (inactive \cap {e[2]})]
    /\ UNCHANGED <<mixer_volume, capture_source, iobox, inactive>>

MixerNext == (\E a \in Addrs : VolumePut(a) \/ CapsrcPut(a)) \/ IoboxPut \/ Watch

MixerSpec == MixerInit /\ [][MixerNext]_mixerVars
----------------------------------------------------------------------------
(* Properties *)

\* A watcher without events has the values the driver has: no put changes a
\* volume or the I/O box without saying so, in any order of puts and reads,
\* also when a written value is clamped.
ViewFresh ==
  /\ \A a \in Addrs : <<"volume", a>> \notin events => seen.volume[a] = mixer_volume[a]
  /\ <<"iobox", 0>> \notin events => seen.iobox = iobox

\* A watcher that has handled the events of a CD control believes it inactive
\* exactly when the box is disconnected: both controls follow the box, and
\* each change of their access is announced after it was made.
CdSeen ==
  \A c \in CdControls : <<"access", c>> \notin events => (c \in seen.inactive <=> iobox = 0)
=============================================================================
