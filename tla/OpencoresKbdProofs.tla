------------------------ MODULE OpencoresKbdProofs ------------------------
(***************************************************************************)
(* Theorems about the keyboard driver, for every set of scancodes.  Each   *)
(* property is a consequence of an exact account of what is held at every  *)
(* point of probe and remove (HeldInv) and of what probe has filled in     *)
(* before the handler can run (FilledInv).                                 *)
(***************************************************************************)
EXTENDS OpencoresKbd, TLAPS

\* What the driver holds, point by point.
HeldInv ==
  /\ pc \in {"unbound", "alloc"} => held = {}
  /\ pc = "region" => held = {"kbd", "input"}
  /\ pc \in {"ioremap", "err_rel_mem"} => held = {"kbd", "input", "region"}
  /\ pc \in {"fields", "irq", "err_unmap_mem"} => held = {"kbd", "input", "region", "map"}
  /\ pc \in {"register", "err_free_irq"} => held = {"kbd", "input", "region", "map", "irq"}
  /\ pc = "err_free_mem" => held \subseteq {"kbd", "input"}
  /\ pc \in {"bound", "rm_irq"} => held = Resources
  /\ pc = "rm_unmap" => held = Resources \ {"irq"}
  /\ pc = "rm_region" => held = Resources \ {"irq", "map"}
  /\ pc = "rm_input" => held = {"kbd", "input", "registered"}
  /\ pc = "rm_kbd" => held = {"kbd"}

\* What probe has filled in when the irq is requested and after that.
FilledInv ==
  /\ pc = "fields" => "addr" \in kbd
  /\ pc \in {"irq", "register", "err_free_irq", "bound", "rm_irq"} =>
       {"addr", "input"} \subseteq kbd /\ keybit = Codes \ {0}

Inv == TypeOK /\ HeldInv /\ FilledInv

LEMMA InitInv == Init => Inv
  BY DEF Init, Inv, TypeOK, HeldInv, FilledInv, Points, Resources

\* Every label of the unwinding and every step of remove finds exactly what it
\* gives back.
LEMMA ReleaseInv ==
  ASSUME Inv,
         \/ ErrFreeIrq \/ ErrUnmapMem \/ ErrRelMem \/ ErrFreeMem
         \/ RemoveIrq \/ RemoveUnmap \/ RemoveRegion \/ RemoveInput \/ RemoveKbd
  PROVE  Inv'
<1> USE DEF Inv, TypeOK, HeldInv, FilledInv, Release, Points, Resources
<1>1. CASE ErrFreeIrq BY <1>1 DEF ErrFreeIrq
<1>2. CASE ErrUnmapMem BY <1>2 DEF ErrUnmapMem
<1>3. CASE ErrRelMem BY <1>3 DEF ErrRelMem
<1>4. CASE ErrFreeMem BY <1>4 DEF ErrFreeMem
<1>5. CASE RemoveIrq BY <1>5 DEF RemoveIrq
<1>6. CASE RemoveUnmap BY <1>6 DEF RemoveUnmap
<1>7. CASE RemoveRegion BY <1>7 DEF RemoveRegion
<1>8. CASE RemoveInput BY <1>8 DEF RemoveInput
<1>9. CASE RemoveKbd BY <1>9 DEF RemoveKbd
<1> QED BY <1>1, <1>2, <1>3, <1>4, <1>5, <1>6, <1>7, <1>8, <1>9

\* Every step of probe adds what it got, or goes to the label that gives back
\* what is held.
LEMMA ProbeInv ==
  ASSUME Inv,
         \/ ProbeStart \/ Allocate \/ RequestRegion \/ Ioremap \/ FillIn
         \/ RequestIrq \/ RegisterInput \/ RemoveStart
  PROVE  Inv'
<1> USE DEF Inv, TypeOK, HeldInv, FilledInv, Acquire, Points, Resources
<1>1. CASE ProbeStart BY <1>1 DEF ProbeStart
<1>2. CASE Allocate BY <1>2 DEF Allocate
<1>3. CASE RequestRegion BY <1>3 DEF RequestRegion
<1>4. CASE Ioremap BY <1>4 DEF Ioremap
<1>5. CASE FillIn BY <1>5 DEF FillIn
<1>6. CASE RequestIrq BY <1>6 DEF RequestIrq
<1>7. CASE RegisterInput BY <1>7 DEF RegisterInput
<1>8. CASE RemoveStart BY <1>8 DEF RemoveStart
<1> QED BY <1>1, <1>2, <1>3, <1>4, <1>5, <1>6, <1>7, <1>8

\* The handler changes only the set of pressed keys.
LEMMA IsrInv ==
  ASSUME Inv, NEW code \in Codes, NEW press \in BOOLEAN, Isr(code, press)
  PROVE  Inv'
<1>1. down' \subseteq Codes BY DEF Isr, Inv, TypeOK
<1> QED BY <1>1 DEF Isr, Inv, TypeOK, HeldInv, FilledInv

LEMMA NextInv == Inv /\ [Next]_vars => Inv'
<1> SUFFICES ASSUME Inv, [Next]_vars PROVE Inv'
  OBVIOUS
<1>1. CASE UNCHANGED vars
  BY <1>1 DEF vars, Inv, TypeOK, HeldInv, FilledInv
<1>2. CASE Next
  BY <1>2, ReleaseInv, ProbeInv, IsrInv DEF Next
<1> QED BY <1>1, <1>2

LEMMA Invariance == Spec => []Inv
  BY InitInv, NextInv, PTL DEF Spec

\* Whatever requests fail, in any number of probes and removes, the handler of
\* opencores-kbd.c finds its struct, the mapped register, the input device and
\* the announced keys whenever it can run.
THEOREM IsrSafeHolds == Spec => []IsrSafe
<1>1. Inv => IsrSafe
  BY DEF Inv, TypeOK, HeldInv, FilledInv, IsrSafe, Points, Resources
<1> QED BY <1>1, Invariance, PTL

\* A failed probe and a remove leave nothing behind; a bound driver holds all.
THEOREM AllOrNothingHolds == Spec => []AllOrNothing
<1>1. Inv => AllOrNothing
  BY DEF Inv, HeldInv, AllOrNothing
<1> QED BY <1>1, Invariance, PTL

\* No label and no step of remove gives back what the driver does not hold.
THEOREM ReleasesHeldHolds == Spec => []ReleasesHeld
<1>1. Inv => ReleasesHeld
  BY DEF Inv, HeldInv, ReleasesHeld, Resources
<1> QED BY <1>1, Invariance, PTL
===========================================================================
