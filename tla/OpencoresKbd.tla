---------------------------- MODULE OpencoresKbd ----------------------------
(***************************************************************************)
(* The keyboard driver (patches/linux/opencores-kbd.c): probe acquires six *)
(* resources one after the other and unwinds through its labels when one   *)
(* fails, remove gives them back, and the interrupt handler may run        *)
(* between any two of their steps as long as the irq is requested.  The    *)
(* driver may be bound and unbound again and again.                        *)
(*                                                                         *)
(* The kernel is external: a resource is a name in `held', and a request   *)
(* either succeeds or fails.  free_irq waits for a handler that runs, and  *)
(* the handler is not interrupted by probe or remove: it is one action.    *)
(***************************************************************************)
EXTENDS Naturals

CONSTANT Codes       \* scancodes c & 0x7f, 0 is KEY_RESERVED

ASSUME CodesAssumption == Codes \subseteq Nat /\ 0 \in Codes

VARIABLES pc,        \* where probe or remove is
          held,      \* resources the driver holds
          kbd,       \* fields of *opencores_kbd that are filled in
          keybit,    \* keys the input device announces
          down       \* keys the input core believes pressed

vars == <<pc, held, kbd, keybit, down>>

Resources == {"kbd", "input", "region", "map", "irq", "registered"}
Points ==
  {"unbound", "alloc", "region", "ioremap", "fields", "irq", "register",
   "err_free_irq", "err_unmap_mem", "err_rel_mem", "err_free_mem",
   "bound", "rm_irq", "rm_unmap", "rm_region", "rm_input", "rm_kbd"}

TypeOK ==
  /\ pc \in Points
  /\ held \subseteq Resources
  /\ kbd \subseteq {"addr_res", "addr", "input"}
  /\ keybit \subseteq Codes
  /\ down \subseteq Codes

Init ==
  /\ pc = "unbound"
  /\ held = {}
  /\ kbd = {}
  /\ keybit = {}
  /\ down = {}
----------------------------------------------------------------------------
(* opencores_kbd_probe *)

\* platform_get_resource and platform_get_irq; when one fails nothing was done.
ProbeStart ==
  /\ pc = "unbound"
  /\ pc' \in {"alloc", "unbound"}
  /\ UNCHANGED <<held, kbd, keybit, down>>

\* kzalloc and input_allocate_device are both called before the check.
Allocate ==
  /\ pc = "alloc"
  /\ \E got \in SUBSET {"kbd", "input"} :
       /\ held' = held \cup got
       /\ pc' = IF got = {"kbd", "input"} THEN "region" ELSE "err_free_mem"
  /\ kbd' = {}
  /\ keybit' = {}
  /\ down' = {}

\* A request of the kernel: the next point if it succeeds, a label if not.
Acquire(at, resource, next, label) ==
  /\ pc = at
  /\ \/ held' = held \cup {resource} /\ pc' = next
     \/ held' = held /\ pc' = label

RequestRegion ==
  /\ Acquire("region", "region", "ioremap", "err_free_mem")
  /\ kbd' = kbd \cup {"addr_res"}
  /\ UNCHANGED <<keybit, down>>

Ioremap ==
  /\ Acquire("ioremap", "map", "fields", "err_rel_mem")
  /\ kbd' = IF pc' = "fields" THEN kbd \cup {"addr"} ELSE kbd
  /\ UNCHANGED <<keybit, down>>

\* The fields of both structs, the keycode table and the key bits.
FillIn ==
  /\ pc = "fields"
  /\ kbd' = kbd \cup {"input"}
  /\ keybit' = Codes \ {0}
  /\ pc' = "irq"
  /\ UNCHANGED <<held, down>>

RequestIrq ==
  /\ Acquire("irq", "irq", "register", "err_unmap_mem")
  /\ UNCHANGED <<kbd, keybit, down>>

RegisterInput ==
  /\ Acquire("register", "registered", "bound", "err_free_irq")
  /\ UNCHANGED <<kbd, keybit, down>>

\* A label of the unwinding, or a step of remove, gives resources back.
Release(at, resources, next) ==
  /\ pc = at
  /\ held' = held \ resources
  /\ pc' = next
  /\ UNCHANGED <<kbd, keybit, down>>

ErrFreeIrq == Release("err_free_irq", {"irq"}, "err_unmap_mem")
ErrUnmapMem == Release("err_unmap_mem", {"map"}, "err_rel_mem")

\* Mutant: the label falls through to the wrong place.
ErrRelSkipped == Release("err_rel_mem", {}, "err_free_mem")
ErrRelMem == Release("err_rel_mem", {"region"}, "err_free_mem")
\* input_free_device and kfree accept a null pointer.
ErrFreeMem == Release("err_free_mem", {"input", "kbd"}, "unbound")
----------------------------------------------------------------------------
(* opencores_kbd_remove *)

RemoveStart ==
  /\ pc = "bound"
  /\ pc' = "rm_irq"
  /\ UNCHANGED <<held, kbd, keybit, down>>

\* Mutant: the memory is unmapped while the handler is still installed.
LateFreeIrq == Release("rm_irq", {}, "rm_unmap")
RemoveIrq == Release("rm_irq", {"irq"}, "rm_unmap")
RemoveUnmap == Release("rm_unmap", {"map"}, "rm_region")
RemoveRegion == Release("rm_region", {"region"}, "rm_input")

\* Mutant: input_free_device in place of input_unregister_device.
FreeRegistered == Release("rm_input", {"input"}, "rm_kbd")
\* input_unregister_device drops the last reference of the input device.
RemoveInput == Release("rm_input", {"registered", "input"}, "rm_kbd")
RemoveKbd == Release("rm_kbd", {"kbd"}, "unbound")
----------------------------------------------------------------------------
\* opencores_kbd_isr: bit 7 of the byte says release.  The input core drops
\* keys the device has not announced.
Isr(code, press) ==
  /\ "irq" \in held
  /\ down' = IF code \in keybit
             THEN IF press THEN down \cup {code} ELSE down \ {code}
             ELSE down
  /\ UNCHANGED <<pc, held, kbd, keybit>>

Next ==
  \/ ProbeStart \/ Allocate \/ RequestRegion \/ Ioremap \/ FillIn \/ RequestIrq
  \/ RegisterInput \/ ErrFreeIrq \/ ErrUnmapMem \/ ErrRelMem \/ ErrFreeMem
  \/ RemoveStart \/ RemoveIrq \/ RemoveUnmap \/ RemoveRegion \/ RemoveInput \/ RemoveKbd
  \/ \E code \in Codes, press \in BOOLEAN : Isr(code, press)

Spec == Init /\ [][Next]_vars
----------------------------------------------------------------------------
(* Properties *)

\* Whenever an interrupt may arrive, also in the middle of probe or remove,
\* everything opencores_kbd_isr dereferences is there: the struct, the mapped
\* register, the input device, and the keys it will report are announced.
IsrSafe ==
  "irq" \in held =>
    /\ {"kbd", "input", "map"} \subseteq held
    /\ {"addr", "input"} \subseteq kbd
    /\ keybit = Codes \ {0}

\* A probe that failed, at any step, and a remove leave nothing behind; a
\* bound driver holds everything.
AllOrNothing ==
  /\ pc = "unbound" => held = {}
  /\ pc = "bound" => held = Resources

\* Nothing is given back that the driver does not hold: a label is only
\* reached with the resources of all the labels below it, so no release is
\* done twice and the input device is not freed while it is registered.
ReleasesHeld ==
  /\ pc \in {"err_free_irq", "rm_irq"} => "irq" \in held
  /\ pc \in {"err_free_irq", "err_unmap_mem", "rm_irq", "rm_unmap"} => "map" \in held
  /\ pc \in {"err_free_irq", "err_unmap_mem", "err_rel_mem", "rm_irq", "rm_unmap", "rm_region"}
       => "region" \in held
  /\ pc \in {"err_free_irq", "err_unmap_mem", "err_rel_mem", "rm_irq", "rm_unmap",
             "rm_region", "rm_input"} => {"kbd", "input"} \subseteq held
  /\ pc = "rm_input" => "registered" \in held
  /\ pc \in {"err_free_mem", "rm_kbd"} => held \subseteq {"kbd", "input"}
============================================================================
