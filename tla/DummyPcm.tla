------------------------------ MODULE DummyPcm ------------------------------
(***************************************************************************)
(* The PCM half of the sound driver (patches/linux/dummy_sound.c): every   *)
(* open substream has a dummy_systimer_pcm, which counts fractions of a    *)
(* sample (1/HZ) and reports the end of each period from a kernel timer,   *)
(* and all substreams share one register block of the emulated device.     *)
(*                                                                         *)
(* The ALSA core is external: pstate is the state in which it keeps a      *)
(* substream, and an operation is called only in the states in which the   *)
(* core calls it.  The kernels of this repository are built without SMP    *)
(* and preemption, and the core calls trigger and pointer with interrupts  *)
(* off, so an operation and a timer callback never overlap: one operation  *)
(* is one action.  The register block is taken to be mapped: probe does    *)
(* not look whether it is (DummyCard).                                     *)
(***************************************************************************)
EXTENDS Integers

CONSTANTS Substreams,
          HZ,        \* ticks per second
          Params,    \* hw_params a client may set: [rate, period_size, buffer_size]
          JMOD,      \* jiffies wraps at JMOD (2^32 in the kernel)
          MaxLate,   \* ticks by which the timer softirq may be late
          MaxOwed    \* a stream with as many unreported periods is not suspended again

ASSUME PcmAssumption ==
  /\ HZ \in Nat \ {0}
  /\ Params \subseteq [rate : Nat \ {0}, period_size : Nat \ {0}, buffer_size : Nat \ {0}]
  /\ JMOD \in Nat \ {0}
  /\ MaxLate \in Nat
  /\ MaxOwed \in Nat

\* A period and the delay of a late softirq are far shorter than the half turn
\* of jiffies that tells a time passed from a time to come: the longest period
\* the driver declares, 64 KB at 5.5 kHz, lasts seconds, half a turn 248 days.
ASSUME PeriodAssumption ==
  \A p \in Params : (p.period_size * HZ + p.rate - 1) \div p.rate + MaxLate < JMOD \div 2

VARIABLES jiffies,
          pstate,    \* ALSA state of each substream
          runtime,   \* hw_params of each substream
          dpcm,      \* struct dummy_systimer_pcm of each substream
          regs,      \* device: the enable register and whose parameters the others hold
          played,    \* history: fractions played since prepare, modulo both sizes
          owed       \* history: periods that ended and were not reported yet

vars == <<jiffies, pstate, runtime, dpcm, regs, played, owed>>
history == <<played, owed>>

PStates == {"closed", "open", "setup", "prepared", "running", "xrun", "suspended"}
NoParams == [rate |-> 0, period_size |-> 0, buffer_size |-> 0]

\* kzalloc'ed memory; alloc = FALSE is memory that was given back.
ZeroDpcm ==
  [alloc |-> TRUE, pending |-> FALSE, expires |-> 0, base_time |-> 0,
   frac_pos |-> 0, frac_period_rest |-> 0, frac_buffer_size |-> 0,
   frac_period_size |-> 0, rate |-> 0, elapsed |-> 0]
Freed == [ZeroDpcm EXCEPT !.alloc = FALSE]

DpcmType ==
  [alloc : BOOLEAN, pending : BOOLEAN, expires : 0 .. JMOD - 1, base_time : 0 .. JMOD - 1,
   frac_pos : Nat, frac_period_rest : Nat, frac_buffer_size : Nat,
   frac_period_size : Nat, rate : Nat, elapsed : Nat]

TypeOK ==
  /\ jiffies \in 0 .. JMOD - 1
  /\ pstate \in [Substreams -> PStates]
  /\ runtime \in [Substreams -> Params \cup {NoParams}]
  /\ dpcm \in [Substreams -> DpcmType]
  /\ regs \in [enable : BOOLEAN, of : Substreams \cup {"none"}]
  /\ played \in [Substreams -> Nat]
  /\ owed \in [Substreams -> Nat]

Init ==
  /\ jiffies \in 0 .. JMOD - 1
  /\ pstate = [s \in Substreams |-> "closed"]
  /\ runtime = [s \in Substreams |-> NoParams]
  /\ dpcm = [s \in Substreams |-> Freed]
  /\ regs = [enable |-> FALSE, of |-> "none"]
  /\ played = [s \in Substreams |-> 0]
  /\ owed = [s \in Substreams |-> 0]
----------------------------------------------------------------------------
(* dummy_systimer_* on one struct d *)

\* Mutant: the delay is rounded down, the timer fires before the period ends.
RearmFloor(d) ==
  [d EXCEPT !.pending = TRUE,
            !.expires = (jiffies + d.frac_period_rest \div d.rate) % JMOD]
dummy_systimer_rearm(d) ==
  [d EXCEPT !.pending = TRUE,
            !.expires = (jiffies + (d.frac_period_rest + d.rate - 1) \div d.rate) % JMOD]

\* Fractions played since base_time; unsigned subtraction of jiffies.
Delta(d) == ((jiffies - d.base_time) % JMOD) * d.rate

\* Mutant: while (rest < delta), a period that ends exactly now is missed.
LatePeriods(d) ==
  IF d.frac_period_rest < Delta(d)
  THEN (Delta(d) - d.frac_period_rest) \div d.frac_period_size + 1
  ELSE 0
\* How often `while (frac_period_rest <= delta)' runs.
PeriodsEnded(d) ==
  IF d.frac_period_rest <= Delta(d)
  THEN (Delta(d) - d.frac_period_rest) \div d.frac_period_size + 1
  ELSE 0


\* Nothing happens within a tick.  The first loop takes whole buffers off the
\* position, the second adds whole periods to the rest.
dummy_systimer_update(d) ==
  IF jiffies = d.base_time THEN d
  ELSE [d EXCEPT !.base_time = jiffies,
                 !.frac_pos = (@ + Delta(d)) % d.frac_buffer_size,
                 !.elapsed = @ + PeriodsEnded(d),
                 !.frac_period_rest = @ + PeriodsEnded(d) * d.frac_period_size - Delta(d)]

dummy_systimer_start(d) == dummy_systimer_rearm([d EXCEPT !.base_time = jiffies])

dummy_systimer_stop(d) == [d EXCEPT !.pending = FALSE]

dummy_systimer_prepare(d, r) ==
  [d EXCEPT !.frac_pos = 0,
            !.rate = r.rate,
            !.frac_buffer_size = r.buffer_size * HZ,
            !.frac_period_size = r.period_size * HZ,
            !.frac_period_rest = r.period_size * HZ,
            !.elapsed = 0]

\* kfree: all that is left is whether the timer list still points into it.
dummy_systimer_free(d) == [Freed EXCEPT !.pending = d.pending]

\* History: the fractions played and the periods not reported after an update
\* of s, computed from the total and not from the driver's remainders.
PlayedAfter(s) ==
  (played[s] + Delta(dpcm[s])) % (dpcm[s].frac_buffer_size * dpcm[s].frac_period_size)
OwedAfter(s) ==
  LET p == dpcm[s].frac_period_size
  IN  owed[s] + (played[s] + Delta(dpcm[s])) \div p - played[s] \div p
----------------------------------------------------------------------------
(* PCM operations *)

\* dummy_pcm_open.  When the allocation or a constraint of the card model
\* fails nothing is left behind.
Open(s) ==
  /\ pstate[s] = "closed"
  /\ \/ /\ pstate' = [pstate EXCEPT ![s] = "open"]
        /\ dpcm' = [dpcm EXCEPT ![s] = ZeroDpcm]
     \/ UNCHANGED <<pstate, dpcm>>
  /\ UNCHANGED <<jiffies, runtime, regs, history>>

\* dummy_pcm_hw_params; without memory the core goes back to "open".
HwParams(s) ==
  /\ pstate[s] \in {"open", "setup", "prepared"}
  /\ \/ \E p \in Params : /\ runtime' = [runtime EXCEPT ![s] = p]
                          /\ pstate' = [pstate EXCEPT ![s] = "setup"]
     \/ /\ pstate' = [pstate EXCEPT ![s] = "open"]
        /\ UNCHANGED runtime
  /\ UNCHANGED <<jiffies, dpcm, regs, history>>

HwFree(s) ==
  /\ pstate[s] \in {"setup", "prepared", "xrun", "suspended"}
  /\ pstate' = [pstate EXCEPT ![s] = "open"]
  /\ UNCHANGED <<jiffies, runtime, dpcm, regs, history>>

\* Mutant: the sizes of the last prepare are kept when there are some.
PrepareOnce(s) ==
  /\ pstate[s] \in {"setup", "prepared", "xrun", "suspended"}
  /\ pstate' = [pstate EXCEPT ![s] = "prepared"]
  /\ dpcm' = [dpcm EXCEPT ![s] = IF @.rate = 0 THEN dummy_systimer_prepare(@, runtime[s]) ELSE @]
  /\ UNCHANGED <<jiffies, runtime, regs, history>>

\* dummy_pcm_prepare
Prepare(s) ==
  /\ pstate[s] \in {"setup", "prepared", "xrun", "suspended"}
  /\ pstate' = [pstate EXCEPT ![s] = "prepared"]
  /\ dpcm' = [dpcm EXCEPT ![s] = dummy_systimer_prepare(@, runtime[s])]
  /\ played' = [played EXCEPT ![s] = 0]
  /\ owed' = [owed EXCEPT ![s] = 0]
  /\ UNCHANGED <<jiffies, runtime, regs>>

\* dummy_pcm_trigger, START and RESUME
TriggerStart(s) ==
  /\ pstate[s] \in {"prepared", "suspended"}
  /\ pstate' = [pstate EXCEPT ![s] = "running"]
  /\ regs' = [enable |-> TRUE, of |-> s]
  /\ dpcm' = [dpcm EXCEPT ![s] = dummy_systimer_start(@)]
  /\ UNCHANGED <<jiffies, runtime, history>>

\* dummy_pcm_trigger, STOP and SUSPEND: the device is disabled, whichever
\* substream the other registers belong to.
StopRegs == [regs EXCEPT !.enable = FALSE]

TriggerStop(s) ==
  /\ pstate[s] = "running"
  /\ \/ pstate' = [pstate EXCEPT ![s] = "setup"]
     \/ owed[s] < MaxOwed /\ pstate' = [pstate EXCEPT ![s] = "suspended"]
  /\ regs' = StopRegs
  /\ dpcm' = [dpcm EXCEPT ![s] = dummy_systimer_stop(@)]
  /\ UNCHANGED <<jiffies, runtime, history>>

\* After a look at the position d of a running substream the core either goes
\* on or, when the client was too slow, stops it.
CoreChecks(s, d) ==
  \/ /\ dpcm' = [dpcm EXCEPT ![s] = d]
     /\ UNCHANGED <<pstate, regs>>
  \/ /\ pstate' = [pstate EXCEPT ![s] = "xrun"]
     /\ regs' = StopRegs
     /\ dpcm' = [dpcm EXCEPT ![s] = dummy_systimer_stop(d)]

\* dummy_pcm_pointer
Pointer(s) ==
  /\ pstate[s] = "running"
  /\ CoreChecks(s, dummy_systimer_update(dpcm[s]))
  /\ played' = [played EXCEPT ![s] = PlayedAfter(s)]
  /\ owed' = [owed EXCEPT ![s] = OwedAfter(s)]
  /\ UNCHANGED <<jiffies, runtime>>

\* dummy_pcm_close.  The core stops a running substream first.
Close(s) ==
  /\ pstate[s] \notin {"closed", "running"}
  /\ pstate' = [pstate EXCEPT ![s] = "closed"]
  /\ runtime' = [runtime EXCEPT ![s] = NoParams]
  /\ dpcm' = [dpcm EXCEPT ![s] = dummy_systimer_free(@)]
  /\ played' = [played EXCEPT ![s] = 0]
  /\ owed' = [owed EXCEPT ![s] = 0]
  /\ UNCHANGED <<jiffies, regs>>
----------------------------------------------------------------------------
(* Time *)

Overdue(d) == (jiffies - d.expires) % JMOD
Due(d) == d.pending /\ Overdue(d) < JMOD \div 2

\* Mutant: snd_pcm_period_elapsed before the timer is armed again.
CallbackLateRearm(s) ==
  /\ Due(dpcm[s])
  /\ LET d == dummy_systimer_update([dpcm[s] EXCEPT !.pending = FALSE])
         e == dummy_systimer_rearm([d EXCEPT !.elapsed = 0])
     IN  \/ /\ dpcm' = [dpcm EXCEPT ![s] = e]
            /\ UNCHANGED <<pstate, regs>>
         \/ /\ d.elapsed > 0 /\ pstate[s] = "running"
            /\ pstate' = [pstate EXCEPT ![s] = "xrun"]
            /\ regs' = StopRegs
            /\ dpcm' = [dpcm EXCEPT ![s] = e]
  /\ UNCHANGED <<jiffies, runtime, history>>

\* Mutant: the timer is not armed again.
CallbackOneShot(s) ==
  /\ Due(dpcm[s])
  /\ LET d == dummy_systimer_update([dpcm[s] EXCEPT !.pending = FALSE])
     IN  /\ dpcm' = [dpcm EXCEPT ![s] = [d EXCEPT !.elapsed = 0]]
         /\ owed' = [owed EXCEPT ![s] = IF d.elapsed > 0 THEN 0 ELSE OwedAfter(s)]
  /\ played' = [played EXCEPT ![s] = PlayedAfter(s)]
  /\ UNCHANGED <<jiffies, runtime, pstate, regs>>

\* dummy_systimer_callback.  The kernel detaches the timer before the call.
\* snd_pcm_period_elapsed asks for the position once more (no tick has passed,
\* so the update does nothing) and looks at it only if the substream runs.
Callback(s) ==
  /\ Due(dpcm[s])
  /\ LET d == dummy_systimer_update([dpcm[s] EXCEPT !.pending = FALSE])
         e == dummy_systimer_rearm([d EXCEPT !.elapsed = 0])
     IN  /\ IF d.elapsed > 0 /\ pstate[s] = "running"
            THEN CoreChecks(s, e)
            ELSE dpcm' = [dpcm EXCEPT ![s] = e] /\ UNCHANGED <<pstate, regs>>
         /\ owed' = [owed EXCEPT ![s] = IF d.elapsed > 0 THEN 0 ELSE OwedAfter(s)]
  /\ played' = [played EXCEPT ![s] = PlayedAfter(s)]
  /\ UNCHANGED <<jiffies, runtime>>

\* The timer softirq runs at the end of a tick, MaxLate ticks late at most.
Tick ==
  /\ \A s \in Substreams : Due(dpcm[s]) => Overdue(dpcm[s]) < MaxLate
  /\ jiffies' = (jiffies + 1) % JMOD
  /\ UNCHANGED <<pstate, runtime, dpcm, regs, history>>
----------------------------------------------------------------------------
Next ==
  \/ \E s \in Substreams :
       \/ Open(s) \/ HwParams(s) \/ HwFree(s) \/ Prepare(s) \/ TriggerStart(s)
       \/ TriggerStop(s) \/ Pointer(s) \/ Close(s) \/ Callback(s)
  \/ Tick

Spec == Init /\ [][Next]_vars

\* Time passes and the softirq runs; nobody promises that a client does anything.
FairSpec == Spec /\ WF_vars(Tick) /\ \A s \in Substreams : WF_vars(Callback(s))
----------------------------------------------------------------------------
(* Properties *)

\* The position dummy_pcm_pointer returns lies in the buffer the client has
\* set up, and dummy_systimer_update never divides by, or loops on, a zero
\* size: trigger only finds structs that prepare has filled in for the
\* current parameters.
PointerInBuffer ==
  \A s \in Substreams :
    pstate[s] \in {"prepared", "running", "suspended"} =>
      /\ dpcm[s].rate > 0 /\ dpcm[s].frac_buffer_size > 0 /\ dpcm[s].frac_period_size > 0
      /\ dpcm[s].frac_pos \div HZ < runtime[s].buffer_size

\* A timer is pending only while its substream runs, so the struct it points
\* into is never freed under it and no stopped stream reports a period; and a
\* running stream always has its timer.
TimerIffRunning ==
  \A s \in Substreams :
    /\ dpcm[s].pending <=> pstate[s] = "running"
    /\ dpcm[s].pending => dpcm[s].alloc

\* The remainders the driver keeps agree with the total played: the position,
\* the rest of the period, and the periods it still has to report.
Accounting ==
  \A s \in Substreams :
    pstate[s] \in {"prepared", "running", "suspended"} =>
      LET d == dpcm[s] IN
      /\ d.frac_pos = played[s] % d.frac_buffer_size
      /\ d.frac_period_rest = d.frac_period_size - (played[s] % d.frac_period_size)
      /\ d.elapsed = owed[s]

\* While the stream runs its timer expires in the very tick in which the
\* current period ends, however often dummy_pcm_pointer moves base_time in
\* between; once a period has ended the timer is due, except that a stream
\* suspended right then reports it at the end of the next period.
TimerOnPeriodEnd ==
  \A s \in Substreams :
    pstate[s] = "running" =>
      LET d == dpcm[s] IN
      \/ (d.expires - d.base_time) % JMOD = (d.frac_period_rest + d.rate - 1) \div d.rate
      \/ d.elapsed > 0 /\ Due(d)

\* Every period that has ended is reported, unless the stream is stopped.
PeriodsReported ==
  \A s \in Substreams :
    (pstate[s] = "running" /\ owed[s] > 0) ~> (owed[s] = 0 \/ pstate[s] # "running")
============================================================================
