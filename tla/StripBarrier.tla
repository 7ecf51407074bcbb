---------------------------- MODULE StripBarrier ----------------------------
(***************************************************************************)
(* What the frame loop of the starfield demo promises, without semaphores  *)
(* and program counters: the strips of the screen are released one after   *)
(* the other, a released strip is faded completely before its worker is    *)
(* idle again, only an idle worker is released, and the screen goes away   *)
(* only when every worker has returned.  A worker that is asked to stop    *)
(* may be woken once more; it then fades nothing that matters and returns. *)
(*                                                                         *)
(* FadeThreads implements this specification.                              *)
(***************************************************************************)
EXTENDS Integers

CONSTANTS N,            \* number of workers
          Strip         \* the rows of each worker

VARIABLES stopping,     \* somebody has asked the program to end
          screen,       \* the screen is there
          state,        \* of each worker
          left,         \* rows of a released strip that are not faded yet
          turn          \* the worker that is released next

vars == <<stopping, screen, state, left, turn>>

Team == 0 .. N - 1

Init ==
  /\ stopping = FALSE
  /\ screen = FALSE
  /\ state = [i \in Team |-> "absent"]
  /\ left = [i \in Team |-> {}]
  /\ turn = 0

Becomes(i, from, to) == state[i] = from /\ state' = [state EXCEPT ![i] = to]
NextTurn(i) == turn = i /\ turn' = IF i = N - 1 THEN 0 ELSE i + 1

Open ==
  /\ ~screen /\ \A i \in Team : state[i] = "absent"
  /\ screen' = TRUE
  /\ UNCHANGED <<stopping, state, left, turn>>

Close ==
  /\ screen /\ \A i \in Team : state[i] \in {"absent", "returned"}
  /\ screen' = FALSE
  /\ UNCHANGED <<stopping, state, left, turn>>

Stop == stopping' = TRUE /\ UNCHANGED <<screen, state, left, turn>>

Start(i) == screen /\ Becomes(i, "absent", "idle") /\ UNCHANGED <<stopping, screen, left, turn>>

\* The whole team is there, it is i's turn and i has finished the last strip.
Release(i) ==
  /\ screen /\ left[i] = {}
  /\ \A k \in Team : state[k] # "absent"
  /\ NextTurn(i)
  /\ Becomes(i, "idle", "released")
  /\ left' = [left EXCEPT ![i] = Strip[i]]
  /\ UNCHANGED <<stopping, screen>>

\* The worker has returned before its turn came.
Skip(i) ==
  /\ stopping /\ state[i] = "returned"
  /\ NextTurn(i)
  /\ UNCHANGED <<stopping, screen, state, left>>

Wake(i) ==
  /\ stopping /\ left[i] = {}
  /\ Becomes(i, "idle", "released")
  /\ UNCHANGED <<stopping, screen, left, turn>>

Begin(i) == screen /\ Becomes(i, "released", "fading") /\ UNCHANGED <<stopping, screen, left, turn>>

Fade(i) ==
  /\ screen /\ state[i] = "fading"
  /\ \E r \in left[i] : left' = [left EXCEPT ![i] = @ \ {r}]
  /\ UNCHANGED <<stopping, screen, state, turn>>

End(i) ==
  /\ left[i] = {}
  /\ Becomes(i, "fading", "idle")
  /\ UNCHANGED <<stopping, screen, left, turn>>

Return(i) ==
  /\ stopping
  /\ Becomes(i, "idle", "returned")
  /\ UNCHANGED <<stopping, screen, left, turn>>

Step(i) ==
  Start(i) \/ Release(i) \/ Skip(i) \/ Wake(i) \/ Begin(i) \/ Fade(i) \/ End(i) \/ Return(i)

Next == Open \/ Close \/ Stop \/ \E i \in Team : Step(i)

Spec == Init /\ [][Next]_vars
=============================================================================
