------------------------- MODULE StarfieldProofs -------------------------
(***************************************************************************)
(* Proofs about the starfield demo: its threads (FadeThreads), the barrier *)
(* they implement (StripBarrier) and its stars (Stars), for any number of  *)
(* workers, any screen and any random table.                               *)
(*                                                                         *)
(* The threads are an argument about tokens.  Worker i and main share one: *)
(* it is a post of sem_main[i], or in main's hand between its sem_wait and *)
(* its sem_post, or a post of sem[i], or with the worker while it is not   *)
(* blocked.  The shutdown post adds a second one.  So main never holds the *)
(* token of a worker that is still fading, which is Lockstep; and main     *)
(* unmaps only after every worker has returned.                            *)
(*                                                                         *)
(* The refinement needs the order of the shutdown as well: main leaves its *)
(* loop, and a worker its own, only after the SIGINT; and a worker that is *)
(* not fading and has no post to wait for has nothing left to fade.        *)
(***************************************************************************)
EXTENDS FadeThreads, Stars, TLAPS

Busy == {"test", "post", "fade", "lastPost"}
Early == {"setup", "palette", "signal", "failed", "killed"}
Leaving == {"exitPost", "exitJoin", "restore", "unmap", "done"}

Tokens(i) ==
  sem_main[i] + sem[i] + (IF mpc = "postSem" /\ mi = i THEN 1 ELSE 0)
                       + (IF wpc[i] \in Busy THEN 1 ELSE 0)

TokenInv ==
  \A i \in Workers :
    IF wpc[i] = "none" THEN sem[i] = 0 /\ sem_main[i] = 0
                       ELSE Tokens(i) = (IF ExitPosted(i) THEN 2 ELSE 1)

\* Which workers exist, and which have returned.
PhaseInv ==
  /\ mpc \in Early => \A i \in Workers : wpc[i] = "none"
  /\ mpc = "create" => \A i \in Workers : (wpc[i] = "none") <=> (i >= mi)
  /\ mpc \notin Early \cup {"create"} => \A i \in Workers : wpc[i] # "none"
  /\ mpc \in {"exitPost", "exitJoin"} => \A i \in Workers : i < mi => wpc[i] = "done"
  /\ mpc \in {"restore", "unmap", "done"} => \A i \in Workers : wpc[i] = "done"
  /\ mpc \notin {"setup", "failed", "killed", "done"} => mapped

\* The rows of a released strip are faded from the first to the last.
PendingInv ==
  \A i \in Workers :
    /\ pending[i] \subseteq StripRows(i)
    /\ pending[i] # {} => sem[i] > 0 \/ wpc[i] = "fade"
    /\ wpc[i] = "fade" => /\ FirstRow(i) <= wrow[i]
                          /\ \A r \in pending[i] : wrow[i] <= r

IInv == TypeOK /\ TokenInv /\ PhaseInv /\ PendingInv
----------------------------------------------------------------------------
(* Geometry *)

LEMMA Geometry ==
  /\ Workers \subseteq Nat
  /\ Last \in Workers /\ 0 \in Workers
  /\ \A i \in Workers : i # Last => i + 1 \in Workers
  /\ \A i \in Workers : i <= Last
  /\ \A i \in Workers : FirstRow(i) \in Int /\ LastRow(i) \in Int
  /\ \A i \in Workers : StripRows(i) \in SUBSET Int
<1>1. NR_THREADS \in Nat /\ NR_THREADS >= 1 /\ Yres \in Nat
  BY ThreadsAssumption
<1>2. StripHeight \in Int
  BY <1>1 DEF StripHeight
<1>3. \A i \in Workers : FadeBase(i) \in Int
  BY <1>1, <1>2 DEF FadeBase, Workers
<1>4. \A i \in Workers : FadeHeight(i) \in Int
  BY <1>1, <1>2 DEF FadeHeight
<1> QED
  BY <1>1, <1>3, <1>4 DEF FirstRow, LastRow, StripRows, Workers, Last

(* The inductive invariant *)

LEMMA InitInv == Init => IInv
<1> SUFFICES ASSUME Init PROVE IInv
  OBVIOUS
<1>1. TypeOK
  <2>1. pending \in [Workers -> SUBSET Int]
    BY DEF Init
  <2>2. wrow \in [Workers -> Int] /\ sem \in [Workers -> Nat] /\ sem_main \in [Workers -> Nat]
    BY DEF Init
  <2>3. wpc \in [Workers -> WorkerPoints]
    BY DEF Init, WorkerPoints
  <2>4. mi \in Workers /\ j \in 0 .. Frames
    BY ThreadsAssumption, Geometry DEF Init
  <2>5. running \in BOOLEAN /\ mapped \in BOOLEAN /\ palette \in {"orig", "stars"}
    BY DEF Init
  <2>6. mpc \in MainPoints
    BY DEF Init, MainPoints
  <2> QED
    BY <2>1, <2>2, <2>3, <2>4, <2>5, <2>6 DEF TypeOK
<1>2. TokenInv
  BY DEF Init, TokenInv
<1>3. PhaseInv
  BY DEF Init, PhaseInv, Early
<1>4. PendingInv
  BY DEF Init, PendingInv
<1> QED
  BY <1>1, <1>2, <1>3, <1>4 DEF IInv

LEMMA NextInv == IInv /\ [Next]_vars => IInv'
<1> SUFFICES ASSUME IInv, [Next]_vars PROVE IInv'
  OBVIOUS
<1> USE ThreadsAssumption, Geometry DEF IInv
<1>1. CASE SetupOK
  BY <1>1 DEF SetupOK, TypeOK, TokenInv, PhaseInv, PendingInv, Tokens, ExitPosted, Busy, Early, MainPoints, WorkerPoints, wvars
<1>2. CASE SetupFail
  BY <1>2 DEF SetupFail, TypeOK, TokenInv, PhaseInv, PendingInv, Tokens, ExitPosted, Busy, Early, MainPoints, WorkerPoints, wvars
<1>3. CASE SetPalette
  BY <1>3 DEF SetPalette, TypeOK, TokenInv, PhaseInv, PendingInv, Tokens, ExitPosted, Busy, Early, MainPoints, WorkerPoints, wvars
<1>4. CASE PaletteFail
  BY <1>4 DEF PaletteFail, TypeOK, TokenInv, PhaseInv, PendingInv, Tokens, ExitPosted, Busy, Early, MainPoints, WorkerPoints, wvars
<1>5. CASE InstallHandler
  BY <1>5 DEF InstallHandler, TypeOK, TokenInv, PhaseInv, PendingInv, Tokens, ExitPosted, Busy, Early, MainPoints, WorkerPoints, wvars
<1>6. CASE CreateThread
  BY <1>6 DEF CreateThread, TypeOK, TokenInv, PhaseInv, PendingInv, Tokens, ExitPosted, Busy, Early, MainPoints, WorkerPoints, wvars
<1>7. CASE MainTest
  BY <1>7 DEF MainTest, TypeOK, TokenInv, PhaseInv, PendingInv, Tokens, ExitPosted, Busy, Early, MainPoints, WorkerPoints, wvars
<1>8. CASE CalcStarfield
  BY <1>8 DEF CalcStarfield, TypeOK, TokenInv, PhaseInv, PendingInv, Tokens, ExitPosted, Busy, Early, MainPoints, WorkerPoints, wvars
<1>9. CASE WaitMain
  BY <1>9 DEF WaitMain, TypeOK, TokenInv, PhaseInv, PendingInv, Tokens, ExitPosted, Busy, Early, MainPoints, WorkerPoints, wvars
<1>10. CASE PostSem
  <2>1. TypeOK'
    BY <1>10 DEF PostSem, TypeOK, MainPoints, WorkerPoints, wvars
  <2>2. TokenInv'
    BY <1>10 DEF PostSem, TypeOK, TokenInv, PhaseInv, Tokens, ExitPosted, Busy, Early, wvars
  <2>3. PhaseInv'
    BY <1>10 DEF PostSem, TypeOK, PhaseInv, Early, wvars
  <2>4. PendingInv'
    <3>1. wpc[mi] # "fade"
      BY <1>10 DEF PostSem, TypeOK, TokenInv, Tokens, ExitPosted, Busy
    <3>2. sem'[mi] > 0 /\ pending'[mi] = StripRows(mi)
      BY <1>10 DEF PostSem, TypeOK
    <3>3. \A i \in Workers : i # mi => sem'[i] = sem[i] /\ pending'[i] = pending[i]
      BY <1>10 DEF PostSem, TypeOK
    <3>4. wpc' = wpc /\ wrow' = wrow
      BY <1>10 DEF PostSem
    <3> QED
      BY <3>1, <3>2, <3>3, <3>4 DEF PendingInv, TypeOK
  <2> QED
    BY <2>1, <2>2, <2>3, <2>4
<1>11. CASE ExitPost
  BY <1>11 DEF ExitPost, TypeOK, TokenInv, PhaseInv, PendingInv, Tokens, ExitPosted, Busy, Early, MainPoints, WorkerPoints, wvars
<1>12. CASE ExitJoin
  <2>1. TypeOK'
    BY <1>12 DEF ExitJoin, TypeOK, MainPoints, WorkerPoints, wvars
  <2>2. TokenInv'
    BY <1>12 DEF ExitJoin, TypeOK, TokenInv, PhaseInv, Tokens, ExitPosted, Busy, Early, wvars
  <2>3. PhaseInv'
    BY <1>12 DEF ExitJoin, TypeOK, PhaseInv, Early, wvars
  <2>4. PendingInv'
    BY <1>12 DEF ExitJoin, TypeOK, PendingInv, wvars
  <2> QED
    BY <2>1, <2>2, <2>3, <2>4
<1>13. CASE RestorePalette
  BY <1>13 DEF RestorePalette, TypeOK, TokenInv, PhaseInv, PendingInv, Tokens, ExitPosted, Busy, Early, MainPoints, WorkerPoints, wvars
<1>14. CASE Unmap
  BY <1>14 DEF Unmap, TypeOK, TokenInv, PhaseInv, PendingInv, Tokens, ExitPosted, Busy, Early, MainPoints, WorkerPoints, wvars
<1>15. ASSUME NEW id \in Workers, Worker(id) PROVE IInv'
  <2>1. CASE WorkerTest(id)
    BY <2>1 DEF WorkerTest, TypeOK, TokenInv, PhaseInv, PendingInv, Tokens, ExitPosted, Busy, Early, MainPoints, WorkerPoints, wvars
  <2>2. CASE WorkerPost(id)
    BY <2>2 DEF WorkerPost, TypeOK, TokenInv, PhaseInv, PendingInv, Tokens, ExitPosted, Busy, Early, MainPoints, WorkerPoints, wvars
  <2>3. CASE WorkerWait(id)
    <3>1. TypeOK'
      BY <2>3 DEF WorkerWait, TypeOK, MainPoints, WorkerPoints, wvars
    <3>2. TokenInv'
      BY <2>3 DEF WorkerWait, TypeOK, TokenInv, PhaseInv, Tokens, ExitPosted, Busy, Early, wvars
    <3>3. PhaseInv'
      BY <2>3 DEF WorkerWait, TypeOK, PhaseInv, Early, wvars
    <3>4. PendingInv'
      BY <2>3 DEF WorkerWait, TypeOK, PendingInv, StripRows, wvars
    <3> QED
      BY <3>1, <3>2, <3>3, <3>4
  <2>4. CASE FadeRow(id)
    <3>1. TypeOK'
      BY <2>4 DEF FadeRow, TypeOK, MainPoints, WorkerPoints, wvars
    <3>2. TokenInv'
      BY <2>4 DEF FadeRow, TypeOK, TokenInv, PhaseInv, Tokens, ExitPosted, Busy, Early, wvars
    <3>3. PhaseInv'
      BY <2>4 DEF FadeRow, TypeOK, PhaseInv, Early, wvars
    <3>4. PendingInv'
      <4>1. /\ pending'[id] = pending[id] \ {wrow[id]}
            /\ wrow'[id] = wrow[id] + 1
            /\ wrow[id] \in Int /\ pending[id] \in SUBSET Int
        BY <2>4 DEF FadeRow, TypeOK
      <4>2. \A i \in Workers : i # id => wrow'[i] = wrow[i] /\ pending'[i] = pending[i]
        BY <2>4 DEF FadeRow, TypeOK
      <4>3. wpc' = wpc /\ sem' = sem /\ wpc[id] = "fade"
        BY <2>4 DEF FadeRow
      <4>4. \A r \in pending'[id] : wrow'[id] <= r
        BY <4>1, <4>3 DEF PendingInv
      <4>5. FirstRow(id) <= wrow'[id]
        BY <4>1, <4>3 DEF PendingInv
      <4> QED
        BY <4>1, <4>2, <4>3, <4>4, <4>5 DEF PendingInv
    <3> QED
      BY <3>1, <3>2, <3>3, <3>4
  <2>5. CASE FadeReturns(id)
    <3>1. TypeOK'
      BY <2>5 DEF FadeReturns, TypeOK, MainPoints, WorkerPoints, wvars
    <3>2. TokenInv'
      BY <2>5 DEF FadeReturns, TypeOK, TokenInv, PhaseInv, Tokens, ExitPosted, Busy, Early, wvars
    <3>3. PhaseInv'
      BY <2>5 DEF FadeReturns, TypeOK, PhaseInv, Early, wvars
    <3>4. PendingInv'
      BY <2>5 DEF FadeReturns, TypeOK, PendingInv, StripRows, wvars
    <3> QED
      BY <3>1, <3>2, <3>3, <3>4
  <2>6. CASE WorkerLastPost(id)
    BY <2>6 DEF WorkerLastPost, TypeOK, TokenInv, PhaseInv, PendingInv, Tokens, ExitPosted, Busy, Early, MainPoints, WorkerPoints, wvars
  <2> QED BY <1>15, <2>1, <2>2, <2>3, <2>4, <2>5, <2>6 DEF Worker
<1>16. CASE ExitProg
  BY <1>16 DEF ExitProg, TypeOK, TokenInv, PhaseInv, PendingInv, Tokens, ExitPosted, Busy, Early, MainPoints, WorkerPoints, wvars
<1>17. CASE Killed
  BY <1>17 DEF Killed, TypeOK, TokenInv, PhaseInv, PendingInv, Tokens, ExitPosted, Busy, Early, MainPoints, WorkerPoints, wvars
<1>18. CASE Stopped
  BY <1>18 DEF Stopped, TypeOK, TokenInv, PhaseInv, PendingInv, Tokens, ExitPosted, Busy, Early, MainPoints, WorkerPoints, wvars, vars
<1>19. CASE UNCHANGED vars
  BY <1>19 DEF vars, TypeOK, TokenInv, PhaseInv, PendingInv, Tokens, ExitPosted, Busy, Early, MainPoints, WorkerPoints, wvars
<1> QED
  BY <1>1, <1>2, <1>3, <1>4, <1>5, <1>6, <1>7, <1>8, <1>9, <1>10, <1>11, <1>12, <1>13, <1>14, <1>15, <1>16, <1>17, <1>18, <1>19 DEF Next, Main

LEMMA Inductive == Spec => []IInv
BY InitInv, NextInv, PTL DEF Spec
----------------------------------------------------------------------------
(* Where the strips lie *)

\* The product H * N is at most Yres, in the form the strips need.
LEMMA StripHeightBound ==
  /\ StripHeight \in Nat \ {0}
  /\ NR_THREADS * StripHeight <= Yres
<1>1. NR_THREADS \in Nat /\ NR_THREADS >= 1 /\ Yres \in Nat /\ Yres >= NR_THREADS
  BY ThreadsAssumption
<1>2. StripHeight \in Int /\ NR_THREADS * StripHeight <= Yres
  BY <1>1 DEF StripHeight
<1>3. StripHeight >= 1
  BY <1>1 DEF StripHeight
<1> QED
  BY <1>2, <1>3

\* The strip of a worker that is not the last ends where the next one begins.
LEMMA StripEnds ==
  ASSUME NEW i \in Workers, i # Last
  PROVE  LastRow(i) = (i + 1) * (StripHeight - 1)
<1>1. i \in Int /\ StripHeight \in Int
  BY Geometry, StripHeightBound
<1>2. LastRow(i) = i * (StripHeight - 1) + (StripHeight + 1) - 2
  BY DEF LastRow, FadeBase, FadeHeight
<1>3. (i + 1) * (StripHeight - 1) = i * (StripHeight - 1) + (StripHeight - 1)
  BY <1>1
<1> QED
  BY <1>1, <1>2, <1>3

\* No row belongs to the strips of two workers.
THEOREM StripsDisjoint ==
  \A a, b \in Workers : a < b => LastRow(a) < FirstRow(b)
<1> SUFFICES ASSUME NEW a \in Workers, NEW b \in Workers, a < b
             PROVE  LastRow(a) < FirstRow(b)
  OBVIOUS
<1>1. a \in Nat /\ b \in Nat /\ a + 1 <= b /\ a # Last
  BY Geometry
<1>2. StripHeight - 1 \in Nat
  BY StripHeightBound
<1>3. (a + 1) * (StripHeight - 1) <= b * (StripHeight - 1)
  BY <1>1, <1>2
<1> QED
  BY <1>1, <1>2, <1>3, StripEnds DEF FirstRow, FadeBase

\* fade() stays on the screen: the rows it writes have neighbours on it.
THEOREM StripsOnScreen ==
  \A i \in Workers : FirstRow(i) >= 1 /\ LastRow(i) <= Yres - 2
<1> SUFFICES ASSUME NEW i \in Workers
             PROVE  FirstRow(i) >= 1 /\ LastRow(i) <= Yres - 2
  OBVIOUS
<1> DEFINE H == StripHeight
<1> DEFINE N == NR_THREADS
<1>1. i \in Nat /\ H \in Nat /\ H >= 1 /\ N \in Nat /\ N >= 1 /\ Yres \in Nat
      /\ N * H <= Yres /\ i <= N - 1
  BY Geometry, StripHeightBound, ThreadsAssumption DEF Last
<1>2. i * (H - 1) >= 0
  BY <1>1
<1>3. FirstRow(i) >= 1
  BY <1>1, <1>2 DEF FirstRow, FadeBase
<1>4. CASE i = Last
  <2>1. LastRow(i) = (N - 1) * (H - 1) + (H + N \div 2) - 2
    BY <1>4 DEF LastRow, FadeBase, FadeHeight, Last
  <2>2. (N - 1) * (H - 1) = N * H - N - H + 1
    BY <1>1
  <2>3. N \div 2 <= N - 1 /\ N \div 2 \in Int
    BY <1>1
  <2>4. N * H \in Int
    BY <1>1
  <2> QED
    BY <1>1, <1>3, <2>1, <2>2, <2>3, <2>4
<1>5. CASE i # Last
  <2>1. LastRow(i) = (i + 1) * (H - 1)
    BY <1>5, StripEnds
  <2>2. i + 1 <= N - 1
    BY <1>1, <1>5 DEF Last
  <2>3. (i + 1) * (H - 1) <= (N - 1) * (H - 1)
    BY <1>1, <2>2
  <2>4. (N - 1) * (H - 1) = N * H - N - H + 1 /\ N * H \in Int
    BY <1>1
  <2> QED
    BY <1>1, <1>3, <2>1, <2>2, <2>3, <2>4
<1> QED
  BY <1>4, <1>5

\* With the four threads of main.c and a height that is a multiple of four the
\* strips hold every row update_star() draws on (3 .. yres-3): no star leaves
\* a trail that is never faded.
THEOREM FourStripsCoverStars ==
  ASSUME NR_THREADS = 4, Yres % 4 = 0
  PROVE  \A r \in 3 .. Yres - 3 : \E i \in Workers : r \in StripRows(i)
<1> DEFINE H == Yres \div 4
<1>1. H \in Nat /\ H >= 1 /\ Yres = 4 * H /\ StripHeight = H
  BY ThreadsAssumption DEF StripHeight
<1>2. Workers = 0 .. 3 /\ Last = 3
  BY DEF Workers, Last
<1> HIDE DEF H
<1>3. StripRows(0) = 1 .. H - 1
  BY <1>1, <1>2 DEF StripRows, FirstRow, LastRow, FadeBase, FadeHeight
<1>4. StripRows(1) = H .. 2 * H - 2
  BY <1>1, <1>2 DEF StripRows, FirstRow, LastRow, FadeBase, FadeHeight
<1>5. StripRows(2) = 2 * H - 1 .. 3 * H - 3
  BY <1>1, <1>2 DEF StripRows, FirstRow, LastRow, FadeBase, FadeHeight
<1>6. StripRows(3) = 3 * H - 2 .. 4 * H - 3
  BY <1>1, <1>2 DEF StripRows, FirstRow, LastRow, FadeBase, FadeHeight
<1> SUFFICES ASSUME NEW r \in 3 .. Yres - 3 PROVE \E i \in Workers : r \in StripRows(i)
  OBVIOUS
<1>7. r \in StripRows(0) \/ r \in StripRows(1) \/ r \in StripRows(2) \/ r \in StripRows(3)
  BY <1>1, <1>3, <1>4, <1>5, <1>6
<1>8. 0 \in Workers /\ 1 \in Workers /\ 2 \in Workers /\ 3 \in Workers
  BY <1>2
<1> QED
  BY <1>7, <1>8
----------------------------------------------------------------------------
(* The properties *)

\* Every variable of the demo keeps its type, the semaphores never go below 0.
THEOREM TypeCorrect == Spec => []TypeOK
BY Inductive, PTL DEF IInv

\* Main releases a worker only when the strip it released before is faded.
THEOREM LockstepHolds == Spec => []Lockstep
<1>1. IInv => Lockstep
  <2> SUFFICES ASSUME IInv, mpc = "postSem" PROVE pending[mi] = {}
    BY DEF Lockstep
  <2>1. mi \in Workers /\ wpc[mi] # "none" /\ ~ExitPosted(mi)
    BY DEF IInv, TypeOK, PhaseInv, Early, ExitPosted
  <2>2. Tokens(mi) = 1
    BY <2>1 DEF IInv, TokenInv
  <2>3. sem[mi] = 0 /\ wpc[mi] # "fade"
    BY <2>1, <2>2 DEF IInv, TypeOK, Tokens, Busy
  <2> QED
    BY <2>1, <2>3 DEF IInv, PendingInv
<1> QED
  BY <1>1, Inductive, PTL

\* No thread touches the frame buffer outside the mapping or after munmap.
THEOREM AccessMappedHolds == Spec => []AccessMapped
<1>1. IInv => AccessMapped
  <2> SUFFICES ASSUME IInv PROVE AccessMapped
    OBVIOUS
  <2>1. mpc = "calc" => mapped
    BY DEF IInv, PhaseInv
  <2>2. ASSUME NEW i \in Workers, wpc[i] = "fade", wrow[i] <= LastRow(i)
        PROVE  mapped /\ wrow[i] - 1 \in 0 .. Yres - 1 /\ wrow[i] + 1 \in 0 .. Yres - 1
    <3>1. mapped
      BY <2>2 DEF IInv, PhaseInv, Early
    <3>2. FirstRow(i) <= wrow[i] /\ wrow[i] \in Int /\ Yres \in Nat
      BY <2>2, ThreadsAssumption DEF IInv, PendingInv, TypeOK
    <3> QED
      BY <2>2, <3>1, <3>2, StripsOnScreen, Geometry
  <2> QED
    BY <2>1, <2>2 DEF AccessMapped
<1> QED
  BY <1>1, Inductive, PTL

\* Two workers never write the same row.
THEOREM OneWriterPerRowHolds == Spec => []OneWriterPerRow
<1>1. IInv => OneWriterPerRow
  <2> SUFFICES ASSUME NEW a \in Workers, NEW b \in Workers, a # b,
                      wrow[a] \in StripRows(a), wrow[b] \in StripRows(b),
                      wrow[a] = wrow[b]
               PROVE  FALSE
    BY DEF OneWriterPerRow
  <2>1. a < b \/ b < a
    BY Geometry
  <2> QED
    BY <2>1, StripsDisjoint, Geometry DEF StripRows
<1> QED
  BY <1>1, Inductive, PTL
----------------------------------------------------------------------------
(* The refinement of StripBarrier *)

StopInv ==
  /\ mpc \in Leaving => ~running
  /\ mpc = "calc" => mi = 0
  /\ \A i \in Workers : wpc[i] \in {"lastPost", "done"} => ~running
  /\ \A i \in Workers : wpc[i] \in {"test", "post", "lastPost"} => pending[i] = {}

RInv == IInv /\ StopInv

AState == [id \in Workers |-> StateOf(id)]
ALeft == [id \in Workers |-> LeftOf(id)]
----------------------------------------------------------------------------
LEMMA NothingPending ==
  ASSUME IInv, NEW i \in Workers, sem[i] = 0, wpc[i] # "fade"
  PROVE  pending[i] = {}
BY DEF IInv, PendingInv, TypeOK

\* When fade() has passed the last row of the strip nothing of it is left.
LEMMA FadedCompletely ==
  ASSUME IInv, NEW i \in Workers, wpc[i] = "fade", wrow[i] > LastRow(i)
  PROVE  pending[i] = {}
<1>1. wrow[i] \in Int /\ LastRow(i) \in Int /\ FirstRow(i) \in Int
  BY Geometry DEF IInv, TypeOK
<1>2. \A r \in pending[i] : r \in Int /\ r <= LastRow(i) /\ wrow[i] <= r
  BY <1>1 DEF IInv, PendingInv, StripRows
<1> QED
  BY <1>1, <1>2

\* Main holds the only token of the worker it is about to release.
LEMMA HeldToken ==
  ASSUME IInv, mpc = "postSem"
  PROVE  mi \in Workers /\ sem[mi] = 0 /\ wpc[mi] \in {"wait", "done"} /\ pending[mi] = {}
<1>1. mi \in Workers /\ wpc[mi] # "none" /\ ~ExitPosted(mi)
  BY DEF IInv, TypeOK, PhaseInv, Early, ExitPosted
<1>2. Tokens(mi) = 1
  BY <1>1 DEF IInv, TokenInv
<1>3. sem[mi] = 0 /\ wpc[mi] \in {"wait", "done"}
  BY <1>1, <1>2 DEF IInv, TypeOK, Tokens, Busy, WorkerPoints
<1> QED
  BY <1>1, <1>3, NothingPending

LEMMA StopInit == Init => StopInv
BY DEF Init, StopInv, Leaving

LEMMA StopNext == RInv /\ [Next]_vars => StopInv'
<1> SUFFICES ASSUME RInv, [Next]_vars PROVE StopInv'
  OBVIOUS
<1>0. TypeOK /\ StopInv /\ IInv
  BY DEF RInv, IInv
<1>1. CASE SetupOK \/ SetupFail \/ SetPalette \/ PaletteFail \/ InstallHandler \/ MainTest
           \/ CalcStarfield \/ WaitMain \/ ExitPost \/ ExitJoin \/ RestorePalette \/ Unmap
           \/ ExitProg \/ Killed \/ Stopped \/ UNCHANGED vars
  <2>1. wpc' = wpc /\ pending' = pending /\ (running' => running)
    BY <1>0, <1>1 DEF TypeOK, SetupOK, SetupFail, SetPalette, PaletteFail, InstallHandler, MainTest,
       CalcStarfield, WaitMain, ExitPost, ExitJoin, RestorePalette, Unmap, ExitProg, Killed, Stopped,
       vars, wvars
  <2>2. (mpc \in Leaving => ~running)' /\ (mpc = "calc" => mi = 0)'
    BY <1>0, <1>1 DEF StopInv, Leaving, SetupOK, SetupFail, SetPalette, PaletteFail, InstallHandler, MainTest,
       CalcStarfield, WaitMain, ExitPost, ExitJoin, RestorePalette, Unmap, ExitProg, Killed, Stopped,
       vars, wvars
  <2> QED
    BY <1>0, <2>1, <2>2 DEF StopInv
<1>2. CASE CreateThread
  <2>1. wpc[mi] = "none" /\ mi \in Workers /\ sem[mi] = 0
    BY <1>0, <1>2, Geometry DEF CreateThread, IInv, TypeOK, PhaseInv, TokenInv
  <2>2. pending[mi] = {}
    BY <1>0, <2>1, NothingPending
  <2> QED
    BY <1>0, <1>2, <2>1, <2>2 DEF CreateThread, StopInv, Leaving, TypeOK
<1>3. CASE PostSem
  <2>1. wpc[mi] \in {"wait", "done"} /\ mi \in Workers
    BY <1>0, <1>3, HeldToken DEF PostSem
  <2> QED
    BY <1>0, <1>3, <2>1 DEF PostSem, StopInv, Leaving, TypeOK
<1>4. ASSUME NEW id \in Workers, Worker(id) PROVE StopInv'
  <2>1. CASE WorkerTest(id)
    BY <1>0, <2>1 DEF WorkerTest, StopInv, Leaving, TypeOK
  <2>2. CASE WorkerPost(id)
    BY <1>0, <2>2 DEF WorkerPost, StopInv, Leaving, TypeOK
  <2>3. CASE WorkerWait(id)
    BY <1>0, <2>3 DEF WorkerWait, StopInv, Leaving, TypeOK
  <2>4. CASE FadeRow(id)
    BY <1>0, <2>4 DEF FadeRow, StopInv, Leaving, TypeOK
  <2>5. CASE FadeReturns(id)
    <3>1. pending[id] = {}
      BY <1>0, <2>5, FadedCompletely DEF FadeReturns
    <3> QED
      BY <1>0, <2>5, <3>1 DEF FadeReturns, StopInv, Leaving, TypeOK
  <2>6. CASE WorkerLastPost(id)
    BY <1>0, <2>6 DEF WorkerLastPost, StopInv, Leaving, TypeOK
  <2> QED
    BY <1>4, <2>1, <2>2, <2>3, <2>4, <2>5, <2>6 DEF Worker
<1> QED
  BY <1>1, <1>2, <1>3, <1>4 DEF Next, Main

LEMMA RInductive == Spec => []RInv
<1>1. Init => RInv
  BY InitInv, StopInit DEF RInv
<1>2. RInv /\ [Next]_vars => RInv'
  BY NextInv, StopNext DEF RInv
<1> QED
  BY <1>1, <1>2, PTL DEF Spec
----------------------------------------------------------------------------
(* The steps.  What a step leaves alone is also left alone by its image.   *)

LEMMA Unmoved ==
  ASSUME wpc' = wpc, sem' = sem, pending' = pending
  PROVE  AState' = AState /\ ALeft' = ALeft
BY DEF AState, ALeft, StateOf, LeftOf

LEMMA UnmovedTeam == Barrier!Team = Workers
BY DEF Barrier!Team, Workers

\* Every step of the program is a step of the barrier or leaves it alone.
LEMMA Refines == RInv /\ [Next]_vars => [Barrier!Next]_(Barrier!vars)
<1> SUFFICES ASSUME RInv, [Next]_vars PROVE [Barrier!Next]_(Barrier!vars)
  OBVIOUS
<1>0. TypeOK /\ StopInv /\ IInv
  BY DEF RInv, IInv
<1> USE UnmovedTeam, Geometry
<1>1. CASE SetupFail \/ SetPalette \/ PaletteFail \/ InstallHandler \/ MainTest
           \/ CalcStarfield \/ WaitMain \/ ExitJoin \/ RestorePalette \/ Stopped \/ UNCHANGED vars
  <2>1. wpc' = wpc /\ sem' = sem /\ pending' = pending /\ running' = running /\ mapped' = mapped
    BY <1>1 DEF SetupFail, SetPalette, PaletteFail, InstallHandler, MainTest,
       CalcStarfield, WaitMain, ExitJoin, RestorePalette, Stopped, vars, wvars
  <2>2. Turn' = Turn
    BY <1>0, <1>1 DEF Turn, StopInv, SetupFail, SetPalette, PaletteFail, InstallHandler, MainTest,
       CalcStarfield, WaitMain, ExitJoin, RestorePalette, Stopped, vars, wvars
  <2> QED
    BY <2>1, <2>2, Unmoved DEF Barrier!vars, AState, ALeft
<1>2. CASE SetupOK
  <2>1. wpc' = wpc /\ sem' = sem /\ pending' = pending /\ running' = running /\ Turn' = Turn /\ mapped' = TRUE
    BY <1>2 DEF SetupOK, wvars, Turn
  <2>2. \A i \in Workers : AState[i] = "absent"
    BY <1>0, <1>2 DEF AState, StateOf, SetupOK, IInv, PhaseInv, Early
  <2>3. CASE mapped = FALSE
    BY <2>1, <2>2, <2>3, Unmoved DEF Barrier!Next, Barrier!Open, AState, ALeft
  <2>4. CASE mapped = TRUE
    BY <2>1, <2>4, Unmoved DEF Barrier!vars, AState, ALeft
  <2> QED
    BY <1>0, <2>3, <2>4 DEF TypeOK
<1>3. CASE Unmap \/ Killed
  <2>1. wpc' = wpc /\ sem' = sem /\ pending' = pending /\ running' = running /\ Turn' = Turn /\ mapped' = FALSE
    BY <1>3 DEF Unmap, Killed, wvars, Turn
  <2>2. \A i \in Workers : AState[i] \in {"absent", "returned"}
    BY <1>0, <1>3 DEF AState, StateOf, Unmap, Killed, IInv, PhaseInv, Early
  <2>3. CASE mapped = TRUE
    BY <2>1, <2>2, <2>3, Unmoved DEF Barrier!Next, Barrier!Close, AState, ALeft
  <2>4. CASE mapped = FALSE
    BY <2>1, <2>4, Unmoved DEF Barrier!vars, AState, ALeft
  <2> QED
    BY <1>0, <2>3, <2>4 DEF TypeOK
<1>4. CASE ExitProg
  <2>1. wpc' = wpc /\ sem' = sem /\ pending' = pending /\ running' = FALSE /\ Turn' = Turn /\ mapped' = mapped
    BY <1>4 DEF ExitProg, wvars, Turn
  <2> QED
    BY <2>1, Unmoved DEF Barrier!Next, Barrier!Stop, AState, ALeft
<1>5. CASE CreateThread
  <2>1. wpc[mi] = "none" /\ mi \in Workers /\ sem[mi] = 0 /\ mapped
    BY <1>0, <1>5 DEF CreateThread, IInv, TypeOK, PhaseInv, TokenInv
  <2>2. sem' = sem /\ pending' = pending /\ running' = running /\ mapped' = mapped
    BY <1>0, <1>5, <2>1 DEF CreateThread, TypeOK
  <2>3. wpc' = [wpc EXCEPT ![mi] = "test"]
    BY <1>5 DEF CreateThread
  <2>4. Turn' = Turn
    BY <1>5 DEF CreateThread, Turn
  <2>5. AState' = [AState EXCEPT ![mi] = "idle"] /\ AState[mi] = "absent"
    BY <1>0, <2>1, <2>2, <2>3 DEF AState, StateOf, TypeOK
  <2>6. ALeft' = ALeft
    BY <1>0, <2>1, <2>2, <2>3 DEF ALeft, LeftOf, TypeOK
  <2>7. Barrier!Start(mi)
    BY <2>1, <2>2, <2>4, <2>5, <2>6 DEF Barrier!Start, Barrier!Becomes, AState, ALeft
  <2> QED
    BY <2>1, <2>7 DEF Barrier!Next, Barrier!Step
<1>6. CASE PostSem
  <2>1. mi \in Workers /\ sem[mi] = 0 /\ wpc[mi] \in {"wait", "done"} /\ pending[mi] = {}
    BY <1>0, <1>6, HeldToken DEF PostSem
  <2>2. sem' = [sem EXCEPT ![mi] = 1] /\ pending' = [pending EXCEPT ![mi] = StripRows(mi)]
    BY <1>0, <1>6, <2>1 DEF PostSem, TypeOK
  <2>3. wpc' = wpc /\ running' = running /\ mapped' = mapped /\ mapped = TRUE
    BY <1>0, <1>6 DEF PostSem, IInv, PhaseInv, TypeOK
  <2>4. Turn = mi /\ Turn' = (IF mi = NR_THREADS - 1 THEN 0 ELSE mi + 1)
    BY <1>6 DEF PostSem, Turn, Last
  <2>5. \A i \in Workers : AState[i] # "absent"
    BY <1>0, <1>6 DEF AState, StateOf, PostSem, IInv, PhaseInv, Early
  <2>6. CASE wpc[mi] = "wait"
    <3>0. /\ StateOf(mi) = "idle"
          /\ \A i \in Workers : StateOf(i)' = IF i = mi THEN "released" ELSE StateOf(i)
      BY <1>0, <2>1, <2>2, <2>3, <2>6 DEF StateOf, TypeOK
    <3>1. AState' = [AState EXCEPT ![mi] = "released"] /\ AState[mi] = "idle"
      BY <2>1, <3>0 DEF AState
    <3>2. ALeft' = [ALeft EXCEPT ![mi] = StripRows(mi)] /\ ALeft[mi] = {}
      BY <1>0, <2>1, <2>2, <2>3, <2>6 DEF ALeft, LeftOf, TypeOK
    <3>3. Barrier!Release(mi)
      BY <2>1, <2>3, <2>4, <2>5, <3>1, <3>2 DEF Barrier!Release, Barrier!Becomes, Barrier!NextTurn, AState, ALeft
    <3> QED
      BY <2>1, <3>3 DEF Barrier!Next, Barrier!Step
  <2>7. CASE wpc[mi] = "done"
    <3>1. AState' = AState /\ AState[mi] = "returned" /\ ~running
      BY <1>0, <2>1, <2>2, <2>3, <2>7 DEF AState, StateOf, TypeOK, StopInv
    <3>2. ALeft' = ALeft
      BY <1>0, <2>1, <2>2, <2>3, <2>7 DEF ALeft, LeftOf, TypeOK
    <3>3. Barrier!Skip(mi)
      BY <2>1, <2>3, <2>4, <3>1, <3>2 DEF Barrier!Skip, Barrier!NextTurn, AState, ALeft
    <3> QED
      BY <2>1, <3>3 DEF Barrier!Next, Barrier!Step
  <2> QED
    BY <2>1, <2>6, <2>7
<1>7. CASE ExitPost
  <2>1. mi \in Workers /\ ~running /\ wpc[mi] # "none" /\ sem[mi] \in Nat
    BY <1>0, <1>7 DEF ExitPost, TypeOK, StopInv, Leaving, IInv, PhaseInv, Early
  <2>2. sem' = [sem EXCEPT ![mi] = sem[mi] + 1] /\ pending' = pending /\ wpc' = wpc /\ running' = running
        /\ mapped' = mapped /\ Turn' = Turn
    BY <1>7 DEF ExitPost, wvars, Turn
  <2>3. ALeft' = ALeft
    BY <2>2 DEF ALeft, LeftOf
  <2>4. CASE wpc[mi] = "wait" /\ sem[mi] = 0
    <3>0. /\ StateOf(mi) = "idle"
          /\ \A i \in Workers : StateOf(i)' = IF i = mi THEN "released" ELSE StateOf(i)
      BY <1>0, <2>1, <2>2, <2>4 DEF StateOf, TypeOK
    <3>1. AState' = [AState EXCEPT ![mi] = "released"] /\ AState[mi] = "idle"
      BY <2>1, <3>0 DEF AState
    <3>2. ALeft[mi] = {}
      BY <1>0, <2>1, <2>4, NothingPending DEF ALeft, LeftOf
    <3>3. Barrier!Wake(mi)
      BY <2>1, <2>2, <2>3, <3>1, <3>2 DEF Barrier!Wake, Barrier!Becomes, AState, ALeft
    <3> QED
      BY <2>1, <3>3 DEF Barrier!Next, Barrier!Step
  <2>5. CASE ~(wpc[mi] = "wait" /\ sem[mi] = 0)
    <3>1. AState' = AState
      BY <1>0, <2>1, <2>2, <2>5 DEF AState, StateOf, TypeOK
    <3> QED
      BY <2>2, <2>3, <3>1 DEF Barrier!vars, AState, ALeft
  <2> QED
    BY <2>4, <2>5
<1>8. ASSUME NEW id \in Workers, Worker(id) PROVE [Barrier!Next]_(Barrier!vars)
  <2>0. running' = running /\ mapped' = mapped /\ mpc' = mpc /\ mi' = mi /\ Turn' = Turn
    BY <1>8 DEF Worker, WorkerTest, WorkerPost, WorkerWait, FadeRow, FadeReturns, WorkerLastPost, Turn
  <2>1. CASE WorkerTest(id)
    <3>1. sem' = sem /\ pending' = pending /\ wpc[id] = "test"
          /\ wpc' = [wpc EXCEPT ![id] = IF running THEN "post" ELSE "lastPost"]
      BY <2>1 DEF WorkerTest
    <3>2. AState' = AState /\ ALeft' = ALeft
      BY <1>0, <3>1 DEF AState, ALeft, StateOf, LeftOf, TypeOK
    <3> QED
      BY <2>0, <3>2 DEF Barrier!vars, AState, ALeft
  <2>2. CASE WorkerPost(id)
    <3>1. sem' = sem /\ pending' = pending /\ wpc[id] = "post" /\ wpc' = [wpc EXCEPT ![id] = "wait"]
      BY <2>2 DEF WorkerPost
    <3>2. ALeft' = ALeft /\ ALeft[id] = {}
      BY <1>0, <3>1 DEF ALeft, LeftOf, TypeOK, StopInv
    <3>3. CASE sem[id] = 0
      <4>1. AState' = AState
        BY <1>0, <3>1, <3>3 DEF AState, StateOf, TypeOK
      <4> QED
        BY <2>0, <3>2, <4>1 DEF Barrier!vars, AState, ALeft
    <3>4. CASE sem[id] > 0
      <4>1. ExitPosted(id)
        BY <1>0, <3>1, <3>4 DEF IInv, TypeOK, TokenInv, Tokens, Busy
      <4>2. ~running
        BY <1>0, <4>1 DEF ExitPosted, StopInv, Leaving
      <4>3. AState' = [AState EXCEPT ![id] = "released"] /\ AState[id] = "idle"
        BY <1>0, <3>1, <3>4 DEF AState, StateOf, TypeOK
      <4>4. Barrier!Wake(id)
        BY <2>0, <3>2, <4>2, <4>3 DEF Barrier!Wake, Barrier!Becomes, AState, ALeft
      <4> QED
        BY <4>4 DEF Barrier!Next, Barrier!Step
    <3> QED
      BY <1>0, <3>3, <3>4 DEF TypeOK
  <2>3. CASE WorkerWait(id)
    <3>1. pending' = pending /\ wpc[id] = "wait" /\ sem[id] > 0
          /\ sem' = [sem EXCEPT ![id] = sem[id] - 1] /\ wpc' = [wpc EXCEPT ![id] = "fade"]
      BY <2>3 DEF WorkerWait
    <3>2. mapped
      BY <1>0, <3>1 DEF IInv, PhaseInv, Early
    <3>3. ALeft' = ALeft
      BY <1>0, <3>1 DEF ALeft, LeftOf, TypeOK
    <3>4. AState' = [AState EXCEPT ![id] = "fading"] /\ AState[id] = "released"
      BY <1>0, <3>1 DEF AState, StateOf, TypeOK
    <3>5. Barrier!Begin(id)
      BY <2>0, <3>2, <3>3, <3>4 DEF Barrier!Begin, Barrier!Becomes, AState, ALeft
    <3> QED
      BY <3>5 DEF Barrier!Next, Barrier!Step
  <2>4. CASE FadeRow(id)
    <3>1. sem' = sem /\ wpc' = wpc /\ wpc[id] = "fade"
          /\ pending' = [pending EXCEPT ![id] = pending[id] \ {wrow[id]}]
      BY <2>4 DEF FadeRow
    <3>2. mapped /\ AState' = AState /\ AState[id] = "fading"
      BY <1>0, <3>1 DEF IInv, PhaseInv, Early, AState, StateOf
    <3>3. ALeft' = [ALeft EXCEPT ![id] = ALeft[id] \ {wrow[id]}]
      BY <1>0, <3>1 DEF ALeft, LeftOf, TypeOK
    <3>4. CASE wrow[id] \in ALeft[id]
      <4>1. Barrier!Fade(id)
        BY <2>0, <3>2, <3>3, <3>4 DEF Barrier!Fade, AState, ALeft
      <4> QED
        BY <4>1 DEF Barrier!Next, Barrier!Step
    <3>5. CASE wrow[id] \notin ALeft[id]
      <4>1. ALeft[id] \ {wrow[id]} = ALeft[id]
        BY <3>5
      <4>2. ALeft' = ALeft
        BY <3>3, <4>1 DEF ALeft
      <4> QED
        BY <2>0, <3>2, <4>2 DEF Barrier!vars, AState, ALeft
    <3> QED
      BY <3>4, <3>5
  <2>5. CASE FadeReturns(id)
    <3>1. sem' = sem /\ pending' = pending /\ wpc[id] = "fade" /\ wpc' = [wpc EXCEPT ![id] = "test"]
      BY <2>5 DEF FadeReturns
    <3>2. ALeft' = ALeft /\ ALeft[id] = {}
      BY <1>0, <2>5, <3>1, FadedCompletely DEF ALeft, LeftOf, TypeOK, FadeReturns
    <3>3. AState' = [AState EXCEPT ![id] = "idle"] /\ AState[id] = "fading"
      BY <1>0, <3>1 DEF AState, StateOf, TypeOK
    <3>4. Barrier!End(id)
      BY <2>0, <3>2, <3>3 DEF Barrier!End, Barrier!Becomes, AState, ALeft
    <3> QED
      BY <3>4 DEF Barrier!Next, Barrier!Step
  <2>6. CASE WorkerLastPost(id)
    <3>1. sem' = sem /\ pending' = pending /\ wpc[id] = "lastPost" /\ wpc' = [wpc EXCEPT ![id] = "done"]
      BY <2>6 DEF WorkerLastPost
    <3>2. ALeft' = ALeft
      BY <1>0, <3>1 DEF ALeft, LeftOf, TypeOK, StopInv
    <3>3. AState' = [AState EXCEPT ![id] = "returned"] /\ AState[id] = "idle" /\ ~running
      BY <1>0, <3>1 DEF AState, StateOf, TypeOK, StopInv
    <3>4. Barrier!Return(id)
      BY <2>0, <3>2, <3>3 DEF Barrier!Return, Barrier!Becomes, AState, ALeft
    <3> QED
      BY <3>4 DEF Barrier!Next, Barrier!Step
  <2> QED
    BY <1>8, <2>1, <2>2, <2>3, <2>4, <2>5, <2>6 DEF Worker
<1> QED
  BY <1>1, <1>2, <1>3, <1>4, <1>5, <1>6, <1>7, <1>8 DEF Next, Main

\* The semaphores of main.c implement the barrier: whatever the threads and
\* the SIGINT do, the program releases, fades, stops and unmaps as
\* StripBarrier says.
THEOREM BarrierImplemented == Spec => ImplementsBarrier
<1>1. Init => Barrier!Init
  BY UnmovedTeam DEF Init, Barrier!Init, StateOf, LeftOf, Turn
<1> QED
  BY <1>1, RInductive, Refines, PTL DEF Spec, ImplementsBarrier, Barrier!Spec
----------------------------------------------------------------------------
(* The stars *)

\* The hypothesis of the theorem: a screen on which the projection of a new
\* star, at most 128 pixels from the centre, stays clear of the border.  The
\* screens of the demo have 640 x 400 pixels.
StarScreen == Xres >= 262 /\ Yres >= 262

\* A call finds a new star (depth 2) on the screen and at ZMAX, so that it is
\* not replaced again, and the calls draw while the star is in front.
StarInv ==
  /\ phase \in {"start", "idle", "check", "draw"}
  /\ x \in Int /\ y \in Int /\ z \in Int /\ sx \in Int /\ sy \in Int
  /\ z <= ZMAX
  /\ phase \in {"start", "idle"} => depth = 0
  /\ phase = "check" => depth = 1 \/ (depth = 2 /\ Inside /\ z = ZMAX)
  /\ phase = "draw" =>
       /\ Inside /\ z >= 0
       /\ depth = 1 \/ (depth = 2 /\ z = ZMAX)

\* The entries of the table that make a new star.
LEMMA Entries ==
  ASSUME NEW n \in 0 .. NUMRND - 1
  PROVE  /\ \E r \in -128 .. 127 : RndX(n) = 16 * r
         /\ \E r \in -128 .. 127 : RndY(n) = 16 * r
         /\ InitZ(n) \in Int /\ InitZ(n) <= ZMAX
<1>1. NUMRND \in Nat \ {0} /\ rndtable \in [0 .. NUMRND - 1 -> -128 .. 127]
  BY StarsAssumption
<1> DEFINE m == (n + NUMRND \div 2) % NUMRND
<1>2. n + NUMRND \div 2 \in Int
  BY <1>1
<1>3. m \in 0 .. NUMRND - 1
  BY <1>1, <1>2
<1> HIDE DEF m
<1>4. rndtable[n] \in -128 .. 127 /\ rndtable[m] \in -128 .. 127
  BY <1>1, <1>3
<1>5. InitZ(n) = (rndtable[n] + 127) * 16
  BY DEF InitZ, ZMAX
<1>6. InitZ(n) \in Int /\ InitZ(n) <= ZMAX
  <2> DEFINE e == rndtable[n]
  <2>a. e \in -128 .. 127
    BY <1>4
  <2> HIDE DEF e
  <2>1. e \in Int /\ e <= 127
    BY <2>a
  <2>2. (e + 127) * 16 \in Int /\ (e + 127) * 16 <= 4096
    BY <2>1
  <2> QED
    BY <1>5, <2>2 DEF ZMAX, e
<1> QED
  BY <1>4, <1>6 DEF RndX, RndY, m

\* At the back of the field the projection of 16 r is r.
LEMMA ProjectNew ==
  ASSUME NEW r \in -128 .. 127
  PROVE  CDiv((16 * r) * 256, ZMAX) = r
<1>1. (16 * r) * 256 = 4096 * r
  OBVIOUS
<1>2. CASE r >= 0
  BY <1>1, <1>2 DEF CDiv, ZMAX
<1>3. CASE r < 0
  <2>1. -(4096 * r) = 4096 * (-r) /\ ~(4096 * r >= 0)
    BY <1>3
  <2>2. (4096 * (-r)) \div 4096 = -r
    OBVIOUS
  <2> QED
    BY <1>1, <2>1, <2>2 DEF CDiv, ZMAX
<1> QED
  BY <1>2, <1>3

LEMMA StarInvInit == StarScreen /\ StarInit => StarInv
<1> SUFFICES ASSUME StarScreen, StarInit PROVE StarInv
  OBVIOUS
<1>1. PICK n \in 0 .. NUMRND - 1 :
        x = RndX(n) /\ y = RndY(n) /\ z = InitZ(n)
  BY DEF StarInit
<1>2. x \in Int /\ y \in Int /\ z \in Int /\ z <= ZMAX
  <2>1. PICK r \in -128 .. 127 : RndX(n) = 16 * r
    BY Entries DEF StarScreen
  <2>2. PICK q \in -128 .. 127 : RndY(n) = 16 * q
    BY Entries DEF StarScreen
  <2>3. z \in Int /\ z <= ZMAX
    BY <1>1, Entries DEF StarScreen
  <2> QED
    BY <1>1, <2>1, <2>2, <2>3
<1> QED
  BY <1>2 DEF StarInit, StarInv

LEMMA StarInvNext == StarScreen /\ StarInv /\ [StarNext]_starVars => StarInv'
<1> SUFFICES ASSUME StarScreen, StarInv, [StarNext]_starVars PROVE StarInv'
  OBVIOUS
<1>a. Xres \in Nat /\ Yres \in Nat /\ Xres >= 262 /\ Yres >= 262
  BY StarsAssumption DEF StarScreen
<1>1. CASE UNCHANGED starVars
  BY <1>1 DEF starVars, StarInv, Inside
<1>2. CASE Call
  <2>1. phase' = "check" /\ depth' = 1 /\ x' = x /\ y' = y /\ z' = z
    BY <1>2 DEF Call
  <2>2. sx' \in Int /\ sy' \in Int
    <3>1. ASSUME NEW u \in Int, z > 0 PROVE CDiv(u * 256, z) \in Int
      <4>1. u * 256 \in Int /\ z \in Nat \ {0}
        BY <3>1 DEF StarInv
      <4> QED BY <4>1 DEF CDiv
    <3>2. CASE z = 0
      BY <1>2, <3>2 DEF Call, Project, Garbage
    <3>3. CASE z > 0
      <4>1. sx' = CDiv(x * 256, z) + Xres \div 2 /\ sy' = CDiv(y * 256, z) + Yres \div 2
        BY <1>2, <3>3 DEF Call, Project
      <4>2. CDiv(x * 256, z) \in Int /\ CDiv(y * 256, z) \in Int
        BY <3>1, <3>3 DEF StarInv
      <4> QED BY <1>a, <4>1, <4>2
    <3>4. CASE z < 0
      BY <1>2, <3>4 DEF Call, Project, StarInv
    <3> QED
      BY <3>2, <3>3, <3>4 DEF StarInv
  <2> QED
    BY <2>1, <2>2 DEF StarInv
<1>3. CASE Replace
  <2>1. phase = "check" /\ phase' = "check" /\ depth' = depth + 1 /\ (z <= 0 \/ ~Inside)
    BY <1>3 DEF Replace
  <2>2. depth = 1
    BY <2>1 DEF StarInv, ZMAX
  <2>3. PICK n \in 0 .. NUMRND - 1 :
          /\ x' = RndX(n) /\ y' = RndY(n) /\ z' = ZMAX
          /\ Project(RndX(n), RndY(n), ZMAX)
    BY <1>3 DEF Replace
  <2>4. PICK r \in -128 .. 127 : RndX(n) = 16 * r
    BY Entries DEF StarScreen
  <2>5. PICK q \in -128 .. 127 : RndY(n) = 16 * q
    BY Entries DEF StarScreen
  <2>6. /\ sx' = CDiv(RndX(n) * 256, ZMAX) + Xres \div 2
        /\ sy' = CDiv(RndY(n) * 256, ZMAX) + Yres \div 2
    BY <2>3 DEF Project, ZMAX
  <2>7. sx' = r + Xres \div 2 /\ sy' = q + Yres \div 2
    BY <2>4, <2>5, <2>6, ProjectNew
  <2>8. sx' \in Int /\ sy' \in Int /\ Inside'
    BY <1>a, <2>7 DEF Inside
  <2>9. x' \in Int /\ y' \in Int /\ z' = ZMAX /\ ZMAX \in Int
    BY <2>3, <2>4, <2>5 DEF ZMAX
  <2> QED
    BY <2>1, <2>2, <2>8, <2>9 DEF StarInv
<1>4. CASE Keep
  BY <1>4 DEF Keep, StarInv, Inside
<1>5. CASE Draw
  <2>1. /\ phase = "draw" /\ z' = z - 24 /\ depth' = depth - 1
        /\ phase' = (IF depth = 1 THEN "idle" ELSE "draw")
        /\ x' = x /\ y' = y /\ sx' = sx /\ sy' = sy
    BY <1>5 DEF Draw
  <2>2. Inside'
    BY <2>1 DEF StarInv, Inside
  <2> QED
    BY <2>1, <2>2 DEF StarInv, ZMAX
<1> QED
  BY <1>1, <1>2, <1>3, <1>4, <1>5 DEF StarNext

\* Every pixel update_star writes, in inner and outer calls, lies three pixels
\* from the border and has a colour of the palette; update_star calls itself
\* once at most.
THEOREM DrawnInsideHolds == StarScreen => (StarSpec => []DrawnInside)
<1>2. SUFFICES ASSUME StarScreen PROVE StarSpec => []DrawnInside
  OBVIOUS
<1>1. StarInv => DrawnInside
  <2> SUFFICES ASSUME StarInv PROVE DrawnInside
    OBVIOUS
  <2>1. depth <= 2
    BY DEF StarInv
  <2>2. ASSUME phase = "draw"
        PROVE  /\ sx \in 3 .. Xres - 3 /\ sy \in 3 .. Yres - 3
               /\ 255 - CDiv(z, 24) \in 0 .. 255
    <3>1. z \in Int /\ 0 <= z /\ z <= 4096
      BY <2>2 DEF StarInv, ZMAX
    <3>2. z \div 24 \in 0 .. 255
      BY <3>1
    <3>3. sx \in Int /\ sy \in Int /\ Inside /\ Xres \in Nat /\ Yres \in Nat
      BY <1>2, <2>2, StarsAssumption DEF StarInv, StarScreen
    <3>4. sx \in 3 .. Xres - 3 /\ sy \in 3 .. Yres - 3
      BY <3>3 DEF Inside
    <3>5. CDiv(z, 24) = z \div 24
      BY <3>1 DEF CDiv
    <3> DEFINE q == z \div 24
    <3>6. q \in 0 .. 255
      BY <3>2
    <3> HIDE DEF q
    <3>7. 255 - q \in 0 .. 255
      BY <3>6
    <3> QED
      BY <3>4, <3>5, <3>7 DEF q
  <2> QED
    BY <2>1, <2>2 DEF DrawnInside
<1>3. StarInit => StarInv
  BY <1>2, StarInvInit
<1>4. StarInv /\ [StarNext]_starVars => StarInv'
  BY <1>2, StarInvNext
<1> QED
  BY <1>1, <1>3, <1>4, PTL DEF StarSpec

\* The four strips of main.c leave no gap between the border rows.
LEMMA StripsCover ==
  ASSUME NR_THREADS = 4, Yres % 4 = 0, NEW r \in 1 .. Yres - 3
  PROVE  \E id \in Workers : r \in StripRows(id)
<1> DEFINE h == Yres \div 4
<1>1. Yres \in Nat /\ Yres >= 4
  BY ThreadsAssumption
<1>2. h \in Nat /\ h >= 1 /\ Yres = 4 * h
  BY <1>1
<1> HIDE DEF h
<1>3. StripHeight = h /\ Last = 3 /\ NR_THREADS \div 2 = 2
  BY DEF StripHeight, Last, h
<1>4. /\ FirstRow(0) = 1 /\ LastRow(0) = h - 1
      /\ FirstRow(1) = h /\ LastRow(1) = 2 * h - 2
      /\ FirstRow(2) = 2 * h - 1 /\ LastRow(2) = 3 * h - 3
      /\ FirstRow(3) = 3 * h - 2 /\ LastRow(3) = 4 * h - 3
  BY <1>2, <1>3 DEF FirstRow, LastRow, FadeBase, FadeHeight
<1>5. r \in StripRows(0) \/ r \in StripRows(1) \/ r \in StripRows(2) \/ r \in StripRows(3)
  BY <1>2, <1>4 DEF StripRows
<1>6. 0 \in Workers /\ 1 \in Workers /\ 2 \in Workers /\ 3 \in Workers
  BY DEF Workers
<1> QED
  BY <1>5, <1>6

\* A star is drawn on a row that one of the workers fades.
StarsFaded == phase = "draw" => \E id \in Workers : sy \in StripRows(id)

\* With the four workers of main.c, and a number of rows they can share,
\* every star that is drawn is faded again.
THEOREM StarsFadedHolds ==
  StarScreen /\ NR_THREADS = 4 /\ Yres % 4 = 0 => (StarSpec => []StarsFaded)
<1>1. SUFFICES ASSUME StarScreen, NR_THREADS = 4, Yres % 4 = 0
               PROVE  StarSpec => []StarsFaded
  OBVIOUS
<1>2. DrawnInside => StarsFaded
  <2> SUFFICES ASSUME DrawnInside, phase = "draw"
               PROVE  \E id \in Workers : sy \in StripRows(id)
    BY DEF StarsFaded
  <2>1. sy \in 3 .. Yres - 3 /\ Yres \in Nat
    BY ThreadsAssumption DEF DrawnInside
  <2>2. sy \in 1 .. Yres - 3
    BY <2>1
  <2> QED
    BY <1>1, <2>2, StripsCover
<1>3. StarSpec => []DrawnInside
  BY <1>1, DrawnInsideHolds
<1> QED
  BY <1>2, <1>3, PTL
----------------------------------------------------------------------------
(* The image *)

\* No pixel is brighter than b, and those faded in this pass are darker.
Dimmed(img, faded, b) ==
  \A p \in DOMAIN img : /\ img[p] \in 0 .. b
                        /\ p \in faded /\ b > 0 => img[p] < b

\* fade() (fader.c:10-16) works in place, and the workers read rows that others
\* write.  Whatever the order of the pixels, and whether a neighbour is read before
\* or after it was faded: no pixel becomes brighter than the image was, the sum
\* of four fits its byte again, and when a pass has been over all
\* pixels that are not black the brightest is darker than before.
THEOREM FadeDarkens ==
  ASSUME NEW b \in 0 .. 255, NEW img, NEW faded, Dimmed(img, faded, b), NEW p \in DOMAIN img,
         NEW left \in 0 .. b, NEW right \in 0 .. b, NEW above \in 0 .. b, NEW below \in 0 .. b
  PROVE  /\ Dimmed([img EXCEPT ![p] = Faded(left, right, above, below)], faded \cup {p}, b)
         /\ \A g : Dimmed(g, DOMAIN g, b) /\ b > 0 => Dimmed(g, {}, b - 1)
<1> DEFINE v == Faded(left, right, above, below)
           new == [img EXCEPT ![p] = v]
<1>1. v \in 0 .. b /\ (b > 0 => v < b)
  <2> DEFINE av == (left + right + above + below) \div 4
  <2>1. av \in 0 .. b
    OBVIOUS
  <2>2. v = IF av > 0 THEN av - 1 ELSE av
    BY DEF Faded
  <2> HIDE DEF av, v
  <2> QED
    BY <2>1, <2>2
<1> HIDE DEF v
<1>2. ASSUME NEW q \in DOMAIN new
      PROVE  new[q] \in 0 .. b /\ (q \in faded \cup {p} /\ b > 0 => new[q] < b)
  <2>1. q \in DOMAIN img
    OBVIOUS
  <2>2. CASE q = p
    BY <1>1, <2>1, <2>2
  <2>3. CASE q # p
    <3>1. new[q] = img[q] /\ (q \in faded \cup {p} => q \in faded)
      BY <2>1, <2>3
    <3> QED
      BY <2>1, <3>1 DEF Dimmed
  <2> QED
    BY <2>2, <2>3
<1>3. Dimmed(new, faded \cup {p}, b)
  BY <1>2 DEF Dimmed
<1>4. ASSUME NEW g, Dimmed(g, DOMAIN g, b), b > 0 PROVE Dimmed(g, {}, b - 1)
  BY <1>4 DEF Dimmed
<1> QED
  BY <1>3, <1>4 DEF v
============================================================================
