---------------------------- MODULE FadeThreads ----------------------------
(***************************************************************************)
(* The starfield demo (patches/code/starfield): main draws stars into the  *)
(* mapped frame buffer and NR_THREADS workers fade it, each its own strip  *)
(* of rows.  Main and worker id meet through two counting semaphores,      *)
(* sem_main[id] (worker idle) and sem[id] (worker released).  SIGINT       *)
(* clears the flag `running' at any moment; main then has to stop the      *)
(* workers, restore the palette and unmap the frame buffer.                *)
(*                                                                         *)
(* One action is one statement of main.c that another thread can observe:  *)
(* a semaphore call, a read of `running', one row of fade().  `running' is *)
(* a plain int, but every loop that reads it calls functions of other      *)
(* translation units in its body, so each test is a fresh read.  signal()  *)
(* restarts an interrupted sem_wait: it never returns early.               *)
(***************************************************************************)
EXTENDS Integers, Screen

CONSTANTS NR_THREADS,   \* number of fade workers (4 in main.c)
          Frames        \* star frames between two fades: j counts 0..Frames

ASSUME ThreadsAssumption ==
  /\ NR_THREADS \in Nat \ {0}
  /\ Yres \in Nat
  /\ Yres >= NR_THREADS      \* every strip has a row
  /\ Frames \in Nat

VARIABLES running,      \* the flag cleared by exit_prog
          mpc, mi, j,   \* main: control point, loop index i, frame counter j
          wpc, wrow,    \* workers: control point, row being faded
          sem, sem_main,
          mapped,       \* fbp is mapped
          palette,      \* colour map of the device
          pending       \* history: rows of a released strip not yet faded

vars == <<running, mpc, mi, j, wpc, wrow, sem, sem_main, mapped, palette, pending>>
wvars == <<wpc, wrow, pending>>

Workers == 0 .. NR_THREADS - 1
Last    == NR_THREADS - 1
----------------------------------------------------------------------------
(* Geometry: the strip of worker id as fade() is called on it.  fade()     *)
(* reads every row of the strip it is given and writes all of them but the *)
(* first and the last.                                                     *)

StripHeight == Yres \div NR_THREADS

FadeBase(id) == id * (StripHeight - 1)

\* Mutant: every strip is taller by two rows.
TallHeight(id) == StripHeight + 2
FadeHeight(id) ==
  StripHeight + (IF id = Last THEN NR_THREADS \div 2 ELSE 1)
FirstRow(id) == FadeBase(id) + 1
LastRow(id) == FadeBase(id) + FadeHeight(id) - 2
StripRows(id) == FirstRow(id) .. LastRow(id)

\* What fade() makes of a pixel, from its neighbours as they are read: at the
\* edge of a strip another worker may have written them or not.  The order and
\* the colours do not matter to the threads, only to the image.
Faded(left, right, above, below) ==
  LET av == (left + right + above + below) \div 4
  IN  IF av > 0 THEN av - 1 ELSE av
----------------------------------------------------------------------------
MainPoints ==
  {"setup", "palette", "signal", "create", "test", "calc", "waitMain",
   "postSem", "exitPost", "exitJoin", "restore", "unmap", "done",
   "failed", "killed"}
WorkerPoints == {"none", "test", "post", "wait", "fade", "lastPost", "done"}

TypeOK ==
  /\ running \in BOOLEAN
  /\ mpc \in MainPoints
  /\ mi \in Workers
  /\ j \in 0 .. Frames
  /\ wpc \in [Workers -> WorkerPoints]
  /\ wrow \in [Workers -> Int]
  /\ sem \in [Workers -> Nat]
  /\ sem_main \in [Workers -> Nat]
  /\ mapped \in BOOLEAN
  /\ palette \in {"orig", "stars"}
  /\ pending \in [Workers -> SUBSET Int]

Init ==
  /\ running = TRUE
  /\ mpc = "setup"
  /\ mi = 0
  /\ j = 0
  /\ wpc = [id \in Workers |-> "none"]
  /\ wrow = [id \in Workers |-> 0]
  /\ sem = [id \in Workers |-> 0]
  /\ sem_main = [id \in Workers |-> 0]
  /\ mapped = FALSE
  /\ palette = "orig"
  /\ pending = [id \in Workers |-> {}]
----------------------------------------------------------------------------
(* main: set-up *)

\* open, the two FBIOGET ioctls and mmap all succeed.
SetupOK ==
  /\ mpc = "setup"
  /\ mapped' = TRUE
  /\ mpc' = "palette"
  /\ UNCHANGED <<running, mi, j, sem, sem_main, palette, wvars>>

\* One of them fails: main returns 1..4.
SetupFail ==
  /\ mpc = "setup"
  /\ mpc' = "failed"
  /\ UNCHANGED <<running, mi, j, sem, sem_main, mapped, palette, wvars>>

\* init_starfield; the old colour map is saved and ours installed.
SetPalette ==
  /\ mpc = "palette"
  /\ palette' = "stars"
  /\ mpc' = "signal"
  /\ UNCHANGED <<running, mi, j, sem, sem_main, mapped, wvars>>

\* Reading or writing the colour map fails: main returns 5 or 6.
PaletteFail ==
  /\ mpc = "palette"
  /\ mpc' = "failed"
  /\ UNCHANGED <<running, mi, j, sem, sem_main, mapped, palette, wvars>>

InstallHandler ==
  /\ mpc = "signal"
  /\ mpc' = "create"
  /\ mi' = 0
  /\ UNCHANGED <<running, j, sem, sem_main, mapped, palette, wvars>>

\* for (i...) { sem_init; sem_init; pthread_create } : worker mi starts.
CreateThread ==
  /\ mpc = "create"
  /\ sem' = [sem EXCEPT ![mi] = 0]
  /\ sem_main' = [sem_main EXCEPT ![mi] = 0]
  /\ wpc' = [wpc EXCEPT ![mi] = "test"]
  /\ IF mi = Last THEN mi' = 0 /\ mpc' = "test"
                  ELSE mi' = mi + 1 /\ mpc' = mpc
  /\ UNCHANGED <<running, j, mapped, palette, wrow, pending>>
----------------------------------------------------------------------------
(* main: frame loop *)

\* while (running)
MainTest ==
  /\ mpc = "test"
  /\ mi' = 0
  /\ mpc' = IF running THEN "calc" ELSE "exitPost"
  /\ UNCHANGED <<running, j, sem, sem_main, mapped, palette, wvars>>

\* calc_starfield(); if (j++ < 4) continue; j = 0;
CalcStarfield ==
  /\ mpc = "calc"
  /\ IF j < Frames THEN j' = j + 1 /\ mpc' = "test"
                   ELSE j' = 0 /\ mpc' = "waitMain"
  /\ UNCHANGED <<running, mi, sem, sem_main, mapped, palette, wvars>>

\* sem_wait(&sem_main[i])
WaitMain ==
  /\ mpc = "waitMain"
  /\ sem_main[mi] > 0
  /\ sem_main' = [sem_main EXCEPT ![mi] = @ - 1]
  /\ mpc' = "postSem"
  /\ UNCHANGED <<running, mi, j, sem, mapped, palette, wvars>>

\* Mutant: a posted release counts twice.
DoublePost ==
  /\ mpc = "postSem"
  /\ sem' = [sem EXCEPT ![mi] = @ + 2]
  /\ pending' = [pending EXCEPT ![mi] = StripRows(mi)]
  /\ IF mi = Last THEN mi' = 0 /\ mpc' = "test"
                  ELSE mi' = mi + 1 /\ mpc' = "waitMain"
  /\ UNCHANGED <<running, j, sem_main, mapped, palette, wpc, wrow>>

\* sem_post(&sem[i]); next i
PostSem ==
  /\ mpc = "postSem"
  /\ sem' = [sem EXCEPT ![mi] = @ + 1]
  /\ pending' = [pending EXCEPT ![mi] = StripRows(mi)]
  /\ IF mi = Last THEN mi' = 0 /\ mpc' = "test"
                  ELSE mi' = mi + 1 /\ mpc' = "waitMain"
  /\ UNCHANGED <<running, j, sem_main, mapped, palette, wpc, wrow>>
----------------------------------------------------------------------------
(* main: shutdown *)

\* Mutant: the workers are joined without a last post.
NoExitPost ==
  /\ mpc = "exitPost"
  /\ mpc' = "exitJoin"
  /\ UNCHANGED <<running, mi, j, sem, sem_main, mapped, palette, wvars>>

\* sem_post(&sem[i]) of the last loop
ExitPost ==
  /\ mpc = "exitPost"
  /\ sem' = [sem EXCEPT ![mi] = @ + 1]
  /\ mpc' = "exitJoin"
  /\ UNCHANGED <<running, mi, j, sem_main, mapped, palette, wvars>>

\* Mutant: the workers are detached, not joined.
NoJoin ==
  /\ mpc = "exitJoin"
  /\ IF mi = Last THEN mi' = mi /\ mpc' = "restore"
                  ELSE mi' = mi + 1 /\ mpc' = "exitPost"
  /\ UNCHANGED <<running, j, sem, sem_main, mapped, palette, wvars>>

\* pthread_join(thread_id[i], 0); next i
ExitJoin ==
  /\ mpc = "exitJoin"
  /\ wpc[mi] = "done"
  /\ IF mi = Last THEN mi' = mi /\ mpc' = "restore"
                  ELSE mi' = mi + 1 /\ mpc' = "exitPost"
  /\ UNCHANGED <<running, j, sem, sem_main, mapped, palette, wvars>>

\* ioctl(fbfd, FBIOPUTCMAP, &ocmap): the device took the same call in SetPalette.
RestorePalette ==
  /\ mpc = "restore"
  /\ palette' = "orig"
  /\ mpc' = "unmap"
  /\ UNCHANGED <<running, mi, j, sem, sem_main, mapped, wvars>>

\* munmap, close, default signal action, return 0
Unmap ==
  /\ mpc = "unmap"
  /\ mapped' = FALSE
  /\ mpc' = "done"
  /\ UNCHANGED <<running, mi, j, sem, sem_main, palette, wvars>>
----------------------------------------------------------------------------
(* fade_worker *)

\* while (running)
WorkerTest(id) ==
  /\ wpc[id] = "test"
  /\ wpc' = [wpc EXCEPT ![id] = IF running THEN "post" ELSE "lastPost"]
  /\ UNCHANGED <<running, mpc, mi, j, sem, sem_main, mapped, palette, wrow, pending>>

\* Mutant: the worker does not announce that it is idle.
SkipPost(id) ==
  /\ wpc[id] = "post"
  /\ wpc' = [wpc EXCEPT ![id] = "wait"]
  /\ UNCHANGED <<running, mpc, mi, j, sem, sem_main, mapped, palette, wrow, pending>>

\* sem_post(&sem_main[id])
WorkerPost(id) ==
  /\ wpc[id] = "post"
  /\ sem_main' = [sem_main EXCEPT ![id] = @ + 1]
  /\ wpc' = [wpc EXCEPT ![id] = "wait"]
  /\ UNCHANGED <<running, mpc, mi, j, sem, mapped, palette, wrow, pending>>

\* Mutant: the worker announces the end of fade() before it starts.
EagerWait(id) ==
  /\ wpc[id] = "wait"
  /\ sem[id] > 0
  /\ sem' = [sem EXCEPT ![id] = @ - 1]
  /\ sem_main' = [sem_main EXCEPT ![id] = @ + 1]
  /\ wpc' = [wpc EXCEPT ![id] = "fade"]
  /\ wrow' = [wrow EXCEPT ![id] = FirstRow(id)]
  /\ UNCHANGED <<running, mpc, mi, j, mapped, palette, pending>>

\* sem_wait(&sem[id]), then fade() enters its row loop
WorkerWait(id) ==
  /\ wpc[id] = "wait"
  /\ sem[id] > 0
  /\ sem' = [sem EXCEPT ![id] = @ - 1]
  /\ wpc' = [wpc EXCEPT ![id] = "fade"]
  /\ wrow' = [wrow EXCEPT ![id] = FirstRow(id)]
  /\ UNCHANGED <<running, mpc, mi, j, sem_main, mapped, palette, pending>>

\* one iteration of the row loop of fade()
FadeRow(id) ==
  /\ wpc[id] = "fade"
  /\ wrow[id] <= LastRow(id)
  /\ wrow' = [wrow EXCEPT ![id] = @ + 1]
  /\ pending' = [pending EXCEPT ![id] = @ \ {wrow[id]}]
  /\ UNCHANGED <<running, mpc, mi, j, wpc, sem, sem_main, mapped, palette>>

FadeReturns(id) ==
  /\ wpc[id] = "fade"
  /\ wrow[id] > LastRow(id)
  /\ wpc' = [wpc EXCEPT ![id] = "test"]
  /\ UNCHANGED <<running, mpc, mi, j, sem, sem_main, mapped, palette, wrow, pending>>

\* sem_post(&sem_main[id]) after the loop; return
WorkerLastPost(id) ==
  /\ wpc[id] = "lastPost"
  /\ sem_main' = [sem_main EXCEPT ![id] = @ + 1]
  /\ wpc' = [wpc EXCEPT ![id] = "done"]
  /\ UNCHANGED <<running, mpc, mi, j, sem, mapped, palette, wrow, pending>>
----------------------------------------------------------------------------
(* SIGINT *)

HandlerInstalled == mpc \notin {"setup", "palette", "signal", "done", "failed", "killed"}

\* exit_prog, run by whichever thread the signal interrupts
ExitProg ==
  /\ HandlerInstalled
  /\ running' = FALSE
  /\ UNCHANGED <<mpc, mi, j, sem, sem_main, mapped, palette, wvars>>

\* Before signal(SIGINT, exit_prog) the default action ends the process;
\* the kernel drops the mapping, nobody restores the colour map.
Killed ==
  /\ mpc \in {"setup", "palette", "signal"}
  /\ mpc' = "killed"
  /\ mapped' = FALSE
  /\ UNCHANGED <<running, mi, j, sem, sem_main, palette, wvars>>

\* The process is gone.
Stopped ==
  /\ mpc \in {"done", "failed", "killed"}
  /\ UNCHANGED vars
----------------------------------------------------------------------------
Main ==
  \/ SetupOK \/ SetupFail \/ SetPalette \/ PaletteFail \/ InstallHandler
  \/ CreateThread \/ MainTest \/ CalcStarfield \/ WaitMain \/ PostSem
  \/ ExitPost \/ ExitJoin \/ RestorePalette \/ Unmap

Worker(id) ==
  \/ WorkerTest(id) \/ WorkerPost(id) \/ WorkerWait(id)
  \/ FadeRow(id) \/ FadeReturns(id) \/ WorkerLastPost(id)

Next ==
  \/ Main
  \/ \E id \in Workers : Worker(id)
  \/ ExitProg \/ Killed \/ Stopped

Spec == Init /\ [][Next]_vars

\* The scheduler runs every thread that can run; nobody promises a SIGINT.
FairSpec == Spec /\ WF_vars(Main) /\ \A id \in Workers : WF_vars(Worker(id))
----------------------------------------------------------------------------
(* Properties *)

\* A thread touches the frame buffer only while it is mapped, and only inside
\* the mapping: no worker is still inside fade() when main has called munmap,
\* whatever the moment of the SIGINT, and the rows fade() reads around the one
\* it writes are rows of the screen.
AccessMapped ==
  /\ mpc = "calc" => mapped
  /\ \A id \in Workers :
       wpc[id] = "fade" /\ wrow[id] <= LastRow(id)
         => mapped /\ wrow[id] - 1 \in 0 .. Yres - 1 /\ wrow[id] + 1 \in 0 .. Yres - 1

\* The barrier of the frame loop: when main has got sem_main[i] and is about
\* to release worker i again, every row of the strip it released before has
\* been faded.  No release is lost or overtaken by the next one.
Lockstep == mpc = "postSem" => pending[mi] = {}

\* Main has done the shutdown post of worker id.
ExitPosted(id) ==
  \/ mpc \in {"restore", "unmap", "done"}
  \/ mpc = "exitJoin" /\ id <= mi
  \/ mpc = "exitPost" /\ id < mi

(* The refinement mapping.  A worker is released while it has a post to    *)
(* wait for; the rows left to a worker that has returned are nobody's.     *)

StateOf(id) ==
  CASE wpc[id] = "none" -> "absent"
    [] wpc[id] = "wait" /\ sem[id] > 0 -> "released"
    [] wpc[id] = "fade" -> "fading"
    [] wpc[id] = "done" -> "returned"
    [] OTHER -> "idle"
LeftOf(id) == IF wpc[id] = "done" THEN {} ELSE pending[id]
Turn == IF mpc \in {"waitMain", "postSem"} THEN mi ELSE 0

Barrier == INSTANCE StripBarrier WITH
  N <- NR_THREADS,
  Strip <- [id \in Workers |-> StripRows(id)],
  stopping <- ~running,
  screen <- mapped,
  state <- [id \in Workers |-> StateOf(id)],
  left <- [id \in Workers |-> LeftOf(id)],
  turn <- Turn

\* The two semaphores of each worker implement the barrier: workers are
\* released in turn, each only when it is idle and its last strip complete;
\* a second release, or a wake-up nobody asked for, needs a SIGINT before it;
\* a worker returns only after a SIGINT, and munmap waits for all of them.
ImplementsBarrier == Barrier!Spec

\* Two workers are never about to write the same row.
OneWriterPerRow ==
  \A a, b \in Workers :
    a # b /\ wpc[a] = "fade" /\ wpc[b] = "fade"
      /\ wrow[a] \in StripRows(a) /\ wrow[b] \in StripRows(b)
    => wrow[a] # wrow[b]

\* After a SIGINT the program ends, with the colours of the console restored
\* and the frame buffer unmapped: main joins every worker however the signal
\* interleaves with the two semaphores.
SigintStops == (~running) ~> (mpc = "done" /\ palette = "orig" /\ ~mapped)

\* As long as no SIGINT arrives every worker fades again and again.
KeepsFading ==
  \A id \in Workers :
    (mpc = "test" /\ running) ~> (wpc[id] = "fade" \/ ~running)
============================================================================
