------------------------------- MODULE Stars -------------------------------
(***************************************************************************)
(* The stars of the starfield demo (patches/code/starfield/starfield.c).   *)
(* A star flies towards the screen; update_star projects it, replaces it   *)
(* by a new one and calls itself when it has left the screen, draws it and *)
(* moves it closer.  A caller whose star was replaced draws and moves it   *)
(* once more when the inner call returns.                                  *)
(*                                                                         *)
(* The stars share nothing but the counter `num' of create_star, so one    *)
(* star is modelled and create_star takes any entry of the random table.   *)
(***************************************************************************)
EXTENDS Integers, Screen

CONSTANTS NUMRND, rndtable,   \* the random table, 0 .. NUMRND-1 -> signed char
          MaxDepth            \* bound on the calls of update_star on the stack

ZMAX == 4096

ASSUME StarsAssumption ==
  /\ NUMRND \in Nat \ {0}
  /\ rndtable \in [0 .. NUMRND - 1 -> -128 .. 127]
  /\ Xres \in Nat /\ Yres \in Nat
  /\ MaxDepth \in Nat \ {0}

VARIABLES phase,      \* what the current call of update_star does next
          depth,      \* calls of update_star on the stack
          x, y, z,    \* the star
          sx, sy      \* screen_x, screen_y

starVars == <<phase, depth, x, y, z, sx, sy>>

StarTypeOK ==
  /\ phase \in {"start", "idle", "check", "draw"}
  /\ depth \in 0 .. MaxDepth
  /\ x \in {16 * r : r \in -128 .. 127}
  /\ y \in {16 * r : r \in -128 .. 127}
  /\ z \in -24 .. ZMAX
  /\ sx \in Int /\ sy \in Int

\* Division of C: towards zero.
CDiv(a, b) == IF a >= 0 THEN a \div b ELSE -((-a) \div b)

RndX(n) == 16 * rndtable[n]
RndY(n) == 16 * rndtable[(n + NUMRND \div 2) % NUMRND]

InitZ(n) == (rndtable[n] + 127) * (ZMAX \div 256)

\* init_starfield: create_star, then a random depth.
StarInit ==
  /\ phase = "start"
  /\ depth = 0
  /\ \E n \in 0 .. NUMRND - 1 : x = RndX(n) /\ y = RndY(n) /\ z = InitZ(n)
  /\ sx = 0 /\ sy = 0
----------------------------------------------------------------------------
\* A division by zero leaves any value; one on and one off the screen stand
\* for all of them.
Garbage == {0, 3}

\* Lines 108 and 109 of a call for a star at u, v, w.  A star behind the
\* screen is replaced whatever its coordinates are.
Project(u, v, w) ==
  IF w = 0 THEN sx' \in Garbage /\ sy' \in Garbage
  ELSE /\ sx' = IF w > 0 THEN CDiv(u * 256, w) + Xres \div 2 ELSE 0
       /\ sy' = IF w > 0 THEN CDiv(v * 256, w) + Yres \div 2 ELSE 0

\* The comparisons are unsigned: a negative coordinate counts as a large one.
Inside ==
  /\ 2 < sx /\ sx < Xres - 2
  /\ 2 < sy /\ sy < Yres - 2

\* calc_starfield calls update_star.
Call ==
  /\ phase \in {"start", "idle"}
  /\ phase' = "check"
  /\ depth' = 1
  /\ Project(x, y, z)
  /\ UNCHANGED <<x, y, z>>

\* create_star and the recursive call.  Having divided by z the compiler may
\* assume it is not 0, so for z = 0 the test (0 >= z) may go either way.
Replace ==
  /\ phase = "check"
  /\ z <= 0 \/ ~Inside
  /\ depth < MaxDepth
  /\ \E n \in 0 .. NUMRND - 1 :
       x' = RndX(n) /\ y' = RndY(n) /\ z' = ZMAX /\ Project(RndX(n), RndY(n), ZMAX)
  /\ depth' = depth + 1
  /\ UNCHANGED phase

\* Mutant: the star is not tested against the screen.
KeepAll ==
  /\ phase = "check"
  /\ z >= 0
  /\ phase' = "draw"
  /\ UNCHANGED <<depth, x, y, z, sx, sy>>

Keep ==
  /\ phase = "check"
  /\ z >= 0 /\ Inside
  /\ phase' = "draw"
  /\ UNCHANGED <<depth, x, y, z, sx, sy>>

\* Mutant: the star stands still.
DrawStill ==
  /\ phase = "draw"
  /\ depth' = depth - 1
  /\ phase' = IF depth = 1 THEN "idle" ELSE "draw"
  /\ UNCHANGED <<x, y, z, sx, sy>>

\* screen[...] = 255 - z/24; z -= 24; return
Draw ==
  /\ phase = "draw"
  /\ z' = z - 24
  /\ depth' = depth - 1
  /\ phase' = IF depth = 1 THEN "idle" ELSE "draw"
  /\ UNCHANGED <<x, y, sx, sy>>

StarNext == Call \/ Replace \/ Keep \/ Draw

StarSpec == StarInit /\ [][StarNext]_starVars

\* main calls calc_starfield again and again.
FairStarSpec == StarSpec /\ WF_starVars(StarNext)
----------------------------------------------------------------------------
(* Properties *)

\* Every pixel written, by the inner and by the outer calls, lies at least
\* three pixels from the border, so fade() can erase it, and has a colour of
\* the palette although z goes on falling while the calls return.  A new star
\* is on the screen: update_star calls itself once at most.
DrawnInside ==
  /\ depth <= 2
  /\ phase = "draw" =>
       /\ sx \in 3 .. Xres - 3 /\ sy \in 3 .. Yres - 3
       /\ 255 - CDiv(z, 24) \in 0 .. 255

\* No star stays for ever: each one is replaced, whatever depth it began at.
StarsRenewed == []<>(phase = "draw" /\ z = ZMAX)
============================================================================
