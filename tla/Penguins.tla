------------------------------ MODULE Penguins ------------------------------
(***************************************************************************)
(* The penguin demo (patches/code/fbview2/df_andi.c): main loads its       *)
(* resources, then moves and draws a linked list of penguins frame by      *)
(* frame and handles the keys that came in meanwhile: add and remove       *)
(* penguins, send them into a formation read from a mask image, set them   *)
(* free again, quit.                                                       *)
(*                                                                         *)
(* The list is kept as the code keeps it: nodes on a heap, a pointer to    *)
(* the first and one to the last, and a count beside them.  DirectFB is    *)
(* external: its interfaces are names in `held'.  Which picture of a       *)
(* penguin is shown (frame lists, delay, frame set) and the texts on the   *)
(* screen are left out.                                                    *)
(***************************************************************************)
EXTENDS Integers, Sequences, FiniteSets, FiniteSetsExt

CONSTANTS XRes, YRes,            \* size of the primary surface
          XSprite, YSprite,      \* XSPRITESIZE, YSPRITESIZE
          Step,                  \* argument of move_penguins
          Walks,                 \* pairs of (myrand() % 100) - 50
          Jitters,               \* pairs of (myrand() % 3) - 1
          MaskWidth, MaskHeight, \* DESTINATION_MASK_WIDTH, _HEIGHT
          Masks,                 \* possible sets of black pixels of the mask
          Initial, PerKey,       \* penguins at the start (200) and per key (10)
          Batch,                 \* penguins per BatchBlit (256)
          MaxPenguins,           \* bound on the list
          MaxKeys                \* bound on the keys that are pressed

ASSUME PenguinsAssumption ==
  /\ {XRes, YRes, XSprite, YSprite} \subseteq Nat
  /\ XRes >= 2 * XSprite /\ YRes >= 2 * YSprite   \* the screen is not tiny
  /\ {Step, Batch, MaskWidth, MaskHeight} \subseteq Nat \ {0}
  /\ Walks \subseteq Int \X Int /\ Jitters \subseteq Int \X Int
  /\ Masks \subseteq SUBSET (Nat \X Nat)
  /\ {Initial, PerKey, MaxPenguins} \subseteq Nat /\ Initial <= MaxPenguins

VARIABLES pc, step,              \* control point; index into Setup or Deinit
          held,                  \* DirectFB interfaces not yet released
          triple,                \* triple buffering
          heap,                  \* address -> penguin, or Free
          penguins, last_penguin, population,
          number,                \* argument of spawn_penguins, destroy_penguins
          coords,                \* formation points; nr_coords is its size
          clipping, quit, keys,
          j, p, drawn            \* draw_penguins: left to draw, next, blitted

vars == <<pc, step, held, triple, heap, penguins, last_penguin, population,
          number, coords, clipping, quit, keys, j, p, drawn>>
list == <<heap, penguins, last_penguin, population>>
drawing == <<j, p, drawn>>
resources == <<step, held, triple>>
----------------------------------------------------------------------------
(* The linked list *)

NULL == 0
Addr == 1 .. MaxPenguins
Free == [moving |-> FALSE, next |-> NULL]
Live(a) == a \in Addr /\ heap[a] # Free
Succ(a) == IF Live(a) THEN heap[a].next ELSE NULL

\* The pointers met when the list is followed from a.
Chain(a) == LET at[k \in 0 .. MaxPenguins] == IF k = 0 THEN a ELSE Succ(at[k - 1])
            IN  at
List == {Chain(penguins)[k] : k \in 0 .. MaxPenguins} \ {NULL}

\* A new penguin, in the middle of the screen.
NewPenguin == [x |-> XRes \div 2, y |-> YRes \div 2, x_togo |-> 0, y_togo |-> 0,
               moving |-> TRUE, next |-> NULL]

\* Mutant: the test is on the pointer to the last penguin.
spawn_behind_last ==
  \E a \in Addr :
    /\ ~Live(a)
    /\ IF last_penguin = NULL
       THEN penguins' = a /\ heap' = [heap EXCEPT ![a] = NewPenguin]
       ELSE /\ heap' = [b \in Addr |->
                          IF b = a THEN NewPenguin
                          ELSE IF b = last_penguin /\ Live(b)
                               THEN [heap[b] EXCEPT !.next = a] ELSE heap[b]]
            /\ UNCHANGED penguins
    /\ last_penguin' = a
    /\ population' = population + 1

\* spawn_penguin: the new node is the list, or goes behind the last one.
spawn_penguin ==
  \E a \in Addr :
    /\ ~Live(a)
    /\ IF penguins = NULL
       THEN penguins' = a /\ heap' = [heap EXCEPT ![a] = NewPenguin]
       ELSE /\ heap' = [heap EXCEPT ![a] = NewPenguin, ![last_penguin].next = a]
            /\ UNCHANGED penguins
    /\ last_penguin' = a
    /\ population' = population + 1

\* destroy_penguin: the first one goes; last_penguin is left as it is.
destroy_penguin ==
  IF penguins = NULL
  THEN UNCHANGED list
  ELSE /\ penguins' = Succ(penguins)
       /\ heap' = [heap EXCEPT ![penguins] = Free]
       /\ population' = population - 1
       /\ UNCHANGED last_penguin
----------------------------------------------------------------------------
(* Moving one penguin *)

Abs(n) == IF n < 0 THEN -n ELSE n

\* Mutant: a rest smaller than a step is kept.
KeepRest(togo) == togo
Snap(togo) == IF Abs(togo) < Step THEN 0 ELSE togo

\* The two tests on the way to go, one after the other: a walk shorter than
\* a step goes forth and back.
Advance(pos, togo) ==
  LET there == IF togo > 0 THEN <<pos - Step, togo - Step>> ELSE <<pos, togo>>
  IN  IF there[2] < 0 THEN <<there[1] + Step, there[2] + Step>> ELSE there

\* Mutant: the picture may hang over the edge.
ClipOver(pos, size, sprite) == IF pos < 0 THEN 0 ELSE IF pos > size THEN size ELSE pos
Clip(pos, size, sprite) ==
  IF pos < 0 THEN 0 ELSE IF pos > size - sprite THEN size - sprite ELSE pos

\* One turn of the loop of move_penguins, with its random numbers.
MovePenguin(q, walk, jitter) ==
  LET sx == Snap(q.x_togo)
      sy == Snap(q.y_togo)
      rest == sx = 0 /\ sy = 0
      togo == IF rest /\ q.moving THEN walk ELSE <<sx, sy>>
      shake == IF rest /\ ~q.moving THEN jitter ELSE <<0, 0>>
      ax == Advance(q.x + shake[1], togo[1])
      ay == Advance(q.y + shake[2], togo[2])
  IN  [q EXCEPT !.x = Clip(ax[1], XRes, XSprite), !.x_togo = ax[2],
                !.y = Clip(ay[1], YRes, YSprite), !.y_togo = ay[2]]

\* The way to a formation point: a float, cut off towards zero.
ToGo(pos, c, res) ==
  LET d == 1000 * pos - c * res
  IN  IF d < 0 THEN -((-d) \div 1000) ELSE d \div 1000
----------------------------------------------------------------------------
(* init_resources: a call takes an interface or gives one back.  All are   *)
(* made through DFBCHECK, which ends the program when the call fails; only *)
(* the first try for the primary surface is not.                           *)

Setup ==
  <<<<"get", "dfb">>, <<"get", "keybuffer">>, <<"get", "layer">>, <<"put", "layer">>,
    <<"get", "primary">>, <<"get", "font">>,
    <<"get", "provider">>, <<"get", "tuximage">>, <<"put", "provider">>,
    <<"get", "provider">>, <<"get", "background">>, <<"put", "provider">>,
    <<"get", "provider">>, <<"get", "destination_mask">>, <<"put", "provider">>>>

\* Mutant: the mask is forgotten.
DeinitShort == <<"tuximage", "background", "primary", "keybuffer", "font", "dfb">>
Deinit == <<"tuximage", "background", "destination_mask", "primary", "keybuffer", "font", "dfb">>

Init ==
  /\ pc = "setup" /\ step = 1 /\ held = {}
  /\ triple \in BOOLEAN
  /\ heap = [a \in Addr |-> Free]
  /\ penguins = NULL /\ last_penguin = NULL /\ population = 0
  /\ number = 0
  /\ coords = {}
  /\ clipping = FALSE /\ quit = FALSE /\ keys = 0
  /\ j = 0 /\ p = NULL /\ drawn = <<>>

SetupCall ==
  /\ pc = "setup"
  /\ held' = IF Setup[step][1] = "get" THEN held \cup {Setup[step][2]}
                                       ELSE held \ {Setup[step][2]}
  /\ step' = step + 1
  /\ pc' = IF step = Len(Setup) THEN "mask" ELSE "setup"
  /\ UNCHANGED <<triple, list, number, coords, clipping, quit, keys, drawing>>

\* DFBCHECK ends the program.
SetupFatal ==
  /\ pc = "setup"
  /\ Setup[step][1] = "get" /\ (Setup[step][2] = "primary" => triple)
  /\ pc' = "fatal"
  /\ UNCHANGED <<resources, list, number, coords, clipping, quit, keys, drawing>>

\* No triple buffered surface: double buffering is tried instead.
SetupDouble ==
  /\ pc = "setup"
  /\ Setup[step][2] = "primary" /\ triple
  /\ triple' = FALSE
  /\ held' = held \cup {"primary"}
  /\ step' = step + 1
  /\ UNCHANGED <<pc, list, number, coords, clipping, quit, keys, drawing>>

\* Without triple buffering the first try is not checked: main goes on with
\* a null pointer for the primary surface.
SetupUnchecked ==
  /\ pc = "setup"
  /\ Setup[step][2] = "primary" /\ ~triple
  /\ pc' = "crash"
  /\ UNCHANGED <<resources, list, number, coords, clipping, quit, keys, drawing>>
----------------------------------------------------------------------------
(* main *)

\* read_destination_mask: black pixels become points in thousandths of the
\* screen, none when the surface cannot be locked.  spawn_penguins follows.
ReadMask ==
  /\ pc = "mask"
  /\ \E black \in Masks \cup {{}} :
       coords' = {<<b[1] * (1000 \div MaskWidth), b[2] * (1000 \div MaskHeight)>> : b \in black}
  /\ number' = Initial
  /\ pc' = "spawn"
  /\ UNCHANGED <<resources, list, clipping, quit, keys, drawing>>

\* The loops of spawn_penguins and destroy_penguins.  The first call is
\* before the main loop, the others are for a key.
AfterLoop == IF keys = 0 THEN "move" ELSE "keys"

Spawn ==
  /\ pc = "spawn"
  /\ IF number > 0
     THEN spawn_penguin /\ number' = number - 1 /\ UNCHANGED pc
     ELSE pc' = AfterLoop /\ UNCHANGED <<list, number>>
  /\ UNCHANGED <<resources, coords, clipping, quit, keys, drawing>>

Destroy ==
  /\ pc = "destroy"
  /\ IF number > 0
     THEN destroy_penguin /\ number' = number - 1 /\ UNCHANGED pc
     ELSE pc' = AfterLoop /\ UNCHANGED <<list, number>>
  /\ UNCHANGED <<resources, coords, clipping, quit, keys, drawing>>

\* The head of the main loop and move_penguins.
Move ==
  /\ pc = "move" /\ ~quit
  /\ \E walk \in [List -> Walks], jitter \in [List -> Jitters] :
       heap' = [a \in Addr |-> IF a \in List THEN MovePenguin(heap[a], walk[a], jitter[a])
                                             ELSE heap[a]]
  /\ pc' = "draw"
  /\ j' = population /\ p' = penguins /\ drawn' = <<>>
  /\ UNCHANGED <<resources, penguins, last_penguin, population, number, coords,
                 clipping, quit, keys>>

\* The inner loop of draw_penguins runs to the end or to a full batch.
BatchSize(left) == Min({left, Batch})

\* One BatchBlit of draw_penguins, which counts and does not look for the end.
DrawBatch ==
  /\ pc = "draw" /\ j > 0
  /\ LET n == BatchSize(j)
         at == Chain(p)
     IN  /\ drawn' = drawn \o [k \in 1 .. n |-> at[k - 1]]
         /\ p' = at[n]
         /\ j' = j - n
  /\ UNCHANGED <<pc, resources, list, number, coords, clipping, quit, keys>>

\* Flip, then the keys.
Flip ==
  /\ pc = "draw" /\ j <= 0
  /\ pc' = "keys"
  /\ drawn' = <<>>
  /\ UNCHANGED <<resources, list, number, coords, clipping, quit, keys, j, p>>
----------------------------------------------------------------------------
(* The key loop.  A key that is not listed changes nothing. *)

Press ==
  /\ pc = "keys" /\ keys < MaxKeys
  /\ keys' = keys + 1
  /\ UNCHANGED <<resources, drawing>>

KeyQuit ==
  /\ Press
  /\ quit' = TRUE
  /\ UNCHANGED <<pc, list, number, coords, clipping>>

KeySpawn ==
  /\ Press
  /\ population + PerKey <= MaxPenguins
  /\ pc' = "spawn" /\ number' = PerKey
  /\ UNCHANGED <<list, coords, clipping, quit>>

KeyDestroy ==
  /\ Press
  /\ pc' = "destroy" /\ number' = PerKey
  /\ UNCHANGED <<list, coords, clipping, quit>>

\* revive_penguins
KeyRevive ==
  /\ Press
  /\ heap' = [a \in Addr |-> IF a \in List THEN [heap[a] EXCEPT !.moving = TRUE] ELSE heap[a]]
  /\ UNCHANGED <<pc, penguins, last_penguin, population, number, coords, clipping, quit>>

KeyClip ==
  /\ Press
  /\ clipping' = ~clipping
  /\ UNCHANGED <<pc, list, number, coords, quit>>

\* Mutant: the way on the other axis stays what it was.
SendX(q, c) == [q EXCEPT !.x_togo = ToGo(q.x, c[1], XRes), !.moving = FALSE]
Send(q, c) == [q EXCEPT !.x_togo = ToGo(q.x, c[1], XRes),
                        !.y_togo = ToGo(q.y, c[2], YRes),
                        !.moving = FALSE]

\* penguins_search_destination
KeyFormation ==
  /\ Press
  /\ IF coords = {}
     THEN UNCHANGED heap
     ELSE \E c \in [List -> coords] :
            heap' = [a \in Addr |-> IF a \in List THEN Send(heap[a], c[a]) ELSE heap[a]]
  /\ UNCHANGED <<pc, penguins, last_penguin, population, number, coords, clipping, quit>>

\* GetEvent finds no more; `quit' is only looked at now.
NoKey ==
  /\ pc = "keys"
  /\ pc' = "move"
  /\ UNCHANGED <<resources, list, number, coords, clipping, quit, keys, drawing>>
----------------------------------------------------------------------------
(* deinit_resources *)

\* destroy_all_penguins leaves last_penguin and population as they are.
DestroyAll ==
  /\ pc = "move" /\ quit
  /\ heap' = [a \in Addr |-> IF a \in List THEN Free ELSE heap[a]]
  /\ penguins' = NULL
  /\ coords' = {}
  /\ pc' = "deinit" /\ step' = 1
  /\ UNCHANGED <<held, triple, last_penguin, population, number, clipping, quit, keys, drawing>>

Release ==
  /\ pc = "deinit"
  /\ held' = held \ {Deinit[step]}
  /\ step' = step + 1
  /\ pc' = IF step = Len(Deinit) THEN "done" ELSE "deinit"
  /\ UNCHANGED <<triple, list, number, coords, clipping, quit, keys, drawing>>

Stopped == pc \in {"done", "fatal", "crash"} /\ UNCHANGED vars

Main ==
  \/ SetupCall \/ SetupFatal \/ SetupDouble \/ SetupUnchecked \/ ReadMask
  \/ Spawn \/ Destroy \/ Move \/ DrawBatch \/ Flip \/ NoKey \/ DestroyAll \/ Release

Next ==
  \/ Main \/ Stopped
  \/ KeyQuit \/ KeySpawn \/ KeyDestroy \/ KeyRevive \/ KeyClip \/ KeyFormation

Spec == Init /\ [][Next]_vars
FairSpec == Spec /\ WF_vars(Main)
----------------------------------------------------------------------------
(* Properties *)

\* The heap, the two pointers and the count agree after any sequence of keys,
\* through an empty list and a reused address: every allocated penguin is in
\* the list, the list ends after `population' nodes, and last_penguin is its
\* end as long as there is one.
ListShape ==
  /\ {a \in Addr : Live(a)} = List
  /\ penguins # NULL =>
       /\ last_penguin \in List /\ heap[last_penguin].next = NULL
       /\ Cardinality(List) = population
       /\ \A k, l \in 0 .. population : Chain(penguins)[k] = Chain(penguins)[l] => k = l
  /\ penguins = NULL /\ pc \notin {"deinit", "done"} => population = 0

\* When a frame is shown every penguin of the list has been drawn once, in
\* batches, from live memory, and with its whole picture on the screen, those
\* spawned since the last frame included.
FrameComplete ==
  pc = "draw" /\ j <= 0 =>
    /\ Len(drawn) = population
    /\ {drawn[k] : k \in 1 .. Len(drawn)} = List
    /\ \A a \in List : /\ heap[a].x \in 0 .. XRes - XSprite
                       /\ heap[a].y \in 0 .. YRes - YSprite

\* On one axis a penguin that marches to point c has the rest of its way
\* before it, is there up to a step, or the edge keeps it from a point beyond.
AxisOnCourse(pos, togo, c, res, sprite) ==
  \/ togo = ToGo(pos, c, res)
  \/ togo = 0 /\ Abs(1000 * pos - c * res) < 1000 * Step
  \/ togo <= 0 /\ pos = res - sprite /\ c * res > 1000 * pos

Marching(a) == Live(a) /\ ~heap[a].moving /\ (heap[a].x_togo # 0 \/ heap[a].y_togo # 0)

\* A marching penguin is on the way to one of the points of the mask on both
\* axes, whatever it did when the key came and however it was clipped since.
OnCourse ==
  \A a \in Addr : Marching(a) =>
    \E c \in coords : /\ AxisOnCourse(heap[a].x, heap[a].x_togo, c[1], XRes, XSprite)
                      /\ AxisOnCourse(heap[a].y, heap[a].y_togo, c[2], YRes, YSprite)

\* A penguin sent into formation comes to rest (or is set free or removed):
\* the march does not go back and forth around its point for ever.
MarchEnds == \A a \in Addr : Marching(a) ~> ~Marching(a)

\* Every interface is taken before it is given back, and a program that ends
\* normally has released all of them and freed every penguin.  The animation
\* frames are not among them: nothing frees them (FIXME in the code, line 421).
AllReleased ==
  /\ pc = "setup" => (Setup[step][1] = "put" <=> Setup[step][2] \in held)
  /\ pc = "deinit" => Deinit[step] \in held
  /\ pc = "done" => held = {} /\ \A a \in Addr : ~Live(a)
=============================================================================
