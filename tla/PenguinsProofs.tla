--------------------------- MODULE PenguinsProofs ---------------------------
(***************************************************************************)
(* Proofs about the penguin demo, for every size of the screen, of a       *)
(* picture and of a batch, every step, every mask, every set of random     *)
(* numbers and any number of penguins and keys.                            *)
(*                                                                         *)
(* The code follows pointers; the argument is about a sequence.  There is  *)
(* one, s, of the live addresses without repetition, with the links of the *)
(* heap from each entry to the next (`IsList').  Adding a penguin appends  *)
(* to s, removing one cuts off its head, and what the loops of the code    *)
(* meet is what s says (`ChainOfList').                                    *)
(***************************************************************************)
EXTENDS Penguins, SequenceTheorems, FiniteSetTheorems, TLAPS

Early == {"setup", "mask", "fatal", "crash"}
Running == {"spawn", "destroy", "move", "draw", "keys"}
Late == {"deinit", "done"}

Pointer == Addr \cup {NULL}
PenguinType == [x : Int, y : Int, x_togo : Int, y_togo : Int,
                moving : BOOLEAN, next : Pointer]

TypeInv ==
  /\ pc \in Early \cup Running \cup Late
  /\ heap \in [Addr -> PenguinType \cup {Free}]
  /\ penguins \in Pointer /\ last_penguin \in Pointer
  /\ population \in 0 .. MaxPenguins
  /\ number \in Nat /\ j \in Nat
  /\ coords \subseteq Nat \X Nat

\* s is the list: its entries are the live addresses, each once, each linked
\* to the next one, the first and the last at the two pointers.
IsList(s) ==
  /\ s \in [1 .. population -> Addr]
  /\ \A k, l \in 1 .. population : s[k] = s[l] => k = l
  /\ \A k \in 1 .. population : Live(s[k])
  /\ \A a \in Addr : Live(a) => \E k \in 1 .. population : s[k] = a
  /\ \A k \in 1 .. population : k < population => heap[s[k]].next = s[k + 1]
  /\ population = 0 => penguins = NULL
  /\ population > 0 => /\ penguins = s[1] /\ last_penguin = s[population]
                       /\ heap[s[population]].next = NULL

\* In the middle of draw_penguins the first penguins of s have been blitted,
\* the next one is at p, and the count is what is left.
IsDrawn(s) ==
  /\ drawn \in Seq(Addr)
  /\ j <= population /\ Len(drawn) = population - j
  /\ \A k \in 1 .. Len(drawn) : drawn[k] = s[k]
  /\ j > 0 => p = s[population - j + 1]

ShapeInv ==
  /\ TypeInv
  /\ pc \notin Late => \E s \in [1 .. population -> Addr] : IsList(s) /\ (pc = "draw" => IsDrawn(s))
  /\ pc \in Late => penguins = NULL /\ \A a \in Addr : ~Live(a)
  /\ pc \in Early => population = 0
  /\ pc = "spawn" => population + number <= MaxPenguins

\* Every picture is on the screen.
OnScreen(q) == q.x \in 0 .. XRes - XSprite /\ q.y \in 0 .. YRes - YSprite
CourseInv ==
  /\ \A a \in Addr : Live(a) => OnScreen(heap[a])
  /\ OnCourse

\* What init_resources holds before each of its calls, and after the last.
HeldBefore ==
  <<{}, {"dfb"}, {"dfb", "keybuffer"}, {"dfb", "keybuffer", "layer"},
    {"dfb", "keybuffer"}, {"dfb", "keybuffer", "primary"},
    {"dfb", "keybuffer", "primary", "font"},
    {"dfb", "keybuffer", "primary", "font", "provider"},
    {"dfb", "keybuffer", "primary", "font", "provider", "tuximage"},
    {"dfb", "keybuffer", "primary", "font", "tuximage"},
    {"dfb", "keybuffer", "primary", "font", "tuximage", "provider"},
    {"dfb", "keybuffer", "primary", "font", "tuximage", "provider", "background"},
    {"dfb", "keybuffer", "primary", "font", "tuximage", "background"},
    {"dfb", "keybuffer", "primary", "font", "tuximage", "background", "provider"},
    {"dfb", "keybuffer", "primary", "font", "tuximage", "background", "provider", "destination_mask"},
    {"dfb", "keybuffer", "primary", "font", "tuximage", "background", "destination_mask"}>>

HeldInv ==
  /\ pc = "setup" => step \in 1 .. 15 /\ held = HeldBefore[step]
  /\ pc \in {"mask"} \cup Running => held = HeldBefore[16]
  /\ pc = "deinit" => step \in 1 .. 7 /\ held = {Deinit[k] : k \in step .. 7}
  /\ pc = "done" => held = {}
-----------------------------------------------------------------------------
(* Following the pointers *)

\* A set of numbers that is not empty has a least member.
LEMMA LeastNumber ==
  ASSUME NEW T, T \subseteq Nat, T # {}
  PROVE  \E n \in T : \A m \in T : n <= m
<1> DEFINE Less == {ss \in Nat \X Nat : ss[1] < ss[2]}
<1>0. IsWellFoundedOn(Less, Nat)
  BY NatLessThanWellFounded, Zenon DEF OpToRel
<1> HIDE DEF Less
<1>1. PICK n \in T : \A m \in T : ~(<<m, n>> \in Less)
  BY <1>0, WFMin
<1>2. \A m \in T : ~(m < n)
  BY <1>1 DEF Less
<1> QED BY <1>1, <1>2

\* What the loops over the list meet from a on is the one function that
\* starts with a and goes from each pointer to the next.
LEMMA ChainUnique ==
  ASSUME MaxPenguins \in Nat, NEW a,
         NEW f, f = [k \in 0 .. MaxPenguins |-> IF k = 0 THEN a ELSE Succ(f[k - 1])]
  PROVE  \A k \in 0 .. MaxPenguins : Chain(a)[k] = f[k]
<1> DEFINE IsChain(g) == g = [k \in 0 .. MaxPenguins |-> IF k = 0 THEN a ELSE Succ(g[k - 1])]
           at == CHOOSE g : IsChain(g)
           T == {k \in 0 .. MaxPenguins : at[k] # f[k]}
<1>1. Chain(a) = at
  BY DEF Chain
<1>2. IsChain(f)
  OBVIOUS
<1> HIDE DEF IsChain
<1>3. IsChain(at)
  BY <1>2, Zenon
<1> USE DEF IsChain
<1> HIDE DEF at
<1>4. SUFFICES ASSUME T # {} PROVE FALSE
  BY <1>1
<1>5. T \subseteq Nat
  OBVIOUS
<1> HIDE DEF T
<1>6. PICK n \in T : \A m \in T : n <= m
  BY <1>4, <1>5, LeastNumber
<1> USE DEF T
<1>7. n # 0
  BY <1>2, <1>3, <1>6
<1>8. n - 1 \in 0 .. MaxPenguins /\ n - 1 \notin T
  BY <1>6, <1>7
<1>9. at[n] = Succ(at[n - 1]) /\ f[n] = Succ(f[n - 1])
  BY <1>2, <1>3, <1>6, <1>7
<1> QED BY <1>6, <1>8, <1>9

\* From the k-th entry of the list the loops meet the rest of it, then NULL.
LEMMA ChainOfList ==
  ASSUME MaxPenguins \in Nat, TypeInv, NEW s, IsList(s), NEW i \in 1 .. population
  PROVE  \A k \in 0 .. MaxPenguins :
           Chain(s[i])[k] = IF i + k <= population THEN s[i + k] ELSE NULL
<1> DEFINE f == [k \in 0 .. MaxPenguins |-> IF i + k <= population THEN s[i + k] ELSE NULL]
<1>1. population \in Nat /\ population <= MaxPenguins
  BY DEF TypeInv
<1>2. ASSUME NEW k \in 0 .. MaxPenguins
      PROVE  f[k] = IF k = 0 THEN s[i] ELSE Succ(f[k - 1])
  <2>1. CASE k = 0
    BY <1>1, <2>1
  <2>2. CASE k # 0 /\ i + k <= population
    <3>1. f[k - 1] = s[i + k - 1] /\ i + k - 1 \in 1 .. population /\ i + k - 1 < population
      BY <1>1, <2>2
    <3>2. heap[s[i + k - 1]].next = s[i + k - 1 + 1] /\ Live(s[i + k - 1])
      BY <3>1 DEF IsList
    <3> QED BY <1>1, <2>2, <3>1, <3>2, SMTT(30) DEF Succ
  <2>3. CASE k # 0 /\ i + k = population + 1
    <3>1. f[k - 1] = s[population]
      BY <1>1, <2>3
    <3>2. heap[s[population]].next = NULL /\ Live(s[population])
      BY <1>1 DEF IsList
    <3> QED BY <1>1, <2>3, <3>1, <3>2 DEF Succ
  <2>4. CASE k # 0 /\ i + k > population + 1
    <3>1. f[k - 1] = NULL /\ f[k] = NULL
      BY <1>1, <2>4
    <3>2. ~Live(NULL)
      BY DEF Live, Addr, NULL
    <3> QED BY <2>4, <3>1, <3>2 DEF Succ
  <2> QED BY <1>1, <2>1, <2>2, <2>3, <2>4
<1>3. f = [k \in 0 .. MaxPenguins |-> IF k = 0 THEN s[i] ELSE Succ(f[k - 1])]
  BY <1>2
<1> HIDE DEF f
<1>4. \A k \in 0 .. MaxPenguins : Chain(s[i])[k] = f[k]
  BY <1>3, ChainUnique
<1> QED BY <1>4 DEF f

LEMMA ChainOfNull ==
  ASSUME MaxPenguins \in Nat
  PROVE  \A k \in 0 .. MaxPenguins : Chain(NULL)[k] = NULL
<1> DEFINE f == [k \in 0 .. MaxPenguins |-> NULL]
<1>1. ~Live(NULL)
  BY DEF Live, Addr, NULL
<1>2. f = [k \in 0 .. MaxPenguins |-> IF k = 0 THEN NULL ELSE Succ(f[k - 1])]
  BY <1>1 DEF Succ
<1> HIDE DEF f
<1>3. \A k \in 0 .. MaxPenguins : Chain(NULL)[k] = f[k]
  BY <1>2, ChainUnique
<1> QED BY <1>3 DEF f

\* The penguins the loops go over are the entries of s.
LEMMA ListIs ==
  ASSUME MaxPenguins \in Nat, TypeInv, NEW s, IsList(s)
  PROVE  List = {s[k] : k \in 1 .. population}
<1>1. population \in Nat /\ population <= MaxPenguins
  BY DEF TypeInv
<1>2. CASE population = 0
  <2>1. penguins = NULL
    BY <1>2 DEF IsList
  <2> QED BY <1>2, <2>1, ChainOfNull DEF List
<1>3. CASE population > 0
  <2>1. penguins = s[1] /\ 1 \in 1 .. population
    BY <1>1, <1>3 DEF IsList
  <2>2. \A k \in 0 .. MaxPenguins :
          Chain(penguins)[k] = IF 1 + k <= population THEN s[1 + k] ELSE NULL
    BY <2>1, ChainOfList
  <2>3. \A k \in 1 .. population : s[k] # NULL
    BY DEF IsList, Addr, NULL
  <2>4. ASSUME NEW a \in List PROVE \E k \in 1 .. population : a = s[k]
    <3>1. PICK k \in 0 .. MaxPenguins : a = Chain(penguins)[k] /\ a # NULL
      BY <2>4 DEF List
    <3>2. 1 + k \in 1 .. population /\ a = s[1 + k]
      BY <1>1, <2>2, <3>1
    <3> QED BY <3>2
  <2>5. ASSUME NEW k \in 1 .. population PROVE s[k] \in List
    <3>1. k - 1 \in 0 .. MaxPenguins /\ Chain(penguins)[k - 1] = s[k]
      BY <1>1, <2>2
    <3> QED BY <2>3, <3>1 DEF List
  <2> QED BY <2>4, <2>5
<1> QED BY <1>1, <1>2, <1>3

LEMMA ListIsLive ==
  ASSUME MaxPenguins \in Nat, TypeInv, NEW s, IsList(s)
  PROVE  List = {a \in Addr : Live(a)}
<1>1. {s[k] : k \in 1 .. population} = {a \in Addr : Live(a)}
  BY DEF IsList
<1> QED BY <1>1, ListIs
-----------------------------------------------------------------------------
(* What the steps do to one penguin *)

LEMMA Sizes ==
  /\ XRes \in Nat /\ YRes \in Nat /\ XSprite \in Nat /\ YSprite \in Nat
  /\ XRes >= 2 * XSprite /\ YRes >= 2 * YSprite
  /\ Step \in Nat /\ Step > 0 /\ Batch \in Nat /\ Batch > 0
  /\ MaskWidth \in Nat /\ MaskWidth > 0 /\ MaskHeight \in Nat /\ MaskHeight > 0
  /\ Initial \in Nat /\ PerKey \in Nat /\ MaxPenguins \in Nat /\ Initial <= MaxPenguins
BY PenguinsAssumption

LEMMA NotFree ==
  ASSUME NEW q \in PenguinType
  PROVE  q # Free
BY DEF PenguinType, Free

LEMMA NewPenguinType ==
  /\ NewPenguin \in PenguinType /\ NewPenguin.next = NULL /\ NewPenguin.moving = TRUE
  /\ OnScreen(NewPenguin)
<1>1. /\ XRes \div 2 \in Int /\ YRes \div 2 \in Int
      /\ XRes \div 2 \in 0 .. XRes - XSprite /\ YRes \div 2 \in 0 .. YRes - YSprite
  BY Sizes
<1> QED BY <1>1 DEF NewPenguin, PenguinType, OnScreen, Pointer

LEMMA ClipType ==
  ASSUME NEW pos \in Int, NEW size \in Nat, NEW sprite \in Nat, size >= 2 * sprite
  PROVE  Clip(pos, size, sprite) \in 0 .. size - sprite
BY DEF Clip

LEMMA AdvanceType ==
  ASSUME NEW pos \in Int, NEW togo \in Int
  PROVE  Advance(pos, togo)[1] \in Int /\ Advance(pos, togo)[2] \in Int
BY Sizes DEF Advance

LEMMA SnapType ==
  ASSUME NEW togo \in Int
  PROVE  Snap(togo) \in Int
BY DEF Snap

LEMMA ToGoType ==
  ASSUME NEW pos \in Int, NEW c \in Nat, NEW res \in Nat
  PROVE  ToGo(pos, c, res) \in Int
<1> DEFINE m == c * res
<1>1. m \in Int
  OBVIOUS
<1>2. ToGo(pos, c, res) = IF 1000 * pos - m < 0 THEN -((-(1000 * pos - m)) \div 1000)
                                              ELSE (1000 * pos - m) \div 1000
  BY DEF ToGo
<1> HIDE DEF m
<1> QED BY <1>1, <1>2

\* move_penguins keeps the link and the mode of a penguin and leaves its whole
\* picture on the screen.
LEMMA MoveType ==
  ASSUME NEW q \in PenguinType, NEW walk \in Int \X Int, NEW jitter \in Int \X Int
  PROVE  /\ MovePenguin(q, walk, jitter) \in PenguinType
         /\ MovePenguin(q, walk, jitter).next = q.next
         /\ MovePenguin(q, walk, jitter).moving = q.moving
         /\ OnScreen(MovePenguin(q, walk, jitter))
<1> DEFINE mx == Snap(q.x_togo)
           my == Snap(q.y_togo)
           rest == mx = 0 /\ my = 0
           togo == IF rest /\ q.moving THEN walk ELSE <<mx, my>>
           shake == IF rest /\ ~q.moving THEN jitter ELSE <<0, 0>>
           ax == Advance(q.x + shake[1], togo[1])
           ay == Advance(q.y + shake[2], togo[2])
<1>1. q.x \in Int /\ q.y \in Int /\ q.x_togo \in Int /\ q.y_togo \in Int /\ q.next \in Pointer
  BY DEF PenguinType
<1>2. q.moving \in BOOLEAN
  BY DEF PenguinType
<1>3. mx \in Int /\ my \in Int
  BY <1>1, SnapType
<1>4. MovePenguin(q, walk, jitter)
        = [q EXCEPT !.x = Clip(ax[1], XRes, XSprite), !.x_togo = ax[2],
                    !.y = Clip(ay[1], YRes, YSprite), !.y_togo = ay[2]]
  BY DEF MovePenguin
<1> HIDE DEF mx, my
<1>5. togo[1] \in Int /\ togo[2] \in Int /\ shake[1] \in Int /\ shake[2] \in Int
  BY <1>3
<1> HIDE DEF togo, shake
<1>6. q.x + shake[1] \in Int /\ q.y + shake[2] \in Int
  BY <1>1, <1>5
<1>7. ax[1] \in Int /\ ax[2] \in Int /\ ay[1] \in Int /\ ay[2] \in Int
  BY <1>5, <1>6, AdvanceType
<1> HIDE DEF ax, ay
<1>8. Clip(ax[1], XRes, XSprite) \in 0 .. XRes - XSprite /\ Clip(ay[1], YRes, YSprite) \in 0 .. YRes - YSprite
  BY <1>7, ClipType, Sizes
<1>9. Clip(ax[1], XRes, XSprite) \in Int /\ Clip(ay[1], YRes, YSprite) \in Int
  BY <1>8, Sizes
<1>10. MovePenguin(q, walk, jitter) \in PenguinType
  BY <1>1, <1>2, <1>4, <1>7, <1>9 DEF PenguinType
<1>11. OnScreen(MovePenguin(q, walk, jitter))
  BY <1>4, <1>8 DEF OnScreen, PenguinType
<1> QED BY <1>4, <1>10, <1>11 DEF PenguinType

LEMMA SendType ==
  ASSUME NEW q \in PenguinType, NEW c \in Nat \X Nat
  PROVE  /\ Send(q, c) \in PenguinType /\ Send(q, c).next = q.next
         /\ Send(q, c).x = q.x /\ Send(q, c).y = q.y
         /\ Send(q, c).x_togo = ToGo(q.x, c[1], XRes)
         /\ Send(q, c).y_togo = ToGo(q.y, c[2], YRes)
<1>1. q.x \in Int /\ q.y \in Int /\ c[1] \in Nat /\ c[2] \in Nat
  BY DEF PenguinType
<1>2. ToGo(q.x, c[1], XRes) \in Int /\ ToGo(q.y, c[2], YRes) \in Int
  BY <1>1, ToGoType, Sizes
<1> QED BY <1>2 DEF Send, PenguinType
-----------------------------------------------------------------------------
(* The heap, the pointers and the count *)

\* A step that leaves the pointers and the count alone, and every penguin
\* alive with its link, keeps the list.
SameLinks ==
  /\ UNCHANGED <<penguins, last_penguin, population>>
  /\ heap' \in [Addr -> PenguinType \cup {Free}]
  /\ \A a \in Addr : Live(a)' = Live(a) /\ (Live(a) => heap'[a].next = heap[a].next)

LEMMA SameLinksKeep ==
  ASSUME TypeInv, SameLinks, NEW s, IsList(s)
  PROVE  IsList(s)'
<1>1. \A k \in 1 .. population : s[k] \in Addr /\ Live(s[k])
  BY DEF IsList
<1>2. \A k \in 1 .. population : Live(s[k])' /\ heap'[s[k]].next = heap[s[k]].next
  BY <1>1 DEF SameLinks
<1>3. \A a \in Addr : Live(a)' => \E k \in 1 .. population : s[k] = a
  BY DEF SameLinks, IsList
<1>4. population > 0 => population \in 1 .. population
  BY DEF TypeInv
<1>5. penguins' = penguins /\ last_penguin' = last_penguin /\ population' = population
  BY DEF SameLinks
<1> QED BY <1>2, <1>3, <1>4, <1>5 DEF IsList

LEMMA UnchangedKeeps ==
  ASSUME UNCHANGED list, NEW s, IsList(s)
  PROVE  IsList(s)'
BY DEF list, IsList, Live

\* A change to the penguins of the list that keeps each one's link.
LEMMA EachKept ==
  ASSUME ShapeInv, pc \notin Late, UNCHANGED <<penguins, last_penguin, population>>,
         NEW h \in [List -> PenguinType],
         \A a \in List : h[a].next = heap[a].next,
         heap' = [a \in Addr |-> IF a \in List THEN h[a] ELSE heap[a]]
  PROVE  SameLinks
<1>1. PICK s \in [1 .. population -> Addr] : IsList(s)
  BY DEF ShapeInv
<1>2. List = {a \in Addr : Live(a)}
  BY <1>1, ListIsLive, Sizes DEF ShapeInv
<1>3. heap' \in [Addr -> PenguinType \cup {Free}]
  BY DEF ShapeInv, TypeInv
<1>4. ASSUME NEW a \in Addr PROVE Live(a)' = Live(a) /\ (Live(a) => heap'[a].next = heap[a].next)
  <2>1. CASE a \in List
    <3>1. heap'[a] = h[a] /\ h[a] # Free
      BY <2>1, NotFree
    <3> QED BY <1>2, <2>1, <3>1 DEF Live
  <2>2. CASE a \notin List
    <3>1. heap'[a] = heap[a]
      BY <2>2
    <3> QED BY <3>1 DEF Live
  <2> QED BY <2>1, <2>2
<1> QED BY <1>3, <1>4 DEF SameLinks

\* spawn_penguin appends to the list.
LEMMA SpawnKeeps ==
  ASSUME TypeInv, NEW s, IsList(s), spawn_penguin
  PROVE  /\ heap' \in [Addr -> PenguinType \cup {Free}]
         /\ penguins' \in Pointer /\ last_penguin' \in Pointer
         /\ population' = population + 1
         /\ \E t \in [1 .. population' -> Addr] : IsList(t)'
<1>1. population \in Nat
  BY DEF TypeInv
<1>2. PICK a \in Addr :
        /\ ~Live(a)
        /\ IF penguins = NULL
           THEN penguins' = a /\ heap' = [heap EXCEPT ![a] = NewPenguin]
           ELSE /\ heap' = [heap EXCEPT ![a] = NewPenguin, ![last_penguin].next = a]
                /\ UNCHANGED penguins
        /\ last_penguin' = a
        /\ population' = population + 1
  BY DEF spawn_penguin
<1>3. a # NULL /\ NULL \notin Addr
  BY DEF Addr, NULL
<1>4. NewPenguin \in PenguinType /\ NewPenguin.next = NULL /\ NewPenguin # Free
  BY NewPenguinType, NotFree
<1>5. heap \in [Addr -> PenguinType \cup {Free}]
  BY DEF TypeInv
<1>. PICK t : t = [k \in 1 .. population + 1 |-> IF k <= population THEN s[k] ELSE a]
  OBVIOUS
<1>6. t \in [1 .. population' -> Addr]
  BY <1>1, <1>2 DEF IsList
<1>7. ASSUME NEW k \in 1 .. population + 1, NEW l \in 1 .. population + 1, t[k] = t[l]
      PROVE  k = l
  <2>1. \A i \in 1 .. population : s[i] # a
    BY <1>2 DEF IsList
  <2>2. CASE k <= population /\ l <= population
    BY <1>1, <1>7, <2>2 DEF IsList
  <2> QED BY <1>1, <1>7, <2>1, <2>2
<1>8. CASE population = 0
  <2>1. penguins = NULL
    BY <1>8 DEF IsList
  <2>2. heap' = [heap EXCEPT ![a] = NewPenguin] /\ penguins' = a /\ last_penguin' = a /\ population' = 1
    BY <1>2, <1>8, <2>1
  <2>3. heap'[a] = NewPenguin /\ \A b \in Addr : b # a => heap'[b] = heap[b]
    BY <1>5, <2>2
  <2>4. \A b \in Addr : heap[b] = Free
    BY <1>8 DEF IsList, Live
  <2>5. \A b \in Addr : Live(b)' <=> b = a
    BY <1>4, <2>3, <2>4 DEF Live
  <2>6. t[1] = a
    BY <1>8
  <2>7. IsList(t)'
    BY <1>4, <1>6, <1>7, <1>8, <2>2, <2>3, <2>5, <2>6 DEF IsList
  <2> QED BY <1>2, <1>4, <1>5, <1>6, <2>2, <2>7 DEF Pointer
<1>9. CASE population > 0
  <2>1. /\ penguins = s[1] /\ last_penguin = s[population]
        /\ heap[last_penguin].next = NULL
        /\ s[1] \in Addr /\ s[population] \in Addr /\ Live(s[population])
    BY <1>1, <1>9 DEF IsList
  <2>2. /\ heap' = [heap EXCEPT ![a] = NewPenguin, ![last_penguin].next = a]
        /\ penguins' = penguins /\ last_penguin' = a /\ population' = population + 1
    BY <1>2, <1>3, <2>1
  <2>3. last_penguin # a /\ last_penguin \in Addr /\ heap[last_penguin] \in PenguinType
    BY <1>2, <1>5, <2>1 DEF Live
  <2>4. /\ heap'[a] = NewPenguin
        /\ heap'[last_penguin] = [heap[last_penguin] EXCEPT !.next = a]
        /\ \A b \in Addr : b # a /\ b # last_penguin => heap'[b] = heap[b]
    BY <1>5, <2>2, <2>3
  <2>5. heap'[last_penguin] \in PenguinType /\ heap'[last_penguin].next = a
    BY <2>3, <2>4 DEF PenguinType, Pointer
  <2>6. heap' \in [Addr -> PenguinType \cup {Free}]
    <3>1. DOMAIN heap' = Addr /\ heap' = [b \in Addr |-> heap'[b]]
      BY <1>5, <2>2
    <3>2. \A b \in Addr : heap'[b] \in PenguinType \cup {Free}
      BY <1>4, <1>5, <2>4, <2>5
    <3> QED BY <3>1, <3>2
  <2>7. heap'[last_penguin] # Free
    BY <2>5, NotFree
  <2>8. \A b \in Addr : Live(b)' <=> Live(b) \/ b = a
    BY <1>4, <2>1, <2>4, <2>7 DEF Live
  <2>9. /\ t[population + 1] = a
        /\ \A k \in 1 .. population : t[k] = s[k] /\ k \in 1 .. population + 1
    BY <1>1
  <2>10. \A k \in 1 .. population + 1 : k = population + 1 \/ k \in 1 .. population
    BY <1>1
  <2>11. \A k \in 1 .. population + 1 : Live(t[k])'
    BY <1>2, <2>8, <2>9, <2>10 DEF IsList
  <2>12. \A b \in Addr : Live(b)' => \E k \in 1 .. population + 1 : t[k] = b
    <3>1. population + 1 \in 1 .. population + 1
      BY <1>1
    <3> QED BY <2>8, <2>9, <3>1 DEF IsList
  <2>13. ASSUME NEW k \in 1 .. population + 1, k < population + 1
         PROVE  heap'[t[k]].next = t[k + 1]
    <3>1. CASE k = population
      BY <1>1, <2>1, <2>5, <2>9, <3>1
    <3>2. CASE k < population
      <4>1. k \in 1 .. population /\ k + 1 \in 1 .. population /\ population \in 1 .. population
        BY <1>1, <3>2
      <4>2. s[k] # s[population] /\ s[k] # a /\ s[k] \in Addr /\ heap[s[k]].next = s[k + 1]
        BY <1>2, <3>2, <4>1 DEF IsList
      <4>3. heap'[s[k]] = heap[s[k]]
        BY <2>1, <2>4, <4>2
      <4> QED BY <2>9, <4>1, <4>2, <4>3
    <3> QED BY <1>1, <2>13, <3>1, <3>2
  <2>14. penguins' = t[1] /\ last_penguin' = t[population'] /\ heap'[t[population']].next = NULL
    <3>1. 1 \in 1 .. population /\ population' = population + 1
      BY <1>1, <1>9, <2>2
    <3>2. t[1] = s[1] /\ t[population'] = a
      BY <2>9, <3>1
    <3> QED BY <1>4, <2>1, <2>2, <2>4, <3>2
  <2>15. population' > 0 /\ population' # 0
    BY <1>1, <2>2
  <2>16. IsList(t)'
    <3>1. \A k, l \in 1 .. population + 1 : t[k] = t[l] => k = l
      BY <1>7
    <3>2. population' = population + 1
      BY <2>2
    <3> QED BY <1>6, <2>11, <2>12, <2>13, <2>14, <2>15, <3>1, <3>2 DEF IsList
  <2> QED BY <1>6, <2>1, <2>2, <2>6, <2>16 DEF Pointer
<1> QED BY <1>1, <1>8, <1>9
\* destroy_penguin cuts off the head of the list; at the last one the pointer
\* to the last penguin stays behind.
LEMMA DestroyKeeps ==
  ASSUME TypeInv, NEW s, IsList(s), destroy_penguin
  PROVE  /\ heap' \in [Addr -> PenguinType \cup {Free}]
         /\ penguins' \in Pointer /\ last_penguin' \in Pointer
         /\ population' \in 0 .. MaxPenguins
         /\ \E t \in [1 .. population' -> Addr] : IsList(t)'
<1>1. /\ population \in Nat /\ population <= MaxPenguins /\ MaxPenguins \in Nat
      /\ heap \in [Addr -> PenguinType \cup {Free}]
      /\ penguins \in Pointer /\ last_penguin \in Pointer
  BY Sizes DEF TypeInv
<1>2. NULL \notin Addr
  BY DEF Addr, NULL
<1>3. CASE population = 0
  <2>1. penguins = NULL
    BY <1>3 DEF IsList
  <2>2. UNCHANGED list
    BY <2>1 DEF destroy_penguin
  <2>3. heap' = heap /\ penguins' = penguins /\ last_penguin' = last_penguin /\ population' = population
    BY <2>2 DEF list
  <2>4. IsList(s)'
    BY <2>2, UnchangedKeeps
  <2>5. s \in [1 .. population' -> Addr]
    BY <2>3 DEF IsList
  <2>6. population' \in 0 .. MaxPenguins
    BY <1>1, <2>3
  <2> QED BY <1>1, <2>3, <2>4, <2>5, <2>6
<1>4. CASE population > 0
  <2>1. 1 \in 1 .. population
    BY <1>1, <1>4
  <2>2. penguins = s[1] /\ penguins \in Addr /\ Live(penguins) /\ last_penguin = s[population]
    BY <1>4, <2>1 DEF IsList
  <2>3. /\ penguins' = heap[penguins].next
        /\ heap' = [heap EXCEPT ![penguins] = Free]
        /\ population' = population - 1
        /\ last_penguin' = last_penguin
    BY <1>2, <2>2 DEF destroy_penguin, Succ
  <2>4. heap'[penguins] = Free /\ \A b \in Addr : b # penguins => heap'[b] = heap[b]
    BY <1>1, <2>2, <2>3
  <2>5. heap' \in [Addr -> PenguinType \cup {Free}]
    BY <1>1, <2>3
  <2>6. heap[penguins] \in PenguinType
    BY <1>1, <2>2 DEF Live
  <2>7. penguins' \in Pointer /\ population' \in 0 .. MaxPenguins
    BY <1>1, <1>4, <2>3, <2>6 DEF PenguinType
  <2>8. \A b \in Addr : Live(b)' <=> Live(b) /\ b # penguins
    BY <2>4 DEF Live
  <2>. PICK t : t = [k \in 1 .. population - 1 |-> s[k + 1]]
    OBVIOUS
  <2>9. \A k \in 1 .. population - 1 : t[k] = s[k + 1] /\ k + 1 \in 1 .. population
    BY <1>1
  <2>10. \A k \in 1 .. population : k = 1 \/ (k - 1 \in 1 .. population - 1 /\ t[k - 1] = s[k])
    BY <1>1
  <2>11. t \in [1 .. population - 1 -> Addr]
    BY <1>1, <2>9 DEF IsList
  <2>12. \A k, l \in 1 .. population - 1 : t[k] = t[l] => k = l
    <3> SUFFICES ASSUME NEW k \in 1 .. population - 1, NEW l \in 1 .. population - 1, t[k] = t[l]
                 PROVE  k = l
      OBVIOUS
    <3>1. k + 1 = l + 1
      BY <2>9 DEF IsList
    <3> QED BY <1>1, <3>1
  <2>13. \A k \in 1 .. population - 1 : Live(t[k])'
    <3> SUFFICES ASSUME NEW k \in 1 .. population - 1 PROVE Live(t[k])'
      OBVIOUS
    <3>1. t[k] = s[k + 1] /\ k + 1 \in 1 .. population /\ k + 1 # 1
      BY <1>1, <2>9
    <3>2. s[k + 1] # s[1] /\ Live(s[k + 1]) /\ s[k + 1] \in Addr
      BY <2>1, <3>1 DEF IsList
    <3>3. t[k] \in Addr /\ t[k] # penguins /\ Live(t[k])
      BY <2>2, <3>1, <3>2
    <3> QED BY <2>8, <3>3
  <2>14. \A b \in Addr : Live(b)' => \E k \in 1 .. population - 1 : t[k] = b
    <3> SUFFICES ASSUME NEW b \in Addr, Live(b)' PROVE \E k \in 1 .. population - 1 : t[k] = b
      OBVIOUS
    <3>1. PICK k \in 1 .. population : s[k] = b
      BY <2>8 DEF IsList
    <3>2. k # 1
      BY <2>2, <2>8, <3>1
    <3> QED BY <2>10, <3>1, <3>2
  <2>15. \A k \in 1 .. population - 1 : k < population - 1 => heap'[t[k]].next = t[k + 1]
    <3> SUFFICES ASSUME NEW k \in 1 .. population - 1, k < population - 1
                 PROVE  heap'[t[k]].next = t[k + 1]
      OBVIOUS
    <3>1. /\ t[k] = s[k + 1] /\ k + 1 \in 1 .. population /\ k + 1 # 1 /\ k + 1 < population
          /\ k + 1 \in 1 .. population - 1 /\ t[k + 1] = s[k + 1 + 1]
      BY <1>1, <2>9
    <3>2. s[k + 1] # s[1] /\ s[k + 1] \in Addr /\ heap[s[k + 1]].next = s[k + 1 + 1]
      BY <2>1, <3>1 DEF IsList
    <3>3. heap'[s[k + 1]] = heap[s[k + 1]]
      BY <2>2, <2>4, <3>2
    <3> QED BY <3>1, <3>2, <3>3
  <2>16. CASE population = 1
    <3>1. penguins' = NULL /\ population' = 0
      BY <2>2, <2>3, <2>16 DEF IsList
    <3>2. population' = population - 1 /\ ~(population' > 0)
      BY <2>3, <3>1
    <3>3. IsList(t)'
      BY <2>11, <2>12, <2>13, <2>14, <2>15, <3>1, <3>2 DEF IsList
    <3> QED BY <1>1, <2>3, <2>5, <2>7, <2>11, <3>3
  <2>17. CASE population > 1
    <3>1. /\ population \in 1 .. population /\ 1 < population /\ population # 1
          /\ population - 1 \in 1 .. population - 1 /\ 1 \in 1 .. population - 1
          /\ t[population - 1] = s[population - 1 + 1] /\ t[1] = s[1 + 1]
          /\ population - 1 + 1 = population
      BY <1>1, <2>9, <2>17
    <3>2. penguins' = s[1 + 1] /\ heap[s[population]].next = NULL
      BY <2>1, <2>2, <2>3, <2>17, <3>1, <1>4 DEF IsList
    <3>3. s[population] # s[1] /\ s[population] \in Addr
      BY <2>1, <3>1 DEF IsList
    <3>4. heap'[s[population]] = heap[s[population]]
      BY <2>2, <2>4, <3>3
    <3>5. population' = population - 1 /\ population' # 0
      BY <1>1, <2>3, <2>17
    <3>6. penguins' = t[1] /\ last_penguin' = t[population - 1] /\ heap'[t[population - 1]].next = NULL
      BY <2>2, <2>3, <3>1, <3>2, <3>4
    <3>7. IsList(t)'
      BY <2>11, <2>12, <2>13, <2>14, <2>15, <3>5, <3>6 DEF IsList
    <3> QED BY <1>1, <2>3, <2>5, <2>7, <2>11, <3>7
  <2> QED BY <1>1, <1>4, <2>16, <2>17
<1> QED BY <1>1, <1>3, <1>4
LEMMA BatchSizeIs ==
  ASSUME NEW left \in Nat, left > 0
  PROVE  BatchSize(left) \in 1 .. left
<1>1. \E n \in {left, Batch} : \A m \in {left, Batch} : n <= m
  BY Sizes
<1>2. /\ BatchSize(left) \in {left, Batch}
      /\ \A m \in {left, Batch} : BatchSize(left) <= m
  BY <1>1 DEF BatchSize, Min
<1> QED BY <1>2, Sizes

\* One BatchBlit blits the next penguins of the list.
LEMMA DrawKeeps ==
  ASSUME TypeInv, NEW s, IsList(s), IsDrawn(s), DrawBatch
  PROVE  IsDrawn(s)' /\ j' \in Nat
<1> DEFINE n == BatchSize(j)
           blit == [k \in 1 .. n |-> Chain(p)[k - 1]]
           i == population - j + 1
<1>1. /\ j \in Nat /\ j > 0 /\ j <= population /\ Len(drawn) = population - j
      /\ population \in Nat /\ population <= MaxPenguins /\ MaxPenguins \in Nat
      /\ drawn \in Seq(Addr) /\ p = s[i]
  BY Sizes DEF TypeInv, IsDrawn, DrawBatch
<1>2. n \in 1 .. j
  BY <1>1, BatchSizeIs
<1>3. drawn' = drawn \o blit /\ p' = Chain(p)[n] /\ j' = j - n /\ population' = population
  BY DEF DrawBatch, list
<1> HIDE DEF n
<1>4. i \in 1 .. population
  BY <1>1
<1>5. \A k \in 0 .. MaxPenguins : Chain(p)[k] = IF i + k <= population THEN s[i + k] ELSE NULL
  <2> HIDE DEF i
  <2> QED BY <1>1, <1>4, ChainOfList
<1>6. \A k \in 1 .. n : k - 1 \in 0 .. MaxPenguins /\ i + (k - 1) <= population /\ i + (k - 1) \in 1 .. population
  BY <1>1, <1>2
<1>7. \A k \in 1 .. n : Chain(p)[k - 1] = s[i + (k - 1)] /\ s[i + (k - 1)] \in Addr
  <2> HIDE DEF i
  <2> QED BY <1>5, <1>6 DEF IsList
<1>8. /\ blit \in Seq(Addr) /\ Len(blit) = n
      /\ \A k \in 1 .. n : blit[k] = s[i + (k - 1)]
  <2>1. blit \in [1 .. n -> Addr] /\ \A k \in 1 .. n : blit[k] = s[i + (k - 1)]
    BY <1>7
  <2> HIDE DEF blit
  <2> QED BY <1>1, <1>2, <2>1
<1> HIDE DEF blit
<1>9. /\ drawn' \in Seq(Addr) /\ Len(drawn') = Len(drawn) + n
      /\ \A k \in 1 .. Len(drawn) + n :
           drawn'[k] = IF k <= Len(drawn) THEN drawn[k] ELSE blit[k - Len(drawn)]
  BY <1>1, <1>3, <1>8, ConcatProperties
<1>10. ASSUME NEW k \in 1 .. Len(drawn') PROVE drawn'[k] = s[k]
  <2>1. k \in 1 .. Len(drawn) + n /\ Len(drawn) \in Nat
    BY <1>9
  <2>2. CASE k <= Len(drawn)
    <3>1. k \in 1 .. Len(drawn)
      BY <2>1, <2>2
    <3> QED BY <1>9, <2>1, <2>2, <3>1 DEF IsDrawn
  <2>3. CASE k > Len(drawn)
    <3>1. k - Len(drawn) \in 1 .. n /\ i + (k - Len(drawn) - 1) = k
      BY <1>1, <1>2, <2>1, <2>3
    <3>2. blit[k - Len(drawn)] = s[k]
      BY <1>8, <3>1
    <3> QED BY <1>2, <1>9, <2>1, <2>3, <3>2
  <2> QED BY <2>1, <2>2, <2>3
<1>11. j' \in Nat /\ j' <= population' /\ Len(drawn') = population' - j'
  <2>1. Len(drawn') = (population - j) + n
    BY <1>1, <1>9
  <2>2. j' \in Nat /\ j' <= population' /\ (population - j) + n = population' - j'
    BY <1>1, <1>2, <1>3
  <2> QED BY <2>1, <2>2
<1>12. ASSUME j' > 0 PROVE p' = s[population' - j' + 1]
  <2>1. n \in 0 .. MaxPenguins /\ i + n <= population /\ population' - j' + 1 = i + n
    BY <1>1, <1>2, <1>3, <1>12
  <2> HIDE DEF i
  <2> QED BY <1>3, <1>5, <2>1
<1> QED BY <1>9, <1>10, <1>11, <1>12 DEF IsDrawn
LEMMA PointsType ==
  ASSUME NEW black \in Masks \cup {{}}
  PROVE  {<<b[1] * (1000 \div MaskWidth), b[2] * (1000 \div MaskHeight)>> : b \in black}
           \subseteq Nat \X Nat
<1>1. \A b \in black : b[1] \in Nat /\ b[2] \in Nat
  BY PenguinsAssumption
<1>2. 1000 \div MaskWidth \in Nat /\ 1000 \div MaskHeight \in Nat
  BY Sizes
<1>3. \A m, n \in Nat : m * n \in Nat
  OBVIOUS
<1> QED BY <1>1, <1>2, <1>3

\* A step between control points that leaves the list alone.
LEMMA ListStays ==
  ASSUME ShapeInv, pc \notin Late, pc' # "draw", UNCHANGED list
  PROVE  \E s \in [1 .. population' -> Addr] : IsList(s)' /\ (pc' = "draw" => IsDrawn(s)')
<1>1. PICK s \in [1 .. population -> Addr] : IsList(s)
  BY DEF ShapeInv
<1>2. IsList(s)' /\ population' = population
  BY <1>1, UnchangedKeeps DEF list
<1> QED BY <1>1, <1>2

LEMMA LinksStay ==
  ASSUME ShapeInv, pc \notin Late, pc' # "draw", SameLinks
  PROVE  \E s \in [1 .. population' -> Addr] : IsList(s)' /\ (pc' = "draw" => IsDrawn(s)')
<1>1. PICK s \in [1 .. population -> Addr] : IsList(s)
  BY DEF ShapeInv
<1>2. IsList(s)' /\ population' = population
  BY <1>1, SameLinksKeep DEF SameLinks, ShapeInv
<1> QED BY <1>1, <1>2

\* A live penguin is a record of all fields.
LEMMA LiveType ==
  ASSUME ShapeInv, pc \notin Late
  PROVE  /\ List \subseteq Addr
         /\ \A a \in Addr : a \in List <=> Live(a)
         /\ \A a \in List : heap[a] \in PenguinType
<1>1. PICK s \in [1 .. population -> Addr] : IsList(s)
  BY DEF ShapeInv
<1>2. List = {a \in Addr : Live(a)}
  BY <1>1, ListIsLive, Sizes DEF ShapeInv
<1>3. \A a \in Addr : Live(a) => heap[a] \in PenguinType
  BY DEF ShapeInv, TypeInv, Live
<1> QED BY <1>2, <1>3

LEMMA MoveLinks ==
  ASSUME ShapeInv, pc \notin Late, UNCHANGED <<penguins, last_penguin, population>>,
         NEW walk \in [List -> Walks], NEW jitter \in [List -> Jitters],
         heap' = [a \in Addr |-> IF a \in List THEN MovePenguin(heap[a], walk[a], jitter[a])
                                               ELSE heap[a]]
  PROVE  SameLinks
<1>. PICK h : h = [a \in List |-> MovePenguin(heap[a], walk[a], jitter[a])]
  OBVIOUS
<1>1. \A a \in List : heap[a] \in PenguinType /\ walk[a] \in Int \X Int /\ jitter[a] \in Int \X Int
  BY LiveType, PenguinsAssumption
<1>2. \A a \in List : h[a] \in PenguinType /\ h[a].next = heap[a].next
  BY <1>1, MoveType
<1>3. h \in [List -> PenguinType]
  BY <1>2
<1>4. heap' = [a \in Addr |-> IF a \in List THEN h[a] ELSE heap[a]]
  OBVIOUS
<1> QED BY <1>2, <1>3, <1>4, EachKept

LEMMA ReviveLinks ==
  ASSUME ShapeInv, pc \notin Late, UNCHANGED <<penguins, last_penguin, population>>,
         heap' = [a \in Addr |-> IF a \in List THEN [heap[a] EXCEPT !.moving = TRUE] ELSE heap[a]]
  PROVE  SameLinks
<1>. PICK h : h = [a \in List |-> [heap[a] EXCEPT !.moving = TRUE]]
  OBVIOUS
<1>1. \A a \in List : heap[a] \in PenguinType
  BY LiveType
<1>2. \A q \in PenguinType : [q EXCEPT !.moving = TRUE] \in PenguinType
                             /\ [q EXCEPT !.moving = TRUE].next = q.next
  BY DEF PenguinType
<1>3. \A a \in List : h[a] \in PenguinType /\ h[a].next = heap[a].next
  BY <1>1, <1>2
<1>4. h \in [List -> PenguinType]
  BY <1>3
<1>5. heap' = [a \in Addr |-> IF a \in List THEN h[a] ELSE heap[a]]
  OBVIOUS
<1> QED BY <1>3, <1>4, <1>5, EachKept

LEMMA SendLinks ==
  ASSUME ShapeInv, pc \notin Late, UNCHANGED <<penguins, last_penguin, population>>,
         NEW c \in [List -> coords],
         heap' = [a \in Addr |-> IF a \in List THEN Send(heap[a], c[a]) ELSE heap[a]]
  PROVE  SameLinks
<1>. PICK h : h = [a \in List |-> Send(heap[a], c[a])]
  OBVIOUS
<1>1. \A a \in List : heap[a] \in PenguinType /\ c[a] \in Nat \X Nat
  BY LiveType DEF ShapeInv, TypeInv
<1>2. \A a \in List : h[a] \in PenguinType /\ h[a].next = heap[a].next
  BY <1>1, SendType
<1>3. h \in [List -> PenguinType]
  BY <1>2
<1>4. heap' = [a \in Addr |-> IF a \in List THEN h[a] ELSE heap[a]]
  OBVIOUS
<1> QED BY <1>2, <1>3, <1>4, EachKept
-----------------------------------------------------------------------------
(* The list through any sequence of keys *)

LEMMA ShapeInit == Init => ShapeInv
<1> SUFFICES ASSUME Init PROVE ShapeInv
  OBVIOUS
<1>1. TypeInv
  BY Sizes DEF Init, TypeInv, Early, Pointer
<1>2. population = 0 /\ penguins = NULL /\ pc = "setup" /\ \A a \in Addr : ~Live(a)
  BY DEF Init, Live
<1>. PICK s : s = [k \in 1 .. 0 |-> 0]
  OBVIOUS
<1>3. s \in [1 .. population -> Addr] /\ IsList(s)
  BY <1>2 DEF IsList
<1> QED BY <1>1, <1>2, <1>3 DEF ShapeInv, Late

LEMMA ShapeStep == ShapeInv /\ [Next]_vars => ShapeInv'
<1> SUFFICES ASSUME ShapeInv, [Next]_vars PROVE ShapeInv'
  OBVIOUS
<1>1. CASE SetupCall
  <2>1. TypeInv'
    BY <1>1 DEF SetupCall, ShapeInv, TypeInv, list, drawing, Early, Running, Late
  <2>2. pc \notin Late /\ pc' # "draw" /\ UNCHANGED list
    BY <1>1 DEF SetupCall, Late
  <2>3. \E s \in [1 .. population' -> Addr] : IsList(s)' /\ (pc' = "draw" => IsDrawn(s)')
    BY <2>2, ListStays
  <2> QED BY <1>1, <2>1, <2>2, <2>3 DEF SetupCall, ShapeInv, TypeInv, list, Early, Running, Late
<1>2. CASE SetupFatal
  <2>1. TypeInv'
    BY <1>2 DEF SetupFatal, resources, ShapeInv, TypeInv, list, drawing, Early, Running, Late
  <2>2. pc \notin Late /\ pc' # "draw" /\ UNCHANGED list
    BY <1>2 DEF SetupFatal, resources, Late
  <2>3. \E s \in [1 .. population' -> Addr] : IsList(s)' /\ (pc' = "draw" => IsDrawn(s)')
    BY <2>2, ListStays
  <2> QED BY <1>2, <2>1, <2>2, <2>3 DEF SetupFatal, resources, ShapeInv, TypeInv, list, Early, Running, Late
<1>3. CASE SetupDouble
  <2>1. TypeInv'
    BY <1>3 DEF SetupDouble, ShapeInv, TypeInv, list, drawing, Early, Running, Late
  <2>2. pc \notin Late /\ pc' # "draw" /\ UNCHANGED list
    BY <1>3 DEF SetupDouble, Late
  <2>3. \E s \in [1 .. population' -> Addr] : IsList(s)' /\ (pc' = "draw" => IsDrawn(s)')
    BY <2>2, ListStays
  <2> QED BY <1>3, <2>1, <2>2, <2>3 DEF SetupDouble, ShapeInv, TypeInv, list, Early, Running, Late
<1>4. CASE SetupUnchecked
  <2>1. TypeInv'
    BY <1>4 DEF SetupUnchecked, resources, ShapeInv, TypeInv, list, drawing, Early, Running, Late
  <2>2. pc \notin Late /\ pc' # "draw" /\ UNCHANGED list
    BY <1>4 DEF SetupUnchecked, resources, Late
  <2>3. \E s \in [1 .. population' -> Addr] : IsList(s)' /\ (pc' = "draw" => IsDrawn(s)')
    BY <2>2, ListStays
  <2> QED BY <1>4, <2>1, <2>2, <2>3 DEF SetupUnchecked, resources, ShapeInv, TypeInv, list, Early, Running, Late
<1>5. CASE ReadMask
  <2>1. TypeInv'
    BY <1>5, PointsType, Sizes DEF ReadMask, resources, ShapeInv, TypeInv, list, drawing, Early, Running, Late
  <2>2. pc \notin Late /\ pc' # "draw" /\ UNCHANGED list
    BY <1>5 DEF ReadMask, resources, Late
  <2>3. \E s \in [1 .. population' -> Addr] : IsList(s)' /\ (pc' = "draw" => IsDrawn(s)')
    BY <2>2, ListStays
  <2> QED BY <1>5, <2>1, <2>2, <2>3, PointsType, Sizes DEF ReadMask, resources, ShapeInv, TypeInv, list, Early, Running, Late
<1>6. CASE Flip
  <2>1. TypeInv'
    BY <1>6 DEF Flip, ShapeInv, TypeInv, list, drawing, Early, Running, Late
  <2>2. pc \notin Late /\ pc' # "draw" /\ UNCHANGED list
    BY <1>6 DEF Flip, Late
  <2>3. \E s \in [1 .. population' -> Addr] : IsList(s)' /\ (pc' = "draw" => IsDrawn(s)')
    BY <2>2, ListStays
  <2> QED BY <1>6, <2>1, <2>2, <2>3 DEF Flip, ShapeInv, TypeInv, list, Early, Running, Late
<1>7. CASE NoKey
  <2>1. TypeInv'
    BY <1>7 DEF NoKey, ShapeInv, TypeInv, list, drawing, Early, Running, Late
  <2>2. pc \notin Late /\ pc' # "draw" /\ UNCHANGED list
    BY <1>7 DEF NoKey, Late
  <2>3. \E s \in [1 .. population' -> Addr] : IsList(s)' /\ (pc' = "draw" => IsDrawn(s)')
    BY <2>2, ListStays
  <2> QED BY <1>7, <2>1, <2>2, <2>3 DEF NoKey, ShapeInv, TypeInv, list, Early, Running, Late
<1>8. CASE KeyQuit
  <2>1. TypeInv'
    BY <1>8 DEF KeyQuit, Press, ShapeInv, TypeInv, list, drawing, Early, Running, Late
  <2>2. pc \notin Late /\ pc' # "draw" /\ UNCHANGED list
    BY <1>8 DEF KeyQuit, Press, Late
  <2>3. \E s \in [1 .. population' -> Addr] : IsList(s)' /\ (pc' = "draw" => IsDrawn(s)')
    BY <2>2, ListStays
  <2> QED BY <1>8, <2>1, <2>2, <2>3 DEF KeyQuit, Press, ShapeInv, TypeInv, list, Early, Running, Late
<1>9. CASE KeySpawn
  <2>1. TypeInv'
    BY <1>9, Sizes DEF KeySpawn, Press, ShapeInv, TypeInv, list, drawing, Early, Running, Late
  <2>2. pc \notin Late /\ pc' # "draw" /\ UNCHANGED list
    BY <1>9 DEF KeySpawn, Press, Late
  <2>3. \E s \in [1 .. population' -> Addr] : IsList(s)' /\ (pc' = "draw" => IsDrawn(s)')
    BY <2>2, ListStays
  <2> QED BY <1>9, <2>1, <2>2, <2>3, Sizes DEF KeySpawn, Press, ShapeInv, TypeInv, list, Early, Running, Late
<1>10. CASE KeyDestroy
  <2>1. TypeInv'
    BY <1>10, Sizes DEF KeyDestroy, Press, ShapeInv, TypeInv, list, drawing, Early, Running, Late
  <2>2. pc \notin Late /\ pc' # "draw" /\ UNCHANGED list
    BY <1>10 DEF KeyDestroy, Press, Late
  <2>3. \E s \in [1 .. population' -> Addr] : IsList(s)' /\ (pc' = "draw" => IsDrawn(s)')
    BY <2>2, ListStays
  <2> QED BY <1>10, <2>1, <2>2, <2>3, Sizes DEF KeyDestroy, Press, ShapeInv, TypeInv, list, Early, Running, Late
<1>11. CASE KeyClip
  <2>1. TypeInv'
    BY <1>11 DEF KeyClip, Press, ShapeInv, TypeInv, list, drawing, Early, Running, Late
  <2>2. pc \notin Late /\ pc' # "draw" /\ UNCHANGED list
    BY <1>11 DEF KeyClip, Press, Late
  <2>3. \E s \in [1 .. population' -> Addr] : IsList(s)' /\ (pc' = "draw" => IsDrawn(s)')
    BY <2>2, ListStays
  <2> QED BY <1>11, <2>1, <2>2, <2>3 DEF KeyClip, Press, ShapeInv, TypeInv, list, Early, Running, Late
<1>12. CASE KeyRevive
  <2>1. pc \notin Late /\ UNCHANGED <<penguins, last_penguin, population>> /\ UNCHANGED <<number, coords, j>>
        /\ pc = "keys" /\ pc' = "keys"
    BY <1>12 DEF KeyRevive, Press, Late, drawing
  <2>2. SameLinks
    BY <1>12, <2>1, ReviveLinks DEF KeyRevive
  <2>3. \E s \in [1 .. population' -> Addr] : IsList(s)' /\ (pc' = "draw" => IsDrawn(s)')
    BY <2>1, <2>2, LinksStay
  <2>4. TypeInv'
    BY <2>1, <2>2 DEF SameLinks, ShapeInv, TypeInv
  <2> QED BY <2>1, <2>3, <2>4 DEF ShapeInv, Early, Late
<1>13. CASE KeyFormation
  <2>1. pc \notin Late /\ UNCHANGED <<penguins, last_penguin, population>> /\ UNCHANGED <<number, coords, j>>
        /\ pc = "keys" /\ pc' = "keys"
    BY <1>13 DEF KeyFormation, Press, Late, drawing
  <2>2. SameLinks
    <3>1. CASE coords = {}
      <4>1. heap' = heap
        BY <1>13, <3>1 DEF KeyFormation
      <4> QED BY <2>1, <4>1 DEF SameLinks, Live, ShapeInv, TypeInv
    <3>2. CASE coords # {}
      <4>1. PICK c \in [List -> coords] :
              heap' = [a \in Addr |-> IF a \in List THEN Send(heap[a], c[a]) ELSE heap[a]]
        BY <1>13, <3>2 DEF KeyFormation
      <4> QED BY <2>1, <4>1, SendLinks
    <3> QED BY <3>1, <3>2
  <2>3. \E s \in [1 .. population' -> Addr] : IsList(s)' /\ (pc' = "draw" => IsDrawn(s)')
    BY <2>1, <2>2, LinksStay
  <2>4. TypeInv'
    BY <2>1, <2>2 DEF SameLinks, ShapeInv, TypeInv
  <2> QED BY <2>1, <2>3, <2>4 DEF ShapeInv, Early, Late
<1>14. CASE Spawn
  <2>1. CASE number > 0
    <3>1. PICK s \in [1 .. population -> Addr] : IsList(s)
      BY <1>14 DEF ShapeInv, Spawn, Late
    <3>2. spawn_penguin /\ number' = number - 1 /\ UNCHANGED <<pc, coords, j>>
      BY <1>14, <2>1 DEF Spawn, drawing
    <3>3. /\ heap' \in [Addr -> PenguinType \cup {Free}]
          /\ penguins' \in Pointer /\ last_penguin' \in Pointer
          /\ population' = population + 1
          /\ \E t \in [1 .. population' -> Addr] : IsList(t)'
      BY <3>1, <3>2, SpawnKeeps DEF ShapeInv
    <3>4. pc = "spawn" /\ pc' = "spawn" /\ population + number <= MaxPenguins
      BY <1>14, <3>2 DEF Spawn, ShapeInv
    <3>5. /\ population' \in 0 .. MaxPenguins /\ number' \in Nat
          /\ population' + number' <= MaxPenguins
      BY <2>1, <3>2, <3>3, <3>4, Sizes DEF ShapeInv, TypeInv
    <3>6. TypeInv'
      BY <3>2, <3>3, <3>5 DEF ShapeInv, TypeInv
    <3> QED BY <3>3, <3>4, <3>5, <3>6 DEF ShapeInv, Late, Early
  <2>2. CASE ~(number > 0)
    <3>1. pc \notin Late /\ pc' \in {"move", "keys"} /\ UNCHANGED list /\ UNCHANGED <<number, coords, j>>
      BY <1>14, <2>2 DEF Spawn, Late, AfterLoop, drawing
    <3>2. \E s \in [1 .. population' -> Addr] : IsList(s)' /\ (pc' = "draw" => IsDrawn(s)')
      BY <3>1, ListStays
    <3>3. TypeInv'
      BY <3>1 DEF ShapeInv, TypeInv, list, Running
    <3> QED BY <3>1, <3>2, <3>3 DEF ShapeInv, Late, Early
  <2> QED BY <2>1, <2>2
<1>15. CASE Destroy
  <2>1. CASE number > 0
    <3>1. PICK s \in [1 .. population -> Addr] : IsList(s)
      BY <1>15 DEF ShapeInv, Destroy, Late
    <3>2. destroy_penguin /\ number' = number - 1 /\ UNCHANGED <<pc, coords, j>>
      BY <1>15, <2>1 DEF Destroy, drawing
    <3>3. /\ heap' \in [Addr -> PenguinType \cup {Free}]
          /\ penguins' \in Pointer /\ last_penguin' \in Pointer
          /\ population' \in 0 .. MaxPenguins
          /\ \E t \in [1 .. population' -> Addr] : IsList(t)'
      BY <3>1, <3>2, DestroyKeeps DEF ShapeInv
    <3>4. pc = "destroy" /\ pc' = "destroy"
      BY <1>15, <3>2 DEF Destroy
    <3>5. number' \in Nat
      BY <2>1, <3>2 DEF ShapeInv, TypeInv
    <3>6. TypeInv'
      BY <3>2, <3>3, <3>5 DEF ShapeInv, TypeInv
    <3> QED BY <3>3, <3>4, <3>6 DEF ShapeInv, Late, Early
  <2>2. CASE ~(number > 0)
    <3>1. pc \notin Late /\ pc' \in {"move", "keys"} /\ UNCHANGED list /\ UNCHANGED <<number, coords, j>>
      BY <1>15, <2>2 DEF Destroy, Late, AfterLoop, drawing
    <3>2. \E s \in [1 .. population' -> Addr] : IsList(s)' /\ (pc' = "draw" => IsDrawn(s)')
      BY <3>1, ListStays
    <3>3. TypeInv'
      BY <3>1 DEF ShapeInv, TypeInv, list, Running
    <3> QED BY <3>1, <3>2, <3>3 DEF ShapeInv, Late, Early
  <2> QED BY <2>1, <2>2
<1>16. CASE Move
  <2>1. /\ pc = "move" /\ pc' = "draw" /\ j' = population /\ p' = penguins /\ drawn' = <<>>
        /\ UNCHANGED <<penguins, last_penguin, population>> /\ UNCHANGED <<number, coords>>
    BY <1>16 DEF Move
  <2>2. PICK walk \in [List -> Walks], jitter \in [List -> Jitters] :
          heap' = [a \in Addr |-> IF a \in List THEN MovePenguin(heap[a], walk[a], jitter[a])
                                                ELSE heap[a]]
    BY <1>16 DEF Move
  <2>3. SameLinks
    BY <2>1, <2>2, MoveLinks DEF Late
  <2>4. PICK s \in [1 .. population -> Addr] : IsList(s)
    BY <2>1 DEF ShapeInv, Late
  <2>5. IsList(s)' /\ s \in [1 .. population' -> Addr]
    BY <2>1, <2>3, <2>4, SameLinksKeep DEF ShapeInv
  <2>6. TypeInv'
    BY <2>1, <2>3 DEF SameLinks, ShapeInv, TypeInv, Running
  <2>7. IsDrawn(s)'
    <3>1. population \in Nat /\ drawn' \in Seq(Addr) /\ Len(drawn') = 0
      BY <2>1 DEF ShapeInv, TypeInv
    <3>2. population > 0 => penguins = s[1]
      BY <2>4 DEF IsList
    <3>3. population' = population /\ population - population = 0 /\ population - population + 1 = 1
      BY <2>1, <3>1
    <3> QED BY <2>1, <3>1, <3>2, <3>3 DEF IsDrawn
  <2> QED BY <2>1, <2>5, <2>6, <2>7 DEF ShapeInv, Early, Late
<1>17. CASE DrawBatch
  <2>1. pc = "draw" /\ UNCHANGED <<pc, number, coords>> /\ UNCHANGED list
    BY <1>17 DEF DrawBatch
  <2>2. PICK s \in [1 .. population -> Addr] : IsList(s) /\ IsDrawn(s)
    BY <2>1 DEF ShapeInv, Late
  <2>3. IsDrawn(s)' /\ j' \in Nat
    BY <1>17, <2>2, DrawKeeps DEF ShapeInv
  <2>4. IsList(s)' /\ s \in [1 .. population' -> Addr]
    BY <2>1, <2>2, UnchangedKeeps DEF list
  <2>5. TypeInv'
    BY <2>1, <2>3 DEF ShapeInv, TypeInv, list
  <2> QED BY <2>1, <2>3, <2>4, <2>5 DEF ShapeInv, Early, Late
<1>18. CASE DestroyAll
  <2>1. /\ pc = "move" /\ pc' = "deinit" /\ penguins' = NULL /\ coords' = {}
        /\ heap' = [a \in Addr |-> IF a \in List THEN Free ELSE heap[a]]
        /\ UNCHANGED <<last_penguin, population, number, j>>
    BY <1>18 DEF DestroyAll, drawing
  <2>2. \A a \in Addr : a \in List <=> Live(a)
    BY <2>1, LiveType DEF Late
  <2>3. \A a \in Addr : heap'[a] = Free
    BY <2>1, <2>2 DEF Live
  <2>4. \A a \in Addr : ~Live(a)'
    BY <2>3 DEF Live
  <2>5. TypeInv'
    BY <2>1, <2>3 DEF ShapeInv, TypeInv, Pointer, Late
  <2> QED BY <2>1, <2>4, <2>5 DEF ShapeInv, Early, Late
<1>19. CASE Release
  <2>1. pc = "deinit" /\ pc' \in Late /\ UNCHANGED list /\ UNCHANGED <<number, coords, j>>
    BY <1>19 DEF Release, Late, drawing
  <2>2. TypeInv'
    BY <2>1 DEF ShapeInv, TypeInv, list
  <2>3. \A a \in Addr : ~Live(a)'
    BY <2>1 DEF ShapeInv, Late, Live, list
  <2> QED BY <2>1, <2>2, <2>3 DEF ShapeInv, Late, Early, list
<1>20. CASE UNCHANGED vars
  <2>1. UNCHANGED list /\ UNCHANGED <<pc, number, coords, j, p, drawn>>
    BY <1>20 DEF vars, list
  <2>2. TypeInv'
    BY <2>1 DEF ShapeInv, TypeInv, list
  <2>3. \A s : IsList(s)' = IsList(s) /\ IsDrawn(s)' = IsDrawn(s)
    BY <2>1 DEF list, IsList, IsDrawn, Live
  <2>4. \A a \in Addr : Live(a)' = Live(a)
    BY <2>1 DEF list, Live
  <2>5. (\E s \in [1 .. population -> Addr] : IsList(s) /\ (pc = "draw" => IsDrawn(s)))
          => \E s \in [1 .. population' -> Addr] : IsList(s)' /\ (pc' = "draw" => IsDrawn(s)')
    BY <2>1, <2>3 DEF list
  <2> QED BY <2>1, <2>2, <2>4, <2>5 DEF ShapeInv, list
<1>21. CASE Stopped
  BY <1>21, <1>20 DEF Stopped
<1> QED
  BY <1>1, <1>2, <1>3, <1>4, <1>5, <1>6, <1>7, <1>8, <1>9, <1>10, <1>11, <1>12, <1>13, <1>14, <1>15, <1>16, <1>17, <1>18, <1>19, <1>20, <1>21 DEF Next, Main

LEMMA ShapeHolds == Spec => []ShapeInv
BY ShapeInit, ShapeStep, PTL DEF Spec
LEMMA ShapeGivesList == ShapeInv => ListShape
<1> SUFFICES ASSUME ShapeInv PROVE ListShape
  OBVIOUS
<1>1. CASE pc \in Late
  <2>1. penguins = NULL /\ \A a \in Addr : ~Live(a)
    BY <1>1 DEF ShapeInv
  <2>2. List = {}
    BY <2>1, ChainOfNull, Sizes DEF List
  <2>3. {a \in Addr : Live(a)} = List
    BY <2>1, <2>2
  <2> QED BY <1>1, <2>1, <2>3 DEF ListShape, Late
<1>2. CASE pc \notin Late
  <2>1. PICK s \in [1 .. population -> Addr] : IsList(s)
    BY <1>2 DEF ShapeInv
  <2>2. population \in Nat /\ population <= MaxPenguins
    BY DEF ShapeInv, TypeInv
  <2>3. List = {s[k] : k \in 1 .. population} /\ List = {a \in Addr : Live(a)}
    BY <2>1, ListIs, ListIsLive, Sizes DEF ShapeInv
  <2>4. CASE population = 0
    BY <2>1, <2>3, <2>4 DEF ListShape, IsList
  <2>5. CASE population > 0
    <3>1. 1 \in 1 .. population /\ population \in 1 .. population
      BY <2>2, <2>5
    <3>2. penguins = s[1] /\ last_penguin = s[population] /\ heap[s[population]].next = NULL
      BY <2>1, <2>5 DEF IsList
    <3>3. penguins # NULL
      BY <2>1, <3>1, <3>2 DEF IsList, Addr, NULL
    <3>4. last_penguin \in List
      BY <2>3, <3>1, <3>2
    <3>5. Cardinality(List) = population
      <4>1. s \in Bijection(1 .. population, List)
        <5>1. s \in [1 .. population -> List]
          BY <2>1, <2>3
        <5>2. \A k, l \in 1 .. population : s[k] = s[l] => k = l
          BY <2>1 DEF IsList
        <5>3. \A a \in List : \E k \in 1 .. population : s[k] = a
          BY <2>3
        <5> QED BY <5>1, <5>2, <5>3 DEF Bijection, Injection, Surjection, IsInjective
      <4>2. ExistsBijection(1 .. population, List)
        BY <4>1 DEF ExistsBijection
      <4>3. IsFiniteSet(1 .. population) /\ Cardinality(1 .. population) = population
        BY <2>2, <2>5, FS_Interval
      <4> QED BY <4>2, <4>3, FS_Bijection
    <3>6. ASSUME NEW k \in 0 .. population, NEW l \in 0 .. population,
                 Chain(penguins)[k] = Chain(penguins)[l]
          PROVE  k = l
      <4>1. \A m \in 0 .. MaxPenguins :
              Chain(penguins)[m] = IF 1 + m <= population THEN s[1 + m] ELSE NULL
        BY <2>1, <3>1, <3>2, ChainOfList, Sizes DEF ShapeInv
      <4>2. k \in 0 .. MaxPenguins /\ l \in 0 .. MaxPenguins
        BY <2>2, Sizes
      <4>3. \A m \in 1 .. population : s[m] # NULL
        BY <2>1 DEF IsList, Addr, NULL
      <4>4. CASE 1 + k <= population /\ 1 + l <= population
        <5>1. 1 + k \in 1 .. population /\ 1 + l \in 1 .. population
          BY <4>4
        <5>2. s[1 + k] = s[1 + l]
          BY <3>6, <4>1, <4>2, <4>4
        <5>3. 1 + k = 1 + l
          BY <2>1, <5>1, <5>2 DEF IsList
        <5> QED BY <5>3
      <4>5. CASE 1 + k <= population /\ ~(1 + l <= population)
        <5>1. 1 + k \in 1 .. population
          BY <4>5
        <5> QED BY <3>6, <4>1, <4>2, <4>3, <4>5, <5>1
      <4>6. CASE ~(1 + k <= population) /\ 1 + l <= population
        <5>1. 1 + l \in 1 .. population
          BY <4>6
        <5> QED BY <3>6, <4>1, <4>2, <4>3, <4>6, <5>1
      <4>7. CASE ~(1 + k <= population) /\ ~(1 + l <= population)
        BY <2>2, <4>7
      <4> QED BY <4>4, <4>5, <4>6, <4>7
    <3> QED BY <2>3, <3>2, <3>3, <3>4, <3>5, <3>6 DEF ListShape
  <2> QED BY <2>2, <2>4, <2>5
<1> QED BY <1>1, <1>2

\* After any sequence of keys, through an empty list and reused memory, the
\* list from `penguins' has `population' different nodes, they are all the
\* allocated ones, and last_penguin is its end (spawn_penguin, destroy_penguin).
THEOREM ListShapeHolds == Spec => []ListShape
BY ShapeHolds, ShapeGivesList, PTL
-----------------------------------------------------------------------------
(* The way into formation *)

LEMMA OnScreenType ==
  ASSUME NEW q, OnScreen(q)
  PROVE  q.x \in 0 .. XRes - XSprite /\ q.y \in 0 .. YRes - YSprite /\ q.x \in Int /\ q.y \in Int
BY Sizes DEF OnScreen

\* One axis of one turn of move_penguins, for a penguin that is not at rest.
LEMMA AxisStep ==
  ASSUME NEW pos \in Int, NEW togo \in Int, NEW c \in Nat, NEW res \in Nat, NEW sprite \in Nat,
         res >= 2 * sprite, pos \in 0 .. res - sprite,
         AxisOnCourse(pos, togo, c, res, sprite)
  PROVE  LET to == Advance(pos, Snap(togo))
         IN  AxisOnCourse(Clip(to[1], res, sprite), to[2], c, res, sprite)
<1> DEFINE m == c * res
           Way(q) == IF 1000 * q - m < 0 THEN -((-(1000 * q - m)) \div 1000) ELSE (1000 * q - m) \div 1000
           Course(q, t) == \/ t = Way(q)
                           \/ t = 0 /\ Abs(1000 * q - m) < 1000 * Step
                           \/ t <= 0 /\ q = res - sprite /\ m > 1000 * q
<1>1. m \in Nat
  OBVIOUS
<1>2. \A q, t \in Int : AxisOnCourse(q, t, c, res, sprite) <=> Course(q, t)
  BY DEF AxisOnCourse, ToGo
<1> HIDE DEF m
<1>3. Course(pos, togo)
  BY <1>2
<1>4. Step \in Nat /\ Step > 0
  BY Sizes
<1>5. CASE Abs(togo) < Step
  <2>1. Advance(pos, Snap(togo))[1] = pos /\ Advance(pos, Snap(togo))[2] = 0
    BY <1>4, <1>5 DEF Advance, Snap
  <2>2. Clip(pos, res, sprite) = pos
    BY DEF Clip
  <2>3. Course(pos, 0)
    BY <1>1, <1>3, <1>4, <1>5 DEF Abs
  <2> QED BY <1>2, <2>1, <2>2, <2>3
<1>6. CASE togo >= Step
  <2>1. Advance(pos, Snap(togo))[1] = pos - Step /\ Advance(pos, Snap(togo))[2] = togo - Step
    BY <1>4, <1>6 DEF Advance, Snap, Abs
  <2>2. togo = Way(pos)
    BY <1>3, <1>4, <1>6
  <2>3. pos - Step >= 0 /\ togo - Step = Way(pos - Step)
    BY <1>1, <1>4, <1>6, <2>2
  <2>4. Clip(pos - Step, res, sprite) = pos - Step
    BY <1>4, <2>3 DEF Clip
  <2> QED BY <1>2, <1>4, <2>1, <2>3, <2>4
<1>7. CASE togo <= -Step
  <2>1. Advance(pos, Snap(togo))[1] = pos + Step /\ Advance(pos, Snap(togo))[2] = togo + Step
    BY <1>4, <1>7 DEF Advance, Snap, Abs
  <2>2. CASE togo = Way(pos)
    <3>1. togo + Step = Way(pos + Step) /\ m >= 1000 * (pos + Step)
      BY <1>1, <1>4, <1>7, <2>2
    <3>2. CASE pos + Step <= res - sprite
      <4>1. Clip(pos + Step, res, sprite) = pos + Step
        BY <1>4, <3>2 DEF Clip
      <4> QED BY <1>2, <1>4, <2>1, <3>1, <4>1
    <3>3. CASE pos + Step > res - sprite
      <4>1. Clip(pos + Step, res, sprite) = res - sprite
        BY <1>4, <3>3 DEF Clip
      <4>2. Course(res - sprite, togo + Step)
        BY <1>1, <1>4, <1>7, <3>1, <3>3
      <4> QED BY <1>2, <1>4, <2>1, <4>1, <4>2
    <3> QED BY <1>4, <3>2, <3>3
  <2>3. CASE togo # Way(pos)
    <3>1. pos = res - sprite /\ m > 1000 * pos
      BY <1>3, <1>4, <1>7, <2>3
    <3>2. Clip(pos + Step, res, sprite) = res - sprite
      BY <1>4, <3>1 DEF Clip
    <3>3. Course(res - sprite, togo + Step)
      BY <1>4, <1>7, <3>1
    <3> QED BY <1>2, <1>4, <2>1, <3>2, <3>3
  <2> QED BY <2>2, <2>3
<1> QED BY <1>4, <1>5, <1>6, <1>7 DEF Abs
\* What CourseInv says of a penguin, apart from its link.
Fine(q, points) ==
  /\ OnScreen(q)
  /\ ~q.moving /\ (q.x_togo # 0 \/ q.y_togo # 0) =>
       \E c \in points : /\ AxisOnCourse(q.x, q.x_togo, c[1], XRes, XSprite)
                         /\ AxisOnCourse(q.y, q.y_togo, c[2], YRes, YSprite)

LEMMA CourseIsFine == CourseInv <=> \A a \in Addr : Live(a) => Fine(heap[a], coords)
BY DEF CourseInv, OnCourse, Marching, Fine

LEMMA CourseIsFinePrimed == CourseInv' <=> \A a \in Addr : Live(a)' => Fine(heap'[a], coords')
BY DEF CourseInv, OnCourse, Marching, Fine, OnScreen, Live

LEMMA NewIsFine == \A points : Fine(NewPenguin, points)
BY NewPenguinType DEF Fine

LEMMA LinkKeepsFine ==
  ASSUME NEW q \in PenguinType, NEW a, NEW points, Fine(q, points)
  PROVE  Fine([q EXCEPT !.next = a], points)
BY DEF Fine, OnScreen, PenguinType

LEMMA ReviveIsFine ==
  ASSUME NEW q \in PenguinType, NEW points, Fine(q, points)
  PROVE  Fine([q EXCEPT !.moving = TRUE], points)
BY DEF Fine, OnScreen, PenguinType

LEMMA SendIsFine ==
  ASSUME NEW q \in PenguinType, NEW points, points \subseteq Nat \X Nat, NEW c \in points,
         Fine(q, points)
  PROVE  Fine(Send(q, c), points)
<1>1. /\ Send(q, c).x = q.x /\ Send(q, c).y = q.y
      /\ Send(q, c).x_togo = ToGo(q.x, c[1], XRes)
      /\ Send(q, c).y_togo = ToGo(q.y, c[2], YRes)
  BY SendType
<1>2. OnScreen(Send(q, c))
  BY <1>1 DEF OnScreen, Fine
<1>3. /\ AxisOnCourse(Send(q, c).x, Send(q, c).x_togo, c[1], XRes, XSprite)
      /\ AxisOnCourse(Send(q, c).y, Send(q, c).y_togo, c[2], YRes, YSprite)
  BY <1>1 DEF AxisOnCourse
<1> QED BY <1>2, <1>3 DEF Fine

\* A penguin that marches after its move marched before, and was not shaken:
\* both axes are those of AxisStep.
LEMMA MoveIsFine ==
  ASSUME NEW q \in PenguinType, NEW walk \in Int \X Int, NEW jitter \in Int \X Int,
         NEW points, points \subseteq Nat \X Nat, Fine(q, points)
  PROVE  Fine(MovePenguin(q, walk, jitter), points)
<1> DEFINE r == MovePenguin(q, walk, jitter)
           mx == Snap(q.x_togo)
           my == Snap(q.y_togo)
<1>1. OnScreen(r) /\ r.moving = q.moving
  BY MoveType
<1>2. q.x \in Int /\ q.y \in Int /\ q.x_togo \in Int /\ q.y_togo \in Int
  BY DEF PenguinType
<1>3. mx \in Int /\ my \in Int
  BY <1>2, SnapType
<1>4. CASE q.moving
  BY <1>1, <1>4 DEF Fine
<1>5. CASE ~q.moving /\ mx = 0 /\ my = 0
  <2>1. r = LET ax == Advance(q.x + jitter[1], 0)
                ay == Advance(q.y + jitter[2], 0)
            IN  [q EXCEPT !.x = Clip(ax[1], XRes, XSprite), !.x_togo = ax[2],
                          !.y = Clip(ay[1], YRes, YSprite), !.y_togo = ay[2]]
    BY <1>5 DEF MovePenguin
  <2>2. \A n \in Int : Advance(n, 0)[2] = 0
    BY DEF Advance
  <2>3. q.x + jitter[1] \in Int /\ q.y + jitter[2] \in Int
    BY <1>2
  <2>4. r.x_togo = Advance(q.x + jitter[1], 0)[2] /\ r.y_togo = Advance(q.y + jitter[2], 0)[2]
    BY <2>1 DEF PenguinType
  <2>5. r.x_togo = 0 /\ r.y_togo = 0
    BY <2>2, <2>3, <2>4
  <2> QED BY <1>1, <2>5 DEF Fine
<1>6. CASE ~q.moving /\ ~(mx = 0 /\ my = 0)
  <2> DEFINE ax == Advance(q.x, mx)
             ay == Advance(q.y, my)
  <2>1. q.x + 0 = q.x /\ q.y + 0 = q.y
    BY <1>2
  <2>2. r = [q EXCEPT !.x = Clip(ax[1], XRes, XSprite), !.x_togo = ax[2],
                      !.y = Clip(ay[1], YRes, YSprite), !.y_togo = ay[2]]
    BY <1>6, <2>1 DEF MovePenguin
  <2> HIDE DEF ax, ay
  <2>3. /\ r.x = Clip(ax[1], XRes, XSprite) /\ r.x_togo = ax[2]
        /\ r.y = Clip(ay[1], YRes, YSprite) /\ r.y_togo = ay[2]
    BY <2>2 DEF PenguinType
  <2>4. q.x_togo # 0 \/ q.y_togo # 0
    <3>1. Snap(0) = 0
      BY DEF Snap
    <3> QED BY <1>6, <3>1
  <2>5. PICK c \in points : /\ AxisOnCourse(q.x, q.x_togo, c[1], XRes, XSprite)
                            /\ AxisOnCourse(q.y, q.y_togo, c[2], YRes, YSprite)
    BY <1>6, <2>4 DEF Fine
  <2>6. c[1] \in Nat /\ c[2] \in Nat /\ q.x \in 0 .. XRes - XSprite /\ q.y \in 0 .. YRes - YSprite
    BY DEF Fine, OnScreen
  <2>7. AxisOnCourse(Clip(ax[1], XRes, XSprite), ax[2], c[1], XRes, XSprite)
    BY <1>2, <2>5, <2>6, AxisStep, Sizes DEF ax
  <2>8. AxisOnCourse(Clip(ay[1], YRes, YSprite), ay[2], c[2], YRes, YSprite)
    BY <1>2, <2>5, <2>6, AxisStep, Sizes DEF ay
  <2>9. /\ AxisOnCourse(r.x, r.x_togo, c[1], XRes, XSprite)
        /\ AxisOnCourse(r.y, r.y_togo, c[2], YRes, YSprite)
    BY <2>3, <2>7, <2>8
  <2> QED BY <1>1, <2>9 DEF Fine
<1>7. q.moving \in BOOLEAN
  BY DEF PenguinType
<1> QED BY <1>4, <1>5, <1>6, <1>7

LEMMA CourseInit == Init => CourseInv
BY DEF Init, CourseInv, OnCourse, Marching, Live

LEMMA CourseStep == ShapeInv /\ CourseInv /\ [Next]_vars => CourseInv'
<1> SUFFICES ASSUME ShapeInv, CourseInv, [Next]_vars
             PROVE  \A a \in Addr : Live(a)' => Fine(heap'[a], coords')
  BY CourseIsFinePrimed
<1>1. \A a \in Addr : Live(a) => Fine(heap[a], coords)
  BY CourseIsFine
<1>2. \A a \in Addr : Live(a) => heap[a] \in PenguinType
  BY DEF ShapeInv, TypeInv, Live
<1>3. coords \subseteq Nat \X Nat /\ heap \in [Addr -> PenguinType \cup {Free}]
  BY DEF ShapeInv, TypeInv
<1>4. CASE UNCHANGED <<heap, coords>>
  BY <1>1, <1>4 DEF Live
<1>5. CASE ReadMask
  <2>1. pc = "mask" /\ heap' = heap
    BY <1>5 DEF ReadMask, list
  <2>2. population = 0 /\ \E s \in [1 .. population -> Addr] : IsList(s)
    BY <2>1 DEF ShapeInv, Early, Late
  <2>3. \A a \in Addr : ~Live(a)
    BY <2>2 DEF IsList
  <2> QED BY <2>1, <2>3 DEF Live
<1>6. CASE Spawn /\ number > 0
  <2>1. coords' = coords /\ spawn_penguin
    BY <1>6 DEF Spawn
  <2>2. PICK s \in [1 .. population -> Addr] : IsList(s)
    BY <1>6 DEF Spawn, ShapeInv, Late
  <2>3. PICK a \in Addr :
          IF penguins = NULL
          THEN heap' = [heap EXCEPT ![a] = NewPenguin]
          ELSE ~Live(a) /\ heap' = [heap EXCEPT ![a] = NewPenguin, ![last_penguin].next = a]
    BY <2>1 DEF spawn_penguin
  <2>4. CASE penguins = NULL
    BY <1>1, <1>3, <2>1, <2>3, <2>4, NewIsFine DEF Live
  <2>5. CASE penguins # NULL
    <3>1. population > 0 /\ population \in Nat
      BY <2>2, <2>5 DEF IsList, ShapeInv, TypeInv
    <3>2. population \in 1 .. population
      BY <3>1
    <3>3. last_penguin \in Addr /\ Live(last_penguin) /\ last_penguin # a
      BY <2>2, <2>3, <2>5, <3>1, <3>2 DEF IsList
    <3>4. /\ heap'[a] = NewPenguin
          /\ heap'[last_penguin] = [heap[last_penguin] EXCEPT !.next = a]
          /\ \A b \in Addr : b # a /\ b # last_penguin => heap'[b] = heap[b]
      BY <1>3, <2>3, <2>5, <3>3
    <3>5. Fine(heap'[last_penguin], coords)
      <4>1. heap[last_penguin] \in PenguinType /\ Fine(heap[last_penguin], coords)
        BY <1>1, <1>2, <3>3
      <4>2. Fine([heap[last_penguin] EXCEPT !.next = a], coords)
        BY <4>1, LinkKeepsFine, Zenon
      <4> QED BY <3>4, <4>2, Zenon
    <3> QED BY <1>1, <2>1, <3>4, <3>5, NewIsFine DEF Live
  <2> QED BY <2>4, <2>5
<1>7. CASE Destroy /\ number > 0
  <2>1. coords' = coords /\ destroy_penguin
    BY <1>7 DEF Destroy
  <2>2. heap' = heap \/ heap' = [heap EXCEPT ![penguins] = Free]
    BY <2>1 DEF destroy_penguin, list
  <2>3. \A a \in Addr : heap'[a] = heap[a] \/ heap'[a] = Free
    BY <1>3, <2>2
  <2> QED BY <1>1, <2>1, <2>3 DEF Live
<1>8. CASE Move
  <2>1. coords' = coords /\ pc \notin Late
    BY <1>8 DEF Move, Late
  <2>2. PICK walk \in [List -> Walks], jitter \in [List -> Jitters] :
          heap' = [a \in Addr |-> IF a \in List THEN MovePenguin(heap[a], walk[a], jitter[a])
                                                ELSE heap[a]]
    BY <1>8 DEF Move
  <2>3. ASSUME NEW a \in List PROVE Fine(MovePenguin(heap[a], walk[a], jitter[a]), coords)
    <3>1. Live(a) /\ a \in Addr
      BY <2>1, LiveType
    <3>2. walk[a] \in Int \X Int /\ jitter[a] \in Int \X Int
      BY PenguinsAssumption
    <3> QED BY <1>1, <1>2, <1>3, <3>1, <3>2, MoveIsFine
  <2> QED BY <1>1, <2>1, <2>2, <2>3 DEF Live
<1>9. CASE KeyRevive
  <2>1. /\ coords' = coords /\ pc \notin Late
        /\ heap' = [a \in Addr |-> IF a \in List THEN [heap[a] EXCEPT !.moving = TRUE] ELSE heap[a]]
    BY <1>9 DEF KeyRevive, Press, Late
  <2>2. \A a \in List : Live(a) /\ a \in Addr
    BY <2>1, LiveType
  <2>3. \A a \in List : Fine([heap[a] EXCEPT !.moving = TRUE], coords)
    BY <1>1, <1>2, <2>2, ReviveIsFine
  <2> QED BY <1>1, <2>1, <2>3 DEF Live
<1>10. CASE KeyFormation /\ coords # {}
  <2>1. coords' = coords /\ pc \notin Late
    BY <1>10 DEF KeyFormation, Press, Late
  <2>2. PICK c \in [List -> coords] :
          heap' = [a \in Addr |-> IF a \in List THEN Send(heap[a], c[a]) ELSE heap[a]]
    BY <1>10 DEF KeyFormation
  <2>3. \A a \in List : Live(a) /\ a \in Addr
    BY <2>1, LiveType
  <2>4. \A a \in List : Fine(Send(heap[a], c[a]), coords)
    BY <1>1, <1>2, <1>3, <2>3, SendIsFine
  <2> QED BY <1>1, <2>1, <2>2, <2>4 DEF Live
<1>11. CASE DestroyAll
  <2>1. pc \notin Late /\ heap' = [a \in Addr |-> IF a \in List THEN Free ELSE heap[a]]
    BY <1>11 DEF DestroyAll, Late
  <2>2. \A a \in Addr : heap'[a] = Free
    BY <2>1, LiveType DEF Live
  <2> QED BY <2>2 DEF Live
<1>12. CASE \/ SetupCall \/ SetupFatal \/ SetupDouble \/ SetupUnchecked \/ DrawBatch \/ Flip
            \/ NoKey \/ Release \/ Stopped \/ UNCHANGED vars
  <2>1. UNCHANGED <<heap, coords>>
    BY <1>12 DEF SetupCall, SetupFatal, SetupDouble, SetupUnchecked, DrawBatch, Flip, NoKey,
                 Release, Stopped, vars, list
  <2> QED BY <1>4, <2>1
<1>13. CASE KeyQuit \/ KeySpawn \/ KeyDestroy \/ KeyClip \/ (KeyFormation /\ coords = {})
  <2>1. UNCHANGED <<heap, coords>>
    BY <1>13 DEF KeyQuit, KeySpawn, KeyDestroy, KeyClip, KeyFormation, list
  <2> QED BY <1>4, <2>1
<1>14. CASE (Spawn \/ Destroy) /\ ~(number > 0)
  <2>1. UNCHANGED <<heap, coords>>
    BY <1>14 DEF Spawn, Destroy, list
  <2> QED BY <1>4, <2>1
<1> QED
  BY <1>5, <1>6, <1>7, <1>8, <1>9, <1>10, <1>11, <1>12, <1>13, <1>14 DEF Next, Main

LEMMA CourseHolds == Spec => []CourseInv
<1>1. Init => CourseInv
  BY CourseInit
<1>2. ShapeInv /\ CourseInv /\ [Next]_vars => CourseInv'
  BY CourseStep
<1> QED BY <1>1, <1>2, ShapeHolds, PTL DEF Spec

\* A penguin sent into formation is on both axes on the way to one point of the
\* mask until it rests, whatever it did when the key came and wherever the edge
\* has stopped it (penguins_search_destination, move_penguins).
THEOREM OnCourseHolds == Spec => []OnCourse
<1>1. CourseInv => OnCourse
  BY DEF CourseInv
<1> QED BY <1>1, CourseHolds, PTL

\* When a frame is flipped every penguin has been blitted once, and with its
\* whole picture on the screen (draw_penguins, move_penguins).
THEOREM FrameCompleteHolds == Spec => []FrameComplete
<1>1. ShapeInv /\ CourseInv => FrameComplete
  <2> SUFFICES ASSUME ShapeInv, CourseInv, pc = "draw", j <= 0
               PROVE  /\ Len(drawn) = population
                      /\ {drawn[k] : k \in 1 .. Len(drawn)} = List
                      /\ \A a \in List : OnScreen(heap[a])
    BY DEF FrameComplete, OnScreen
  <2>1. PICK s \in [1 .. population -> Addr] : IsList(s) /\ IsDrawn(s)
    BY DEF ShapeInv, Late
  <2>2. List = {s[k] : k \in 1 .. population}
    BY <2>1, ListIs, Sizes DEF ShapeInv
  <2>3. Len(drawn) = population
    BY <2>1 DEF IsDrawn, ShapeInv, TypeInv
  <2>4. \A k \in 1 .. population : drawn[k] = s[k]
    BY <2>1, <2>3 DEF IsDrawn
  <2>5. \A a \in List : OnScreen(heap[a])
    BY LiveType DEF CourseInv, Late
  <2> QED BY <2>2, <2>3, <2>4, <2>5
<1> QED BY <1>1, ShapeHolds, CourseHolds, PTL
-----------------------------------------------------------------------------
(* The resources *)

LEMMA SetupIs ==
  /\ Setup[1] = <<"get", "dfb">> /\ Setup[2] = <<"get", "keybuffer">>
  /\ Setup[3] = <<"get", "layer">> /\ Setup[4] = <<"put", "layer">>
  /\ Setup[5] = <<"get", "primary">> /\ Setup[6] = <<"get", "font">>
  /\ Setup[7] = <<"get", "provider">> /\ Setup[8] = <<"get", "tuximage">>
  /\ Setup[9] = <<"put", "provider">>
  /\ Setup[10] = <<"get", "provider">> /\ Setup[11] = <<"get", "background">>
  /\ Setup[12] = <<"put", "provider">>
  /\ Setup[13] = <<"get", "provider">> /\ Setup[14] = <<"get", "destination_mask">>
  /\ Setup[15] = <<"put", "provider">> /\ Len(Setup) = 15
BY DEF Setup

\* A call that takes an interface finds it not held, one that gives it back
\* finds it held; what is held after the call is what is held before the next.
LEMMA SetupCalls ==
  ASSUME NEW n \in 1 .. 15
  PROVE  /\ Setup[n][1] = "put" <=> Setup[n][2] \in HeldBefore[n]
         /\ HeldBefore[n + 1] = IF Setup[n][1] = "get" THEN HeldBefore[n] \cup {Setup[n][2]}
                                                       ELSE HeldBefore[n] \ {Setup[n][2]}
         /\ Setup[n][2] = "primary" => n = 5
<1>1. CASE n = 1
  BY <1>1, SetupIs DEF HeldBefore
<1>2. CASE n = 2
  BY <1>2, SetupIs DEF HeldBefore
<1>3. CASE n = 3
  BY <1>3, SetupIs DEF HeldBefore
<1>4. CASE n = 4
  BY <1>4, SetupIs DEF HeldBefore
<1>5. CASE n = 5
  BY <1>5, SetupIs DEF HeldBefore
<1>6. CASE n = 6
  BY <1>6, SetupIs DEF HeldBefore
<1>7. CASE n = 7
  BY <1>7, SetupIs DEF HeldBefore
<1>8. CASE n = 8
  BY <1>8, SetupIs DEF HeldBefore
<1>9. CASE n = 9
  BY <1>9, SetupIs DEF HeldBefore
<1>10. CASE n = 10
  BY <1>10, SetupIs DEF HeldBefore
<1>11. CASE n = 11
  BY <1>11, SetupIs DEF HeldBefore
<1>12. CASE n = 12
  BY <1>12, SetupIs DEF HeldBefore
<1>13. CASE n = 13
  BY <1>13, SetupIs DEF HeldBefore
<1>14. CASE n = 14
  BY <1>14, SetupIs DEF HeldBefore
<1>15. CASE n = 15
  BY <1>15, SetupIs DEF HeldBefore
<1> QED
  BY <1>1, <1>2, <1>3, <1>4, <1>5, <1>6, <1>7, <1>8, <1>9, <1>10, <1>11, <1>12, <1>13, <1>14, <1>15

LEMMA DeinitIs ==
  /\ Deinit[1] = "tuximage" /\ Deinit[2] = "background" /\ Deinit[3] = "destination_mask"
  /\ Deinit[4] = "primary" /\ Deinit[5] = "keybuffer" /\ Deinit[6] = "font"
  /\ Deinit[7] = "dfb" /\ Len(Deinit) = 7
BY DEF Deinit

LEMMA DeinitOnce == \A k, l \in 1 .. 7 : Deinit[k] = Deinit[l] => k = l
BY DeinitIs

LEMMA AllHeld == HeldBefore[16] = {Deinit[k] : k \in 1 .. 7}
BY DeinitIs DEF HeldBefore

LEMMA HeldInit == Init => HeldInv
BY DEF Init, HeldInv, HeldBefore, Running

LEMMA HeldStep == HeldInv /\ [Next]_vars => HeldInv'
<1> SUFFICES ASSUME HeldInv, [Next]_vars PROVE HeldInv'
  OBVIOUS
<1>1. CASE SetupCall
  <2>1. pc = "setup" /\ step \in 1 .. 15 /\ held = HeldBefore[step]
    BY <1>1 DEF SetupCall, HeldInv
  <2>2. step' = step + 1 /\ held' = HeldBefore[step + 1]
    BY <1>1, <2>1, SetupCalls DEF SetupCall
  <2>3. pc' = IF step = 15 THEN "mask" ELSE "setup"
    BY <1>1, SetupIs DEF SetupCall
  <2> QED BY <2>1, <2>2, <2>3 DEF HeldInv, Running
<1>2. CASE SetupDouble
  <2>1. pc = "setup" /\ pc' = "setup" /\ step \in 1 .. 15 /\ held = HeldBefore[step] /\ step = 5
    BY <1>2, SetupCalls DEF SetupDouble, HeldInv
  <2>2. Setup[5][1] = "get" /\ Setup[5][2] = "primary"
    BY SetupIs
  <2>3. step' = step + 1 /\ held' = HeldBefore[step + 1]
    BY <1>2, <2>1, <2>2, SetupCalls DEF SetupDouble
  <2> QED BY <2>1, <2>3 DEF HeldInv, Running
<1>3. CASE SetupFatal \/ SetupUnchecked
  BY <1>3 DEF SetupFatal, SetupUnchecked, HeldInv, Running
<1>4. CASE pc \in {"mask"} \cup Running /\ pc' \in Running /\ held' = held
  BY <1>4 DEF HeldInv, Running
<1>5. CASE DestroyAll
  <2>1. pc = "move" /\ pc' = "deinit" /\ step' = 1 /\ held' = held
    BY <1>5 DEF DestroyAll
  <2>2. held' = {Deinit[k] : k \in 1 .. 7}
    BY <2>1, AllHeld DEF HeldInv, Running
  <2> QED BY <2>1, <2>2 DEF HeldInv, Running
<1>6. CASE Release
  <2>1. /\ pc = "deinit" /\ step \in 1 .. 7 /\ held = {Deinit[k] : k \in step .. 7}
        /\ held' = held \ {Deinit[step]} /\ step' = step + 1
        /\ pc' = IF step = 7 THEN "done" ELSE "deinit"
    BY <1>6, DeinitIs DEF Release, HeldInv
  <2>2. held' = {Deinit[k] : k \in step + 1 .. 7}
    BY <2>1, DeinitOnce
  <2> QED BY <2>1, <2>2 DEF HeldInv, Running
<1>7. CASE ReadMask \/ Spawn \/ Destroy \/ Move \/ DrawBatch \/ Flip \/ NoKey
  <2>1. pc \in {"mask"} \cup Running /\ pc' \in Running /\ held' = held
    BY <1>7 DEF ReadMask, Spawn, Destroy, Move, DrawBatch, Flip, NoKey, AfterLoop, resources, Running
  <2> QED BY <1>4, <2>1
<1>8. CASE KeyQuit \/ KeySpawn \/ KeyDestroy \/ KeyRevive \/ KeyClip \/ KeyFormation
  <2>1. pc \in {"mask"} \cup Running /\ pc' \in Running /\ held' = held
    BY <1>8 DEF KeyQuit, KeySpawn, KeyDestroy, KeyRevive, KeyClip, KeyFormation, Press, resources, Running
  <2> QED BY <1>4, <2>1
<1>9. CASE Stopped \/ UNCHANGED vars
  BY <1>9 DEF Stopped, vars, HeldInv
<1> QED BY <1>1, <1>2, <1>3, <1>5, <1>6, <1>7, <1>8, <1>9 DEF Next, Main

\* init_resources gives back only what it holds and takes nothing twice, and
\* deinit_resources releases exactly what is held, with every penguin freed
\* before it.
THEOREM AllReleasedHolds == Spec => []AllReleased
<1>1. Init => HeldInv
  BY HeldInit
<1>2. HeldInv /\ [Next]_vars => HeldInv'
  BY HeldStep
<1>3. ShapeInv /\ HeldInv => AllReleased
  <2> SUFFICES ASSUME ShapeInv, HeldInv PROVE AllReleased
    OBVIOUS
  <2>1. pc = "setup" => (Setup[step][1] = "put" <=> Setup[step][2] \in held)
    BY SetupCalls DEF HeldInv
  <2>2. pc = "deinit" => Deinit[step] \in held
    BY DEF HeldInv
  <2>3. pc = "done" => held = {} /\ \A a \in Addr : ~Live(a)
    BY DEF HeldInv, ShapeInv, Late
  <2> QED BY <2>1, <2>2, <2>3 DEF AllReleased
<1> QED BY <1>1, <1>2, <1>3, ShapeHolds, PTL DEF Spec
=============================================================================
