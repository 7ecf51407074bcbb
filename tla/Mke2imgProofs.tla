---------------------------- MODULE Mke2imgProofs ----------------------------
(***************************************************************************)
(* Proofs about mke2img, for all source directories, every image, every    *)
(* number of entries to a block of a directory and any number of I/O       *)
(* errors.                                                                 *)
(*                                                                         *)
(* The argument follows the recursion of trawl_dir.  Every call on the     *)
(* stack fills a directory of the image of its own, linked in that of its  *)
(* caller, and what it still has to do was listed there and not touched    *)
(* before (`StackInv').  The working directory is the one that was listed, *)
(* or after a failed chdir("..") one below it (`CwdInv'): so a name may be *)
(* found too deep, never elsewhere.  A listed name is in the image, in a   *)
(* message, or still to be met (`CoverInv').                               *)
(***************************************************************************)
EXTENDS Mke2img, SequenceTheorems, FiniteSetTheorems, TLAPS

Frames == [ino : Inodes \cup {Root}, todo : SUBSET Entries]

\* An entry is at hand.
Working == {"mkdir", "inode", "open", "copy", "readlink", "expand", "link"}
\* Its inode is not marked yet, or it is and has no entry yet.
Fresh == pc \in {"mkdir", "inode"} \/ (pc = "expand" /\ kind = "dir")
Marked == pc \in {"open", "copy", "readlink", "link"} \/ (pc = "expand" /\ kind # "dir")

Pair(d, n) == [dir |-> d, name |-> n]
Named(d, n) == \E l \in links : l.dir = d /\ NameOf(l) = n
Good(d, n) ==
  \E l \in links : l.dir = d /\ NameOf(l) = n /\ info[l.ino] \in {tree[l.entry].kind, "short"}
Untouched(d, n) == ~Named(d, n) /\ Pair(d, n) \notin reported

LinkInv ==
  /\ \A l, m \in links : l.ino = m.ino => l = m
  /\ \A l, m \in links : l.dir = m.dir /\ NameOf(l) = NameOf(m) => l = m
  /\ \A l \in links : /\ l.ino \in alloc
                      /\ l.dir \in DOMAIN listed /\ l.entry \in Beneath(listed[l.dir])
                      /\ l.ino \in DOMAIN listed => listed[l.ino] = l.entry

\* What was listed is the root of the image and what has an entry there.
ListInv ==
  /\ DOMAIN listed \subseteq alloc \cup {Root}
  /\ Root \in DOMAIN listed => listed[Root] \in {Root, Start}
  /\ \A d \in DOMAIN listed : d # Root => \E l \in links : l.ino = d
  /\ \A r \in reported : r.dir \in DOMAIN listed
  /\ Root \in DOMAIN room

\* A directory was filled, or a message names it, or it is about to be.
MadeInv ==
  pc \notin {"exit", "died"} =>
    \A l \in links : tree[l.entry].kind = "dir" =>
      \/ l.ino \in DOMAIN listed \/ Pair(l.dir, NameOf(l)) \in reported
      \/ pc = "chdir" /\ l.ino = new
      \/ pc = "opendir" /\ l.ino = parent_dir

\* As long as every chdir("..") has worked the image is the source.
ShapeInv ==
  ~stray =>
    /\ \A l \in links : tree[l.entry].dir = listed[l.dir]
    /\ \A l, m \in links : l.entry = m.entry => l = m
    /\ \A d, e \in DOMAIN listed : listed[d] = listed[e] => d = e

StackInv ==
  pc # "exit" =>
    /\ Len(stack) > 0 => stack[Len(stack)].ino = Root
    /\ \A k \in 1 .. Len(stack) :
         /\ stack[k].ino \in DOMAIN room
         /\ k < Len(stack) => \E l \in links : l.ino = stack[k].ino /\ l.dir = stack[k + 1].ino
         /\ k # 1 \/ pc # "opendir" => stack[k].ino \in DOMAIN listed
         /\ \A x \in stack[k].todo : /\ tree[x].dir = listed[stack[k].ino]
                                     /\ Untouched(stack[k].ino, tree[x].name)
    /\ \A k, m \in 1 .. Len(stack) : stack[k].ino = stack[m].ino => k = m
    /\ pc = "opendir" => stack[1].todo = {}

CwdInv ==
  /\ pc \in {"main", "read", "start"} =>
       cwd = Start /\ stack = <<>> /\ DOMAIN listed = {} /\ links = {} /\ alloc = {} /\ reported = {}
  /\ pc = "opendir" =>
       /\ parent_dir \notin DOMAIN listed
       /\ \/ parent_dir = Root /\ cwd \in {Root, Start}
          \/ \E l \in links : l.ino = parent_dir /\ l.entry = cwd
  /\ pc \in Working \cup {"next", "chdir"} =>
       cwd = listed[parent_dir] \/ (stray /\ cwd \in Beneath(listed[parent_dir]))
  /\ pc \in {"bitmaps", "done"} => stack = <<>> /\ Root \in DOMAIN listed

WalkInv == LinkInv /\ ListInv /\ MadeInv /\ ShapeInv /\ StackInv /\ CwdInv

CurInv ==
  /\ pc \in Working \cup {"next", "chdir", "opendir"} => Len(stack) > 0
  /\ Fresh => new \in Inodes \ alloc /\ Message(cur) \notin reported
  /\ Marked => new \in alloc /\ \A l \in links : l.ino # new
  /\ pc \in Working => /\ cur \in Entries /\ tree[cur].dir = cwd /\ kind # "unknown"
                       /\ ~Named(parent_dir, tree[cur].name)
                       /\ \A x \in stack[1].todo : tree[x].name # tree[cur].name
  /\ pc = "mkdir" => kind = "dir"
  /\ pc \in {"inode", "open", "copy", "readlink", "link"} => kind # "dir"
  /\ pc \in {"inode", "open", "copy", "readlink"} => ~expanded
  /\ pc = "expand" => expanded
  /\ pc = "chdir" => /\ cur \in Entries /\ new \in Inodes /\ new \in DOMAIN room
                     /\ new \notin DOMAIN listed
                     /\ \E l \in links : l.dir = parent_dir /\ l.entry = cur /\ l.ino = new

\* What has been written of the entry at hand.
InfoInv ==
  /\ pc \in {"open", "copy", "readlink"} => info[new] = "empty" \/ Message(cur) \in reported
  /\ pc = "link" \/ (pc = "expand" /\ kind # "dir") =>
       info[new] \in {kind, "short"} \/ Message(cur) \in reported

\* It is still to be met in directory d of the image.
Ahead(d, x) ==
  \/ \E k \in 1 .. Len(stack) : stack[k].ino = d /\ x \in stack[k].todo
  \/ pc \in Working /\ d = parent_dir /\ tree[x].name = tree[cur].name

CoverInv ==
  pc \notin {"exit", "died"} =>
    \A d \in DOMAIN listed : d \notin cut =>
      \A x \in Below(listed[d]) :
        Pair(d, tree[x].name) \in reported \/ Good(d, tree[x].name) \/ Ahead(d, x)

\* Inodes that are marked and have no entry.
Orphans == alloc \ {l.ino : l \in links}

CountInv ==
  /\ IsFiniteSet(alloc) /\ IsFiniteSet(reported)
  /\ IF pc \in Working THEN Cardinality(Orphans \ {new}) <= Cardinality(reported \ {Message(cur)})
                       ELSE Cardinality(Orphans) <= Cardinality(reported)

\* No I/O error: every chdir and every readdir has worked.
FaultInv ==
  faults = 0 =>
    /\ ~stray /\ cut = {}
    /\ pc \notin {"main", "read", "exit"} => bitmap
    /\ pc = "opendir" /\ parent_dir = Root => cwd = Root
    /\ Root \in DOMAIN listed => listed[Root] = Root

\* Nor a lack of inodes or blocks: only an unknown type is reported.
NoTrouble == faults = 0 /\ blocks > 0 /\ Inodes \ alloc # {}
TroubleInv ==
  NoTrouble =>
    /\ \A r \in reported : \E x \in Below(listed[r.dir]) :
         tree[x].name = r.name /\ tree[x].kind = "unknown"
    /\ expanded /\ pc \in {"mkdir", "link"} => room[parent_dir] > 0

ImgInv ==
  TypeOK /\ WalkInv /\ CurInv /\ InfoInv /\ CoverInv /\ CountInv /\ FaultInv /\ TroubleInv
-----------------------------------------------------------------------------
(* Facts about the source, the stack and the numbers *)

LEMMA LeastNumber ==
  ASSUME NEW T, T \subseteq Nat, T # {}
  PROVE  \E n \in T : \A m \in T : n <= m
<1> DEFINE Less == {ss \in Nat \X Nat : ss[1] < ss[2]}
<1>1. IsWellFoundedOn(Less, Nat)
  BY NatLessThanWellFounded, Zenon DEF OpToRel
<1> HIDE DEF Less
<1>2. PICK n \in T : \A m \in T : ~(<<m, n>> \in Less)
  BY <1>1, WFMin
<1>3. \A m \in T : ~(m < n)
  BY <1>2 DEF Less
<1> QED BY <1>2, <1>3

LEMMA MoreThanOne == \A n \in Nat : n > 0 /\ n # 1 => 1 < n
OBVIOUS

LEMMA TreeFacts ==
  ASSUME TypeOK
  PROVE  /\ Entries \subseteq Nat \ {0} /\ Root \notin Entries /\ Start \notin Entries
         /\ Root \notin Inodes
         /\ \A x \in Entries : /\ tree[x].dir \in Places /\ tree[x].kind \in Kinds /\ tree[x].name \in Names
                               /\ tree[x].dir \in Entries => tree[tree[x].dir].kind = "dir"
         /\ \A x, y \in Entries : tree[x].dir = tree[y].dir /\ tree[x].name = tree[y].name => x = y
<1>1. IsTree(tree)
  BY ImgAssumption DEF TypeOK
<1> QED BY <1>1, ImgAssumption DEF IsTree, Places, Root, Start

LEMMA BeneathBelow ==
  ASSUME NEW d, NEW x \in Below(d)
  PROVE  x \in Beneath(d)
BY DEF Beneath, Below

LEMMA BeneathStep ==
  ASSUME NEW d, NEW y \in Beneath(d), NEW x \in Below(y)
  PROVE  x \in Beneath(d)
<1> SUFFICES ASSUME NEW S \in SUBSET Entries, Below(d) \subseteq S, \A z \in S : Below(z) \subseteq S
             PROVE  x \in S
  BY DEF Beneath, Below
<1>1. y \in S
  BY DEF Beneath
<1> QED BY <1>1

\* What lies below something beneath d lies beneath d.
LEMMA BeneathTrans ==
  ASSUME NEW d, NEW y \in Beneath(d), NEW x \in Beneath(y)
  PROVE  x \in Beneath(d)
<1> SUFFICES ASSUME NEW S \in SUBSET Entries, Below(d) \subseteq S, \A z \in S : Below(z) \subseteq S
             PROVE  x \in S
  BY DEF Beneath
<1>1. y \in S
  BY DEF Beneath
<1> QED BY <1>1 DEF Beneath

\* The directory of an entry beneath d is d or beneath it.
LEMMA BeneathUp ==
  ASSUME NEW d, NEW x \in Beneath(d)
  PROVE  x \in Entries /\ (tree[x].dir = d \/ tree[x].dir \in Beneath(d))
<1> DEFINE S == {y \in Entries : tree[y].dir = d \/ tree[y].dir \in Beneath(d)}
<1>1. Below(d) \subseteq S
  BY DEF Below
<1>2. ASSUME NEW y \in S, NEW z \in Below(y)
      PROVE  z \in S
  <2>1. y \in Beneath(d)
    <3>1. CASE tree[y].dir = d
      <4>1. y \in Below(d)
        BY <3>1 DEF Below
      <4> QED BY <4>1, BeneathBelow
    <3>2. CASE tree[y].dir \in Beneath(d)
      <4>1. y \in Below(tree[y].dir)
        BY DEF Below
      <4> QED BY <3>2, <4>1, BeneathStep
    <3> QED BY <3>1, <3>2
  <2> QED BY <2>1 DEF Below
<1>3. S \in SUBSET Entries
  OBVIOUS
<1> HIDE DEF S
<1>4. x \in S /\ x \in Entries
  BY <1>1, <1>2, <1>3 DEF Beneath
<1> QED BY <1>4 DEF S

LEMMA StackFacts ==
  ASSUME TypeOK, Len(stack) > 0
  PROVE  /\ stack \in Seq(Frames) /\ Len(stack) \in Nat /\ 1 \in 1 .. Len(stack)
         /\ stack[1] \in Frames /\ parent_dir \in Inodes \cup {Root} /\ stack[1].todo \subseteq Entries
<1>1. stack \in Seq(Frames) /\ Len(stack) \in Nat
  BY DEF TypeOK, Frames
<1>2. 1 \in 1 .. Len(stack)
  BY <1>1
<1>3. stack[1] \in Frames
  BY <1>1, <1>2
<1> QED BY <1>1, <1>2, <1>3 DEF Frames, parent_dir

\* The loop of trawl_dir changes what the innermost call has still to do.
LEMMA SetTodo ==
  ASSUME TypeOK, Len(stack) > 0, NEW S \in SUBSET Entries,
         stack' = [stack EXCEPT ![1].todo = S]
  PROVE  /\ stack' \in Seq(Frames) /\ Len(stack') = Len(stack)
         /\ stack'[1].ino = stack[1].ino /\ stack'[1].todo = S
         /\ \A k \in 1 .. Len(stack) : k # 1 => stack'[k] = stack[k]
<1>1. stack \in Seq(Frames) /\ Len(stack) \in Nat /\ 1 \in 1 .. Len(stack) /\ stack[1] \in Frames
  BY StackFacts
<1>. PICK f : f = [stack[1] EXCEPT !.todo = S]
  OBVIOUS
<1>2. f \in Frames /\ f.ino = stack[1].ino /\ f.todo = S
  BY <1>1 DEF Frames
<1>3. stack' = [stack EXCEPT ![1] = f]
  OBVIOUS
<1>4. stack' \in Seq(Frames) /\ Len(stack') = Len(stack) /\ stack'[1] = f
      /\ \A k \in 1 .. Len(stack) : k # 1 => stack'[k] = stack[k]
  BY <1>1, <1>2, <1>3
<1> QED BY <1>2, <1>4

LEMMA CardDrop ==
  ASSUME NEW S, NEW R, NEW n, NEW c, IsFiniteSet(S), IsFiniteSet(R),
         Cardinality(S \ {n}) <= Cardinality(R \ {c})
  PROVE  /\ Cardinality(S) <= Cardinality(R \cup {c})
         /\ Cardinality(S \ {n}) <= Cardinality(R)
<1>1. /\ Cardinality(S) \in Nat /\ Cardinality(R) \in Nat
      /\ IsFiniteSet(S \ {n}) /\ IsFiniteSet(R \ {c}) /\ IsFiniteSet(R \cup {c})
  BY FS_CardinalityType, FS_RemoveElement, FS_AddElement
<1>2. Cardinality(S \ {n}) = IF n \in S THEN Cardinality(S) - 1 ELSE Cardinality(S)
  BY FS_RemoveElement
<1>3. Cardinality(R \ {c}) = IF c \in R THEN Cardinality(R) - 1 ELSE Cardinality(R)
  BY FS_RemoveElement
<1>4. Cardinality(R \cup {c}) = IF c \in R THEN Cardinality(R) ELSE Cardinality(R) + 1
  BY FS_AddElement
<1> QED BY <1>1, <1>2, <1>3, <1>4

LEMMA WorkingIs == pc \in Working <=> Fresh \/ Marked
BY DEF Working, Fresh, Marked

LEMMA MessageIs == \A x : Message(x) = Pair(parent_dir, tree[x].name)
BY DEF Message, Pair

LEMMA PairIs == \A c, d, m, n : Pair(c, m) = Pair(d, n) <=> c = d /\ m = n
<1> SUFFICES ASSUME NEW c, NEW d, NEW m, NEW n, Pair(c, m) = Pair(d, n) PROVE c = d /\ m = n
  OBVIOUS
<1>1. Pair(c, m).dir = Pair(d, n).dir /\ Pair(c, m).name = Pair(d, n).name
  OBVIOUS
<1> QED BY <1>1 DEF Pair

\* No entry leads to the inode at hand, and it was not filled.
LEMMA NewUnlinked ==
  ASSUME TypeOK, LinkInv, ListInv, CurInv, pc \in Working
  PROVE  new \in Inodes /\ new \notin DOMAIN listed /\ \A l \in links : l.ino # new
<1>1. new \in Inodes /\ \A l \in links : l.ino # new
  BY WorkingIs DEF LinkInv, CurInv, TypeOK
<1>2. new # Root
  BY <1>1, TreeFacts
<1> QED BY <1>1, <1>2 DEF ListInv
-----------------------------------------------------------------------------
(* The steps, by what they do to the entry at hand *)

\* It is worked on.
Keep ==
  /\ pc \in Working /\ pc' \in Working
  /\ UNCHANGED <<tree, stack, cwd, cur, new, bitmap, links, history>>
  /\ DOMAIN room' = DOMAIN room
  /\ faults' = 0 => faults = 0
  /\ reported' = reported \/ reported' = reported \cup {Message(cur)}
  /\ \A n \in Inodes : n # new => info'[n] = info[n]
  /\ alloc' = alloc \/ alloc' = alloc \cup {new}

\* It is given up, or the program dies over it.
GivesUp ==
  /\ pc \in Working /\ pc' \in {"next", "died"}
  /\ UNCHANGED <<tree, stack, cwd, cur, new, bitmap, links, info, alloc, room, history>>
  /\ faults' = 0 => faults = 0
  /\ reported' = reported \cup {Message(cur)}

\* It gets its entry in the image.
Enters ==
  /\ pc \in Working /\ pc' = IF kind = "dir" THEN "chdir" ELSE "next"
  /\ UNCHANGED <<tree, stack, cwd, cur, new, bitmap, reported, faults, history>>
  /\ links' = links \cup {Entry}
  /\ DOMAIN room' = IF kind = "dir" THEN DOMAIN room \cup {new} ELSE DOMAIN room
  /\ \A n \in Inodes : n # new => info'[n] = info[n]
  /\ info'[new] \in {kind, "short"} \/ Message(cur) \in reported
  /\ alloc' = alloc \cup {new}

\* The loop meets the name of entry x: y is found and taken, or x is reported.
Meets(x) ==
  /\ pc = "next" /\ x \in stack[1].todo
  /\ stack' = [stack EXCEPT ![1].todo = @ \ {x}]
  /\ expanded' = FALSE
  /\ UNCHANGED <<tree, cwd, image, history>>
Takes(x, y) ==
  /\ Meets(x) /\ y \in Found(x)
  /\ bitmap /\ Inodes \ alloc # {} /\ tree[y].kind # "unknown" /\ NoFault
  /\ cur' = y /\ new' \in Inodes \ alloc
  /\ pc' = IF tree[y].kind = "dir" THEN "mkdir" ELSE "inode"
  /\ UNCHANGED reported
Skips(x) ==
  /\ Meets(x)
  /\ \/ /\ ~bitmap \/ Inodes \subseteq alloc \/ \A y \in Found(x) : tree[y].kind = "unknown"
        /\ NoFault
     \/ Fault
  /\ reported' = reported \cup {Message(x)}
  /\ UNCHANGED <<pc, cur, new>>

LEMMA NextEntryMeets ==
  ASSUME TypeOK, NextEntry
  PROVE  \E x \in stack[1].todo : Skips(x) \/ \E y \in Found(x) : Takes(x, y)
<1>1. Inodes \ alloc # {} =>
        (CHOOSE n \in Inodes \ alloc : \A m \in Inodes \ alloc : n <= m) \in Inodes \ alloc
  BY LeastNumber, ImgAssumption
<1> DEFINE least == CHOOSE n \in Inodes \ alloc : \A m \in Inodes \ alloc : n <= m
<1> HIDE DEF least
<1>2. PICK x \in stack[1].todo :
        /\ stack' = [stack EXCEPT ![1].todo = @ \ {x}]
        /\ \/ \E y \in Found(x) :
                /\ bitmap /\ Inodes \ alloc # {} /\ tree[y].kind # "unknown" /\ NoFault
                /\ cur' = y
                /\ new' = least
                /\ pc' = IF tree[y].kind = "dir" THEN "mkdir" ELSE "inode"
                /\ UNCHANGED reported
           \/ /\ \/ /\ ~bitmap \/ Inodes \subseteq alloc \/ \A y \in Found(x) : tree[y].kind = "unknown"
                    /\ NoFault
                 \/ Fault
              /\ reported' = reported \cup {Message(x)}
              /\ UNCHANGED <<pc, cur, new>>
  BY Zenon DEF NextEntry, least
<1>3. Meets(x)
  BY <1>2 DEF NextEntry, Meets
<1>4. Inodes \ alloc # {} => least \in Inodes \ alloc
  BY <1>1 DEF least
<1>5. CASE \E y \in Found(x) :
             /\ bitmap /\ Inodes \ alloc # {} /\ tree[y].kind # "unknown" /\ NoFault
             /\ cur' = y
             /\ new' = least
             /\ pc' = IF tree[y].kind = "dir" THEN "mkdir" ELSE "inode"
             /\ UNCHANGED reported
  <2>1. PICK y \in Found(x) :
             /\ bitmap /\ Inodes \ alloc # {} /\ tree[y].kind # "unknown" /\ NoFault
             /\ cur' = y
             /\ new' = least
             /\ pc' = IF tree[y].kind = "dir" THEN "mkdir" ELSE "inode"
             /\ UNCHANGED reported
    BY <1>5
  <2>2. Takes(x, y)
    BY <1>3, <1>4, <2>1, Zenon DEF Takes
  <2> QED BY <2>2
<1>6. CASE ~(\E y \in Found(x) :
             /\ bitmap /\ Inodes \ alloc # {} /\ tree[y].kind # "unknown" /\ NoFault
             /\ cur' = y
             /\ new' = least
             /\ pc' = IF tree[y].kind = "dir" THEN "mkdir" ELSE "inode"
             /\ UNCHANGED reported)
  <2>1. Skips(x)
    BY <1>2, <1>3, <1>6, Zenon DEF Skips
  <2> QED BY <2>1
<1> QED BY <1>5, <1>6

LEMMA FaultCounts ==
  ASSUME TypeOK, Fault \/ NoFault
  PROVE  faults' \in 0 .. MaxFaults /\ (faults' = 0 => faults = 0)
BY ImgAssumption DEF TypeOK, Fault, NoFault

LEMMA FaultShows == TypeOK /\ Fault => faults' # 0
BY DEF TypeOK, Fault

\* A step of trawl_dir on the entry at hand.
Works ==
  \/ Expand \/ WriteFileInode \/ WriteSpecialInode \/ OpenFile
  \/ CopyFile \/ CopyLink \/ ReadFails
  \/ (CopyFileFails \/ CopyLinkFails) /\ pc' = "link"
  \/ (MkdirFails \/ LinkFails) /\ ~expanded
Drops ==
  \/ ExpandFails \/ OpenFails
  \/ (CopyFileFails \/ CopyLinkFails) /\ pc' = "died"
  \/ (MkdirFails \/ LinkFails) /\ expanded

LEMMA WorksKeeps ==
  ASSUME TypeOK, CurInv, Works
  PROVE  Keep
<1> USE DEF image, history, Working, Report, NoFault
<1>1. ASSUME NEW v, info' = [info EXCEPT ![new] = v]
      PROVE  \A n \in Inodes : n # new => info'[n] = info[n]
  BY <1>1 DEF TypeOK
<1>2. CASE Expand
  <2>1. DOMAIN room' = DOMAIN room
    BY <1>2 DEF Expand
  <2> QED BY <1>2, <2>1 DEF Expand, Keep
<1>3. CASE WriteFileInode \/ WriteSpecialInode
  <2>1. PICK content, then : WriteInode(content, then) /\ then \in {"open", "link", "readlink"}
    BY <1>3, Zenon DEF WriteFileInode, WriteSpecialInode
  <2>2. \A n \in Inodes : n # new => info'[n] = info[n]
    BY <1>1, <2>1 DEF WriteInode
  <2>3. Fault \/ NoFault
    BY <2>1 DEF WriteInode
  <2> QED BY <2>1, <2>2, <2>3, FaultCounts DEF WriteInode, Keep
<1>4. CASE OpenFile
  BY <1>4 DEF OpenFile, Keep
<1>5. CASE CopyFile \/ CopyLink
  <2>1. \A n \in Inodes : n # new => info'[n] = info[n]
    BY <1>5 DEF CopyFile, CopyLink, Filled, TypeOK
  <2> QED BY <1>5, <2>1 DEF CopyFile, CopyLink, Keep
<1>6. CASE ReadFails
  <2>1. \A n \in Inodes : n # new => info'[n] = info[n]
    BY <1>1, <1>6 DEF ReadFails
  <2> QED BY <1>6, <2>1, FaultCounts DEF ReadFails, Keep
<1>7. CASE (CopyFileFails \/ CopyLinkFails) /\ pc' = "link"
  <2>1. Fault \/ NoFault
    BY <1>7 DEF CopyFileFails, CopyLinkFails
  <2> QED BY <1>7, <2>1, FaultCounts DEF CopyFileFails, CopyLinkFails, Keep
<1>8. CASE (MkdirFails \/ LinkFails) /\ ~expanded
  <2>1. Fault \/ NoFault
    BY <1>8 DEF MkdirFails, LinkFails
  <2> QED BY <1>8, <2>1, FaultCounts DEF MkdirFails, LinkFails, AfterFailure, Keep
<1> QED BY <1>2, <1>3, <1>4, <1>5, <1>6, <1>7, <1>8 DEF Works

LEMMA DropsGivesUp ==
  ASSUME TypeOK, Drops
  PROVE  GivesUp
<1> USE DEF image, history, Working, Report, NoFault
<1>1. Fault \/ NoFault
  BY DEF Drops, ExpandFails, OpenFails, CopyFileFails, CopyLinkFails, MkdirFails, LinkFails
<1>2. CASE ExpandFails \/ OpenFails
  BY <1>1, <1>2, FaultCounts DEF ExpandFails, OpenFails, GivesUp
<1>3. CASE (CopyFileFails \/ CopyLinkFails) /\ pc' = "died"
  BY <1>1, <1>3, FaultCounts DEF CopyFileFails, CopyLinkFails, GivesUp
<1>4. CASE (MkdirFails \/ LinkFails) /\ expanded
  BY <1>1, <1>4, FaultCounts DEF MkdirFails, LinkFails, AfterFailure, GivesUp
<1> QED BY <1>2, <1>3, <1>4 DEF Drops

LEMMA LinksEnters ==
  ASSUME TypeOK, CurInv, InfoInv, Mkdir \/ Link
  PROVE  Enters
<1> USE DEF image, history, Working
<1>1. CASE Mkdir
  <2>1. pc = "mkdir" /\ kind = "dir" /\ new \in Inodes
    BY <1>1 DEF Mkdir, CurInv, Fresh
  <2>2. info' = [info EXCEPT ![new] = "dir"]
    BY <1>1 DEF Mkdir
  <2>3. info'[new] = "dir" /\ \A n \in Inodes : n # new => info'[n] = info[n]
    BY <2>1, <2>2 DEF TypeOK
  <2>4. DOMAIN room' = DOMAIN room \cup {new}
    BY <1>1 DEF Mkdir
  <2> QED BY <1>1, <2>1, <2>3, <2>4 DEF Mkdir, Enters
<1>2. CASE Link
  <2>1. pc = "link" /\ kind # "dir" /\ new \in alloc
    BY <1>2 DEF Link, CurInv, Marked
  <2>2. info[new] \in {kind, "short"} \/ Message(cur) \in reported
    BY <2>1 DEF InfoInv
  <2>3. DOMAIN room' = DOMAIN room
    BY <1>2 DEF Link
  <2>4. alloc' = alloc \cup {new} /\ info' = info
    BY <1>2, <2>1 DEF Link
  <2> QED BY <1>2, <2>1, <2>2, <2>3, <2>4 DEF Link, Enters
<1> QED BY <1>1, <1>2
-----------------------------------------------------------------------------
(* Types *)

\* The caller's directory is above the working directory.
LEMMA CwdBeneath ==
  ASSUME TypeOK, WalkInv, pc = "next", Len(stack) > 0, Len(stack) # 1
  PROVE  /\ \E l \in links : /\ l.ino = parent_dir /\ l.dir = stack[2].ino
                             /\ cwd = l.entry \/ (stray /\ cwd \in Beneath(l.entry))
         /\ cwd \in Beneath(listed[stack[2].ino])
<1>1. /\ Len(stack) \in Nat /\ 1 \in 1 .. Len(stack) /\ 1 < Len(stack) /\ 2 = 1 + 1
      /\ 2 \in 1 .. Len(stack)
  <2>1. Len(stack) \in Nat /\ 1 < Len(stack)
    BY StackFacts, MoreThanOne
  <2> QED BY <2>1
<1>2. PICK l \in links : l.ino = parent_dir /\ l.dir = stack[2].ino
  BY <1>1 DEF WalkInv, StackInv, parent_dir
<1>3. parent_dir \in DOMAIN listed
  BY <1>1 DEF WalkInv, StackInv, parent_dir
<1>4. listed[parent_dir] = l.entry /\ l.entry \in Beneath(listed[stack[2].ino])
  BY <1>2, <1>3 DEF WalkInv, LinkInv
<1>5. cwd = l.entry \/ (stray /\ cwd \in Beneath(l.entry))
  BY <1>4 DEF WalkInv, CwdInv
<1>6. cwd \in Beneath(listed[stack[2].ino])
  BY <1>4, <1>5, BeneathTrans
<1> QED BY <1>2, <1>5, <1>6

LEMMA CwdEntry ==
  ASSUME TypeOK, WalkInv, pc = "next", Len(stack) > 0, Len(stack) # 1
  PROVE  cwd \in Entries
BY CwdBeneath, BeneathUp

LEMMA TypeStep == ImgInv /\ [Next]_vars => TypeOK'
<1> SUFFICES ASSUME ImgInv, [Next]_vars PROVE TypeOK'
  OBVIOUS
<1>1. TypeOK /\ CurInv /\ WalkInv
  BY DEF ImgInv
<1>2. pc \in Working => cur \in Entries /\ Len(stack) > 0
  BY <1>1 DEF CurInv
<1>a. ASSUME NEW x \in Entries, Len(stack) > 0
      PROVE  Message(x) \in [dir : Inodes \cup {Root}, name : Names]
  BY <1>1, <1>a, StackFacts, TreeFacts DEF Message
<1>3. pc \in Working => /\ reported \cup {Message(cur)} \subseteq [dir : Inodes \cup {Root}, name : Names]
                        /\ parent_dir \in Inodes \cup {Root}
  BY <1>1, <1>2, <1>a, StackFacts DEF TypeOK
<1>b. CASE OpenImage \/ OpenImageFails
  BY <1>1, <1>b DEF OpenImage, OpenImageFails, TypeOK, image, history
<1>c. CASE ReadBitmaps
  <2>1. Fault \/ NoFault
    BY <1>c DEF ReadBitmaps
  <2>2. faults' \in 0 .. MaxFaults
    BY <1>1, <2>1, FaultCounts
  <2>3. blocks' \in 0 .. MaxBlocks
    BY <1>1, <1>c, ImgAssumption DEF ReadBitmaps, TypeOK
  <2>4. bitmap' \in BOOLEAN
    BY <1>c DEF ReadBitmaps
  <2> QED BY <1>1, <1>c, <2>2, <2>3, <2>4 DEF ReadBitmaps, TypeOK, image, history
<1>d. CASE EnterTree
  <2>1. Fault \/ NoFault
    BY <1>d DEF EnterTree
  <2>2. faults' \in 0 .. MaxFaults
    BY <1>1, <2>1, FaultCounts
  <2>3. stack' \in Seq(Frames)
    <3>1. [ino |-> Root, todo |-> {}] \in Frames
      BY DEF Frames
    <3>2. stack' = <<[ino |-> Root, todo |-> {}]>>
      BY <1>d DEF EnterTree
    <3> QED BY <3>1, <3>2
  <2>4. cwd' \in Places
    BY <1>1, <1>d DEF EnterTree, TypeOK, Places
  <2> QED BY <1>1, <1>d, <2>2, <2>3, <2>4 DEF EnterTree, TypeOK, Frames, image, history
<1> USE DEF image, history, NoFault, Report
<1>4. CASE Opendir
  <2>1. stack' \in Seq(Frames)
    BY <1>1, <1>4, SetTodo DEF Opendir, CurInv, Below
  <2>2. parent_dir \in Inodes \cup {Root}
    BY <1>1, <1>4, StackFacts DEF Opendir, CurInv
  <2>3. DOMAIN listed' = DOMAIN listed \cup {parent_dir}
        /\ \A d \in DOMAIN listed' : listed'[d] = IF d = parent_dir THEN cwd ELSE listed[d]
    BY <1>4 DEF Opendir
  <2>4. DOMAIN listed' \subseteq Inodes \cup {Root} /\ \A d \in DOMAIN listed' : listed'[d] \in Places
    BY <1>1, <2>2, <2>3 DEF TypeOK
  <2> HIDE DEF parent_dir
  <2> QED BY <1>1, <1>4, <2>1, <2>4 DEF Opendir, TypeOK, Frames
<1>5. CASE OpendirFails
  BY <1>1, <1>5, FaultCounts DEF OpendirFails, TypeOK
<1>6. CASE NextEntry
  <2>1. PICK x \in stack[1].todo : Skips(x) \/ \E y \in Found(x) : Takes(x, y)
    BY <1>1, <1>6, NextEntryMeets
  <2>2. stack[1].todo \subseteq Entries /\ Len(stack) > 0 /\ Meets(x)
    BY <1>1, <1>6, <2>1, StackFacts DEF NextEntry, CurInv, Skips, Takes
  <2>3. stack' \in Seq(Frames)
    BY <1>1, <2>2, SetTodo DEF Meets
  <2>4. UNCHANGED <<tree, cwd, image, history>> /\ expanded' = FALSE
    BY <2>2 DEF Meets
  <2>5. CASE Skips(x)
    <3>1. Fault \/ NoFault
      BY <2>5 DEF Skips
    <3>2. faults' \in 0 .. MaxFaults
      BY <1>1, <3>1, FaultCounts
    <3>3. reported' = reported \cup {Message(x)} /\ UNCHANGED <<pc, cur, new>>
      BY <2>5 DEF Skips
    <3>4. reported' \subseteq [dir : Inodes \cup {Root}, name : Names]
      BY <1>1, <1>a, <2>2, <3>3 DEF TypeOK
    <3> QED BY <1>1, <2>3, <2>4, <3>2, <3>3, <3>4 DEF TypeOK, Frames
  <2>6. ASSUME NEW y \in Found(x), Takes(x, y)
        PROVE  TypeOK'
    <3>1. /\ y \in Entries /\ cur' = y /\ new' \in Inodes /\ pc' \in {"mkdir", "inode"}
          /\ UNCHANGED <<faults, reported>>
      BY <2>6 DEF Takes, Found, Below
    <3> QED BY <1>1, <2>3, <2>4, <3>1 DEF TypeOK, Frames
  <2> QED BY <2>1, <2>5, <2>6
<1>e. CASE ReaddirFails
  <2>1. Len(stack) > 0 /\ faults' \in 0 .. MaxFaults
    BY <1>1, <1>e, FaultCounts DEF ReaddirFails, CurInv
  <2>2. stack' \in Seq(Frames) /\ parent_dir \in Inodes \cup {Root}
    <3>1. {} \in SUBSET Entries /\ stack' = [stack EXCEPT ![1].todo = {}]
      BY <1>e DEF ReaddirFails
    <3> QED BY <1>1, <2>1, <3>1, SetTodo, StackFacts
  <2>3. cut' \subseteq Inodes \cup {Root}
    BY <1>1, <1>e, <2>2 DEF ReaddirFails, TypeOK
  <2> QED BY <1>1, <1>e, <2>1, <2>2, <2>3 DEF ReaddirFails, TypeOK, Frames
<1>7. CASE Expand
  <2>1. pc \in Working
    BY <1>7 DEF Expand, Working
  <2>2. DOMAIN room' = DOMAIN room /\ \A n \in DOMAIN room : room'[n] \in Nat
    BY <1>1, <1>7, ImgAssumption DEF Expand, TypeOK
  <2>3. blocks' \in 0 .. MaxBlocks
    BY <1>1, <1>7, ImgAssumption DEF Expand, TypeOK
  <2> QED BY <1>1, <1>7, <2>2, <2>3 DEF Expand, TypeOK
<1>8. CASE Drops
  <2>1. Fault \/ NoFault
    BY <1>8 DEF Drops, ExpandFails, OpenFails, CopyFileFails, CopyLinkFails, MkdirFails, LinkFails
  <2>2. GivesUp /\ faults' \in 0 .. MaxFaults
    BY <1>1, <1>8, <2>1, DropsGivesUp, FaultCounts
  <2>3. UNCHANGED <<blocks, expanded>>
    BY <1>8 DEF Drops, ExpandFails, OpenFails, CopyFileFails, CopyLinkFails, MkdirFails, LinkFails, AfterFailure
  <2> QED BY <1>1, <1>3, <2>2, <2>3 DEF GivesUp, TypeOK
<1>9. CASE (CopyFileFails \/ CopyLinkFails) /\ pc' = "link"
  <2>1. Fault \/ NoFault
    BY <1>9 DEF CopyFileFails, CopyLinkFails
  <2>2. faults' \in 0 .. MaxFaults /\ pc \in Working
    BY <1>1, <1>9, <2>1, FaultCounts DEF CopyFileFails, CopyLinkFails, Working
  <2> QED BY <1>1, <1>3, <1>9, <2>2 DEF CopyFileFails, CopyLinkFails, TypeOK
<1>10. CASE (MkdirFails \/ LinkFails) /\ ~expanded
  <2>1. Fault \/ NoFault
    BY <1>10 DEF MkdirFails, LinkFails
  <2>2. faults' \in 0 .. MaxFaults
    BY <1>1, <2>1, FaultCounts
  <2> QED BY <1>1, <1>10, <2>2 DEF MkdirFails, LinkFails, AfterFailure, TypeOK
<1>11. CASE Mkdir
  <2>1. pc \in Working /\ new \in Inodes
    BY <1>1, <1>11 DEF Mkdir, CurInv, Fresh, Working
  <2>2. links' \subseteq [dir : Inodes \cup {Root}, entry : Entries, ino : Inodes]
    BY <1>1, <1>2, <1>3, <1>11, <2>1 DEF Mkdir, TypeOK, Entry
  <2>3. DOMAIN room' = DOMAIN room \cup {new} /\ \A n \in DOMAIN room' : room'[n] \in Nat
    <3>1. \A n \in DOMAIN room : room[n] \in Nat
      BY <1>1 DEF TypeOK
    <3>2. room[parent_dir] > 0 /\ Slots \in Nat
      BY <1>11, ImgAssumption DEF Mkdir
    <3> QED BY <1>11, <3>1, <3>2 DEF Mkdir
  <2>4. info' \in [Inodes -> {"none", "empty", "short"} \cup Kinds]
    BY <1>1, <1>11 DEF Mkdir, TypeOK, Kinds
  <2>5. blocks' \in 0 .. MaxBlocks
    BY <1>1, <1>11, ImgAssumption DEF Mkdir, TypeOK
  <2> QED BY <1>1, <1>11, <2>1, <2>2, <2>3, <2>4, <2>5 DEF Mkdir, TypeOK
<1>12. CASE Link
  <2>1. pc \in Working /\ new \in Inodes
    BY <1>1, <1>12 DEF Link, CurInv, Marked, Working, TypeOK
  <2>2. links' \subseteq [dir : Inodes \cup {Root}, entry : Entries, ino : Inodes]
    BY <1>1, <1>2, <1>3, <1>12, <2>1 DEF Link, TypeOK, Entry
  <2>3. DOMAIN room' = DOMAIN room /\ \A n \in DOMAIN room : room'[n] \in Nat
    BY <1>1, <1>12 DEF Link, TypeOK
  <2> QED BY <1>1, <1>12, <2>2, <2>3 DEF Link, TypeOK
<1>13. CASE WriteFileInode \/ WriteSpecialInode
  <2>1. PICK content \in {"empty", "device"}, then \in {"open", "link", "readlink"} : WriteInode(content, then)
    BY <1>13, Zenon DEF WriteFileInode, WriteSpecialInode
  <2>2. Fault \/ NoFault
    BY <2>1 DEF WriteInode
  <2>3. faults' \in 0 .. MaxFaults /\ pc \in Working /\ new \in Inodes
    BY <1>1, <2>1, <2>2, FaultCounts DEF WriteInode, Working, CurInv, Fresh
  <2>4. info' \in [Inodes -> {"none", "empty", "short"} \cup Kinds]
    BY <1>1, <2>1 DEF WriteInode, TypeOK, Kinds
  <2>5. alloc' \subseteq Inodes /\ reported' \subseteq [dir : Inodes \cup {Root}, name : Names]
    BY <1>1, <1>3, <2>1, <2>3 DEF WriteInode, TypeOK
  <2> QED BY <1>1, <2>1, <2>3, <2>4, <2>5 DEF WriteInode, TypeOK
<1>14. CASE OpenFile
  BY <1>1, <1>14 DEF OpenFile, TypeOK
<1>15. CASE CopyFile \/ CopyLink
  <2>1. pc \in Working
    BY <1>15 DEF CopyFile, CopyLink, Working
  <2>2. kind \in Kinds
    BY <1>1, <1>2, <2>1, TreeFacts DEF kind
  <2>3. info' \in [Inodes -> {"none", "empty", "short"} \cup Kinds]
    BY <1>1, <1>15, <2>2 DEF CopyFile, CopyLink, Filled, TypeOK
  <2>4. blocks' \in 0 .. MaxBlocks
    BY <1>1, <1>15, ImgAssumption DEF CopyFile, CopyLink, TypeOK
  <2> QED BY <1>1, <1>15, <2>3, <2>4 DEF CopyFile, CopyLink, TypeOK
<1>16. CASE ReadFails
  <2>1. faults' \in 0 .. MaxFaults
    BY <1>1, <1>16, FaultCounts DEF ReadFails
  <2>2. info' \in [Inodes -> {"none", "empty", "short"} \cup Kinds]
    BY <1>1, <1>16 DEF ReadFails, TypeOK
  <2> QED BY <1>1, <1>16, <2>1, <2>2 DEF ReadFails, TypeOK
<1>17. CASE Recurse
  <2>1. cur \in Entries /\ new \in Inodes
    BY <1>1, <1>17 DEF Recurse, CurInv
  <2>2. stack \in Seq(Frames) /\ [ino |-> new, todo |-> {}] \in Frames
    BY <1>1, <2>1 DEF TypeOK, Frames
  <2>3. stack' \in Seq(Frames)
    BY <1>17, <2>2 DEF Recurse
  <2>4. cwd' \in Places
    BY <1>17, <2>1 DEF Recurse, Places
  <2> QED BY <1>1, <1>17, <2>3, <2>4 DEF Recurse, TypeOK, Frames
<1>18. CASE ChdirFails
  <2>1. cur \in Entries /\ faults' \in 0 .. MaxFaults /\ Len(stack) > 0
    BY <1>1, <1>18, FaultCounts DEF ChdirFails, CurInv
  <2>2. reported' \subseteq [dir : Inodes \cup {Root}, name : Names]
    BY <1>1, <1>18, <1>a, <2>1 DEF ChdirFails, TypeOK
  <2> QED BY <1>1, <1>18, <2>1, <2>2 DEF ChdirFails, TypeOK
<1>19. CASE Return
  <2>1. Len(stack) > 0 /\ stack \in Seq(Frames)
    BY <1>1, <1>19 DEF Return, CurInv, TypeOK, Frames
  <2>2. stack' \in Seq(Frames)
    BY <1>19, <2>1 DEF Return
  <2>3. Fault \/ NoFault
    BY <1>19 DEF Return
  <2>4. cwd' \in Places /\ stray' \in BOOLEAN
    <3>1. UNCHANGED <<cwd, stray>> \/ (cwd' = tree[cwd].dir /\ stray' = stray) \/ (cwd' = cwd /\ stray' = TRUE)
      BY <1>19 DEF Return
    <3>2. cwd' = cwd \/ (cwd' = tree[cwd].dir /\ Len(stack) # 1)
      BY <1>19 DEF Return
    <3>3. CASE Len(stack) # 1
      <4>1. cwd \in Entries
        BY <1>1, <1>19, <2>1, <3>3, CwdEntry DEF Return
      <4> QED BY <1>1, <3>1, <3>2, <4>1, TreeFacts DEF TypeOK
    <3> QED BY <1>1, <3>1, <3>2, <3>3 DEF TypeOK
  <2>5. faults' \in 0 .. MaxFaults
    BY <1>1, <2>3, FaultCounts
  <2> QED BY <1>1, <1>19, <2>2, <2>4, <2>5 DEF Return, TypeOK, Frames
<1>20. CASE WriteBitmaps
  <2>1. faults' \in 0 .. MaxFaults
    BY <1>1, <1>20, FaultCounts DEF WriteBitmaps
  <2> QED BY <1>1, <1>20, <2>1 DEF WriteBitmaps, TypeOK
<1>21. CASE Stopped \/ UNCHANGED vars
  BY <1>1, <1>21 DEF Stopped, vars, TypeOK
<1>22. CASE CopyFileFails \/ CopyLinkFails
  BY <1>8, <1>9, <1>22 DEF Drops, CopyFileFails, CopyLinkFails
<1>23. CASE MkdirFails \/ LinkFails
  BY <1>8, <1>10, <1>23 DEF Drops
<1> QED
  BY <1>4, <1>5, <1>6, <1>7, <1>8, <1>11, <1>12, <1>13, <1>14, <1>15, <1>16, <1>17, <1>18, <1>19,
     <1>20, <1>21, <1>22, <1>23, <1>b, <1>c, <1>d, <1>e DEF Next, Drops
-----------------------------------------------------------------------------
(* The walk: the entries of the image, what was listed, and the calls      *)

LEMMA TreeKeep ==
  ASSUME tree' = tree
  PROVE  /\ \A d : Below(d)' = Below(d) /\ Beneath(d)' = Beneath(d)
         /\ \A l : NameOf(l)' = NameOf(l)
BY DEF Below, Beneath, NameOf

\* The innermost call has listed its directory.
LEMMA ParentListed ==
  ASSUME TypeOK, WalkInv, Len(stack) > 0, pc \notin {"opendir", "exit"}
  PROVE  parent_dir \in DOMAIN listed /\ stack[1].ino = parent_dir
<1>1. 1 \in 1 .. Len(stack)
  BY StackFacts
<1> QED BY <1>1 DEF WalkInv, StackInv, parent_dir

\* The entry at hand is given up or worked on; a name of parent_dir may be
\* reported.
LEMMA SameWalk ==
  ASSUME TypeOK, WalkInv, CurInv, pc \in Working \cup {"chdir"}, pc' \in Working \cup {"next", "died"},
         UNCHANGED <<tree, stack, cwd, links, listed, stray>>,
         alloc \subseteq alloc', DOMAIN room' = DOMAIN room,
         reported' = reported \/ reported' = reported \cup {Message(cur)},
         pc = "chdir" => Message(cur) \in reported'
  PROVE  WalkInv'
<1>1. /\ Len(stack) > 0 /\ pc \notin {"opendir", "exit"} /\ pc' \notin {"opendir", "exit"}
  BY DEF CurInv, Working
<1>2. parent_dir \in DOMAIN listed /\ stack[1].ino = parent_dir /\ 1 \in 1 .. Len(stack)
  BY <1>1, ParentListed, StackFacts
<1>3. LinkInv' /\ ShapeInv'
  <2>1. LinkInv /\ ShapeInv
    BY DEF WalkInv
  <2> QED BY <2>1, TreeKeep DEF LinkInv, ShapeInv
<1>4. ListInv'
  <2>1. Message(cur).dir = parent_dir
    BY DEF Message
  <2>2. \A r \in reported' : r.dir \in DOMAIN listed
    BY <1>2, <2>1 DEF WalkInv, ListInv
  <2> QED BY <2>2 DEF WalkInv, ListInv
<1>5. MadeInv'
  <2> SUFFICES ASSUME NEW l \in links, tree[l.entry].kind = "dir", pc' # "died"
               PROVE  l.ino \in DOMAIN listed \/ Pair(l.dir, NameOf(l)) \in reported'
    BY TreeKeep DEF MadeInv
  <2>1. CASE pc = "chdir" /\ l.ino = new
    <3>1. l.dir = parent_dir /\ l.entry = cur
      BY <2>1 DEF CurInv, WalkInv, LinkInv
    <3>2. Pair(l.dir, NameOf(l)) = Message(cur)
      BY <3>1, MessageIs DEF NameOf
    <3> QED BY <2>1, <3>2
  <2>2. CASE ~(pc = "chdir" /\ l.ino = new)
    <3>1. pc \notin {"exit", "died", "opendir"}
      BY DEF Working
    <3>2. l.ino \in DOMAIN listed \/ Pair(l.dir, NameOf(l)) \in reported
      BY <2>2, <3>1 DEF WalkInv, MadeInv
    <3> QED BY <3>2
  <2> QED BY <2>1, <2>2
<1>6. StackInv'
  <2>1. \A x \in stack[1].todo : tree[x].name # tree[cur].name
    <3>1. CASE pc \in Working
      BY <3>1 DEF CurInv
    <3>2. CASE pc = "chdir"
      <4>1. Named(parent_dir, tree[cur].name)
        BY <3>2 DEF CurInv, Named, NameOf
      <4>2. \A x \in stack[1].todo : Untouched(parent_dir, tree[x].name)
        BY <1>1, <1>2 DEF WalkInv, StackInv
      <4> QED BY <4>1, <4>2 DEF Untouched
    <3> QED BY <3>1, <3>2
  <2>2. ASSUME NEW k \in 1 .. Len(stack), NEW x \in stack[k].todo
        PROVE  Untouched(stack[k].ino, tree[x].name)'
    <3>1. Untouched(stack[k].ino, tree[x].name)
      BY <1>1 DEF WalkInv, StackInv
    <3>2. stack[k].ino # parent_dir \/ k = 1
      BY <1>1, <1>2 DEF WalkInv, StackInv
    <3>3. Pair(stack[k].ino, tree[x].name) # Message(cur)
      BY <2>1, <3>2, MessageIs, PairIs
    <3> QED BY <3>1, <3>3, TreeKeep DEF Untouched, Named
  <2>3. pc # "exit" /\ StackInv
    BY <1>1 DEF WalkInv
  <2> QED BY <1>1, <2>2, <2>3 DEF StackInv
<1>7. CwdInv'
  <2>1. pc \in Working \cup {"next", "chdir"} /\ parent_dir' = parent_dir
    BY DEF parent_dir
  <2>2. cwd = listed[parent_dir] \/ (stray /\ cwd \in Beneath(listed[parent_dir]))
    BY <2>1 DEF WalkInv, CwdInv
  <2>3. pc' \notin {"main", "read", "start", "opendir", "bitmaps", "done"}
    BY DEF Working
  <2> QED BY <2>1, <2>2, <2>3, TreeKeep DEF CwdInv
<1> QED BY <1>3, <1>4, <1>5, <1>6, <1>7 DEF WalkInv

\* The entry at hand is linked into parent_dir.
LEMMA EntersWalk ==
  ASSUME TypeOK, WalkInv, CurInv, Enters
  PROVE  WalkInv'
<1>1. /\ Len(stack) > 0 /\ pc \notin {"opendir", "exit"} /\ pc' \in {"chdir", "next"}
      /\ kind = "dir" => pc' = "chdir"
      /\ pc \in Working /\ cur \in Entries /\ tree[cur].dir = cwd /\ ~Named(parent_dir, tree[cur].name)
      /\ \A x \in stack[1].todo : tree[x].name # tree[cur].name
  BY DEF CurInv, Working, Enters
<1>2. parent_dir \in DOMAIN listed /\ stack[1].ino = parent_dir /\ 1 \in 1 .. Len(stack)
  BY <1>1, ParentListed, StackFacts
<1>3. new \in Inodes /\ new \notin DOMAIN listed /\ \A l \in links : l.ino # new
  BY <1>1, NewUnlinked DEF WalkInv
<1>. PICK e : e = Entry
  OBVIOUS
<1>4. e.dir = parent_dir /\ e.entry = cur /\ e.ino = new /\ NameOf(e) = tree[cur].name
  BY DEF Entry, NameOf
<1>5. /\ links' = links \cup {e} /\ alloc' = alloc \cup {new}
      /\ UNCHANGED <<tree, stack, cwd, new, cur, reported, listed, stray>>
      /\ DOMAIN room \subseteq DOMAIN room'
  BY DEF Enters, history
<1>6. cwd = listed[parent_dir] \/ (stray /\ cwd \in Beneath(listed[parent_dir]))
  BY <1>1 DEF WalkInv, CwdInv
<1>7. cur \in Beneath(listed[parent_dir])
  <2>1. cur \in Below(cwd)
    BY <1>1 DEF Below
  <2> QED BY <1>6, <2>1, BeneathBelow, BeneathStep
<1>8. \A l \in links : l.dir = parent_dir => NameOf(l) # NameOf(e)
  BY <1>1, <1>4 DEF Named
<1>9. LinkInv'
  <2>1. LinkInv
    BY DEF WalkInv
  <2>2. \A l, m \in links' : l.ino = m.ino => l = m
    BY <1>3, <1>4, <1>5, <2>1 DEF LinkInv
  <2>3. \A l, m \in links' : l.dir = m.dir /\ NameOf(l) = NameOf(m) => l = m
    BY <1>4, <1>5, <1>8, <2>1 DEF LinkInv
  <2>4. \A l \in links' : /\ l.ino \in alloc'
                          /\ l.dir \in DOMAIN listed /\ l.entry \in Beneath(listed[l.dir])
                          /\ l.ino \in DOMAIN listed => listed[l.ino] = l.entry
    BY <1>2, <1>3, <1>4, <1>5, <1>7, <2>1 DEF LinkInv
  <2> QED BY <1>5, <2>2, <2>3, <2>4, TreeKeep DEF LinkInv
<1>10. ListInv'
  BY <1>5 DEF WalkInv, ListInv
<1>11. MadeInv'
  <2>1. \A l \in links : tree[l.entry].kind = "dir" =>
          l.ino \in DOMAIN listed \/ Pair(l.dir, NameOf(l)) \in reported
    BY <1>1 DEF WalkInv, MadeInv, Working
  <2>2. tree[e.entry].kind = "dir" => pc' = "chdir" /\ e.ino = new'
    BY <1>1, <1>4, <1>5 DEF kind
  <2> QED BY <1>5, <2>1, <2>2, TreeKeep DEF MadeInv
<1>12. ShapeInv'
  <2> SUFFICES ASSUME ~stray
               PROVE  /\ \A l \in links' : tree[l.entry].dir = listed[l.dir]
                      /\ \A l, m \in links' : l.entry = m.entry => l = m
                      /\ \A d, f \in DOMAIN listed : listed[d] = listed[f] => d = f
    BY <1>5 DEF ShapeInv
  <2>1. /\ \A l \in links : tree[l.entry].dir = listed[l.dir]
        /\ \A l, m \in links : l.entry = m.entry => l = m
        /\ \A d, f \in DOMAIN listed : listed[d] = listed[f] => d = f
    BY DEF WalkInv, ShapeInv
  <2>2. tree[e.entry].dir = listed[e.dir]
    BY <1>1, <1>4, <1>6
  <2>3. ASSUME NEW l \in links PROVE l.entry # cur
    <3>1. SUFFICES ASSUME l.entry = cur PROVE FALSE
      OBVIOUS
    <3>2. l.dir \in DOMAIN listed /\ listed[l.dir] = listed[parent_dir]
      BY <1>4, <2>1, <2>2, <3>1 DEF WalkInv, LinkInv
    <3>3. l.dir = parent_dir
      BY <1>2, <2>1, <3>2
    <3> QED BY <1>4, <1>8, <3>1, <3>3 DEF NameOf
  <2> QED BY <1>4, <1>5, <2>1, <2>2, <2>3
<1>13. StackInv'
  <2>1. ASSUME NEW k \in 1 .. Len(stack), NEW x \in stack[k].todo
        PROVE  Untouched(stack[k].ino, tree[x].name)'
    <3>1. Untouched(stack[k].ino, tree[x].name)
      BY <1>1 DEF WalkInv, StackInv
    <3>2. stack[k].ino # parent_dir \/ k = 1
      BY <1>1, <1>2 DEF WalkInv, StackInv
    <3>3. ~(e.dir = stack[k].ino /\ NameOf(e) = tree[x].name)
      BY <1>1, <1>4, <3>2
    <3> QED BY <1>5, <3>1, <3>3, TreeKeep DEF Untouched, Named
  <2>2. pc # "exit" /\ StackInv /\ pc' \notin {"exit", "opendir"}
    BY <1>1 DEF WalkInv
  <2> QED BY <1>1, <1>5, <2>1, <2>2 DEF StackInv
<1>14. CwdInv'
  <2>1. parent_dir' = parent_dir
    BY <1>5 DEF parent_dir
  <2> QED BY <1>1, <1>5, <1>6, <2>1, TreeKeep DEF CwdInv
<1> QED BY <1>9, <1>10, <1>11, <1>12, <1>13, <1>14 DEF WalkInv

\* The loop: the next name is taken or skipped, or the rest of them is.
LEMMA LoopWalk ==
  ASSUME TypeOK, WalkInv, Len(stack) > 0, pc = "next", pc' \in Working \cup {"next"},
         UNCHANGED <<tree, cwd, alloc, links, room, listed, stray>>,
         NEW T \in SUBSET stack[1].todo, stack' = [stack EXCEPT ![1].todo = T],
         \/ reported' = reported
         \/ \E x \in stack[1].todo : x \notin T /\ reported' = reported \cup {Message(x)}
  PROVE  WalkInv'
<1>1. /\ parent_dir \in DOMAIN listed /\ stack[1].ino = parent_dir /\ 1 \in 1 .. Len(stack)
      /\ pc \notin {"exit", "opendir"}
  BY ParentListed, StackFacts
<1>2. T \in SUBSET Entries
  BY StackFacts
<1>3. /\ Len(stack') = Len(stack) /\ stack'[1].ino = stack[1].ino /\ stack'[1].todo = T
      /\ \A k \in 1 .. Len(stack) : k # 1 => stack'[k] = stack[k]
  BY <1>2, SetTodo
<1>4. \A k \in 1 .. Len(stack) : stack'[k].ino = stack[k].ino /\ stack'[k].todo \subseteq stack[k].todo
  BY <1>3
<1>5. LinkInv' /\ ShapeInv'
  <2>1. LinkInv /\ ShapeInv
    BY DEF WalkInv
  <2> QED BY <2>1, TreeKeep DEF LinkInv, ShapeInv
<1>6. ListInv'
  <2>1. \A x : Message(x).dir = parent_dir
    BY DEF Message
  <2>2. \A r \in reported' : r.dir \in DOMAIN listed
    BY <1>1, <2>1 DEF WalkInv, ListInv
  <2> QED BY <2>2 DEF WalkInv, ListInv
<1>7. MadeInv'
  <2>1. \A l \in links : tree[l.entry].kind = "dir" =>
          l.ino \in DOMAIN listed \/ Pair(l.dir, NameOf(l)) \in reported
    BY DEF WalkInv, MadeInv
  <2>2. reported \subseteq reported'
    OBVIOUS
  <2> QED BY <2>1, <2>2, TreeKeep DEF MadeInv
<1>8. StackInv'
  <2>1. ASSUME NEW k \in 1 .. Len(stack), NEW y \in stack'[k].todo
        PROVE  tree[y].dir = listed[stack[k].ino] /\ Untouched(stack[k].ino, tree[y].name)'
    <3>1. tree[y].dir = listed[stack[k].ino] /\ Untouched(stack[k].ino, tree[y].name)
      BY <1>1, <1>4 DEF WalkInv, StackInv
    <3>2. stack[k].ino # parent_dir \/ k = 1
      BY <1>1 DEF WalkInv, StackInv
    <3>3. ASSUME NEW x \in stack[1].todo, x \notin T
          PROVE  Pair(stack[k].ino, tree[y].name) # Message(x)
      <4>1. CASE k = 1
        <5>1. x \in Entries /\ y \in Entries /\ x # y
          BY <1>2, <1>3, <3>3, <4>1, StackFacts
        <5>2. tree[x].dir = tree[y].dir
          BY <1>1, <3>1, <4>1 DEF WalkInv, StackInv
        <5>3. tree[x].name # tree[y].name
          BY <5>1, <5>2, TreeFacts
        <5> QED BY <5>3, MessageIs, PairIs
      <4>2. CASE k # 1
        BY <3>2, <4>2, MessageIs, PairIs
      <4> QED BY <4>1, <4>2
    <3> QED BY <3>1, <3>3, TreeKeep DEF Untouched, Named
  <2>2. StackInv /\ pc' \notin {"exit", "opendir"}
    BY DEF WalkInv, Working
  <2> QED BY <1>1, <1>3, <1>4, <2>1, <2>2 DEF StackInv
<1>9. CwdInv'
  <2>1. parent_dir' = parent_dir
    BY <1>3 DEF parent_dir
  <2>2. cwd = listed[parent_dir] \/ (stray /\ cwd \in Beneath(listed[parent_dir]))
    BY DEF WalkInv, CwdInv
  <2>3. pc' \notin {"main", "read", "start", "opendir", "bitmaps", "done"}
    BY DEF Working
  <2> QED BY <2>1, <2>2, <2>3, TreeKeep DEF CwdInv
<1> QED BY <1>5, <1>6, <1>7, <1>8, <1>9 DEF WalkInv

\* opendir(".") and readdir: what is to be done in a directory of the image
LEMMA OpendirIs ==
  ASSUME TypeOK, CurInv, Opendir
  PROVE  /\ Len(stack) > 0 /\ pc = "opendir" /\ pc' = "next" /\ Len(stack') = Len(stack)
         /\ parent_dir' = parent_dir /\ stack[1].ino = parent_dir
         /\ stack'[1].ino = parent_dir /\ stack'[1].todo = Below(cwd)
         /\ \A k \in 1 .. Len(stack) : k # 1 => stack'[k] = stack[k]
         /\ DOMAIN listed' = DOMAIN listed \cup {parent_dir} /\ listed'[parent_dir] = cwd
         /\ \A d \in DOMAIN listed : d # parent_dir => listed'[d] = listed[d]
         /\ UNCHANGED <<tree, cwd, cur, new, expanded, image, faults, reported, cut, stray>>
<1>1. Len(stack) > 0 /\ pc = "opendir" /\ pc' = "next"
      /\ UNCHANGED <<tree, cwd, cur, new, expanded, image, faults, reported, cut, stray>>
  BY DEF Opendir, CurInv
<1>2. Below(cwd) \in SUBSET Entries /\ stack' = [stack EXCEPT ![1].todo = Below(cwd)]
  BY DEF Opendir, Below
<1>3. /\ Len(stack') = Len(stack) /\ stack'[1].ino = stack[1].ino /\ stack'[1].todo = Below(cwd)
      /\ \A k \in 1 .. Len(stack) : k # 1 => stack'[k] = stack[k]
  BY <1>1, <1>2, SetTodo
<1>4. parent_dir' = parent_dir /\ stack[1].ino = parent_dir
  BY <1>3 DEF parent_dir
<1>5. listed' = [d \in DOMAIN listed \cup {parent_dir} |-> IF d = parent_dir THEN cwd ELSE listed[d]]
  BY DEF Opendir
<1> QED BY <1>1, <1>3, <1>4, <1>5

LEMMA OpendirWalk ==
  ASSUME TypeOK, WalkInv, CurInv, Opendir
  PROVE  WalkInv'
<1> DEFINE p == parent_dir
<1>1. /\ Len(stack) > 0 /\ pc = "opendir" /\ pc' = "next" /\ Len(stack') = Len(stack)
      /\ parent_dir' = p /\ stack[1].ino = p
      /\ stack'[1].ino = p /\ stack'[1].todo = Below(cwd)
      /\ \A k \in 1 .. Len(stack) : k # 1 => stack'[k] = stack[k]
      /\ DOMAIN listed' = DOMAIN listed \cup {p} /\ listed'[p] = cwd
      /\ \A d \in DOMAIN listed : d # p => listed'[d] = listed[d]
      /\ UNCHANGED <<tree, cwd, new, alloc, links, room, reported, stray>>
  BY OpendirIs DEF image
<1>2. /\ p \notin DOMAIN listed
      /\ \/ p = Root /\ cwd \in {Root, Start}
         \/ \E l \in links : l.ino = p /\ l.entry = cwd
  BY <1>1 DEF WalkInv, CwdInv
<1>3. 1 \in 1 .. Len(stack) /\ stack'[1].todo \subseteq Entries
  BY <1>1, StackFacts DEF Below
<1> HIDE DEF p
<1>4. LinkInv /\ ListInv /\ ShapeInv /\ StackInv
  BY DEF WalkInv
<1>5. \A l \in links : /\ l.dir \in DOMAIN listed /\ l.dir # p /\ listed'[l.dir] = listed[l.dir]
                       /\ l.ino = p => l.entry = cwd
  <2>1. \A l \in links : l.ino \in Inodes
    BY DEF TypeOK
  <2>2. \A l \in links : l.ino = p => l.entry = cwd
    BY <1>2, <1>4, <2>1, TreeFacts DEF LinkInv
  <2> QED BY <1>1, <1>2, <1>4, <2>2 DEF LinkInv
<1>6. LinkInv'
  <2>1. \A l \in links : l.ino \in DOMAIN listed' => listed'[l.ino] = l.entry
    BY <1>1, <1>4, <1>5 DEF LinkInv
  <2>2. \A l \in links : l.dir \in DOMAIN listed' /\ l.entry \in Beneath(listed'[l.dir])
    BY <1>1, <1>4, <1>5 DEF LinkInv
  <2>3. \A l \in links : l.entry \in Beneath(listed[l.dir])'
    BY <1>1, <2>2, TreeKeep
  <2> QED BY <1>1, <1>4, <2>1, <2>2, <2>3, TreeKeep DEF LinkInv
<1>7. ListInv'
  <2>1. p = Root \/ \E l \in links : l.ino = p /\ l.ino \in alloc
    BY <1>2, <1>4 DEF LinkInv
  <2>2. DOMAIN listed' \subseteq alloc \cup {Root}
    BY <1>1, <1>4, <2>1 DEF ListInv
  <2>3. Root \in DOMAIN listed' => listed'[Root] \in {Root, Start}
    <3>1. CASE p = Root
      <4>1. \A l \in links : l.ino # Root
        BY TreeFacts DEF TypeOK
      <4> QED BY <1>1, <1>2, <3>1, <4>1
    <3>2. CASE p # Root
      BY <1>1, <1>4, <3>2 DEF ListInv
    <3> QED BY <3>1, <3>2
  <2>4. \A d \in DOMAIN listed' : d # Root => \E l \in links : l.ino = d
    BY <1>1, <1>4, <2>1 DEF ListInv
  <2> QED BY <1>1, <1>4, <2>2, <2>3, <2>4 DEF ListInv
<1>8. MadeInv'
  <2>1. \A l \in links : tree[l.entry].kind = "dir" =>
          l.ino \in DOMAIN listed \/ Pair(l.dir, NameOf(l)) \in reported \/ l.ino = p
    BY <1>1 DEF WalkInv, MadeInv, p
  <2> QED BY <1>1, <2>1, TreeKeep DEF MadeInv
<1>9. ShapeInv'
  <2> SUFFICES ASSUME ~stray
               PROVE  /\ \A l \in links : tree[l.entry].dir = listed'[l.dir]
                      /\ \A l, m \in links : l.entry = m.entry => l = m
                      /\ \A d, e \in DOMAIN listed' : listed'[d] = listed'[e] => d = e
    BY <1>1 DEF ShapeInv
  <2>1. ASSUME NEW d \in DOMAIN listed PROVE listed[d] # cwd
    <3>1. SUFFICES ASSUME listed[d] = cwd PROVE FALSE
      OBVIOUS
    <3>2. CASE d = Root
      <4>1. cwd \in {Root, Start} /\ p # Root
        BY <1>2, <1>4, <3>1, <3>2 DEF ListInv
      <4>2. cwd \in Entries
        BY <1>2, <4>1 DEF TypeOK
      <4> QED BY <4>1, <4>2, TreeFacts
    <3>3. CASE d # Root
      <4>1. PICK l \in links : l.ino = d
        BY <1>4, <3>3 DEF ListInv
      <4>2. l.entry = cwd /\ l.entry \in Entries
        BY <1>4, <3>1, <4>1 DEF LinkInv, TypeOK
      <4>3. PICK m \in links : m.ino = p /\ m.entry = cwd
        BY <1>2, <4>2, TreeFacts
      <4>4. l = m
        BY <1>4, <4>2, <4>3 DEF ShapeInv
      <4> QED BY <1>2, <4>1, <4>3, <4>4
    <3> QED BY <3>2, <3>3
  <2>2. \A d, e \in DOMAIN listed' : listed'[d] = listed'[e] => d = e
    BY <1>1, <1>2, <1>4, <2>1 DEF ShapeInv
  <2>3. \A l \in links : tree[l.entry].dir = listed'[l.dir]
    BY <1>4, <1>5 DEF ShapeInv
  <2> QED BY <1>4, <2>2, <2>3 DEF ShapeInv
<1>10. StackInv'
  <2>1. \A k \in 1 .. Len(stack) : stack'[k].ino = stack[k].ino
    BY <1>1
  <2>2. \A k \in 1 .. Len(stack) : k # 1 => stack[k].ino # p
    BY <1>1, <1>3, <1>4 DEF StackInv
  <2>3. ASSUME NEW n PROVE Untouched(p, n)
    <3>1. ~Named(p, n)
      BY <1>5 DEF Named
    <3>2. Pair(p, n) \notin reported
      <4>1. Pair(p, n).dir = p
        BY DEF Pair
      <4> QED BY <1>2, <1>4, <4>1 DEF ListInv
    <3> QED BY <3>1, <3>2 DEF Untouched
  <2>4. ASSUME NEW k \in 1 .. Len(stack), NEW x \in stack'[k].todo
        PROVE  tree[x].dir = listed'[stack[k].ino] /\ Untouched(stack[k].ino, tree[x].name)'
    <3>1. \A d, n : Untouched(d, n)' = Untouched(d, n)
      BY <1>1, TreeKeep DEF Untouched, Named
    <3>2. CASE k = 1
      BY <1>1, <2>3, <3>1, <3>2 DEF Below
    <3>3. CASE k # 1
      <4>1. stack[k].ino \in DOMAIN listed /\ stack[k].ino # p /\ x \in stack[k].todo
        BY <1>1, <1>4, <2>2, <3>3 DEF StackInv
      <4>2. tree[x].dir = listed[stack[k].ino] /\ Untouched(stack[k].ino, tree[x].name)
        BY <1>1, <1>4, <4>1 DEF StackInv
      <4> QED BY <1>1, <3>1, <4>1, <4>2
    <3> QED BY <3>2, <3>3
  <2>5. \A k \in 1 .. Len(stack) : stack[k].ino \in DOMAIN listed'
    BY <1>1, <1>4 DEF StackInv
  <2> QED BY <1>1, <1>4, <2>1, <2>4, <2>5 DEF StackInv
<1>11. CwdInv'
  BY <1>1, TreeKeep DEF CwdInv, Working
<1> QED BY <1>6, <1>7, <1>8, <1>9, <1>10, <1>11 DEF WalkInv

\* The recursive call puts a frame on the stack.
LEMMA RecurseIs ==
  ASSUME TypeOK, CurInv, Recurse
  PROVE  /\ pc = "chdir" /\ pc' = "opendir" /\ cwd' = cur /\ Len(stack) > 0
         /\ stack' \in Seq(Frames) /\ Len(stack') = Len(stack) + 1
         /\ stack'[1].ino = new /\ stack'[1].todo = {} /\ parent_dir' = new
         /\ \A k \in 1 .. Len(stack) : stack'[k + 1] = stack[k]
         /\ UNCHANGED <<tree, cur, new, expanded, image, faults, reported, history>>
<1>1. Len(stack) > 0 /\ new \in Inodes /\ stack \in Seq(Frames)
  BY DEF Recurse, CurInv, TypeOK, Frames
<1>. PICK f : f = [ino |-> new, todo |-> {}]
  OBVIOUS
<1>2. f \in Frames /\ f.ino = new /\ f.todo = {} /\ stack' = <<f>> \o stack
  BY <1>1 DEF Frames, Recurse
<1>3. stack' \in Seq(Frames) /\ Len(stack') = Len(stack) + 1 /\ stack'[1] = f
      /\ \A k \in 1 .. Len(stack) : stack'[k + 1] = stack[k]
  BY <1>1, <1>2
<1>4. parent_dir' = new
  BY <1>2, <1>3 DEF parent_dir
<1> QED BY <1>1, <1>2, <1>3, <1>4 DEF Recurse

LEMMA RecurseWalk ==
  ASSUME TypeOK, WalkInv, CurInv, Recurse
  PROVE  WalkInv'
<1>1. /\ pc = "chdir" /\ pc' = "opendir" /\ cwd' = cur /\ Len(stack) > 0
      /\ Len(stack') = Len(stack) + 1
      /\ stack'[1].ino = new /\ stack'[1].todo = {} /\ parent_dir' = new
      /\ \A k \in 1 .. Len(stack) : stack'[k + 1] = stack[k]
      /\ UNCHANGED <<tree, new, alloc, links, room, reported, listed, stray>>
  BY RecurseIs DEF image, history
<1>2. /\ new \in DOMAIN room /\ new \notin DOMAIN listed
      /\ \E l \in links : l.dir = parent_dir /\ l.entry = cur /\ l.ino = new
  BY <1>1 DEF CurInv
<1>3. LinkInv' /\ ListInv' /\ ShapeInv'
  <2>1. LinkInv /\ ListInv /\ ShapeInv
    BY DEF WalkInv
  <2> QED BY <1>1, <2>1, TreeKeep DEF LinkInv, ListInv, ShapeInv
<1>4. MadeInv'
  <2>1. \A l \in links : tree[l.entry].kind = "dir" =>
          l.ino \in DOMAIN listed \/ Pair(l.dir, NameOf(l)) \in reported \/ l.ino = new
    BY <1>1 DEF WalkInv, MadeInv
  <2> QED BY <1>1, <2>1, TreeKeep DEF MadeInv
<1>5. StackInv'
  <2>1. StackInv /\ Len(stack) \in Nat /\ 1 \in 1 .. Len(stack) /\ stack[1].ino = parent_dir
    BY <1>1, StackFacts DEF WalkInv, parent_dir
  <2>2. ASSUME NEW k \in 1 .. Len(stack')
        PROVE  \/ k = 1 /\ stack'[k].ino = new
               \/ k - 1 \in 1 .. Len(stack) /\ stack'[k] = stack[k - 1]
    <3>1. CASE k = 1
      BY <1>1, <3>1
    <3>2. CASE k # 1
      <4>1. k - 1 \in 1 .. Len(stack) /\ k = (k - 1) + 1
        BY <1>1, <2>1, <3>2
      <4>2. stack'[(k - 1) + 1] = stack[k - 1]
        BY <1>1, <4>1
      <4> QED BY <4>1, <4>2
    <3> QED BY <3>1, <3>2
  <2>3. stack'[Len(stack')].ino = Root
    <3>1. Len(stack) \in 1 .. Len(stack) /\ stack[Len(stack)].ino = Root
      BY <1>1, <2>1 DEF StackInv
    <3>2. stack'[Len(stack) + 1] = stack[Len(stack)]
      BY <1>1, <3>1
    <3> QED BY <1>1, <3>1, <3>2
  <2>4. \A k \in 1 .. Len(stack) : stack[k].ino \in DOMAIN listed /\ stack[k].ino # new
    BY <1>1, <1>2, <2>1 DEF StackInv
  <2>5. \A k, m \in 1 .. Len(stack') : stack'[k].ino = stack'[m].ino => k = m
    <3> SUFFICES ASSUME NEW k \in 1 .. Len(stack'), NEW m \in 1 .. Len(stack'), stack'[k].ino = stack'[m].ino
                 PROVE  k = m
      OBVIOUS
    <3>1. CASE k = 1 \/ m = 1
      BY <1>1, <2>2, <2>4, <3>1
    <3>2. CASE k # 1 /\ m # 1
      <4>1. /\ k - 1 \in 1 .. Len(stack) /\ stack'[k] = stack[k - 1]
            /\ m - 1 \in 1 .. Len(stack) /\ stack'[m] = stack[m - 1]
        BY <2>2, <3>2
      <4>2. \A i, j \in 1 .. Len(stack) : stack[i].ino = stack[j].ino => i = j
        BY <1>1, <2>1 DEF StackInv
      <4>3. k - 1 = m - 1
        BY <4>1, <4>2
      <4> QED BY <4>3
    <3> QED BY <3>1, <3>2
  <2>6. ASSUME NEW k \in 1 .. Len(stack')
        PROVE  /\ stack'[k].ino \in DOMAIN room
               /\ k < Len(stack') => \E l \in links : l.ino = stack'[k].ino /\ l.dir = stack'[k + 1].ino
               /\ k # 1 => stack'[k].ino \in DOMAIN listed
               /\ \A x \in stack'[k].todo : /\ tree[x].dir = listed[stack'[k].ino]
                                            /\ Untouched(stack'[k].ino, tree[x].name)
    <3>2. CASE k = 1
      <4>1. stack'[k + 1] = stack[1]
        BY <1>1, <2>1, <3>2
      <4> QED BY <1>1, <1>2, <2>1, <3>2, <4>1
    <3>3. CASE k # 1
      <4>1. k - 1 \in 1 .. Len(stack) /\ stack'[k] = stack[k - 1]
        BY <2>2, <3>3
      <4>. PICK j \in 1 .. Len(stack) : j = k - 1
        BY <4>1
      <4>2. k < Len(stack') => j < Len(stack) /\ stack'[k + 1] = stack[j + 1]
        <5>1. SUFFICES ASSUME k < Len(stack') PROVE j < Len(stack) /\ stack'[k + 1] = stack[j + 1]
          OBVIOUS
        <5>2. k \in 1 .. Len(stack) /\ j + 1 = k /\ j < Len(stack)
          BY <1>1, <2>1, <5>1
        <5> QED BY <1>1, <5>2
      <4>3. /\ stack[j].ino \in DOMAIN room
            /\ j < Len(stack) => \E l \in links : l.ino = stack[j].ino /\ l.dir = stack[j + 1].ino
            /\ stack[j].ino \in DOMAIN listed
            /\ \A x \in stack[j].todo : /\ tree[x].dir = listed[stack[j].ino]
                                        /\ Untouched(stack[j].ino, tree[x].name)
        BY <1>1, <2>1 DEF StackInv
      <4> QED BY <4>1, <4>2, <4>3
    <3> QED BY <3>2, <3>3
  <2>u. \A d, n : Untouched(d, n)' = Untouched(d, n)
    BY <1>1, TreeKeep DEF Untouched, Named
  <2>7. (\A k \in 1 .. Len(stack) :
           /\ stack[k].ino \in DOMAIN room
           /\ k < Len(stack) => \E l \in links : l.ino = stack[k].ino /\ l.dir = stack[k + 1].ino
           /\ k # 1 \/ pc # "opendir" => stack[k].ino \in DOMAIN listed
           /\ \A x \in stack[k].todo : /\ tree[x].dir = listed[stack[k].ino]
                                       /\ Untouched(stack[k].ino, tree[x].name))'
    BY <1>1, <2>6, <2>u
  <2> QED BY <1>1, <2>3, <2>5, <2>7 DEF StackInv
<1>6. CwdInv'
  BY <1>1, <1>2 DEF CwdInv, Working
<1> QED BY <1>3, <1>4, <1>5, <1>6 DEF WalkInv

\* Back to the caller, or to main
LEMMA ReturnIs ==
  ASSUME TypeOK, CurInv, Return
  PROVE  /\ pc = "next" /\ Len(stack) > 0 /\ Len(stack) \in Nat /\ stack[1].todo = {}
         /\ stack' \in Seq(Frames) /\ Len(stack') = Len(stack) - 1
         /\ \A k \in 1 .. Len(stack') : k + 1 \in 1 .. Len(stack) /\ stack'[k] = stack[k + 1]
         /\ Len(stack) = 1 => pc' = "bitmaps" /\ stack' = <<>> /\ UNCHANGED <<cwd, stray>> /\ NoFault
         /\ Len(stack) # 1 => /\ pc' = "next" /\ Len(stack') > 0 /\ 1 \in 1 .. Len(stack')
                              /\ stack[2].ino = stack'[1].ino
                              /\ \/ cwd' = tree[cwd].dir /\ NoFault /\ UNCHANGED stray
                                 \/ UNCHANGED cwd /\ Fault /\ stray' = TRUE
         /\ UNCHANGED <<tree, cur, new, expanded, image, reported, listed, cut>>
<1>1. Len(stack) > 0 /\ stack \in Seq(Frames) /\ Len(stack) \in Nat /\ stack' = Tail(stack)
  BY StackFacts DEF Return, CurInv
<1>2. stack' \in Seq(Frames) /\ Len(stack') = Len(stack) - 1
      /\ \A k \in 1 .. Len(stack') : k + 1 \in 1 .. Len(stack) /\ stack'[k] = stack[k + 1]
  BY <1>1
<1>3. Len(stack) = 1 => stack' = <<>>
  BY <1>2
<1>4. Len(stack) # 1 => Len(stack') > 0 /\ 1 \in 1 .. Len(stack') /\ stack[2].ino = stack'[1].ino
  <2>1. SUFFICES ASSUME Len(stack) # 1 PROVE Len(stack') > 0 /\ 1 \in 1 .. Len(stack') /\ stack[2].ino = stack'[1].ino
    OBVIOUS
  <2>2. Len(stack') > 0 /\ 1 \in 1 .. Len(stack')
    BY <1>1, <1>2, <2>1, MoreThanOne
  <2>3. stack'[1] = stack[1 + 1]
    BY <1>2, <2>2
  <2> QED BY <2>2, <2>3
<1> QED BY <1>1, <1>2, <1>3, <1>4, Zenon DEF Return

LEMMA ReturnWalk ==
  ASSUME TypeOK, WalkInv, CurInv, Return
  PROVE  WalkInv'
<1>1. /\ pc = "next" /\ Len(stack) > 0 /\ Len(stack) \in Nat
      /\ Len(stack') = Len(stack) - 1 /\ pc' \in {"next", "bitmaps"}
      /\ \A k \in 1 .. Len(stack') : k + 1 \in 1 .. Len(stack) /\ stack'[k] = stack[k + 1]
      /\ UNCHANGED <<tree, new, alloc, links, room, reported, listed>>
      /\ stray' = stray \/ stray' = TRUE
  <2>1. stray' = stray \/ stray' = TRUE
    BY ReturnIs
  <2>2. pc' \in {"next", "bitmaps"}
    BY ReturnIs
  <2> QED BY <2>1, <2>2, ReturnIs DEF image
<1>2. LinkInv' /\ ListInv'
  <2>1. LinkInv /\ ListInv
    BY DEF WalkInv
  <2> QED BY <1>1, <2>1, TreeKeep DEF LinkInv, ListInv
<1>3. ShapeInv'
  <2>1. ShapeInv /\ (~stray' => ~stray)
    BY <1>1 DEF WalkInv
  <2> QED BY <1>1, <2>1 DEF ShapeInv
<1>4. MadeInv'
  <2>1. \A l \in links : tree[l.entry].kind = "dir" =>
          l.ino \in DOMAIN listed \/ Pair(l.dir, NameOf(l)) \in reported
    BY <1>1 DEF WalkInv, MadeInv
  <2> QED BY <1>1, <2>1, TreeKeep DEF MadeInv
<1>5. StackInv'
  <2>1. StackInv /\ pc \notin {"opendir", "exit"} /\ pc' \notin {"opendir", "exit"}
    BY <1>1 DEF WalkInv
  <2>2. Len(stack') > 0 => stack'[Len(stack')].ino = Root
    <3> SUFFICES ASSUME Len(stack') > 0 PROVE stack'[Len(stack')].ino = Root
      OBVIOUS
    <3>1. Len(stack') \in 1 .. Len(stack') /\ Len(stack') + 1 = Len(stack)
      BY <1>1
    <3> QED BY <1>1, <2>1, <3>1 DEF StackInv
  <2>3. \A k, m \in 1 .. Len(stack') : stack'[k].ino = stack'[m].ino => k = m
    <3> SUFFICES ASSUME NEW k \in 1 .. Len(stack'), NEW m \in 1 .. Len(stack'), stack'[k].ino = stack'[m].ino
                 PROVE  k = m
      OBVIOUS
    <3>1. k + 1 = m + 1
      BY <1>1, <2>1 DEF StackInv
    <3> QED BY <3>1
  <2>4. ASSUME NEW k \in 1 .. Len(stack')
        PROVE  /\ stack'[k].ino \in DOMAIN room
               /\ k < Len(stack') => \E l \in links : l.ino = stack'[k].ino /\ l.dir = stack'[k + 1].ino
               /\ stack'[k].ino \in DOMAIN listed
               /\ \A x \in stack'[k].todo : /\ tree[x].dir = listed[stack'[k].ino]
                                            /\ Untouched(stack'[k].ino, tree[x].name)
    <3>2. k + 1 \in 1 .. Len(stack) /\ stack'[k] = stack[k + 1]
      BY <1>1
    <3>. PICK j \in 1 .. Len(stack) : j = k + 1
      BY <3>2
    <3>3. k < Len(stack') => j < Len(stack) /\ stack'[k + 1] = stack[j + 1]
      BY <1>1
    <3>4. /\ stack[j].ino \in DOMAIN room
          /\ j < Len(stack) => \E l \in links : l.ino = stack[j].ino /\ l.dir = stack[j + 1].ino
          /\ stack[j].ino \in DOMAIN listed
          /\ \A x \in stack[j].todo : /\ tree[x].dir = listed[stack[j].ino]
                                      /\ Untouched(stack[j].ino, tree[x].name)
      BY <2>1 DEF StackInv
    <3> QED BY <3>2, <3>3, <3>4
  <2>u. \A d, n : Untouched(d, n)' = Untouched(d, n)
    BY <1>1, TreeKeep DEF Untouched, Named
  <2>5. (\A k \in 1 .. Len(stack) :
           /\ stack[k].ino \in DOMAIN room
           /\ k < Len(stack) => \E l \in links : l.ino = stack[k].ino /\ l.dir = stack[k + 1].ino
           /\ k # 1 \/ pc # "opendir" => stack[k].ino \in DOMAIN listed
           /\ \A x \in stack[k].todo : /\ tree[x].dir = listed[stack[k].ino]
                                       /\ Untouched(stack[k].ino, tree[x].name))'
    BY <1>1, <2>4, <2>u
  <2> QED BY <2>1, <2>2, <2>3, <2>5 DEF StackInv
<1>6. CwdInv'
  <2>1. CASE Len(stack) = 1
    <3>1. pc' = "bitmaps" /\ stack' = <<>>
      BY <2>1, ReturnIs
    <3>2. stack[1].ino = Root /\ stack[1].ino \in DOMAIN listed
      <4>1. 1 \in 1 .. Len(stack)
        BY <2>1
      <4> QED BY <1>1, <2>1, <4>1 DEF WalkInv, StackInv
    <3> QED BY <1>1, <3>1, <3>2 DEF CwdInv, Working
  <2>2. CASE Len(stack) # 1
    <3>1. /\ pc' = "next" /\ parent_dir' = stack[2].ino
          /\ \/ cwd' = tree[cwd].dir /\ UNCHANGED stray
             \/ UNCHANGED cwd /\ stray' = TRUE
      BY <2>2, ReturnIs DEF parent_dir
    <3> DEFINE top == listed[stack[2].ino]
    <3>2. PICK l \in links : /\ l.ino = parent_dir /\ l.dir = stack[2].ino
                             /\ cwd = l.entry \/ (stray /\ cwd \in Beneath(l.entry))
      BY <1>1, <2>2, CwdBeneath
    <3>3. cwd \in Beneath(top)
      BY <1>1, <2>2, CwdBeneath
    <3>4. ~stray => tree[cwd].dir = top
      BY <3>2 DEF WalkInv, ShapeInv
    <3>5. tree[cwd].dir = top \/ tree[cwd].dir \in Beneath(top)
      BY <3>3, BeneathUp
    <3>6. cwd' = top \/ (stray' /\ cwd' \in Beneath(top))
      BY <3>1, <3>3, <3>4, <3>5
    <3>7. listed'[parent_dir'] = top
      BY <1>1, <3>1
    <3> HIDE DEF top
    <3>8. cwd' = listed'[parent_dir'] \/ (stray' /\ cwd' \in Beneath(listed'[parent_dir']))
      BY <3>6, <3>7
    <3>9. Beneath(listed[parent_dir])' = Beneath(listed'[parent_dir'])
      BY <1>1 DEF Beneath, Below
    <3>10. cwd' = listed'[parent_dir'] \/ (stray' /\ cwd' \in Beneath(listed[parent_dir])')
      BY <3>8, <3>9
    <3> QED BY <3>1, <3>10 DEF CwdInv, Working
  <2> QED BY <2>1, <2>2
<1> QED BY <1>2, <1>3, <1>4, <1>5, <1>6 DEF WalkInv

\* main
EnterTreeIs ==
  /\ pc = "start" /\ pc' = "opendir"
  /\ Len(stack') = 1 /\ stack'[1].ino = Root /\ stack'[1].todo = {} /\ parent_dir' = Root
  /\ cwd' \in {Root, Start} /\ (faults' = 0 => cwd' = Root)
  /\ UNCHANGED <<tree, cur, new, expanded, image, reported, history>>

LEMMA EnterTreeDoes ==
  ASSUME TypeOK, WalkInv, EnterTree
  PROVE  EnterTreeIs
<1>. PICK f : f = [ino |-> Root, todo |-> {}]
  OBVIOUS
<1>1. f.ino = Root /\ f.todo = {} /\ stack' = <<f>>
  BY DEF EnterTree
<1>2. Len(stack') = 1 /\ stack'[1] = f
  BY <1>1
<1>3. pc = "start" /\ cwd = Start
  BY DEF EnterTree, WalkInv, CwdInv
<1>4. faults' = 0 => cwd' = Root
  BY FaultShows DEF EnterTree
<1> QED BY <1>1, <1>2, <1>3, <1>4 DEF EnterTree, EnterTreeIs, parent_dir

LEMMA MainWalk ==
  ASSUME TypeOK, WalkInv, OpenImage \/ OpenImageFails \/ ReadBitmaps \/ EnterTree
  PROVE  WalkInv'
<1>1. /\ pc \in {"main", "read", "start"} /\ pc' \in {"read", "start", "exit", "opendir"}
      /\ UNCHANGED <<tree, alloc, links, room, reported, listed, cut, stray>>
  BY DEF OpenImage, OpenImageFails, ReadBitmaps, EnterTree, image, history
<1>2. /\ cwd = Start /\ stack = <<>> /\ DOMAIN listed = {} /\ links = {} /\ alloc = {} /\ reported = {}
  BY <1>1 DEF WalkInv, CwdInv
<1>3. LinkInv' /\ ListInv' /\ MadeInv' /\ ShapeInv'
  <2>1. Root \in DOMAIN room
    BY DEF WalkInv, ListInv
  <2> QED BY <1>1, <1>2, <2>1 DEF LinkInv, ListInv, MadeInv, ShapeInv
<1>4. CASE EnterTree
  <2>1. EnterTreeIs
    BY <1>4, EnterTreeDoes
  <2>2. StackInv'
    <3>1. \A k \in 1 .. 1 : k = 1
      OBVIOUS
    <3>2. Root \in DOMAIN room'
      BY <1>1 DEF WalkInv, ListInv
    <3> QED BY <2>1, <3>1, <3>2 DEF StackInv, EnterTreeIs
  <2>3. CwdInv'
    BY <1>1, <1>2, <2>1 DEF EnterTreeIs, CwdInv, Working
  <2> QED BY <1>3, <2>2, <2>3 DEF WalkInv
<1>5. CASE OpenImage \/ OpenImageFails \/ ReadBitmaps
  <2>1. UNCHANGED <<stack, cwd>> /\ pc' \in {"read", "start", "exit"}
    BY <1>5 DEF OpenImage, OpenImageFails, ReadBitmaps
  <2>2. StackInv'
    <3>1. Len(stack') = 0
      BY <1>2, <2>1
    <3> QED BY <2>1, <3>1 DEF StackInv
  <2>3. CwdInv'
    BY <1>1, <1>2, <2>1 DEF CwdInv, Working
  <2> QED BY <1>3, <2>2, <2>3 DEF WalkInv
<1> QED BY <1>4, <1>5

\* The steps that end the program
LEMMA EndWalk ==
  ASSUME TypeOK, WalkInv, OpendirFails \/ WriteBitmaps \/ Stopped
  PROVE  WalkInv'
<1>1. /\ pc \in {"opendir", "bitmaps", "done", "exit", "died"} /\ pc' \in {"done", "exit", "died"}
      /\ pc' = "done" => pc \in {"bitmaps", "done"}
      /\ pc' = "died" => pc = "died"
      /\ UNCHANGED <<tree, stack, cwd, new, image, reported, history>>
  BY DEF OpendirFails, WriteBitmaps, Stopped, vars
<1>2. LinkInv' /\ ListInv' /\ ShapeInv'
  <2>1. LinkInv /\ ListInv /\ ShapeInv
    BY DEF WalkInv
  <2> QED BY <1>1, <2>1, TreeKeep DEF LinkInv, ListInv, ShapeInv, image, history
<1>3. MadeInv'
  <2> SUFFICES ASSUME pc' = "done" PROVE MadeInv'
    BY <1>1 DEF MadeInv
  <2>1. \A l \in links : tree[l.entry].kind = "dir" =>
          l.ino \in DOMAIN listed \/ Pair(l.dir, NameOf(l)) \in reported
    BY <1>1 DEF WalkInv, MadeInv
  <2> QED BY <1>1, <2>1, TreeKeep DEF MadeInv, image, history
<1>4. StackInv'
  <2> SUFFICES ASSUME pc' # "exit" PROVE StackInv'
    BY DEF StackInv
  <2>1. pc \in {"bitmaps", "done", "died"} /\ pc' # "opendir" /\ StackInv
    BY <1>1 DEF WalkInv
  <2>2. \A d, n : Untouched(d, n)' = Untouched(d, n)
    BY <1>1, TreeKeep DEF Untouched, Named, image
  <2> QED BY <1>1, <2>1, <2>2 DEF StackInv, image, history
<1>5. CwdInv'
  <2>1. pc' = "done" => stack = <<>> /\ Root \in DOMAIN listed
    BY <1>1 DEF WalkInv, CwdInv
  <2> QED BY <1>1, <2>1 DEF CwdInv, Working, history
<1> QED BY <1>2, <1>3, <1>4, <1>5 DEF WalkInv
-----------------------------------------------------------------------------
(* The entry at hand *)

LEMMA CurWorks ==
  ASSUME TypeOK, WalkInv, CurInv, Works
  PROVE  CurInv'
<1>1. Keep
  BY WorksKeeps
<1>2. /\ pc \in Working /\ pc' \in Working /\ kind' = kind
      /\ stack' = stack /\ cur' = cur /\ new' = new /\ tree' = tree /\ cwd' = cwd /\ links' = links
      /\ parent_dir' = parent_dir /\ Message(cur)' = Message(cur)
  BY <1>1 DEF Keep, kind, parent_dir, Message
<1>3. /\ Len(stack') > 0 /\ cur' \in Entries /\ tree'[cur'].dir = cwd' /\ kind' # "unknown"
      /\ ~Named(parent_dir, tree[cur].name)'
      /\ \A x \in stack'[1].todo : tree'[x].name # tree'[cur'].name
  BY <1>2, TreeKeep DEF CurInv, Named
<1>4. \A l \in links : l.ino # new
  BY <1>2, NewUnlinked DEF WalkInv
<1>5. /\ Fresh' => new' \in Inodes \ alloc' /\ Message(cur)' \notin reported'
      /\ Marked' => new' \in alloc'
      /\ pc' = "mkdir" => kind' = "dir"
      /\ pc' \in {"inode", "open", "copy", "readlink", "link"} => kind' # "dir"
      /\ pc' \in {"inode", "open", "copy", "readlink"} => ~expanded'
      /\ pc' = "expand" => expanded'
  <2> HIDE DEF kind, Message, parent_dir
  <2> USE DEF CurInv, Fresh, Marked, image
  <2>1. CASE Expand
    BY <1>2, <2>1 DEF Expand
  <2>2. CASE WriteFileInode
    BY <1>2, <2>2 DEF WriteFileInode, WriteInode
  <2>3. CASE WriteSpecialInode
    BY <1>2, <2>3 DEF WriteSpecialInode, WriteInode
  <2>4. CASE OpenFile
    BY <1>2, <2>4 DEF OpenFile
  <2>5. CASE CopyFile \/ CopyLink
    BY <1>2, <2>5 DEF CopyFile, CopyLink
  <2>6. CASE ReadFails
    BY <1>2, <2>6 DEF ReadFails
  <2>7. CASE (CopyFileFails \/ CopyLinkFails) /\ pc' = "link"
    BY <1>2, <2>7 DEF CopyFileFails, CopyLinkFails
  <2>8. CASE (MkdirFails \/ LinkFails) /\ ~expanded
    BY <1>2, <2>8 DEF MkdirFails, LinkFails, AfterFailure
  <2> QED BY <2>1, <2>2, <2>3, <2>4, <2>5, <2>6, <2>7, <2>8 DEF Works
<1>6. pc' \notin {"chdir", "next", "opendir"}
  BY <1>2 DEF Working
<1> HIDE DEF kind, Message, parent_dir
<1> QED BY <1>2, <1>3, <1>4, <1>5, <1>6 DEF CurInv

\* Between two entries nothing is at hand.
LEMMA CurFree ==
  ASSUME pc' \notin Working \cup {"chdir"}, pc' \in {"next", "opendir"} => Len(stack') > 0
  PROVE  CurInv'
BY DEF CurInv, Working, Fresh, Marked

\* ext2fs_mkdir has made a directory that was not listed yet.
LEMMA CurEnters ==
  ASSUME TypeOK, WalkInv, CurInv, Enters
  PROVE  CurInv'
<1>1. /\ pc \in Working /\ Len(stack) > 0 /\ stack' = stack /\ cur \in Entries
      /\ cur' = cur /\ new' = new /\ tree' = tree /\ listed' = listed /\ parent_dir' = parent_dir
  BY DEF Enters, CurInv, history, parent_dir
<1>2. CASE kind # "dir"
  <2>1. pc' = "next"
    BY <1>2 DEF Enters
  <2> QED BY <1>1, <2>1, CurFree DEF Working
<1>3. CASE kind = "dir"
  <2>1. pc' = "chdir" /\ new \in DOMAIN room'
    BY <1>3 DEF Enters
  <2>2. new \in Inodes /\ new \notin DOMAIN listed
    BY <1>1, NewUnlinked DEF WalkInv
  <2>3. \E l \in links' : l.dir = parent_dir' /\ l.entry = cur' /\ l.ino = new'
    <3>1. Entry \in links'
      BY DEF Enters
    <3> QED BY <1>1, <3>1 DEF Entry
  <2> QED BY <1>1, <2>1, <2>2, <2>3 DEF CurInv, Working, Fresh, Marked
<1> QED BY <1>2, <1>3

\* The entry that is found has a name that was not met in this directory.
LEMMA CurTakes ==
  ASSUME TypeOK, WalkInv, CurInv, NEW x, NEW y, Takes(x, y)
  PROVE  CurInv'
<1>1. /\ pc = "next" /\ Len(stack) > 0 /\ x \in stack[1].todo
      /\ stack' = [stack EXCEPT ![1].todo = @ \ {x}]
      /\ UNCHANGED <<tree, cwd, alloc, links, reported>> /\ expanded' = FALSE
      /\ cur' = y /\ new' \in Inodes \ alloc
      /\ y \in Entries /\ tree[y].dir = cwd /\ tree[y].name = tree[x].name /\ tree[y].kind # "unknown"
      /\ pc' = IF tree[y].kind = "dir" THEN "mkdir" ELSE "inode"
  BY DEF CurInv, Takes, Meets, Found, Below, image
<1>2. /\ stack[1].ino = parent_dir /\ 1 \in 1 .. Len(stack) /\ stack[1].todo \subseteq Entries
      /\ pc # "exit"
  BY <1>1, StackFacts, ParentListed
<1>. PICK T \in SUBSET Entries : T = stack[1].todo \ {x}
  BY <1>2
<1>3. /\ Len(stack') = Len(stack) /\ stack'[1].ino = stack[1].ino /\ stack'[1].todo = T
  <2>1. stack' = [stack EXCEPT ![1].todo = T]
    BY <1>1
  <2> QED BY <1>1, <2>1, SetTodo
<1>4. /\ Untouched(parent_dir, tree[x].name)
      /\ \A z \in stack[1].todo : tree[z].dir = listed[parent_dir]
  BY <1>1, <1>2 DEF WalkInv, StackInv
<1>5. \A z \in T : tree[z].name # tree[y].name
  BY <1>1, <1>2, <1>4, TreeFacts
<1>6. parent_dir' = parent_dir
  BY <1>2, <1>3 DEF parent_dir
<1>7. Message(cur)' = Pair(parent_dir, tree[x].name)
  BY <1>1, <1>6 DEF Message, Pair
<1>8. ~Named(parent_dir, tree[cur].name)' /\ Message(cur)' \notin reported'
  BY <1>1, <1>4, <1>6, <1>7, TreeKeep DEF Untouched, Named
<1>9. kind' = tree[y].kind
  BY <1>1 DEF kind
<1> HIDE DEF kind, Message, parent_dir
<1> QED BY <1>1, <1>3, <1>5, <1>6, <1>8, <1>9 DEF CurInv, Working, Fresh, Marked

LEMMA CurRest ==
  ASSUME TypeOK, WalkInv, CurInv, \/ Opendir \/ Recurse \/ Return \/ ReaddirFails \/ ChdirFails
                                  \/ OpenImage \/ OpenImageFails \/ ReadBitmaps \/ EnterTree
                                  \/ OpendirFails \/ WriteBitmaps \/ Stopped
  PROVE  CurInv'
<1>1. CASE Opendir
  <2>1. pc' = "next" /\ Len(stack') > 0
    BY <1>1, OpendirIs
  <2> QED BY <2>1, CurFree DEF Working
<1>2. CASE Recurse
  <2>1. pc' = "opendir" /\ Len(stack') = Len(stack) + 1 /\ Len(stack) > 0
    BY <1>2, RecurseIs
  <2>2. Len(stack') > 0
    BY <2>1, StackFacts
  <2> QED BY <2>1, <2>2, CurFree DEF Working
<1>3. CASE Return
  <2>1. pc' \in {"next", "bitmaps"} /\ (pc' = "next" => Len(stack') > 0)
    <3>1. CASE Len(stack) = 1
      BY <1>3, <3>1, ReturnIs
    <3>2. CASE Len(stack) # 1
      BY <1>3, <3>2, ReturnIs
    <3> QED BY <3>1, <3>2
  <2> QED BY <2>1, CurFree DEF Working
<1>4. CASE ReaddirFails
  <2>1. pc' = "next" /\ Len(stack) > 0 /\ stack' = [stack EXCEPT ![1].todo = {}]
    BY <1>4 DEF ReaddirFails, CurInv
  <2>2. Len(stack') = Len(stack)
    <3>1. {} \in SUBSET Entries
      OBVIOUS
    <3> QED BY <2>1, <3>1, SetTodo
  <2> QED BY <2>1, <2>2, CurFree DEF Working
<1>5. CASE ChdirFails
  <2>1. pc' = "next" /\ stack' = stack /\ Len(stack) > 0
    BY <1>5 DEF ChdirFails, CurInv
  <2> QED BY <2>1, CurFree DEF Working
<1>6. CASE EnterTree
  <2>1. pc' = "opendir" /\ Len(stack') = 1
    BY <1>6, EnterTreeDoes DEF EnterTreeIs
  <2> QED BY <2>1, CurFree DEF Working
<1>7. CASE OpenImage \/ OpenImageFails \/ ReadBitmaps \/ OpendirFails \/ WriteBitmaps \/ Stopped
  <2>1. pc' \in {"read", "start", "done", "exit", "died"}
    BY <1>7 DEF OpenImage, OpenImageFails, ReadBitmaps, OpendirFails, WriteBitmaps, Stopped, vars
  <2> QED BY <2>1, CurFree DEF Working
<1> QED BY <1>1, <1>2, <1>3, <1>4, <1>5, <1>6, <1>7

\* What has been written of the entry, or a message names it.
LEMMA InfoWorks ==
  ASSUME TypeOK, CurInv, InfoInv, Works
  PROVE  InfoInv'
<1>1. Keep
  BY WorksKeeps
<1>2. /\ kind' = kind /\ cur' = cur /\ new' = new /\ reported \subseteq reported'
      /\ Message(cur)' = Message(cur)
  BY <1>1 DEF Keep, kind, Message, parent_dir
<1> HIDE DEF kind, Message
<1> USE DEF image, InfoInv, Report
<1>3. CASE Expand
  BY <1>1, <1>2, <1>3 DEF Expand, CurInv
<1>4. CASE WriteFileInode \/ WriteSpecialInode
  <2>1. new \in Inodes
    BY <1>1, <1>4 DEF WriteFileInode, WriteSpecialInode, CurInv, Fresh
  <2>2. CASE WriteFileInode
    BY <1>1, <1>2, <2>1, <2>2 DEF WriteFileInode, WriteInode, TypeOK
  <2>3. CASE kind = "device" /\ WriteInode("device", "link")
    BY <1>1, <1>2, <2>1, <2>3 DEF WriteInode, TypeOK
  <2>4. CASE kind = "symlink" /\ WriteInode("empty", "readlink")
    BY <1>1, <1>2, <2>1, <2>4 DEF WriteInode, TypeOK
  <2> QED BY <1>4, <2>2, <2>3, <2>4 DEF WriteSpecialInode
<1>5. CASE OpenFile
  BY <1>1, <1>2, <1>5 DEF OpenFile
<1>6. CASE CopyFile \/ CopyLink
  <2>1. new \in Inodes /\ pc \in {"copy", "readlink"} /\ pc' = "link"
    BY <1>1, <1>6 DEF CopyFile, CopyLink, CurInv, Marked, TypeOK
  <2>2. info'[new] = IF info[new] = "empty" THEN kind ELSE info[new]
    BY <1>1, <1>6, <2>1 DEF CopyFile, CopyLink, Filled, TypeOK
  <2> QED BY <1>1, <1>2, <2>1, <2>2
<1>7. CASE ReadFails
  <2>1. new \in Inodes
    BY <1>1, <1>7 DEF ReadFails, CurInv, Marked, TypeOK
  <2> QED BY <1>1, <1>2, <1>7, <2>1 DEF ReadFails, TypeOK
<1>8. CASE (CopyFileFails \/ CopyLinkFails) /\ pc' = "link"
  BY <1>2, <1>8 DEF CopyFileFails, CopyLinkFails
<1>9. CASE (MkdirFails \/ LinkFails) /\ ~expanded
  BY <1>1, <1>2, <1>9 DEF MkdirFails, LinkFails, AfterFailure, CurInv
<1> QED BY <1>3, <1>4, <1>5, <1>6, <1>7, <1>8, <1>9 DEF Works

LEMMA InfoRest ==
  ASSUME pc' \notin {"open", "copy", "readlink", "link", "expand"}
  PROVE  InfoInv'
BY DEF InfoInv
-----------------------------------------------------------------------------
(* Every name of a directory that was listed is met *)

\* What is not ahead any more is in the image, in a message, or cut off.
LEMMA CoverStep ==
  ASSUME CoverInv, UNCHANGED <<tree, listed>>, reported \subseteq reported', cut \subseteq cut',
         pc' \in {"exit", "died"} \/ pc \notin {"exit", "died"},
         \A d, n : Good(d, n) => Good(d, n)',
         \A d, x : Ahead(d, x) => \/ Ahead(d, x)' \/ d \in cut'
                                  \/ Pair(d, tree[x].name) \in reported' \/ Good(d, tree[x].name)'
  PROVE  CoverInv'
<1> SUFFICES ASSUME pc' \notin {"exit", "died"}, NEW d \in DOMAIN listed, d \notin cut', NEW x \in Below(listed[d])
             PROVE  Pair(d, tree[x].name) \in reported' \/ Good(d, tree[x].name)' \/ Ahead(d, x)'
  BY TreeKeep DEF CoverInv
<1>1. Pair(d, tree[x].name) \in reported \/ Good(d, tree[x].name) \/ Ahead(d, x)
  BY DEF CoverInv
<1> QED BY <1>1

LEMMA GoodKeep ==
  ASSUME UNCHANGED <<tree, info>>, links \subseteq links'
  PROVE  \A d, n : Good(d, n) => Good(d, n)'
BY DEF Good, NameOf

\* The inode at hand is of no entry yet.
LEMMA GoodWorks ==
  ASSUME TypeOK, WalkInv, CurInv, pc \in Working, tree' = tree, links \subseteq links',
         \A n \in Inodes : n # new => info'[n] = info[n]
  PROVE  \A d, n : Good(d, n) => Good(d, n)'
<1>1. \A l \in links : l.ino # new /\ l.ino \in Inodes
  BY NewUnlinked DEF WalkInv, TypeOK
<1>2. \A l \in links : info'[l.ino] = info[l.ino]
  BY <1>1
<1> QED BY <1>2 DEF Good, NameOf

LEMMA CoverKeep ==
  ASSUME TypeOK, WalkInv, CurInv, CoverInv, Keep
  PROVE  CoverInv'
<1>1. /\ UNCHANGED <<tree, stack, cur, links, listed, cut>> /\ reported \subseteq reported'
      /\ pc \in Working /\ pc' \in Working
      /\ \A n \in Inodes : n # new => info'[n] = info[n]
  BY DEF Keep, history
<1>2. \A d, n : Good(d, n) => Good(d, n)'
  BY <1>1, GoodWorks
<1>3. \A d, x : Ahead(d, x) => Ahead(d, x)'
  BY <1>1 DEF Ahead, parent_dir
<1>4. pc \notin {"exit", "died"}
  BY <1>1 DEF Working
<1> QED BY <1>1, <1>2, <1>3, <1>4, CoverStep

LEMMA CoverGivesUp ==
  ASSUME TypeOK, CoverInv, GivesUp
  PROVE  CoverInv'
<1>1. /\ UNCHANGED <<tree, stack, links, info, listed, cut>>
      /\ reported' = reported \cup {Message(cur)} /\ pc \in Working
  BY DEF GivesUp, history
<1>2. \A d, n : Good(d, n) => Good(d, n)'
  BY <1>1, GoodKeep
<1>3. \A d, x : Ahead(d, x) => Ahead(d, x)' \/ Pair(d, tree[x].name) \in reported'
  BY <1>1, MessageIs DEF Ahead
<1>4. pc \notin {"exit", "died"}
  BY <1>1 DEF Working
<1> QED BY <1>1, <1>2, <1>3, <1>4, CoverStep

LEMMA CoverEnters ==
  ASSUME TypeOK, WalkInv, CurInv, CoverInv, Enters
  PROVE  CoverInv'
<1>1. /\ UNCHANGED <<tree, stack, cur, reported, listed, cut>>
      /\ pc \in Working /\ links' = links \cup {Entry}
      /\ \A n \in Inodes : n # new => info'[n] = info[n]
      /\ info'[new] \in {kind, "short"} \/ Message(cur) \in reported
  BY DEF Enters, history
<1>2. \A d, n : Good(d, n) => Good(d, n)'
  BY <1>1, GoodWorks
<1>3. Pair(parent_dir, tree[cur].name) \in reported \/ Good(parent_dir, tree[cur].name)'
  <2>. PICK e : e = Entry
    OBVIOUS
  <2>1. e \in links' /\ e.dir = parent_dir /\ e.entry = cur /\ e.ino = new
    BY <1>1 DEF Entry
  <2>2. parent_dir' = parent_dir
    BY <1>1 DEF parent_dir
  <2>3. tree'[e.entry].name = tree[cur].name /\ tree'[e.entry].kind = kind
    BY <1>1, <2>1 DEF kind
  <2>4. Message(cur) \in reported \/ info'[e.ino] \in {tree'[e.entry].kind, "short"}
    BY <1>1, <2>1, <2>3
  <2> QED BY <1>1, <2>1, <2>2, <2>3, <2>4, MessageIs DEF Good, NameOf
<1>4. \A d, x : Ahead(d, x) =>
        Ahead(d, x)' \/ Pair(d, tree[x].name) \in reported' \/ Good(d, tree[x].name)'
  <2> SUFFICES ASSUME NEW d, NEW x, Ahead(d, x)
               PROVE  Ahead(d, x)' \/ Pair(d, tree[x].name) \in reported' \/ Good(d, tree[x].name)'
    OBVIOUS
  <2>1. CASE \E k \in 1 .. Len(stack) : stack[k].ino = d /\ x \in stack[k].todo
    BY <1>1, <2>1 DEF Ahead
  <2>2. CASE d = parent_dir /\ tree[x].name = tree[cur].name
    <3>1. parent_dir' = parent_dir
      BY <1>1 DEF parent_dir
    <3>. PICK p : p = parent_dir
      OBVIOUS
    <3>. PICK n : n = tree[cur].name
      OBVIOUS
    <3>2. Pair(p, n) \in reported \/ Good(p, n)'
      BY <1>1, <1>3, <3>1
    <3> QED BY <1>1, <2>2, <3>2
  <2> QED BY <2>1, <2>2 DEF Ahead
<1>5. pc \notin {"exit", "died"}
  BY <1>1 DEF Working
<1> QED BY <1>1, <1>2, <1>4, <1>5, CoverStep

\* The names that the loop takes off
LEMMA CoverLoop ==
  ASSUME TypeOK, CoverInv, pc = "next", Len(stack) > 0, UNCHANGED <<tree, links, info, listed>>,
         reported \subseteq reported', cut \subseteq cut',
         NEW T \in SUBSET stack[1].todo, stack' = [stack EXCEPT ![1].todo = T],
         \A x \in stack[1].todo \ T : \/ parent_dir \in cut' \/ Message(x) \in reported'
                                      \/ pc' \in Working /\ tree[x].name = tree'[cur'].name
  PROVE  CoverInv'
<1>1. T \in SUBSET Entries
  BY StackFacts
<1>2. /\ Len(stack') = Len(stack) /\ stack'[1].ino = stack[1].ino /\ stack'[1].todo = T
      /\ \A k \in 1 .. Len(stack) : k # 1 => stack'[k] = stack[k]
  BY <1>1, SetTodo
<1>3. parent_dir' = parent_dir
  BY <1>2 DEF parent_dir
<1>4. ASSUME NEW d, NEW x, Ahead(d, x)
      PROVE  Ahead(d, x)' \/ d \in cut' \/ Pair(d, tree[x].name) \in reported'
  <2>1. PICK k \in 1 .. Len(stack) : stack[k].ino = d /\ x \in stack[k].todo
    BY <1>4 DEF Ahead, Working
  <2>2. CASE k # 1 \/ x \in T
    <3>1. stack'[k].ino = d /\ x \in stack'[k].todo
      BY <1>2, <2>1, <2>2
    <3> QED BY <1>2, <3>1 DEF Ahead
  <2>3. CASE k = 1 /\ x \notin T
    <3>1. d = parent_dir /\ x \in stack[1].todo \ T
      BY <2>1, <2>3 DEF parent_dir
    <3>2. CASE pc' \in Working /\ tree[x].name = tree'[cur'].name
      BY <1>3, <3>1, <3>2 DEF Ahead
    <3>3. CASE parent_dir \in cut' \/ Message(x) \in reported'
      BY <3>1, <3>3, MessageIs
    <3> QED BY <3>1, <3>2, <3>3
  <2> QED BY <2>2, <2>3
<1>5. \A d, n : Good(d, n) => Good(d, n)'
  BY GoodKeep
<1> QED BY <1>4, <1>5, CoverStep

\* opendir(".") puts all of the working directory ahead.
LEMMA CoverOpendir ==
  ASSUME TypeOK, WalkInv, CurInv, CoverInv, Opendir
  PROVE  CoverInv'
<1> DEFINE p == parent_dir
<1>1. /\ Len(stack) > 0 /\ pc = "opendir" /\ pc' = "next" /\ Len(stack') = Len(stack)
      /\ stack[1].ino = p /\ stack'[1].ino = p /\ stack'[1].todo = Below(cwd)
      /\ \A k \in 1 .. Len(stack) : k # 1 => stack'[k] = stack[k]
      /\ DOMAIN listed' = DOMAIN listed \cup {p} /\ listed'[p] = cwd
      /\ \A d \in DOMAIN listed : d # p => listed'[d] = listed[d]
      /\ UNCHANGED <<tree, links, info, reported, cut>>
  BY OpendirIs DEF image
<1>2. 1 \in 1 .. Len(stack) /\ stack[1].todo = {}
  BY <1>1, StackFacts DEF WalkInv, StackInv
<1> HIDE DEF p
<1> SUFFICES ASSUME NEW d \in DOMAIN listed', d \notin cut, NEW x \in Below(listed'[d])
             PROVE  Pair(d, tree[x].name) \in reported \/ Good(d, tree[x].name) \/ Ahead(d, x)'
  <2>1. \A e, n : Good(e, n)' = Good(e, n)
    BY <1>1 DEF Good, NameOf
  <2>2. \A e \in DOMAIN listed' : Below(listed[e])' = Below(listed'[e])
    BY <1>1 DEF Below
  <2>3. (\A e \in DOMAIN listed : e \notin cut =>
          \A z \in Below(listed[e]) :
            Pair(e, tree[z].name) \in reported \/ Good(e, tree[z].name) \/ Ahead(e, z))'
    BY <1>1, <2>1, <2>2
  <2> QED BY <2>3 DEF CoverInv
<1>3. CASE d = p
  <2>1. stack'[1].ino = d /\ x \in stack'[1].todo /\ 1 \in 1 .. Len(stack')
    BY <1>1, <1>2, <1>3
  <2> QED BY <2>1 DEF Ahead
<1>4. CASE d # p
  <2>1. d \in DOMAIN listed /\ x \in Below(listed[d])
    BY <1>1, <1>4
  <2>2. Pair(d, tree[x].name) \in reported \/ Good(d, tree[x].name) \/ Ahead(d, x)
    BY <1>1, <2>1 DEF CoverInv
  <2>3. ASSUME Ahead(d, x) PROVE Ahead(d, x)'
    <3>1. PICK k \in 1 .. Len(stack) : stack[k].ino = d /\ x \in stack[k].todo
      BY <1>1, <2>3 DEF Ahead, Working
    <3>2. k # 1
      BY <1>2, <3>1
    <3>3. stack'[k].ino = d /\ x \in stack'[k].todo /\ k \in 1 .. Len(stack')
      BY <1>1, <3>1, <3>2
    <3> QED BY <3>3 DEF Ahead
  <2> QED BY <2>2, <2>3
<1> QED BY <1>3, <1>4

LEMMA CoverCalls ==
  ASSUME TypeOK, CurInv, CoverInv, Recurse \/ Return
  PROVE  CoverInv'
<1>1. /\ UNCHANGED <<tree, links, info, reported, listed, cut>>
      /\ Len(stack) > 0 /\ Len(stack) \in Nat /\ pc \in {"chdir", "next"}
  BY RecurseIs, ReturnIs, StackFacts DEF image, history
<1>2. ASSUME NEW d, NEW x, Ahead(d, x)
      PROVE  Ahead(d, x)'
  <2>1. PICK k \in 1 .. Len(stack) : stack[k].ino = d /\ x \in stack[k].todo
    BY <1>1, <1>2 DEF Ahead, Working
  <2>2. CASE Recurse
    <3>1. Len(stack') = Len(stack) + 1 /\ stack'[k + 1] = stack[k]
      BY <2>2, RecurseIs
    <3>2. k + 1 \in 1 .. Len(stack')
      BY <1>1, <3>1
    <3> QED BY <2>1, <3>1, <3>2 DEF Ahead
  <2>3. CASE Return
    <3>1. /\ stack[1].todo = {} /\ Len(stack') = Len(stack) - 1
          /\ \A m \in 1 .. Len(stack') : stack'[m] = stack[m + 1]
      BY <2>3, ReturnIs
    <3>. PICK m : m = k - 1
      OBVIOUS
    <3>2. m \in 1 .. Len(stack') /\ m + 1 = k
      BY <1>1, <2>1, <3>1
    <3>3. stack'[m] = stack[k]
      BY <3>1, <3>2
    <3> QED BY <2>1, <3>2, <3>3 DEF Ahead
  <2> QED BY <2>2, <2>3
<1>3. \A d, n : Good(d, n) => Good(d, n)'
  BY <1>1, GoodKeep
<1> QED BY <1>1, <1>2, <1>3, CoverStep

\* Nothing is listed yet in main, and no entry is at hand at the others.
LEMMA CoverRest ==
  ASSUME TypeOK, WalkInv, CoverInv, \/ OpenImage \/ OpenImageFails \/ ReadBitmaps \/ EnterTree
                                    \/ ChdirFails \/ OpendirFails \/ WriteBitmaps \/ Stopped
  PROVE  CoverInv'
<1>1. CASE OpenImage \/ OpenImageFails \/ ReadBitmaps \/ EnterTree
  <2>1. pc \in {"main", "read", "start"} /\ UNCHANGED history
    BY <1>1 DEF OpenImage, OpenImageFails, ReadBitmaps, EnterTree
  <2>2. DOMAIN listed' = {}
    BY <2>1 DEF WalkInv, CwdInv, history
  <2> QED BY <2>2 DEF CoverInv
<1>2. CASE ChdirFails \/ OpendirFails \/ WriteBitmaps \/ Stopped
  <2>1. /\ UNCHANGED <<tree, stack, links, info, listed, cut>> /\ reported \subseteq reported'
        /\ pc \notin Working /\ (pc' \in {"exit", "died"} \/ pc \notin {"exit", "died"})
    BY <1>2 DEF ChdirFails, OpendirFails, WriteBitmaps, Stopped, vars, image, history, Report, Working
  <2>2. \A d, n : Good(d, n) => Good(d, n)'
    BY <2>1, GoodKeep
  <2>3. \A d, x : Ahead(d, x) => Ahead(d, x)'
    BY <2>1 DEF Ahead
  <2> QED BY <2>1, <2>2, <2>3, CoverStep
<1> QED BY <1>1, <1>2
-----------------------------------------------------------------------------
(* Every inode marked without an entry belongs to an entry in a message *)

LEMMA OrphansFinite ==
  ASSUME CountInv
  PROVE  IsFiniteSet(Orphans) /\ Cardinality(Orphans) \in Nat /\ Cardinality(reported) \in Nat
<1>1. Orphans \in SUBSET alloc /\ IsFiniteSet(alloc) /\ IsFiniteSet(reported)
  BY DEF CountInv, Orphans
<1>2. IsFiniteSet(Orphans)
  BY <1>1, FS_Subset
<1> QED BY <1>1, <1>2, FS_CardinalityType

LEMMA CountKeep ==
  ASSUME CountInv, Keep
  PROVE  CountInv'
<1>1. /\ pc \in Working /\ pc' \in Working
      /\ UNCHANGED <<new, links>> /\ Message(cur)' = Message(cur)
      /\ alloc' = alloc \/ alloc' = alloc \cup {new}
      /\ reported' = reported \/ reported' = reported \cup {Message(cur)}
  BY DEF Keep, Message, parent_dir
<1>2. IsFiniteSet(alloc') /\ IsFiniteSet(reported')
  BY <1>1, FS_AddElement DEF CountInv
<1>3. (Orphans \ {new})' = Orphans \ {new} /\ (reported \ {Message(cur)})' = reported \ {Message(cur)}
  BY <1>1 DEF Orphans
<1>4. Cardinality((Orphans \ {new})') <= Cardinality((reported \ {Message(cur)})')
  BY <1>1, <1>3 DEF CountInv
<1> QED BY <1>1, <1>2, <1>4 DEF CountInv

LEMMA CountGivesUp ==
  ASSUME CountInv, GivesUp
  PROVE  CountInv'
<1>1. /\ pc \in Working /\ pc' \notin Working
      /\ Orphans' = Orphans /\ alloc' = alloc /\ reported' = reported \cup {Message(cur)}
  BY DEF GivesUp, Orphans, Working
<1>2. /\ IsFiniteSet(alloc) /\ IsFiniteSet(reported)
      /\ Cardinality(Orphans \ {new}) <= Cardinality(reported \ {Message(cur)})
  BY <1>1 DEF CountInv
<1>3. Cardinality(Orphans) <= Cardinality(reported \cup {Message(cur)})
  BY <1>1, <1>2, OrphansFinite, CardDrop
<1>4. IsFiniteSet(reported')
  BY <1>1, <1>2, FS_AddElement
<1> QED BY <1>1, <1>2, <1>3, <1>4 DEF CountInv

LEMMA CountEnters ==
  ASSUME CountInv, Enters
  PROVE  CountInv'
<1>1. /\ pc \in Working /\ pc' \notin Working /\ reported' = reported
      /\ alloc' = alloc \cup {new} /\ links' = links \cup {Entry}
  BY DEF Enters, Working
<1>2. Orphans' = Orphans \ {new}
  <2>. PICK e : e = Entry
    OBVIOUS
  <2>1. e.ino = new /\ links' = links \cup {e}
    BY <1>1 DEF Entry
  <2>2. {l.ino : l \in links'} = {l.ino : l \in links} \cup {new}
    BY <2>1
  <2> QED BY <1>1, <2>2 DEF Orphans
<1>3. /\ IsFiniteSet(alloc) /\ IsFiniteSet(reported)
      /\ Cardinality(Orphans \ {new}) <= Cardinality(reported \ {Message(cur)})
  BY <1>1 DEF CountInv
<1>4. Cardinality(Orphans \ {new}) <= Cardinality(reported)
  BY <1>1, <1>3, OrphansFinite, CardDrop
<1>5. IsFiniteSet(alloc')
  BY <1>1, <1>3, FS_AddElement
<1> QED BY <1>1, <1>2, <1>3, <1>4, <1>5 DEF CountInv

\* At most a message more.
LEMMA CountReports ==
  ASSUME CountInv, pc \notin Working, pc' \notin Working, UNCHANGED <<alloc, links>>,
         NEW r, reported' = reported \cup {r} \/ reported' = reported
  PROVE  CountInv'
<1>1. Orphans' = Orphans
  BY DEF Orphans
<1>2. IsFiniteSet(alloc) /\ IsFiniteSet(reported) /\ Cardinality(Orphans) <= Cardinality(reported)
  BY DEF CountInv
<1>3. CASE reported' = reported
  BY <1>1, <1>2, <1>3 DEF CountInv
<1>4. CASE reported' = reported \cup {r}
  <2>1. /\ IsFiniteSet(reported \cup {r})
        /\ Cardinality(reported \cup {r}) =
             IF r \in reported THEN Cardinality(reported) ELSE Cardinality(reported) + 1
    BY <1>2, FS_AddElement
  <2>2. Cardinality(Orphans) <= Cardinality(reported \cup {r})
    BY <1>2, <2>1, OrphansFinite
  <2> QED BY <1>1, <1>2, <1>4, <2>1, <2>2 DEF CountInv
<1> QED BY <1>3, <1>4

LEMMA CountTakes ==
  ASSUME CountInv, CurInv', NEW x, NEW y, Takes(x, y)
  PROVE  CountInv'
<1>1. /\ pc = "next" /\ pc' \in {"mkdir", "inode"} /\ UNCHANGED <<alloc, links, reported>> /\ new' \notin alloc
  BY DEF Takes, Meets, image
<1>2. pc \notin Working /\ pc' \in Working
  BY <1>1 DEF Working
<1>3. Message(cur)' \notin reported
  BY <1>1 DEF CurInv, Fresh
<1>4. Orphans' = Orphans /\ new' \notin Orphans
  BY <1>1 DEF Orphans
<1>5. (Orphans \ {new})' = Orphans /\ (reported \ {Message(cur)})' = reported
  BY <1>1, <1>3, <1>4
<1>6. Cardinality((Orphans \ {new})') <= Cardinality((reported \ {Message(cur)})')
  BY <1>2, <1>5 DEF CountInv
<1> QED BY <1>1, <1>2, <1>6 DEF CountInv
-----------------------------------------------------------------------------
(* Without an I/O error every chdir and every readdir has worked.          *)

LEMMA FaultStep ==
  ASSUME FaultInv, listed' = listed, pc \notin {"main", "read", "exit"}, pc' # "opendir",
         faults' = 0 => faults = 0 /\ UNCHANGED <<stray, cut, bitmap>>
  PROVE  FaultInv'
BY DEF FaultInv

LEMMA FaultWalk ==
  ASSUME TypeOK, WalkInv, CurInv, FaultInv, \/ Opendir \/ Recurse \/ Return \/ ReaddirFails \/ ChdirFails
                                            \/ OpendirFails \/ WriteBitmaps
  PROVE  FaultInv'
<1> USE DEF image, history, NoFault
<1>1. CASE Opendir
  <2>1. /\ pc = "opendir" /\ pc' = "next" /\ UNCHANGED <<faults, stray, cut, bitmap>>
        /\ DOMAIN listed' = DOMAIN listed \cup {parent_dir} /\ listed'[parent_dir] = cwd
        /\ \A d \in DOMAIN listed : d # parent_dir => listed'[d] = listed[d]
    BY <1>1, OpendirIs
  <2> HIDE DEF parent_dir
  <2>2. faults = 0 /\ Root \in DOMAIN listed' => listed'[Root] = Root
    <3>1. CASE parent_dir = Root
      BY <2>1, <3>1 DEF FaultInv
    <3>2. CASE parent_dir # Root
      BY <2>1, <3>2 DEF FaultInv
    <3> QED BY <3>1, <3>2
  <2> QED BY <2>1, <2>2 DEF FaultInv
<1>2. CASE Recurse
  <2>1. /\ pc = "chdir" /\ parent_dir' = new /\ UNCHANGED <<faults, bitmap, listed, cut, stray>>
    BY <1>2, RecurseIs
  <2>2. new # Root
    BY <2>1, TreeFacts DEF CurInv
  <2> HIDE DEF parent_dir
  <2> QED BY <2>1, <2>2 DEF FaultInv
<1>3. CASE Return
  <2>1. /\ pc = "next" /\ pc' # "opendir" /\ UNCHANGED <<listed, cut, bitmap>>
        /\ (NoFault /\ stray' = stray) \/ Fault
    <3>1. CASE Len(stack) = 1
      BY <1>3, <3>1, ReturnIs
    <3>2. CASE Len(stack) # 1
      BY <1>3, <3>2, ReturnIs
    <3> QED BY <3>1, <3>2
  <2>2. faults' = 0 => faults = 0 /\ stray' = stray
    BY <2>1, FaultShows
  <2> QED BY <2>1, <2>2, FaultStep
<1>4. CASE ReaddirFails
  <2>1. pc = "next" /\ pc' = pc /\ UNCHANGED <<listed, stray, bitmap>> /\ Fault
    BY <1>4 DEF ReaddirFails
  <2>2. faults' # 0
    BY <2>1, FaultShows
  <2> QED BY <2>1, <2>2, FaultStep
<1>5. CASE ChdirFails \/ OpendirFails \/ WriteBitmaps
  <2>1. /\ pc \in {"chdir", "opendir", "bitmaps"} /\ pc' # "opendir"
        /\ UNCHANGED <<listed, cut, stray, bitmap>> /\ (Fault \/ NoFault)
    BY <1>5 DEF ChdirFails, OpendirFails, WriteBitmaps
  <2>2. faults' = 0 => faults = 0
    BY <2>1, FaultShows
  <2> QED BY <2>1, <2>2, FaultStep
<1> QED BY <1>1, <1>2, <1>3, <1>4, <1>5

LEMMA FaultMain ==
  ASSUME TypeOK, WalkInv, FaultInv, OpenImage \/ OpenImageFails \/ ReadBitmaps \/ EnterTree
  PROVE  FaultInv'
<1>1. /\ pc \in {"main", "read", "start"} /\ UNCHANGED <<listed, cut, stray>> /\ DOMAIN listed = {}
  BY DEF OpenImage, OpenImageFails, ReadBitmaps, EnterTree, history, WalkInv, CwdInv
<1>2. CASE OpenImage \/ OpenImageFails
  BY <1>1, <1>2 DEF OpenImage, OpenImageFails, image, FaultInv
<1>3. CASE ReadBitmaps
  <2>1. faults' = 0 => faults = 0 /\ bitmap'
    BY <1>3, FaultShows DEF ReadBitmaps, NoFault
  <2> QED BY <1>1, <1>3, <2>1 DEF ReadBitmaps, FaultInv
<1>4. CASE EnterTree
  <2>1. faults' = 0 => faults = 0 /\ cwd' = Root
    BY <1>4, FaultShows DEF EnterTree, NoFault
  <2>2. pc = "start" /\ bitmap' = bitmap
    BY <1>4 DEF EnterTree, image
  <2> QED BY <1>1, <2>1, <2>2 DEF FaultInv
<1> QED BY <1>2, <1>3, <1>4
-----------------------------------------------------------------------------
(* Without an I/O error, and with inodes and blocks to spare, only what is *)
(* of an unknown type is reported, and a directory that was expanded has   *)
(* room for the second try.                                                *)

LEMMA TroubleBack ==
  ASSUME TypeOK, TypeOK', blocks' <= blocks, alloc \subseteq alloc', faults' = 0 => faults = 0, NoTrouble'
  PROVE  NoTrouble
BY DEF NoTrouble, TypeOK

\* A step that reports nothing, unless after an I/O error.
LEMMA TroubleStep ==
  ASSUME TypeOK, TypeOK', ListInv, TroubleInv, tree' = tree, blocks' <= blocks, alloc \subseteq alloc',
         faults' = 0 => faults = 0 /\ reported' = reported,
         \A d \in DOMAIN listed : listed'[d] = listed[d],
         NoTrouble' /\ expanded' /\ pc' \in {"mkdir", "link"} => room'[parent_dir'] > 0
  PROVE  TroubleInv'
<1> SUFFICES ASSUME NoTrouble', NEW r \in reported'
             PROVE  \E x \in Below(listed'[r.dir]) : tree[x].name = r.name /\ tree[x].kind = "unknown"
  BY TreeKeep DEF TroubleInv, Below
<1>1. NoTrouble /\ faults' = 0
  BY TroubleBack DEF NoTrouble
<1>2. r \in reported /\ r.dir \in DOMAIN listed
  BY <1>1 DEF ListInv
<1>3. \E x \in Below(listed[r.dir]) : tree[x].name = r.name /\ tree[x].kind = "unknown"
  BY <1>1, <1>2 DEF TroubleInv
<1> QED BY <1>2, <1>3

LEMMA TroubleWorks ==
  ASSUME TypeOK, TypeOK', WalkInv, CurInv, TroubleInv, Works
  PROVE  TroubleInv'
<1>1. Keep /\ ListInv
  BY WorksKeeps DEF WalkInv
<1>2. /\ UNCHANGED <<tree, stack, listed>> /\ alloc \subseteq alloc' /\ (faults' = 0 => faults = 0)
      /\ pc \in Working /\ Len(stack) > 0 /\ parent_dir' = parent_dir
  BY <1>1 DEF Keep, history, CurInv, parent_dir
<1> USE DEF image, NoFault, Report
<1>3. blocks' <= blocks
  <2>1. blocks \in Nat
    BY ImgAssumption DEF TypeOK
  <2> QED BY <2>1 DEF Works, Expand, WriteFileInode, WriteSpecialInode, WriteInode, OpenFile,
                      CopyFile, CopyLink, ReadFails, CopyFileFails, CopyLinkFails, MkdirFails, LinkFails
<1>4. SUFFICES ASSUME faults' = 0, blocks' > 0
               PROVE  /\ reported' = reported
                      /\ expanded' /\ pc' \in {"mkdir", "link"} => room'[parent_dir] > 0
  <2>1. CASE faults' = 0 /\ blocks' > 0
    BY <1>1, <1>2, <1>3, <1>4, <2>1, TroubleStep
  <2>2. CASE ~(faults' = 0 /\ blocks' > 0)
    BY <2>2 DEF TroubleInv, NoTrouble
  <2> QED BY <2>1, <2>2
<1>5. ~Fault
  BY <1>4, FaultShows
<1>6. reported' = reported
  <2>1. CASE WriteFileInode \/ WriteSpecialInode
    BY <1>5, <2>1 DEF WriteFileInode, WriteSpecialInode, WriteInode
  <2>2. CASE (CopyFileFails \/ CopyLinkFails) /\ pc' = "link"
    BY <1>4, <1>5, <2>2 DEF CopyFileFails, CopyLinkFails
  <2>3. CASE (MkdirFails \/ LinkFails) /\ ~expanded
    BY <2>3 DEF MkdirFails, LinkFails, AfterFailure
  <2>4. CASE Expand \/ OpenFile \/ CopyFile \/ CopyLink \/ ReadFails
    BY <2>4 DEF Expand, OpenFile, CopyFile, CopyLink, ReadFails
  <2> QED BY <2>1, <2>2, <2>3, <2>4 DEF Works
<1>7. ASSUME expanded', pc' \in {"mkdir", "link"}
      PROVE  room'[parent_dir] > 0
  <2>1. CASE Expand
    <3>1. 1 \in 1 .. Len(stack) /\ pc # "exit"
      BY <1>2, StackFacts DEF Working
    <3>2. parent_dir \in DOMAIN room /\ room[parent_dir] \in Nat
      BY <3>1 DEF WalkInv, StackInv, parent_dir, TypeOK
    <3>3. room' = [room EXCEPT ![parent_dir] = @ + Slots]
      BY <2>1 DEF Expand
    <3> HIDE DEF parent_dir
    <3>4. room'[parent_dir] = room[parent_dir] + Slots
      BY <3>2, <3>3
    <3> QED BY <3>2, <3>4, ImgAssumption
  <2>2. CASE WriteFileInode \/ WriteSpecialInode
    BY <1>7, <2>2 DEF WriteFileInode, WriteSpecialInode, WriteInode, CurInv
  <2>3. CASE OpenFile \/ CopyFile \/ CopyLink \/ ReadFails
    BY <1>7, <2>3 DEF OpenFile, CopyFile, CopyLink, ReadFails, CurInv
  <2>4. CASE (CopyFileFails \/ CopyLinkFails) /\ pc' = "link"
    BY <1>4, <1>5, <2>4 DEF CopyFileFails, CopyLinkFails
  <2>5. CASE (MkdirFails \/ LinkFails) /\ ~expanded
    BY <1>7, <2>5 DEF MkdirFails, LinkFails, AfterFailure
  <2> QED BY <2>1, <2>2, <2>3, <2>4, <2>5 DEF Works
<1> QED BY <1>6, <1>7

LEMMA TroubleDrops ==
  ASSUME TypeOK, TypeOK', TroubleInv, Drops
  PROVE  TroubleInv'
<1> SUFFICES ASSUME NoTrouble' PROVE FALSE
  BY DEF TroubleInv
<1>1. GivesUp
  BY DropsGivesUp
<1>2. faults' = 0 /\ blocks' > 0 /\ (faults' = 0 => faults = 0) /\ alloc' = alloc
  BY <1>1 DEF NoTrouble, GivesUp
<1>3. ~Fault
  BY <1>2, FaultShows
<1>4. blocks' = blocks /\ blocks \in Nat
  BY ImgAssumption DEF Drops, ExpandFails, OpenFails, CopyFileFails, CopyLinkFails, MkdirFails,
                       LinkFails, image, TypeOK
<1>5. NoTrouble
  BY <1>2, <1>4, TroubleBack
<1>6. CASE ExpandFails \/ OpenFails
  BY <1>2, <1>3, <1>4, <1>6 DEF ExpandFails, OpenFails
<1>7. CASE CopyFileFails \/ CopyLinkFails
  BY <1>2, <1>3, <1>4, <1>7 DEF CopyFileFails, CopyLinkFails
<1>8. CASE (MkdirFails \/ LinkFails) /\ expanded
  <2>1. room[parent_dir] = 0 /\ pc \in {"mkdir", "link"}
    BY <1>2, <1>3, <1>4, <1>8 DEF MkdirFails, LinkFails
  <2>2. room[parent_dir] > 0
    BY <1>5, <1>8, <2>1 DEF TroubleInv
  <2> QED BY <2>1, <2>2
<1> QED BY <1>6, <1>7, <1>8 DEF Drops

\* The working directory is the one that was listed, and x is found.
LEMMA TroubleSkips ==
  ASSUME TypeOK, TypeOK', WalkInv, CurInv, FaultInv, TroubleInv, NEW x, Skips(x)
  PROVE  TroubleInv'
<1> SUFFICES ASSUME NoTrouble' PROVE TroubleInv'
  BY DEF TroubleInv
<1>1. /\ UNCHANGED <<tree, cwd, pc, image, history>> /\ ~expanded' /\ pc = "next" /\ Len(stack) > 0
      /\ x \in stack[1].todo /\ reported' = reported \cup {Message(x)}
  BY DEF Skips, Meets, CurInv
<1>2. faults' = 0 /\ ~Fault
  BY FaultShows DEF NoTrouble
<1>3. faults = 0 /\ (~bitmap \/ Inodes \subseteq alloc \/ \A y \in Found(x) : tree[y].kind = "unknown")
  BY <1>2 DEF Skips, NoFault
<1>4. NoTrouble /\ ~stray /\ bitmap
  BY <1>1, <1>3 DEF NoTrouble, FaultInv, image
<1>5. /\ parent_dir \in DOMAIN listed /\ stack[1].ino = parent_dir /\ 1 \in 1 .. Len(stack)
      /\ x \in Entries
  BY <1>1, ParentListed, StackFacts
<1>6. cwd = listed[parent_dir]
  BY <1>1, <1>4 DEF WalkInv, CwdInv
<1>7. tree[x].dir = listed[parent_dir]
  BY <1>1, <1>5 DEF WalkInv, StackInv
<1>8. x \in Below(listed[parent_dir]) /\ x \in Found(x)
  BY <1>5, <1>6, <1>7 DEF Below, Found
<1>9. tree[x].kind = "unknown"
  BY <1>3, <1>4, <1>8 DEF NoTrouble
<1>10. ASSUME NEW r \in reported'
       PROVE  \E y \in Below(listed[r.dir]) : tree[y].name = r.name /\ tree[y].kind = "unknown"
  <2>1. CASE r \in reported
    BY <1>4, <2>1 DEF TroubleInv
  <2>2. CASE r = Message(x)
    <3>1. r.dir = parent_dir /\ r.name = tree[x].name
      BY <2>2 DEF Message
    <3> QED BY <1>8, <1>9, <3>1
  <2> QED BY <1>1, <2>1, <2>2
<1> QED BY <1>1, <1>10 DEF TroubleInv, Below, history

LEMMA TroubleRest ==
  ASSUME TypeOK, TypeOK', WalkInv, CurInv, TroubleInv,
         \/ Mkdir \/ Link \/ Opendir \/ Recurse \/ Return \/ ReaddirFails \/ ChdirFails
         \/ OpenImage \/ OpenImageFails \/ ReadBitmaps \/ EnterTree \/ OpendirFails \/ WriteBitmaps
  PROVE  TroubleInv'
<1>1. /\ tree' = tree /\ alloc \subseteq alloc' /\ pc' \notin {"mkdir", "link"} /\ blocks' <= blocks
      /\ (Fault \/ NoFault) /\ (Fault \/ reported' = reported)
  <2>1. blocks \in Nat
    BY ImgAssumption DEF TypeOK
  <2>2. CASE Mkdir \/ Link
    BY <2>1, <2>2 DEF Mkdir, Link, NoFault
  <2>3. CASE Opendir \/ Recurse
    BY <2>1, <2>3, OpendirIs, RecurseIs DEF image, NoFault
  <2>4. CASE Return
    <3>1. Fault \/ NoFault
      BY <2>4 DEF Return
    <3>2. pc' \in {"next", "bitmaps"}
      BY <2>4, ReturnIs
    <3> QED BY <2>1, <2>4, <3>1, <3>2 DEF Return, image
  <2>5. CASE ReaddirFails \/ ChdirFails
    BY <2>1, <2>5 DEF ReaddirFails, ChdirFails, image
  <2>6. CASE OpenImage \/ OpenImageFails \/ EnterTree \/ OpendirFails \/ WriteBitmaps
    BY <2>1, <2>6 DEF OpenImage, OpenImageFails, EnterTree, OpendirFails, WriteBitmaps, image, NoFault
  <2>7. CASE ReadBitmaps
    BY <2>1, <2>7 DEF ReadBitmaps
  <2> QED BY <2>2, <2>3, <2>4, <2>5, <2>6, <2>7
<1>2. faults' = 0 => faults = 0 /\ reported' = reported
  BY <1>1, FaultShows DEF NoFault
<1>3. \A d \in DOMAIN listed : listed'[d] = listed[d]
  <2>1. CASE Opendir
    <3>1. \A d \in DOMAIN listed : d # parent_dir => listed'[d] = listed[d]
      BY <2>1, OpendirIs
    <3>2. parent_dir \notin DOMAIN listed
      BY <2>1 DEF Opendir, WalkInv, CwdInv
    <3> QED BY <3>1, <3>2
  <2>2. CASE ~Opendir
    BY <2>2 DEF Mkdir, Link, Recurse, Return, ReaddirFails, ChdirFails, OpenImage, OpenImageFails,
                ReadBitmaps, EnterTree, OpendirFails, WriteBitmaps, history
  <2> QED BY <2>1, <2>2
<1> QED BY <1>1, <1>2, <1>3, TroubleStep DEF WalkInv

LEMMA TroubleTakes ==
  ASSUME TypeOK, TypeOK', WalkInv, TroubleInv, NEW x, NEW y, Takes(x, y)
  PROVE  TroubleInv'
<1>1. UNCHANGED <<tree, alloc, blocks, faults, reported, listed>> /\ ~expanded'
  BY DEF Takes, Meets, image, history, NoFault
<1>2. blocks' <= blocks
  BY <1>1, ImgAssumption DEF TypeOK
<1> QED BY <1>1, <1>2, TroubleStep DEF WalkInv
-----------------------------------------------------------------------------
(* The inductive invariant *)

LEMMA ImgInit == Init => ImgInv
<1> SUFFICES ASSUME Init PROVE ImgInv
  OBVIOUS
<1> USE DEF Init
<1>1. Len(stack) = 0 /\ stack \in Seq(Frames) /\ DOMAIN listed = {} /\ DOMAIN room = {Root} /\ room[Root] = Slots
  OBVIOUS
<1>2. TypeOK
  <2>1. DOMAIN room \subseteq Inodes \cup {Root} /\ \A d \in DOMAIN room : room[d] \in Nat
    BY <1>1, ImgAssumption
  <2>2. info \in [Inodes -> {"none", "empty", "short"} \cup Kinds]
    OBVIOUS
  <2>3. faults \in 0 .. MaxFaults
    BY ImgAssumption
  <2>4. cwd \in Places
    BY DEF Places
  <2> QED BY <1>1, <2>1, <2>2, <2>3, <2>4 DEF TypeOK, Frames
<1>3. WalkInv
  BY <1>1 DEF WalkInv, LinkInv, ListInv, MadeInv, ShapeInv, StackInv, CwdInv, Working
<1>4. CurInv /\ InfoInv
  BY DEF CurInv, InfoInv, Working, Fresh, Marked
<1>5. CoverInv
  BY <1>1 DEF CoverInv
<1>6. CountInv
  <2>1. pc \notin Working /\ Orphans = {} /\ reported = {} /\ alloc = {}
    BY DEF Working, Orphans
  <2> QED BY <2>1, FS_EmptySet DEF CountInv
<1>7. FaultInv /\ TroubleInv
  BY <1>1 DEF FaultInv, TroubleInv
<1> QED BY <1>2, <1>3, <1>4, <1>5, <1>6, <1>7 DEF ImgInv

LEMMA ImgStutter ==
  ASSUME ImgInv, UNCHANGED vars
  PROVE  ImgInv'
<1>1. /\ UNCHANGED <<tree, stack, cwd, pc, cur, new, expanded, bitmap, alloc, info, links, room, blocks>>
      /\ UNCHANGED <<faults, reported, listed, cut, stray>>
  BY DEF vars, image, history
<1>2. /\ kind' = kind /\ parent_dir' = parent_dir /\ Message(cur)' = Message(cur) /\ Orphans' = Orphans
      /\ \A d : Below(d)' = Below(d) /\ Beneath(d)' = Beneath(d)
      /\ \A l : NameOf(l)' = NameOf(l)
  BY <1>1, TreeKeep DEF kind, parent_dir, Message, Orphans
<1>3. /\ \A d, n : Named(d, n)' = Named(d, n)
      /\ \A d, n : Untouched(d, n)' = Untouched(d, n)
      /\ \A d, n : Good(d, n)' = Good(d, n)
      /\ \A d, x : Ahead(d, x)' = Ahead(d, x)
  BY <1>1, <1>2 DEF Named, Untouched, Good, Ahead
<1>4. TypeOK'
  BY <1>1 DEF ImgInv, TypeOK
<1> HIDE DEF kind, parent_dir, Message, Orphans
<1>5. WalkInv'
  <2>1. LinkInv' /\ ListInv' /\ MadeInv' /\ ShapeInv'
    BY <1>1, <1>2 DEF ImgInv, WalkInv, LinkInv, ListInv, MadeInv, ShapeInv
  <2>2. StackInv' /\ CwdInv'
    BY <1>1, <1>2, <1>3 DEF ImgInv, WalkInv, StackInv, CwdInv
  <2> QED BY <2>1, <2>2 DEF WalkInv
<1>6. CurInv' /\ InfoInv'
  <2>1. ~Named(parent_dir, tree[cur].name) => ~Named(parent_dir, tree[cur].name)'
    BY <1>1, <1>2, <1>3
  <2> QED BY <1>1, <1>2, <2>1 DEF ImgInv, CurInv, InfoInv, Fresh, Marked
<1>7. CoverInv'
  BY <1>1, <1>2, <1>3 DEF ImgInv, CoverInv
<1>8. CountInv' /\ FaultInv' /\ TroubleInv'
  BY <1>1, <1>2 DEF ImgInv, CountInv, FaultInv, TroubleInv, NoTrouble
<1> QED BY <1>4, <1>5, <1>6, <1>7, <1>8 DEF ImgInv

LEMMA ImgStep == ImgInv /\ [Next]_vars => ImgInv'
<1> SUFFICES ASSUME ImgInv, [Next]_vars PROVE ImgInv'
  OBVIOUS
<1>1. TypeOK'
  BY TypeStep
<1>2. TypeOK /\ WalkInv /\ CurInv /\ InfoInv /\ CoverInv /\ CountInv /\ FaultInv /\ TroubleInv
  BY DEF ImgInv
<1>3. CASE Works
  <2>1. Keep
    BY <1>2, <1>3, WorksKeeps
  <2>2. WalkInv'
    BY <1>2, <2>1, SameWalk DEF Keep, history, Working
  <2>3. CurInv' /\ InfoInv' /\ TroubleInv'
    BY <1>1, <1>2, <1>3, CurWorks, InfoWorks, TroubleWorks
  <2>4. CoverInv' /\ CountInv'
    BY <1>2, <2>1, CoverKeep, CountKeep
  <2>5. FaultInv'
    BY <1>2, <2>1, FaultStep DEF Keep, history, Working
  <2> QED BY <1>1, <2>2, <2>3, <2>4, <2>5 DEF ImgInv
<1>4. CASE Drops
  <2>1. GivesUp
    BY <1>2, <1>4, DropsGivesUp
  <2>2. WalkInv'
    BY <1>2, <2>1, SameWalk DEF GivesUp, history, Working
  <2>3. CurInv'
    <3>1. pc' \in {"next", "died"} /\ Len(stack') > 0
      BY <1>2, <2>1 DEF GivesUp, CurInv
    <3> QED BY <3>1, CurFree DEF Working
  <2>4. InfoInv'
    BY <2>1, InfoRest DEF GivesUp
  <2>5. CoverInv' /\ CountInv' /\ TroubleInv'
    BY <1>1, <1>2, <1>4, <2>1, CoverGivesUp, CountGivesUp, TroubleDrops
  <2>6. FaultInv'
    BY <1>2, <2>1, FaultStep DEF GivesUp, history, Working
  <2> QED BY <1>1, <2>2, <2>3, <2>4, <2>5, <2>6 DEF ImgInv
<1>5. CASE Mkdir \/ Link
  <2>1. Enters
    BY <1>2, <1>5, LinksEnters
  <2>2. WalkInv' /\ CurInv' /\ CoverInv' /\ CountInv'
    BY <1>2, <2>1, EntersWalk, CurEnters, CoverEnters, CountEnters
  <2>3. InfoInv'
    BY <2>1, InfoRest DEF Enters
  <2>4. FaultInv'
    BY <1>2, <2>1, FaultStep DEF Enters, history, Working
  <2>5. TroubleInv'
    BY <1>1, <1>2, <1>5, TroubleRest
  <2> QED BY <1>1, <2>2, <2>3, <2>4, <2>5 DEF ImgInv
<1>6. CASE NextEntry
  <2>1. PICK x \in stack[1].todo : Skips(x) \/ \E y \in Found(x) : Takes(x, y)
    BY <1>2, <1>6, NextEntryMeets
  <2>2. /\ Meets(x) /\ Len(stack) > 0 /\ pc = "next"
        /\ UNCHANGED <<tree, cwd, alloc, links, room, info, bitmap, listed, cut, stray>>
    BY <1>2, <2>1 DEF Skips, Takes, Meets, CurInv, image, history
  <2>. PICK T \in SUBSET stack[1].todo : T = stack[1].todo \ {x}
    OBVIOUS
  <2>3. stack' = [stack EXCEPT ![1].todo = T] /\ \A z \in stack[1].todo \ T : z = x
    BY <2>2 DEF Meets
  <2>4. CASE Skips(x)
    <3>1. /\ pc' = "next" /\ reported' = reported \cup {Message(x)} /\ (Fault \/ NoFault)
      BY <2>2, <2>4 DEF Skips
    <3>2. WalkInv'
      BY <1>2, <2>2, <2>3, <3>1, LoopWalk
    <3>3. CurInv'
      <4>1. Len(stack') = Len(stack)
        <5>1. T \in SUBSET Entries
          BY <1>2, <2>2, StackFacts
        <5> QED BY <1>2, <2>2, <2>3, <5>1, SetTodo
      <4> QED BY <2>2, <3>1, <4>1, CurFree DEF Working
    <3>4. CoverInv'
      BY <1>2, <2>2, <2>3, <3>1, CoverLoop
    <3>5. CountInv'
      BY <1>2, <2>2, <3>1, CountReports DEF Working
    <3>6. FaultInv'
      <4>1. faults' = 0 => faults = 0
        BY <1>2, <3>1, FaultCounts
      <4> QED BY <1>2, <2>2, <3>1, <4>1, FaultStep
    <3>7. InfoInv' /\ TroubleInv'
      BY <1>1, <1>2, <2>4, <3>1, InfoRest, TroubleSkips
    <3> QED BY <1>1, <3>2, <3>3, <3>4, <3>5, <3>6, <3>7 DEF ImgInv
  <2>5. ASSUME NEW y \in Found(x), Takes(x, y)
        PROVE  ImgInv'
    <3>1. /\ pc' \in Working /\ pc' \in {"mkdir", "inode"} /\ reported' = reported /\ faults' = faults
          /\ tree[x].name = tree'[cur'].name
      BY <2>2, <2>5 DEF Takes, Found, Below, NoFault, Working
    <3>2. WalkInv'
      BY <1>2, <2>2, <2>3, <3>1, LoopWalk
    <3>3. CurInv'
      BY <1>2, <2>5, CurTakes
    <3>4. CoverInv'
      BY <1>2, <2>2, <2>3, <3>1, CoverLoop
    <3>5. CountInv'
      BY <1>2, <2>5, <3>3, CountTakes
    <3>6. FaultInv'
      BY <1>2, <2>2, <3>1, FaultStep
    <3>7. InfoInv' /\ TroubleInv'
      BY <1>1, <1>2, <2>5, <3>1, InfoRest, TroubleTakes
    <3> QED BY <1>1, <3>2, <3>3, <3>4, <3>5, <3>6, <3>7 DEF ImgInv
  <2> QED BY <2>1, <2>4, <2>5
<1>7. CASE \/ Opendir \/ Recurse \/ Return \/ ReaddirFails \/ ChdirFails
           \/ OpenImage \/ OpenImageFails \/ ReadBitmaps \/ EnterTree \/ OpendirFails \/ WriteBitmaps
  <2>1. /\ pc \notin Working /\ pc' \notin Working /\ UNCHANGED <<alloc, links>>
        /\ reported' = reported \/ reported' = reported \cup {Message(cur)}
        /\ pc' \notin {"open", "copy", "readlink", "link", "expand"}
    <3>1. CASE Return
      <4>1. pc' \in {"next", "bitmaps"}
        BY <1>2, <3>1, ReturnIs
      <4> QED BY <3>1, <4>1 DEF Return, image, Working
    <3>2. CASE Opendir \/ Recurse \/ ReaddirFails \/ ChdirFails
      BY <3>2 DEF Opendir, Recurse, ReaddirFails, ChdirFails, Report, image, Working
    <3>3. CASE OpenImage \/ OpenImageFails \/ ReadBitmaps \/ EnterTree \/ OpendirFails \/ WriteBitmaps
      BY <3>3 DEF OpenImage, OpenImageFails, ReadBitmaps, EnterTree, OpendirFails, WriteBitmaps, image, Working
    <3> QED BY <1>7, <3>1, <3>2, <3>3
  <2>2. WalkInv'
    <3>1. CASE Opendir \/ Recurse \/ Return
      BY <1>2, <3>1, OpendirWalk, RecurseWalk, ReturnWalk
    <3>2. CASE ReaddirFails
      <4>1. /\ pc = "next" /\ pc' = pc /\ UNCHANGED <<tree, cwd, alloc, links, room, listed, stray, reported>>
            /\ stack' = [stack EXCEPT ![1].todo = {}] /\ Len(stack) > 0
        BY <1>2, <3>2 DEF ReaddirFails, image, CurInv
      <4>2. {} \in SUBSET stack[1].todo
        OBVIOUS
      <4> QED BY <1>2, <4>1, <4>2, LoopWalk
    <3>3. CASE ChdirFails
      BY <1>2, <3>3, SameWalk DEF ChdirFails, Report, image, history
    <3>4. CASE OpenImage \/ OpenImageFails \/ ReadBitmaps \/ EnterTree
      BY <1>2, <3>4, MainWalk
    <3>5. CASE OpendirFails \/ WriteBitmaps
      BY <1>2, <3>5, EndWalk
    <3> QED BY <1>7, <3>1, <3>2, <3>3, <3>4, <3>5
  <2>3. CurInv' /\ InfoInv' /\ TroubleInv'
    BY <1>1, <1>2, <1>7, <2>1, CurRest, InfoRest, TroubleRest
  <2>4. CoverInv'
    <3>1. CASE Opendir \/ Recurse \/ Return
      BY <1>2, <3>1, CoverOpendir, CoverCalls
    <3>2. CASE ReaddirFails
      <4>1. /\ pc = "next" /\ UNCHANGED <<tree, links, info, listed, reported>> /\ cut' = cut \cup {parent_dir}
            /\ stack' = [stack EXCEPT ![1].todo = {}] /\ Len(stack) > 0
        BY <1>2, <3>2 DEF ReaddirFails, image, CurInv
      <4>2. {} \in SUBSET stack[1].todo
        OBVIOUS
      <4> QED BY <1>2, <4>1, <4>2, CoverLoop
    <3>3. CASE \/ ChdirFails \/ OpenImage \/ OpenImageFails \/ ReadBitmaps \/ EnterTree
               \/ OpendirFails \/ WriteBitmaps
      BY <1>2, <3>3, CoverRest
    <3> QED BY <1>7, <3>1, <3>2, <3>3
  <2>5. CountInv'
    BY <1>2, <2>1, CountReports
  <2>6. FaultInv'
    BY <1>2, <1>7, FaultWalk, FaultMain
  <2> QED BY <1>1, <2>2, <2>3, <2>4, <2>5, <2>6 DEF ImgInv
<1>8. CASE UNCHANGED vars
  BY <1>8, ImgStutter
<1>9. Next => \/ Works \/ Drops \/ Mkdir \/ Link \/ NextEntry \/ Opendir \/ Recurse \/ Return
              \/ ReaddirFails \/ ChdirFails \/ OpenImage \/ OpenImageFails \/ ReadBitmaps \/ EnterTree
              \/ OpendirFails \/ WriteBitmaps \/ UNCHANGED vars
  BY DEF Next, Works, Drops, Stopped, CopyFileFails, CopyLinkFails
<1> QED BY <1>3, <1>4, <1>5, <1>6, <1>7, <1>8, <1>9

LEMMA ImgHolds == Spec => []ImgInv
BY ImgInit, ImgStep, PTL DEF Spec
-----------------------------------------------------------------------------
(* The theorems *)

\* Types: whatever the tree and the errors are, trawl_dir never marks an inode
\* the image does not have, never counts a slot of a directory or a block below
\* zero, and only ever names entries of the source; and the working directory
\* stays in the tree although chdir("..") is not checked.
THEOREM ImgTypeOK == Spec => []TypeOK
<1>1. ImgInv => TypeOK
  BY DEF ImgInv
<1> QED BY <1>1, ImgHolds, PTL

\* ext2fs_new_inode only looks for a free inode, and trawl_dir marks it later,
\* after calls that may fail: still no two entries of the image ever lead to
\* one inode, and no entry leads to an inode that is not marked.
THEOREM NoSharedInodeHolds == Spec => []NoSharedInode
<1>1. ImgInv => NoSharedInode
  BY DEF ImgInv, WalkInv, LinkInv, NoSharedInode
<1> QED BY <1>1, ImgHolds, PTL

\* Whatever chdir does, and entries of one name in several directories: no
\* directory of the image has a name twice, each is filled from the source
\* directory it was made for, and what comes into it lies below that one.  As
\* long as no chdir("..") has failed, entry by entry the image is the source.
THEOREM SameShapeHolds == Spec => []SameShape
<1>1. ImgInv => SameShape
  BY DEF ImgInv, WalkInv, LinkInv, ShapeInv, SameShape
<1> QED BY <1>1, ImgHolds, PTL

\* At a normal end every name that readdir has given for a directory of the
\* image is in a message or in that directory, with its type and its content
\* unless read() failed, and it is a copy of the very entry that was listed
\* unless a chdir("..") has failed; every directory was filled or is in a
\* message; and there are at most as many inodes marked without an entry as
\* names in messages.  This holds of the directory that was listed, which is
\* the starting directory if chdir(argv[2]) has failed.
THEOREM NothingLostHolds == Spec => []NothingLost
<1>1. ImgInv => NothingLost
  <2> SUFFICES ASSUME ImgInv, pc = "done" PROVE NothingLost
    BY DEF NothingLost
  <2>1. TypeOK /\ LinkInv /\ MadeInv /\ ShapeInv /\ CwdInv /\ CoverInv /\ CountInv
    BY DEF ImgInv, WalkInv
  <2>2. \A d, x : ~Ahead(d, x)
    <3>1. Len(stack) = 0
      BY <2>1 DEF CwdInv
    <3> QED BY <3>1 DEF Ahead, Working
  <2>3. ASSUME NEW d \in DOMAIN listed \ cut, NEW x \in Below(listed[d]),
               Pair(d, tree[x].name) \notin reported
        PROVE  \E l \in links : /\ l.dir = d /\ NameOf(l) = tree[x].name
                                /\ info[l.ino] \in {tree[l.entry].kind, "short"}
                                /\ l.entry = x \/ stray
    <3>1. Good(d, tree[x].name)
      BY <2>1, <2>2, <2>3 DEF CoverInv
    <3>2. PICK l \in links : /\ l.dir = d /\ NameOf(l) = tree[x].name
                             /\ info[l.ino] \in {tree[l.entry].kind, "short"}
      BY <3>1 DEF Good
    <3>3. l.entry = x \/ stray
      <4>1. l.entry \in Entries /\ x \in Entries /\ tree[x].dir = listed[d]
        BY <2>1 DEF TypeOK, Below
      <4>2. ~stray => tree[l.entry].dir = listed[d]
        BY <2>1, <3>2 DEF ShapeInv
      <4> QED BY <2>1, <3>2, <4>1, <4>2, TreeFacts DEF NameOf
    <3> QED BY <3>2, <3>3
  <2>4. Root \in DOMAIN listed
    BY <2>1 DEF CwdInv
  <2>5. \A l \in links : tree[l.entry].kind = "dir" =>
          l.ino \in DOMAIN listed \/ Pair(l.dir, NameOf(l)) \in reported
    BY <2>1 DEF MadeInv
  <2>6. Cardinality(alloc \ {l.ino : l \in links}) <= Cardinality(reported)
    BY <2>1 DEF CountInv, Orphans, Working
  <2> QED BY <2>3, <2>4, <2>5, <2>6 DEF NothingLost, Pair
<1> QED BY <1>1, ImgHolds, PTL

\* "If dir is full, call ext2fs_expand_dir" and try again: with no I/O error
\* and an inode and a block to spare, every file, directory, link and device of
\* the source is in the image in the end, however many entries a directory has
\* and however few fit in a block.
THEOREM CompleteCopyHolds == Spec => []CompleteCopy
<1>1. ImgInv => CompleteCopy
  <2> SUFFICES ASSUME ImgInv, pc = "done", faults = 0, blocks > 0, Inodes \ alloc # {},
                      NEW z \in Beneath(Root), tree[z].kind # "unknown"
               PROVE  \E l \in links : l.entry = z
    BY DEF CompleteCopy
  <2>1. /\ TypeOK /\ NoTrouble /\ TroubleInv /\ FaultInv /\ LinkInv /\ MadeInv /\ ShapeInv /\ CwdInv
        /\ CoverInv
    BY DEF ImgInv, WalkInv, NoTrouble
  <2>2. ~stray /\ cut = {} /\ Root \in DOMAIN listed /\ listed[Root] = Root
    BY <2>1 DEF FaultInv, CwdInv
  <2>3. \A d, x : ~Ahead(d, x)
    <3>1. Len(stack) = 0
      BY <2>1 DEF CwdInv
    <3> QED BY <3>1 DEF Ahead, Working
  <2> DEFINE Copied ==
        {x \in Entries : \/ tree[x].kind = "unknown"
                         \/ \E l \in links : l.entry = x /\ (tree[x].kind = "dir" => l.ino \in DOMAIN listed)}
  <2>4. ASSUME NEW d \in DOMAIN listed, NEW x \in Below(listed[d])
        PROVE  x \in Copied
    <3>1. x \in Entries /\ tree[x].dir = listed[d]
      BY DEF Below
    <3>2. ASSUME Pair(d, tree[x].name) \in reported PROVE tree[x].kind = "unknown"
      <4>. PICK r \in reported : r = Pair(d, tree[x].name)
        BY <3>2
      <4>1. r.dir = d /\ r.name = tree[x].name
        BY DEF Pair
      <4>2. PICK y \in Below(listed[d]) : tree[y].name = tree[x].name /\ tree[y].kind = "unknown"
        BY <2>1, <4>1 DEF TroubleInv
      <4>3. y \in Entries /\ tree[y].dir = listed[d]
        BY DEF Below
      <4>4. x = y
        BY <2>1, <3>1, <4>2, <4>3, TreeFacts
      <4> QED BY <4>2, <4>4
    <3>3. SUFFICES ASSUME tree[x].kind # "unknown" PROVE x \in Copied
      BY <3>1
    <3>4. Good(d, tree[x].name)
      BY <2>1, <2>2, <2>3, <3>2, <3>3 DEF CoverInv
    <3>5. PICK l \in links : l.dir = d /\ NameOf(l) = tree[x].name
      BY <3>4 DEF Good
    <3>6. l.entry = x
      <4>1. l.entry \in Entries /\ tree[l.entry].dir = listed[d]
        BY <2>1, <2>2, <3>5 DEF TypeOK, ShapeInv
      <4> QED BY <2>1, <3>1, <3>5, <4>1, TreeFacts DEF NameOf
    <3>7. tree[x].kind = "dir" => l.ino \in DOMAIN listed
      BY <2>1, <3>2, <3>3, <3>5, <3>6 DEF MadeInv
    <3> QED BY <3>1, <3>6, <3>7
  <2>5. ASSUME NEW y \in Copied, NEW x \in Below(y)
        PROVE  x \in Copied
    <3>1. y \in Entries /\ x \in Entries /\ tree[x].dir = y /\ tree[y].kind = "dir"
      BY <2>1, TreeFacts DEF Below
    <3>2. PICK l \in links : l.entry = y /\ l.ino \in DOMAIN listed
      BY <3>1
    <3>3. listed[l.ino] = y
      BY <2>1, <3>2 DEF LinkInv
    <3> QED BY <2>4, <3>2, <3>3
  <2>6. Below(Root) \subseteq Copied /\ Copied \in SUBSET Entries
    BY <2>2, <2>4
  <2>7. z \in Copied
    <3> HIDE DEF Copied
    <3> QED BY <2>5, <2>6 DEF Beneath
  <2> QED BY <2>7
<1> QED BY <1>1, ImgHolds, PTL
=============================================================================
