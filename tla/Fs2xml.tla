------------------------------- MODULE Fs2xml -------------------------------
(***************************************************************************)
(* fs2xml (tools/fs2xml.c) merges the headers of several tar archives into *)
(* one table of inodes, then writes every regular file below the folder fs *)
(* (WalkDir) and lists the table as XML and JSON for the 9p file system of *)
(* the emulator.  Where a name starts with '.', '_' or '__' the file below *)
(* fs loses the mark, and large files are replaced by their .bz2.          *)
(*                                                                         *)
(* A name is [mark, base, bz]: its mark as a flag, and its suffixes .bz2   *)
(* as a number.  A header carries its place in the input as its content.   *)
(***************************************************************************)
EXTENDS Integers, Sequences, FiniteSets

CONSTANTS Names,        \* names a path is made of
          FileHeaders,  \* headers Untar may find: [path, type, link, big]
          MaxHeaders    \* bound on the headers of all archives

Types == {"0", "1", "2", "5", "other"}

ASSUME FsAssumption ==
  /\ Names \subseteq [mark : BOOLEAN, base : Nat, bz : Nat]
  /\ FileHeaders \subseteq [path : Seq(Names) \ {<<>>}, type : Types, link : BOOLEAN, big : BOOLEAN]
  /\ MaxHeaders \in Nat

VARIABLES input,        \* the headers MergeFile was called with, of all archives
          done,         \* headers merged so far
          phase,        \* "merge", "walk", "done" or "exit" (exit(1))
          inodes,       \* [name, parentid, kind, content, big, compressed, src]
          stack,        \* calls of WalkDir: <<parentid, i>>, the innermost first
          disk          \* the tree below fs: path -> Dir or the content of a file

vars == <<input, done, phase, inodes, stack, disk>>

ninodes == Len(inodes)
Root == 0               \* parentid -1
Dir == 0
----------------------------------------------------------------------------
(* MergeFile *)

\* Untar calls MergeFile with the header it has found.
CallMergeFile ==
  /\ phase = "merge" /\ done = Len(input)
  /\ Len(input) < MaxHeaders
  /\ \E h \in FileHeaders : input' = Append(input, h)
  /\ UNCHANGED <<done, phase, inodes, stack, disk>>

\* SearchInode: the first inode with this name and parent, -1 if none.
SearchInode(name, parentid) ==
  LET hits == {id \in 1 .. ninodes : inodes[id].parentid = parentid /\ inodes[id].name = name}
  IN  IF hits = {} THEN -1 ELSE CHOOSE id \in hits : \A k \in hits : id <= k

\* The inode reached by the first n names of a path, -1 if one is missing.
Walk(path, n) ==
  LET w[k \in 0 .. n] ==
        IF k = 0 THEN Root
        ELSE IF w[k - 1] = -1 THEN -1 ELSE SearchInode(path[k], w[k - 1])
  IN  w[n]

Kind(type) == CASE type = "5" -> "dir" [] type = "0" -> "file" [] OTHER -> "link"

ph == input[done + 1]
Parent == Walk(ph.path, Len(ph.path) - 1)

Merging == phase = "merge" /\ done < Len(input)

\* The parent is missing, a link has no target, or the type is unknown: exit(1).
\* An existing name is noticed before the last two.
Exists == SearchInode(ph.path[Len(ph.path)], Parent) # -1
Fails ==
  \/ Parent = -1
  \/ ~Exists /\ (ph.type = "other" \/ (ph.type \in {"1", "2"} /\ ~ph.link))

MergeExit ==
  /\ Merging
  /\ Fails
  /\ phase' = "exit"
  /\ UNCHANGED <<input, done, inodes, stack, disk>>

\* Mutant: the later archive wins.
MergeOverwrites ==
  /\ Merging
  /\ ~Fails /\ Exists
  /\ inodes' = [inodes EXCEPT ![Walk(ph.path, Len(ph.path))].content = done + 1]
  /\ done' = done + 1
  /\ UNCHANGED <<input, phase, stack, disk>>

\* The name is there already: nothing is overwritten.
MergeExists ==
  /\ Merging
  /\ ~Fails /\ Exists
  /\ done' = done + 1
  /\ UNCHANGED <<input, phase, inodes, stack, disk>>

\* Mutant: an inode at the top is its own parent.
MergeTop ==
  /\ Merging
  /\ ~Fails /\ ~Exists
  /\ inodes' = Append(inodes,
       [name |-> ph.path[Len(ph.path)],
        parentid |-> IF Len(ph.path) = 1 THEN ninodes + 1 ELSE Parent, kind |-> Kind(ph.type),
        content |-> done + 1, big |-> ph.big, compressed |-> FALSE, src |-> FALSE])
  /\ done' = done + 1
  /\ UNCHANGED <<input, phase, stack, disk>>

MergeNew ==
  /\ Merging
  /\ ~Fails /\ ~Exists
  /\ inodes' = Append(inodes,
       [name |-> ph.path[Len(ph.path)], parentid |-> Parent, kind |-> Kind(ph.type),
        content |-> done + 1, big |-> ph.big, compressed |-> FALSE, src |-> FALSE])
  /\ done' = done + 1
  /\ UNCHANGED <<input, phase, stack, disk>>
----------------------------------------------------------------------------
(* CreateFilesystem *)

\* The names from the root to inode id.
FullPath(id) ==
  LET f[n \in 0 .. ninodes] ==
        [k \in 0 .. ninodes |->
           IF n = 0 \/ k = Root THEN <<>> ELSE Append(f[n - 1][inodes[k].parentid], inodes[k].name)]
  IN  f[ninodes][id]

\* GetFullPathNotHidden: the same path without the marks, and `hidden'.
NotHidden(id) ==
  [k \in 1 .. Len(FullPath(id)) |-> [FullPath(id)[k] EXCEPT !.mark = FALSE]]

\* Mutant: only the mark of the file itself counts.
HiddenSelf(id) == FullPath(id)[Len(FullPath(id))].mark
Hidden(id) == \E k \in 1 .. Len(FullPath(id)) : FullPath(id)[k].mark

Above(path) == SubSeq(path, 1, Len(path) - 1)

\* There is a directory to create the path in.
InDir(path) == Len(path) = 1 \/ (Above(path) \in DOMAIN disk /\ disk[Above(path)] = Dir)

\* mkdir does nothing when the name is taken, and nothing without its parent.
Mkdir(path) ==
  IF path \notin DOMAIN disk /\ InDir(path)
  THEN [q \in DOMAIN disk \cup {path} |-> IF q = path THEN Dir ELSE disk[q]]
  ELSE disk

\* fopen(path, "wb") needs a directory to write in and no directory in the way.
CanWrite(path) == InDir(path) /\ (path \in DOMAIN disk => disk[path] # Dir)

Bz2(path) == [path EXCEPT ![Len(path)].bz = @ + 1]

\* `bzip2 -f' removes what is in its way, which fails for a directory in use.
Blocked(path) == \E q \in DOMAIN disk : Len(q) > 1 /\ Above(q) = Bz2(path)

\* The file, or after bzip2 the file with .bz2 in its place.
Write(path, content, compressed) ==
  LET new == IF compressed /\ ~Blocked(path) THEN Bz2(path) ELSE path
  IN  [q \in (DOMAIN disk \ {path}) \cup {new} |-> IF q = new THEN content ELSE disk[q]]

\* ShouldBeCompressed: large or an ELF binary, and no suffix of a packed file.
ShouldBeCompressed(n) == n.big /\ n.name.bz = 0

StartWalk ==
  /\ phase = "merge" /\ done = Len(input)
  /\ phase' = "walk"
  /\ stack' = <<<<Root, 1>>>>
  /\ UNCHANGED <<input, done, inodes, disk>>

dirid == stack[1][1]
i == stack[1][2]

\* i++
Advance == <<<<dirid, i + 1>>>> \o Tail(stack)
Walking == phase = "walk" /\ stack # <<>>
Child == Walking /\ i <= ninodes /\ inodes[i].parentid = dirid

\* An inode of another directory, or a link: nothing is written.
WalkSkip ==
  /\ Walking /\ i <= ninodes
  /\ inodes[i].parentid # dirid \/ inodes[i].kind = "link"
  /\ stack' = Advance
  /\ UNCHANGED <<input, done, phase, inodes, disk>>

\* WalkDir(i): mkdir and the loop over its children.
WalkInto ==
  /\ Child /\ inodes[i].kind = "dir"
  /\ stack' = <<<<i, 1>>>> \o Advance
  /\ disk' = Mkdir(NotHidden(i))
  /\ UNCHANGED <<input, done, phase, inodes>>

\* The loop has ended: return to the caller, or the walk is over.
WalkReturn ==
  /\ Walking /\ i > ninodes
  /\ stack' = Tail(stack)
  /\ phase' = IF Len(stack) = 1 THEN "done" ELSE phase
  /\ UNCHANGED <<input, done, inodes, disk>>

WalkFile ==
  /\ Child /\ inodes[i].kind = "file"
  /\ CanWrite(NotHidden(i))
  /\ disk' = Write(NotHidden(i), inodes[i].content, ShouldBeCompressed(inodes[i]))
  /\ inodes' = [inodes EXCEPT ![i].src = Hidden(i),
                              ![i].compressed = ShouldBeCompressed(inodes[i])]
  /\ stack' = Advance
  /\ UNCHANGED <<input, done, phase>>

WalkExit ==
  /\ Child /\ inodes[i].kind = "file"
  /\ ~CanWrite(NotHidden(i))
  /\ phase' = "exit"
  /\ UNCHANGED <<input, done, inodes, stack, disk>>

\* CreateXML and CreateJSON only read the table.
Stopped ==
  /\ phase \in {"done", "exit"}
  /\ UNCHANGED vars
----------------------------------------------------------------------------
Init ==
  /\ input = <<>>
  /\ done = 0
  /\ phase = "merge"
  /\ inodes = <<>>
  /\ stack = <<>>
  /\ disk = <<>>

\* MergeFile, once called
MergeFile == MergeExit \/ MergeExists \/ MergeNew
\* CreateFilesystem, once started
WalkDir == WalkSkip \/ WalkInto \/ WalkReturn \/ WalkFile \/ WalkExit

Next == CallMergeFile \/ MergeFile \/ StartWalk \/ WalkDir \/ Stopped

Spec == Init /\ [][Next]_vars
----------------------------------------------------------------------------
(* Properties *)

\* A parent is in the table before its children, so GetFullPath and WalkDir,
\* which follow parentid, always come to an end.
ParentsFirst == \A k \in 1 .. ninodes : inodes[k].parentid < k

\* The table is the union of the archives, the first one winning: every path
\* merged so far has one inode, which holds the content of the first header
\* with that path.
FirstArchiveWins ==
  /\ \A k \in 1 .. ninodes :
       LET c == inodes[k].content
       IN  /\ FullPath(k) = input[c].path
           /\ \A h \in 1 .. c - 1 : input[h].path # input[c].path
  /\ phase # "exit" =>
       Cardinality({input[h].path : h \in 1 .. done}) = ninodes

\* The path under which the emulator looks for the content of inode k.
ListedPath(k) ==
  LET q == IF inodes[k].src THEN NotHidden(k) ELSE FullPath(k)
  IN  IF inodes[k].compressed THEN Bz2(q) ELSE q

\* The inode is part of the listing: all its ancestors are directories.
Listed(k) ==
  \A n \in 1 .. Len(FullPath(k)) - 1 : inodes[Walk(FullPath(k), n)].kind = "dir"

\* The names inode k uses on the disk while it is written.
Uses(k) == {NotHidden(k)} \cup (IF ShouldBeCompressed(inodes[k]) THEN {Bz2(NotHidden(k))} ELSE {})

\* Every regular file of the listing can be loaded: the path it is listed
\* with, its src and compressed marks applied, exists below fs and holds the
\* file, unless another inode uses the same name on the disk.
FilesLoadable ==
  phase = "done" =>
    \A k \in 1 .. ninodes :
      inodes[k].kind = "file" /\ Listed(k)
        /\ (\A l \in 1 .. ninodes : l # k => Uses(l) \cap Uses(k) = {})
      => ListedPath(k) \in DOMAIN disk /\ disk[ListedPath(k)] = inodes[k].content
============================================================================
