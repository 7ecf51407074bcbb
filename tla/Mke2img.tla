------------------------------ MODULE Mke2img ------------------------------
(***************************************************************************)
(* mke2img (tools/mke2img.c) copies a directory tree into an ext2 image:   *)
(* trawl_dir reads the current directory, takes an inode for every entry,  *)
(* links it into parent_dir and calls itself for a directory.  Errors are  *)
(* printed and the entry is given up, or kept half done.                   *)
(*                                                                         *)
(* Every name is looked up in the working directory.  Nobody looks at the  *)
(* results of chdir(argv[2]) and of chdir(".."): after a failure the names *)
(* of one directory are looked up in another, which may have some of them  *)
(* too.                                                                    *)
(*                                                                         *)
(* libext2fs is external: an image has inodes, data blocks, and room for   *)
(* Slots entries in each block of a directory.  An I/O error may hit any   *)
(* call, MaxFaults times.  A second ext2fs_file_close, or one of a handle  *)
(* that was never opened, is undefined: the program dies or goes on.       *)
(***************************************************************************)
EXTENDS Integers, Sequences, FiniteSets

CONSTANTS Entries,      \* entries of the source directories, positive numbers
          Names,        \* their names
          Trees,        \* source directories: [Entries -> [dir, name, kind]]
          Inodes,       \* inode numbers of the image, without the root's
          Slots,        \* entries in one block of a directory
          MaxBlocks,    \* bound on the free blocks of the image
          MaxFaults     \* bound on the I/O errors

Root == 0               \* the directory argv[2], and EXT2_ROOT_INO
Start == -1             \* the directory the program is started in
Kinds == {"dir", "reg", "device", "symlink", "unknown"}

\* Entries are numbered from the top down, only a directory has entries, and
\* their names are different within it.
IsTree(t) ==
  /\ t \in [Entries -> [dir : Entries \cup {Root, Start}, name : Names, kind : Kinds]]
  /\ \A x \in Entries : t[x].dir < x /\ (t[x].dir \in Entries => t[t[x].dir].kind = "dir")
  /\ \A x, y \in Entries : t[x].dir = t[y].dir /\ t[x].name = t[y].name => x = y

ASSUME ImgAssumption ==
  /\ Entries \subseteq Nat \ {0} /\ Inodes \subseteq Nat \ {0}
  /\ \A t \in Trees : IsTree(t)
  /\ Slots \in Nat \ {0} /\ MaxBlocks \in Nat /\ MaxFaults \in Nat

VARIABLES tree,
          stack,        \* calls of trawl_dir: [ino, todo], the innermost first
          cwd,          \* the source directory chdir has led to
          pc, cur, new, \* the source entry at hand and its inode
          expanded,     \* parent_dir was expanded for it
          bitmap,       \* there is a map of the inodes in memory
          alloc,        \* inodes marked in it
          info,         \* what write_new_inode and the copy have left in an inode
          links,        \* directory entries of the image: [dir, entry, ino]
          room,         \* free slots of each directory
          blocks,       \* free blocks
          faults,       \* I/O errors so far
          reported,     \* what was printed: [dir, name], dir in the image
          listed,       \* history: the source directory read for each one of the image
          cut,          \* history: those whose reading readdir has broken off
          stray         \* history: a chdir("..") has failed

image == <<bitmap, alloc, info, links, room, blocks>>
history == <<listed, cut, stray>>
vars == <<tree, stack, cwd, pc, cur, new, expanded, image, faults, reported, history>>

Places == Entries \cup {Root, Start}
Below(d) == {x \in Entries : tree[x].dir = d}
parent_dir == stack[1].ino
kind == tree[cur].kind

Fault == faults < MaxFaults /\ faults' = faults + 1
NoFault == UNCHANGED faults
Message(x) == [dir |-> parent_dir, name |-> tree[x].name]
Report == reported' = reported \cup {Message(cur)}
\* The entry has the name of the source entry it is a copy of.
Entry == [dir |-> parent_dir, entry |-> cur, ino |-> new]

TypeOK ==
  /\ tree \in Trees
  /\ stack \in Seq([ino : Inodes \cup {Root}, todo : SUBSET Entries])
  /\ cwd \in Places
  /\ pc \in {"main", "read", "start", "next", "mkdir", "chdir", "opendir", "inode", "open", "copy",
             "readlink", "expand", "link", "bitmaps", "done", "exit", "died"}
  /\ cur \in Entries \cup {Root} /\ new \in Inodes \cup {Root}
  /\ expanded \in BOOLEAN /\ bitmap \in BOOLEAN
  /\ alloc \subseteq Inodes
  /\ info \in [Inodes -> {"none", "empty", "short"} \cup Kinds]
  /\ links \subseteq [dir : Inodes \cup {Root}, entry : Entries, ino : Inodes]
  /\ DOMAIN room \subseteq Inodes \cup {Root} /\ \A d \in DOMAIN room : room[d] \in Nat
  /\ blocks \in 0 .. MaxBlocks /\ faults \in 0 .. MaxFaults
  /\ reported \subseteq [dir : Inodes \cup {Root}, name : Names]
  /\ DOMAIN listed \subseteq Inodes \cup {Root} /\ \A d \in DOMAIN listed : listed[d] \in Places
  /\ cut \subseteq Inodes \cup {Root} /\ stray \in BOOLEAN

\* The image is empty.
Init ==
  /\ tree \in Trees
  /\ stack = <<>>
  /\ cwd = Start
  /\ pc = "main" /\ cur = Root /\ new = Root /\ expanded = FALSE
  /\ bitmap = FALSE /\ alloc = {} /\ info = [n \in Inodes |-> "none"] /\ links = {}
  /\ room = [d \in {Root} |-> Slots]
  /\ blocks \in 0 .. MaxBlocks
  /\ faults = 0 /\ reported = {}
  /\ listed = [d \in {} |-> Root] /\ cut = {} /\ stray = FALSE
----------------------------------------------------------------------------
(* main, up to the call of trawl_dir *)

OpenImage ==
  /\ pc = "main"
  /\ pc' = "read"
  /\ UNCHANGED <<tree, stack, cwd, cur, new, expanded, image, faults, reported, history>>

\* Too few arguments, or ext2fs_open fails.
OpenImageFails ==
  /\ pc = "main"
  /\ pc' = "exit"
  /\ UNCHANGED <<tree, stack, cwd, cur, new, expanded, image, faults, reported, history>>

\* A failure of ext2fs_read_bitmaps is only printed: without the map of the
\* blocks none can be taken, and that of the inodes may be missing too.
ReadBitmaps ==
  /\ pc = "read"
  /\ \/ bitmap' = TRUE /\ UNCHANGED blocks /\ NoFault
     \/ bitmap' \in BOOLEAN /\ blocks' = 0 /\ Fault
  /\ pc' = "start"
  /\ UNCHANGED <<tree, stack, cwd, cur, new, expanded, alloc, info, links, room, reported, history>>

\* chdir(argv[2]), whatever its result, and the call of trawl_dir
EnterTree ==
  /\ pc = "start"
  /\ \/ cwd' = Root /\ NoFault
     \/ UNCHANGED cwd /\ Fault
  /\ stack' = <<[ino |-> Root, todo |-> {}]>>
  /\ pc' = "opendir"
  /\ UNCHANGED <<tree, cur, new, expanded, image, reported, history>>
----------------------------------------------------------------------------
(* trawl_dir *)

Opendir ==
  /\ pc = "opendir"
  /\ stack' = [stack EXCEPT ![1].todo = Below(cwd)]
  /\ listed' = [d \in DOMAIN listed \cup {parent_dir} |-> IF d = parent_dir THEN cwd ELSE listed[d]]
  /\ pc' = "next"
  /\ UNCHANGED <<tree, cwd, cur, new, expanded, image, faults, reported, cut, stray>>

\* exit(1) from any depth: the bitmaps are never written.
OpendirFails ==
  /\ pc = "opendir" /\ Fault
  /\ pc' = "exit"
  /\ UNCHANGED <<tree, stack, cwd, cur, new, expanded, image, reported, history>>

\* lstat(dd->d_name): an entry of the working directory with the name of x
Found(x) == {y \in Below(cwd) : tree[y].name = tree[x].name}

\* readdir, lstat and ext2fs_new_inode, which only looks for a free inode.
NextEntry ==
  /\ pc = "next"
  /\ \E x \in stack[1].todo :
       /\ stack' = [stack EXCEPT ![1].todo = @ \ {x}]
       /\ \/ \E y \in Found(x) :
               /\ bitmap /\ Inodes \ alloc # {} /\ tree[y].kind # "unknown" /\ NoFault
               /\ cur' = y
               /\ new' = CHOOSE n \in Inodes \ alloc : \A m \in Inodes \ alloc : n <= m
               /\ pc' = IF tree[y].kind = "dir" THEN "mkdir" ELSE "inode"
               /\ UNCHANGED reported
          \/ /\ \/ /\ ~bitmap \/ Inodes \subseteq alloc \/ \A y \in Found(x) : tree[y].kind = "unknown"
                   /\ NoFault
                \/ Fault
             /\ reported' = reported \cup {Message(x)}
             /\ UNCHANGED <<pc, cur, new>>
  /\ expanded' = FALSE
  /\ UNCHANGED <<tree, cwd, image, history>>

\* An error of readdir ends the loop like the end of the directory.
ReaddirFails ==
  /\ pc = "next" /\ stack[1].todo # {} /\ Fault
  /\ stack' = [stack EXCEPT ![1].todo = {}]
  /\ cut' = cut \cup {parent_dir}
  /\ UNCHANGED <<tree, cwd, pc, cur, new, expanded, image, reported, listed, stray>>

\* Mutant: a full directory is not expanded.
GiveUp == pc' = "next" /\ Report /\ UNCHANGED expanded
\* ext2fs_mkdir or ext2fs_link has failed: the first time parent_dir is
\* expanded for a second try, whatever the reason was.
AfterFailure ==
  IF expanded THEN pc' = "next" /\ Report /\ UNCHANGED expanded
              ELSE pc' = "expand" /\ expanded' = TRUE /\ UNCHANGED reported

\* ext2fs_expand_dir adds a block to parent_dir.
Expand ==
  /\ pc = "expand" /\ blocks > 0
  /\ blocks' = blocks - 1
  /\ room' = [room EXCEPT ![parent_dir] = @ + Slots]
  /\ pc' = IF kind = "dir" THEN "mkdir" ELSE "link"
  /\ UNCHANGED <<tree, stack, cwd, cur, new, expanded, bitmap, alloc, info, links, faults, reported, history>>

ExpandFails ==
  /\ pc = "expand"
  /\ (blocks = 0 /\ NoFault) \/ Fault
  /\ Report
  /\ pc' = "next"
  /\ UNCHANGED <<tree, stack, cwd, cur, new, expanded, image, history>>

\* ext2fs_mkdir takes a block for the directory and marks the inode, or does
\* nothing.
Mkdir ==
  /\ pc = "mkdir"
  /\ blocks > 0 /\ room[parent_dir] > 0
  /\ blocks' = blocks - 1
  /\ room' = [x \in DOMAIN room \cup {new} |->
                IF x = new THEN Slots ELSE IF x = parent_dir THEN room[x] - 1 ELSE room[x]]
  /\ links' = links \cup {Entry}
  /\ alloc' = alloc \cup {new}
  /\ info' = [info EXCEPT ![new] = "dir"]
  /\ pc' = "chdir"
  /\ UNCHANGED <<tree, stack, cwd, cur, new, expanded, bitmap, faults, reported, history>>

MkdirFails ==
  /\ pc = "mkdir"
  /\ ((blocks = 0 \/ room[parent_dir] = 0) /\ NoFault) \/ Fault
  /\ AfterFailure
  /\ UNCHANGED <<tree, stack, cwd, cur, new, image, history>>

\* chdir(dd->d_name) and the recursive call.
Recurse ==
  /\ pc = "chdir"
  /\ cwd' = cur
  /\ stack' = <<[ino |-> new, todo |-> {}]>> \o stack
  /\ pc' = "opendir"
  /\ UNCHANGED <<tree, cur, new, expanded, image, faults, reported, history>>

\* Mutant: the recursive call comes although chdir has failed.
RecurseAnyway ==
  /\ pc = "chdir" /\ Fault
  /\ Report
  /\ stack' = <<[ino |-> new, todo |-> {}]>> \o stack
  /\ pc' = "opendir"
  /\ UNCHANGED <<tree, cwd, cur, new, expanded, image, history>>
ChdirFails ==
  /\ pc = "chdir" /\ Fault
  /\ Report
  /\ pc' = "next"
  /\ UNCHANGED <<tree, stack, cwd, cur, new, expanded, image, history>>

\* The loop has ended; back to the caller, which does chdir("..") and does not
\* look whether it worked.
Return ==
  /\ pc = "next" /\ stack[1].todo = {}
  /\ stack' = Tail(stack)
  /\ IF Len(stack) = 1
     THEN pc' = "bitmaps" /\ NoFault /\ UNCHANGED <<cwd, stray>>
     ELSE /\ UNCHANGED pc
          /\ \/ cwd' = tree[cwd].dir /\ NoFault /\ UNCHANGED stray
             \/ UNCHANGED cwd /\ Fault /\ stray' = TRUE
  /\ UNCHANGED <<tree, cur, new, expanded, image, reported, listed, cut>>

\* Mutant: the inode is written and not marked.
WriteInodeUnmarked(content, then) ==
  /\ pc = "inode"
  /\ info' = [info EXCEPT ![new] = content] /\ NoFault /\ UNCHANGED reported
  /\ pc' = then
  /\ UNCHANGED <<tree, stack, cwd, cur, new, expanded, bitmap, alloc, links, room, blocks, history>>
\* ext2fs_write_new_inode, whose failure is only reported, and
\* ext2fs_inode_alloc_stats2.
WriteInode(content, then) ==
  /\ pc = "inode"
  /\ \/ info' = [info EXCEPT ![new] = content] /\ NoFault /\ UNCHANGED reported
     \/ Fault /\ Report /\ UNCHANGED info
  /\ alloc' = alloc \cup {new}
  /\ pc' = then
  /\ UNCHANGED <<tree, stack, cwd, cur, new, expanded, bitmap, links, room, blocks, history>>

WriteFileInode == pc = "inode" /\ kind = "reg" /\ WriteInode("empty", "open")

\* The inode of a device is complete, that of a link has no target yet.
WriteSpecialInode ==
  /\ pc = "inode"
  /\ \/ kind = "device" /\ WriteInode("device", "link")
     \/ kind = "symlink" /\ WriteInode("empty", "readlink")

OpenFile ==
  /\ pc = "open"
  /\ pc' = "copy"
  /\ UNCHANGED <<tree, stack, cwd, cur, new, expanded, image, faults, reported, history>>

\* open or ext2fs_file_open fails: the inode stays marked, without an entry.
OpenFails ==
  /\ pc = "open" /\ Fault
  /\ Report
  /\ pc' = "next"
  /\ UNCHANGED <<tree, stack, cwd, cur, new, expanded, image, history>>

Filled == info' = [info EXCEPT ![new] = IF @ = "empty" THEN kind ELSE @]

\* The content goes into one block, an empty file has none.
CopyFile ==
  /\ pc = "copy"
  /\ (blocks > 0 /\ blocks' = blocks - 1) \/ UNCHANGED blocks
  /\ Filled
  /\ pc' = "link"
  /\ UNCHANGED <<tree, stack, cwd, cur, new, expanded, bitmap, alloc, links, room, faults, reported, history>>

\* The target of a link is written like the content of a file.
CopyLink ==
  /\ pc = "readlink"
  /\ blocks > 0 /\ blocks' = blocks - 1
  /\ Filled
  /\ pc' = "link"
  /\ UNCHANGED <<tree, stack, cwd, cur, new, expanded, bitmap, alloc, links, room, faults, reported, history>>

\* An error of read() ends the loop like the end of the file.
ReadFails ==
  /\ pc = "copy" /\ Fault
  /\ info' = [info EXCEPT ![new] = "short"]
  /\ pc' = "link"
  /\ UNCHANGED <<tree, stack, cwd, cur, new, expanded, bitmap, alloc, links, room, blocks, reported, history>>

\* Writing fails for an error or for want of a block.  The loop over a file
\* closes f, and goes on to use it.
CopyFileFails ==
  /\ pc = "copy"
  /\ (blocks = 0 /\ NoFault) \/ Fault
  /\ pc' \in {"link", "died"}
  /\ Report
  /\ UNCHANGED <<tree, stack, cwd, cur, new, expanded, image, history>>

\* f is closed even if it was not opened.
CopyLinkFails ==
  /\ pc = "readlink"
  /\ \/ blocks = 0 /\ NoFault /\ pc' = "link"
     \/ Fault /\ pc' \in {"link", "died"}
  /\ Report
  /\ UNCHANGED <<tree, stack, cwd, cur, new, expanded, image, history>>

\* ext2fs_link
Link ==
  /\ pc = "link"
  /\ room[parent_dir] > 0
  /\ room' = [room EXCEPT ![parent_dir] = @ - 1]
  /\ links' = links \cup {Entry}
  /\ pc' = "next"
  /\ UNCHANGED <<tree, stack, cwd, cur, new, expanded, bitmap, alloc, info, blocks, faults, reported, history>>

\* Mutant: the failure is taken for success.
LinkFailsSilently ==
  /\ pc = "link"
  /\ (room[parent_dir] = 0 /\ NoFault) \/ Fault
  /\ pc' = "next"
  /\ UNCHANGED <<tree, stack, cwd, cur, new, expanded, image, reported, history>>
LinkFails ==
  /\ pc = "link"
  /\ (room[parent_dir] = 0 /\ NoFault) \/ Fault
  /\ AfterFailure
  /\ UNCHANGED <<tree, stack, cwd, cur, new, image, history>>

\* main: ext2fs_write_bitmaps, whose failure is only printed, and ext2fs_close.
WriteBitmaps ==
  /\ pc = "bitmaps"
  /\ \/ pc' = "done" /\ NoFault
     \/ pc' \in {"done", "exit"} /\ Fault
  /\ UNCHANGED <<tree, stack, cwd, cur, new, expanded, image, reported, history>>

Stopped ==
  /\ pc \in {"done", "exit", "died"}
  /\ UNCHANGED vars

Next ==
  \/ OpenImage \/ OpenImageFails \/ ReadBitmaps \/ EnterTree
  \/ Opendir \/ OpendirFails \/ NextEntry \/ ReaddirFails \/ Expand \/ ExpandFails
  \/ Mkdir \/ MkdirFails \/ Recurse \/ ChdirFails
  \/ Return \/ WriteFileInode \/ WriteSpecialInode \/ OpenFile \/ OpenFails
  \/ CopyFile \/ CopyLink \/ ReadFails \/ CopyFileFails \/ CopyLinkFails \/ Link \/ LinkFails
  \/ WriteBitmaps \/ Stopped

Spec == Init /\ [][Next]_vars
----------------------------------------------------------------------------
(* Properties *)

\* ext2fs_new_inode hands out an inode without marking it: still no inode has
\* two entries, and every entry leads to a marked inode.
NoSharedInode ==
  /\ \A l, m \in links : l.ino = m.ino => l = m
  /\ \A l \in links : l.ino \in alloc

NameOf(l) == tree[l.entry].name

\* What lies below d, at any depth
Beneath(d) ==
  {x \in Entries : \A S \in SUBSET Entries :
                     Below(d) \subseteq S /\ (\A y \in S : Below(y) \subseteq S) => x \in S}

\* The image keeps the order of the source, however deep the walk has gone and
\* whatever failed on the way: no directory has a name twice, a directory is
\* filled from the source directory it was made for, and what is in it comes
\* from below that one, if perhaps from too deep.  Unless a chdir("..") has
\* failed the image is the tree the walk began with: every entry is linked once,
\* in the directory made for its own.
SameShape ==
  /\ \A l, m \in links : l.dir = m.dir /\ NameOf(l) = NameOf(m) => l = m
  /\ \A l \in links : /\ l.dir \in DOMAIN listed /\ l.entry \in Beneath(listed[l.dir])
                      /\ l.ino \in DOMAIN listed => listed[l.ino] = l.entry
  /\ ~stray => \A l \in links : /\ tree[l.entry].dir = listed[l.dir]
                                /\ \A m \in links : l.entry = m.entry => l = m

\* When the program ends normally every name that readdir has given for a
\* directory of the image is there or in a message: with the type of the entry
\* that was copied, with its content unless reading it failed, and unless a
\* chdir("..") has failed it is the entry that was listed.  A directory of the
\* image was filled or is in a message, and so is the entry of an inode that is
\* marked and not linked.  What is listed for the root is the directory the
\* program was started in when chdir(argv[2]) has failed: no message tells.
NothingLost ==
  pc = "done" =>
    /\ Root \in DOMAIN listed
    /\ \A d \in DOMAIN listed \ cut : \A x \in Below(listed[d]) :
         \/ [dir |-> d, name |-> tree[x].name] \in reported
         \/ \E l \in links : /\ l.dir = d /\ NameOf(l) = tree[x].name
                             /\ info[l.ino] \in {tree[l.entry].kind, "short"}
                             /\ l.entry = x \/ stray
    /\ \A l \in links : tree[l.entry].kind = "dir" =>
         l.ino \in DOMAIN listed \/ [dir |-> l.dir, name |-> NameOf(l)] \in reported
    /\ Cardinality(alloc \ {l.ino : l \in links}) <= Cardinality(reported)

\* The comment "If dir is full, call ext2fs_expand_dir": unless an I/O error
\* occurs or the image runs out of inodes or blocks, everything that is a
\* file, directory, link or device is copied, however many entries a
\* directory has.
CompleteCopy ==
  pc = "done" /\ faults = 0 /\ blocks > 0 /\ Inodes \ alloc # {} =>
    \A x \in Beneath(Root) : tree[x].kind # "unknown" => \E l \in links : l.entry = x
=============================================================================
