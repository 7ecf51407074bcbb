----------------------------- MODULE Fs2xmlTool -----------------------------
(***************************************************************************)
(* main of fs2xml (tools/fs2xml.c): one call of Untar for every archive on *)
(* the command line, each of which calls MergeFile for the headers it      *)
(* meets, and then CreateFilesystem.  Untar and Fs2xml are composed: a     *)
(* Header step of Untar is the call of MergeFile, which ends before Untar  *)
(* goes on.  What a block that only looks like a header says is the packed *)
(* file's, so MergeFile may get any header for it.                         *)
(***************************************************************************)
EXTENDS Fs2xml

CONSTANTS BLOCK, Sizes, LookAlikes, MaxEntries

ASSUME ArchivesAssumption ==
  /\ BLOCK \in Nat \ {0}
  /\ Sizes \subseteq Nat /\ LookAlikes \subseteq Nat
  /\ MaxEntries \in Nat

VARIABLES archive, p, merged

U == INSTANCE Untar

untarVars == <<archive, p, merged>>
toolVars == <<vars, untarVars>>

ToolInit == Init /\ U!Init

\* The loop of Untar runs between two calls of MergeFile.
InUntar == phase = "merge" /\ done = Len(input)
AtEnd == InUntar /\ p >= U!Length

ReadBlock == InUntar /\ U!SkipBlock /\ UNCHANGED vars
FoundHeader == U!Header /\ CallMergeFile
InMergeFile == MergeFile /\ UNCHANGED untarVars

\* Untar(argv[i]) for the next archive.  One that BZ2_bzread cannot read (len is
\* -1) is like one without entries, and of one longer than the buffer only the
\* first 60 MB are seen: neither is reported, and AllHeadersMerged is about what
\* was read.
NextArchive ==
  /\ AtEnd
  /\ Len(input) < MaxHeaders
  /\ archive' \in U!Archives
  /\ p' = 0
  /\ merged' = <<>>
  /\ UNCHANGED vars

\* decompress: the next archive cannot be opened.
CannotOpen ==
  /\ AtEnd
  /\ phase' = "exit"
  /\ UNCHANGED <<input, done, inodes, stack, disk, archive, p, merged>>

\* CreateFilesystem; the last archive is closed.
Create ==
  /\ AtEnd
  /\ StartWalk
  /\ archive' = <<>> /\ p' = 0 /\ merged' = <<>>

InWalkDir == WalkDir /\ UNCHANGED untarVars

\* The tool has ended, or the archives have more headers than MaxHeaders.
ToolStopped ==
  /\ phase \in {"done", "exit"} \/ (InUntar /\ p < U!Length /\ Len(input) = MaxHeaders)
  /\ UNCHANGED toolVars

ToolNext ==
  \/ ReadBlock \/ FoundHeader \/ InMergeFile \/ NextArchive \/ CannotOpen \/ Create \/ InWalkDir
  \/ ToolStopped

ToolSpec == ToolInit /\ [][ToolNext]_toolVars
----------------------------------------------------------------------------
\* If no packed file looks like a header, MergeFile is called for every header
\* of an archive, in order, and for nothing else; also for those after a
\* partial block (Untar, fs2xml.c:266).
AllHeadersMerged == phase = "merge" => U!AllHeadersMerged
=============================================================================
