------------------------------- MODULE Untar -------------------------------
(***************************************************************************)
(* How fs2xml (tools/fs2xml.c) finds the headers of a tar archive: Untar   *)
(* looks at one block after the other, takes every block with the magic    *)
(* "ustar" for a header and steps over the data that follows it.           *)
(*                                                                         *)
(* An archive is a sequence of entries.  An entry is a header block and    *)
(* its data, padded to a whole block.  The bytes of a partial last block   *)
(* are the packed file's and may hold the magic themselves.                *)
(***************************************************************************)
EXTENDS Integers, Sequences

CONSTANTS BLOCK,        \* 512
          Sizes,        \* sizes an entry may have
          LookAlikes,   \* sizes read when a partial last block holds the magic
          MaxEntries    \* bound on the entries of an archive

Plain == -1             \* a partial last block without the magic

VARIABLES archive,      \* the entries: [size, tail]
          p,            \* offset of the next block to look at
          merged        \* offsets handed to MergeFile, in order

vars == <<archive, p, merged>>

Entries == {e \in [size : Sizes, tail : LookAlikes \cup {Plain}] : e.size % BLOCK = 0 => e.tail = Plain}
Archives == UNION {[1 .. n -> Entries] : n \in 0 .. MaxEntries}

RoundUp(n) == ((n + BLOCK - 1) \div BLOCK) * BLOCK
RoundDown(n) == (n \div BLOCK) * BLOCK

\* Where the tar format puts the header of entry k; two empty blocks follow
\* the last entry.
Offset[k \in 1 .. MaxEntries + 1] ==
  IF k = 1 THEN 0 ELSE Offset[k - 1] + BLOCK + RoundUp(archive[k - 1].size)
Headers == {Offset[k] : k \in 1 .. Len(archive)}
Length == Offset[Len(archive) + 1] + 2 * BLOCK

\* The size field of the block at q, Plain if it has no magic.
Magic(q) ==
  IF q \in Headers
  THEN archive[CHOOSE k \in 1 .. Len(archive) : Offset[k] = q].size
  ELSE IF \E k \in 1 .. Len(archive) :
            archive[k].size % BLOCK # 0 /\ q = Offset[k] + BLOCK + RoundDown(archive[k].size)
  THEN archive[CHOOSE k \in 1 .. Len(archive) :
                 q = Offset[k] + BLOCK + RoundDown(archive[k].size)].tail
  ELSE Plain

Init ==
  /\ archive \in Archives
  /\ p = 0
  /\ merged = <<>>
----------------------------------------------------------------------------
\* A block without the magic.
SkipBlock ==
  /\ p < Length
  /\ Magic(p) = Plain
  /\ p' = p + BLOCK
  /\ UNCHANGED <<archive, merged>>

\* Mutant: the data is stepped over to the start of the block after the next.
LongStep(size) == RoundUp(p + BLOCK + size) + BLOCK

\* p += 0x200; p += size; if (p & 511) p &= ~0x1FF
Step(size) == RoundDown(p + BLOCK + size)

\* MergeFile for the block, then the step over its data.
Header ==
  /\ p < Length
  /\ Magic(p) # Plain
  /\ merged' = Append(merged, p)
  /\ p' = Step(Magic(p))
  /\ UNCHANGED archive

\* The loop has ended.
Stopped ==
  /\ p >= Length
  /\ UNCHANGED vars

Next == SkipBlock \/ Header \/ Stopped

Spec == Init /\ [][Next]_vars
----------------------------------------------------------------------------
(* Properties *)

\* If no packed file looks like a header, MergeFile gets every header of the
\* archive, in order, and nothing else; also those after a partial block.
AllHeadersMerged ==
  (\A k \in 1 .. Len(archive) : archive[k].tail = Plain) =>
    /\ \A n \in 1 .. Len(merged) : merged[n] = Offset[n]
    /\ p >= Length => Len(merged) = Len(archive)

\* The comment "round up" of Untar: after an entry the loop goes on behind its
\* data, so no byte of a packed file is ever taken for a header.
RoundedUp == \A n \in 1 .. Len(merged) : merged[n] \in Headers
============================================================================
