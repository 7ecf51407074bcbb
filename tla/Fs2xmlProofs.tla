---------------------------- MODULE Fs2xmlProofs ----------------------------
(***************************************************************************)
(* Proofs about fs2xml, for any archives, headers, names and block size.   *)
(*                                                                         *)
(* Untar: Between says where the loop is between two headers.  MergeFile:  *)
(* TreeInv ties every inode to the header it was made from, whose path is  *)
(* the one that its ancestors spell; Walk and FullPath are shown to follow *)
(* that path.  WalkDir: FilesInv says that below fs everything is in a     *)
(* directory of some inode, and that a file is either there or still ahead *)
(* of a call of WalkDir.  Induction is by the least counterexample.        *)
(***************************************************************************)
EXTENDS Fs2xmlTool, SequenceTheorems, FiniteSetTheorems, TLAPS

-----------------------------------------------------------------------------
(* Numbers *)

LEMMA LeastNumber ==
  ASSUME NEW T, T \subseteq Nat, T # {}
  PROVE  \E n \in T : \A m \in T : n <= m
<1> DEFINE Less == {ss \in Nat \X Nat : ss[1] < ss[2]}
<1>1. IsWellFoundedOn(Less, Nat)
  BY NatLessThanWellFounded, Zenon DEF OpToRel
<1> HIDE DEF Less
<1>2. PICK n \in T : \A m \in T : ~(<<m, n>> \in Less)
  BY <1>1, WFMin
<1>3. \A m \in T : ~(m < n)
  BY <1>2 DEF Less
<1> QED BY <1>2, <1>3

\* A multiple of the size of a block.
Aligned(n) == \E b \in Nat : n = b * BLOCK

LEMMA AlignedNat == \A n : Aligned(n) => n \in Nat
BY ArchivesAssumption DEF Aligned

LEMMA AlignedSum ==
  ASSUME NEW a, NEW b, Aligned(a), Aligned(b)
  PROVE  Aligned(a + b)
<1>1. PICK x \in Nat : a = x * BLOCK
  BY DEF Aligned
<1>2. PICK y \in Nat : b = y * BLOCK
  BY DEF Aligned
<1>3. x + y \in Nat /\ (x + y) * BLOCK = x * BLOCK + y * BLOCK
  BY ArchivesAssumption
<1> QED BY <1>1, <1>2, <1>3 DEF Aligned

LEMMA AlignedBlock == Aligned(BLOCK) /\ Aligned(0)
<1>1. 1 \in Nat /\ 0 \in Nat /\ BLOCK = 1 * BLOCK /\ 0 = 0 * BLOCK
  BY ArchivesAssumption
<1> QED BY <1>1 DEF Aligned

\* Multiples of the size of a block are a block apart.
LEMMA AlignedApart ==
  ASSUME NEW a, NEW b, Aligned(a), Aligned(b), a < b
  PROVE  a + BLOCK <= b
<1>1. PICK x \in Nat : a = x * BLOCK
  BY DEF Aligned
<1>2. PICK y \in Nat : b = y * BLOCK
  BY DEF Aligned
<1>3. BLOCK \in Nat \ {0}
  BY ArchivesAssumption
<1>4. x < y
  <2> SUFFICES ASSUME y <= x PROVE FALSE
    BY <1>1
  <2>1. PICK z \in Nat : x = y + z
    <3>1. x - y \in Nat /\ x = y + (x - y)
      BY <1>1
    <3> QED BY <3>1
  <2>2. (y + z) * BLOCK = y * BLOCK + z * BLOCK /\ z * BLOCK \in Nat /\ y * BLOCK \in Nat
    BY <1>3
  <2> QED BY <1>1, <1>2, <2>1, <2>2
<1>5. PICK z \in Nat : y = x + 1 + z
  <2>1. y - x - 1 \in Nat /\ y = x + 1 + (y - x - 1)
    BY <1>4
  <2> QED BY <2>1
<1>6. (x + 1 + z) * BLOCK = x * BLOCK + BLOCK + z * BLOCK /\ z * BLOCK \in Nat /\ x * BLOCK \in Nat
  BY <1>3
<1> QED BY <1>1, <1>2, <1>3, <1>5, <1>6

LEMMA RoundFacts ==
  ASSUME NEW n \in Nat
  PROVE  /\ Aligned(U!RoundUp(n)) /\ Aligned(U!RoundDown(n))
         /\ n <= U!RoundUp(n)
         /\ U!RoundDown(n) <= n /\ n < U!RoundDown(n) + BLOCK
<1>1. BLOCK \in Nat \ {0}
  BY ArchivesAssumption
<1>2. ASSUME NEW a \in Nat
      PROVE  /\ a \div BLOCK \in Nat
             /\ (a \div BLOCK) * BLOCK <= a /\ a < (a \div BLOCK) * BLOCK + BLOCK
  BY <1>1
<1>3. n + BLOCK - 1 \in Nat
  BY <1>1
<1>4. /\ (n + BLOCK - 1) \div BLOCK \in Nat
      /\ n + BLOCK - 1 < ((n + BLOCK - 1) \div BLOCK) * BLOCK + BLOCK
  BY <1>2, <1>3
<1>5. U!RoundUp(n) \in Int /\ n <= U!RoundUp(n)
  BY <1>1, <1>4 DEF U!RoundUp
<1>6. Aligned(U!RoundUp(n)) /\ Aligned(U!RoundDown(n))
  BY <1>2, <1>4 DEF Aligned, U!RoundUp, U!RoundDown
<1> QED BY <1>2, <1>5, <1>6 DEF U!RoundDown
-----------------------------------------------------------------------------
(* Untar: the headers of one archive *)

NoLookAlike == \A k \in 1 .. Len(archive) : archive[k].tail = U!Plain

ArchiveInv == archive \in Seq(U!Entries) /\ Len(archive) <= MaxEntries

LEMMA ArchivesAre ==
  ASSUME NEW a \in U!Archives
  PROVE  a \in Seq(U!Entries) /\ Len(a) <= MaxEntries
<1>1. PICK n \in 0 .. MaxEntries : a \in [1 .. n -> U!Entries]
  BY DEF U!Archives
<1>2. n \in Nat /\ n <= MaxEntries
  BY ArchivesAssumption
<1>3. a \in Seq(U!Entries) /\ Len(a) = n
  BY <1>1, <1>2
<1> QED BY <1>2, <1>3

\* The recursive definition of the offsets has a solution.
LEMMA OffsetIs ==
  U!Offset = [k \in 1 .. MaxEntries + 1 |->
                IF k = 1 THEN 0 ELSE U!Offset[k - 1] + BLOCK + U!RoundUp(archive[k - 1].size)]
<1> DEFINE Later(v, k) == v + BLOCK + U!RoundUp(archive[k - 1].size)
           IsOffset(g, n) == g = [k \in 1 .. n |-> IF k = 1 THEN 0 ELSE Later(g[k - 1], k)]
           Bad == {n \in Nat : ~ \E g : IsOffset(g, n)}
<1>1. Bad = {}
  <2> SUFFICES ASSUME Bad # {} PROVE FALSE
    OBVIOUS
  <2>1. Bad \subseteq Nat
    OBVIOUS
  <2>2. PICK n \in Bad : \A m \in Bad : n <= m
    <3> HIDE DEF Bad
    <3> QED BY <2>1, LeastNumber
  <2>3. n \in Nat /\ ~ \E g : IsOffset(g, n)
    BY <2>2
  <2>4. n # 0
    <3>. PICK g : g = [k \in 1 .. 0 |-> 0]
      OBVIOUS
    <3>1. IsOffset(g, 0)
      OBVIOUS
    <3> QED BY <2>3, <3>1
  <2>5. n - 1 \in Nat /\ n - 1 \notin Bad
    <3> HIDE DEF Bad
    <3> QED BY <2>2, <2>3, <2>4
  <2>6. PICK g : IsOffset(g, n - 1)
    BY <2>5
  <2> HIDE DEF Later, Bad
  <2>. PICK h : h = [k \in 1 .. n |-> IF k = 1 THEN 0 ELSE Later(g[k - 1], k)]
    OBVIOUS
  <2>7. \A k \in 1 .. n : k # n => h[k] = g[k]
    <3> SUFFICES ASSUME NEW k \in 1 .. n, k # n PROVE h[k] = g[k]
      OBVIOUS
    <3>1. k \in 1 .. n - 1
      BY <2>3
    <3>2. g[k] = IF k = 1 THEN 0 ELSE Later(g[k - 1], k)
      BY <2>6, <3>1
    <3> QED BY <3>2
  <2>8. \A k \in 1 .. n : k # 1 => g[k - 1] = h[k - 1]
    <3> SUFFICES ASSUME NEW k \in 1 .. n, k # 1 PROVE g[k - 1] = h[k - 1]
      OBVIOUS
    <3>1. k - 1 \in 1 .. n /\ k - 1 # n
      BY <2>3
    <3> QED BY <2>7, <3>1
  <2>9. IsOffset(h, n)
    BY <2>8
  <2> QED BY <2>3, <2>9
<1>2. \E g : IsOffset(g, MaxEntries + 1)
  BY <1>1, ArchivesAssumption
<1> DEFINE at == CHOOSE g : IsOffset(g, MaxEntries + 1)
<1>3. U!Offset = at
  BY DEF U!Offset
<1> HIDE DEF IsOffset
<1>4. IsOffset(at, MaxEntries + 1)
  BY <1>2, Zenon
<1> USE DEF IsOffset
<1> HIDE DEF at
<1> QED BY <1>3, <1>4

LEMMA EntrySize ==
  ASSUME ArchiveInv, NEW k \in 1 .. Len(archive)
  PROVE  archive[k].size \in Nat /\ archive[k].tail \in LookAlikes \cup {U!Plain}
<1>1. archive[k] \in U!Entries
  BY DEF ArchiveInv
<1> QED BY <1>1, ArchivesAssumption DEF U!Entries

LEMMA OffsetStep ==
  ASSUME ArchiveInv
  PROVE  /\ U!Offset[1] = 0
         /\ \A k \in 1 .. Len(archive) :
              U!Offset[k + 1] = U!Offset[k] + BLOCK + U!RoundUp(archive[k].size)
<1>1. Len(archive) \in Nat /\ Len(archive) <= MaxEntries /\ MaxEntries \in Nat
  BY ArchivesAssumption DEF ArchiveInv
<1>2. 1 \in 1 .. MaxEntries + 1
  BY <1>1
<1>3. U!Offset[1] = 0
  BY <1>2, OffsetIs
<1>4. ASSUME NEW k \in 1 .. Len(archive)
      PROVE  U!Offset[k + 1] = U!Offset[k] + BLOCK + U!RoundUp(archive[k].size)
  <2>. PICK l : l = k + 1
    OBVIOUS
  <2>1. l \in 1 .. MaxEntries + 1 /\ l # 1 /\ l - 1 = k
    BY <1>1
  <2>2. U!Offset[l] = U!Offset[l - 1] + BLOCK + U!RoundUp(archive[l - 1].size)
    BY <2>1, OffsetIs
  <2> QED BY <2>1, <2>2
<1> QED BY <1>3, <1>4

\* Headers lie on blocks, one after the other.
LEMMA OffsetFacts ==
  ASSUME ArchiveInv
  PROVE  /\ \A k \in 1 .. Len(archive) + 1 : Aligned(U!Offset[k])
         /\ \A k, l \in 1 .. Len(archive) + 1 : k < l => U!Offset[k] + BLOCK <= U!Offset[l]
<1>1. Len(archive) \in Nat /\ BLOCK \in Nat \ {0}
  BY ArchivesAssumption DEF ArchiveInv
<1> DEFINE N == Len(archive)
<1>2. \A k \in 1 .. N : archive[k].size \in Nat
  BY EntrySize
<1>3. ASSUME NEW k \in 1 .. N
      PROVE  /\ Aligned(U!Offset[k]) => Aligned(U!Offset[k + 1])
             /\ Aligned(U!Offset[k]) => U!Offset[k] + BLOCK <= U!Offset[k + 1]
  <2>1. U!Offset[k + 1] = U!Offset[k] + BLOCK + U!RoundUp(archive[k].size)
    BY OffsetStep
  <2>2. Aligned(U!RoundUp(archive[k].size)) /\ U!RoundUp(archive[k].size) \in Nat
    BY <1>2, RoundFacts, AlignedNat
  <2>3. ASSUME Aligned(U!Offset[k]) PROVE Aligned(U!Offset[k] + BLOCK + U!RoundUp(archive[k].size))
    BY <2>2, <2>3, AlignedBlock, AlignedSum
  <2>4. ASSUME Aligned(U!Offset[k]) PROVE U!Offset[k] \in Nat
    BY <2>4, AlignedNat
  <2> QED BY <1>1, <2>1, <2>2, <2>3, <2>4
<1>4. \A k \in 1 .. N + 1 : Aligned(U!Offset[k])
  <2> DEFINE Bad == {k \in 1 .. N + 1 : ~Aligned(U!Offset[k])}
  <2> SUFFICES ASSUME Bad # {} PROVE FALSE
    OBVIOUS
  <2>1. Bad \subseteq Nat
    BY <1>1
  <2>2. PICK k \in Bad : \A l \in Bad : k <= l
    <3> HIDE DEF Bad
    <3> QED BY <2>1, LeastNumber
  <2>3. k \in 1 .. N + 1 /\ ~Aligned(U!Offset[k])
    BY <2>2
  <2>4. k # 1
    BY <2>3, OffsetStep, AlignedBlock
  <2>5. k - 1 \in 1 .. N /\ k - 1 \in 1 .. N + 1 /\ k - 1 < k /\ (k - 1) + 1 = k
    BY <1>1, <2>3, <2>4
  <2>6. k - 1 \notin Bad
    <3> HIDE DEF Bad
    <3> QED BY <2>2, <2>3, <2>5
  <2>7. Aligned(U!Offset[k - 1])
    BY <2>5, <2>6
  <2> QED BY <1>3, <2>3, <2>5, <2>7
<1>5. \A k \in 1 .. N : U!Offset[k] \in Nat /\ U!Offset[k + 1] \in Nat /\ U!Offset[k] + BLOCK <= U!Offset[k + 1]
  <2> SUFFICES ASSUME NEW k \in 1 .. N
               PROVE  U!Offset[k] \in Nat /\ U!Offset[k + 1] \in Nat /\ U!Offset[k] + BLOCK <= U!Offset[k + 1]
    OBVIOUS
  <2>1. k \in 1 .. N + 1 /\ k + 1 \in 1 .. N + 1
    BY <1>1
  <2>2. U!Offset[k] \in Nat /\ U!Offset[k + 1] \in Nat
    BY <1>4, <2>1, AlignedNat
  <2> QED BY <1>3, <1>4, <2>1, <2>2
<1>6. ASSUME NEW k \in 1 .. N + 1
      PROVE  \A l \in 1 .. N + 1 : k < l => U!Offset[k] + BLOCK <= U!Offset[l]
  <2> DEFINE Bad == {l \in 1 .. N + 1 : k < l /\ ~(U!Offset[k] + BLOCK <= U!Offset[l])}
  <2> SUFFICES ASSUME Bad # {} PROVE FALSE
    OBVIOUS
  <2>1. Bad \subseteq Nat
    BY <1>1
  <2>2. PICK l \in Bad : \A m \in Bad : l <= m
    <3> HIDE DEF Bad
    <3> QED BY <2>1, LeastNumber
  <2>3. l \in 1 .. N + 1 /\ k < l /\ ~(U!Offset[k] + BLOCK <= U!Offset[l])
    BY <2>2
  <2>4. l - 1 \in 1 .. N /\ l - 1 \in 1 .. N + 1 /\ l - 1 < l /\ (l - 1) + 1 = l /\ k <= l - 1
    BY <1>1, <2>3
  <2>5. /\ U!Offset[l - 1] \in Nat /\ U!Offset[l] \in Nat /\ U!Offset[l - 1] + BLOCK <= U!Offset[l]
    BY <1>5, <2>4
  <2>6. CASE k = l - 1
    BY <2>3, <2>5, <2>6
  <2>7. CASE k # l - 1
    <3>1. l - 1 \notin Bad
      <4> HIDE DEF Bad
      <4> QED BY <2>2, <2>3, <2>4
    <3>2. k < l - 1
      BY <1>1, <2>3, <2>7
    <3>3. U!Offset[k] + BLOCK <= U!Offset[l - 1] /\ U!Offset[k] \in Nat
      BY <1>4, <2>4, <3>1, <3>2, AlignedNat
    <3> QED BY <1>1, <2>3, <2>5, <3>3
  <2> QED BY <2>6, <2>7
<1> QED BY <1>4, <1>6

\* Without look-alikes a block with the magic is a header.
LEMMA MagicIs ==
  ASSUME ArchiveInv, NoLookAlike, NEW q, U!Magic(q) # U!Plain
  PROVE  \E k \in 1 .. Len(archive) : q = U!Offset[k] /\ U!Magic(q) = archive[k].size
<1> DEFINE N == Len(archive)
           At(k) == U!Offset[k] = q
           Partial(k) == q = U!Offset[k] + BLOCK + U!RoundDown(archive[k].size)
<1>1. CASE q \in U!Headers
  <2>1. \E k \in 1 .. N : At(k)
    BY <1>1 DEF U!Headers
  <2>. PICK k : k = CHOOSE c \in 1 .. N : At(c)
    OBVIOUS
  <2>2. k \in 1 .. N /\ At(k)
    BY <2>1, Zenon
  <2>3. U!Magic(q) = archive[k].size
    BY <1>1 DEF U!Magic
  <2> QED BY <2>2, <2>3
<1>2. CASE q \notin U!Headers
  <2>1. CASE \E k \in 1 .. N : archive[k].size % BLOCK # 0 /\ Partial(k)
    <3>1. \E k \in 1 .. N : Partial(k)
      BY <2>1
    <3>. PICK k : k = CHOOSE c \in 1 .. N : Partial(c)
      OBVIOUS
    <3>2. k \in 1 .. N
      BY <3>1, Zenon
    <3>3. U!Magic(q) = archive[k].tail
      BY <1>2, <2>1 DEF U!Magic
    <3> QED BY <3>2, <3>3 DEF NoLookAlike
  <2>2. CASE ~ \E k \in 1 .. N : archive[k].size % BLOCK # 0 /\ Partial(k)
    BY <1>2, <2>2 DEF U!Magic
  <2> QED BY <2>1, <2>2
<1> QED BY <1>1, <1>2

LEMMA HeaderMagic ==
  ASSUME ArchiveInv, NEW k \in 1 .. Len(archive)
  PROVE  U!Magic(U!Offset[k]) # U!Plain
<1> DEFINE N == Len(archive)
           q == U!Offset[k]
           At(l) == U!Offset[l] = q
<1>1. q \in U!Headers /\ \E l \in 1 .. N : At(l)
  BY DEF U!Headers
<1>. PICK l : l = CHOOSE c \in 1 .. N : At(c)
  OBVIOUS
<1>2. l \in 1 .. N
  BY <1>1, Zenon
<1>3. U!Magic(q) = archive[l].size
  BY <1>1 DEF U!Magic
<1> QED BY <1>2, <1>3, EntrySize DEF U!Plain

\* The loop has merged the first headers and stands between the last of them
\* and the next.
Between ==
  /\ Aligned(p) /\ merged \in Seq(Nat) /\ Len(merged) <= Len(archive)
  /\ \A n \in 1 .. Len(merged) : merged[n] = U!Offset[n]
  /\ Len(merged) = 0 /\ Len(archive) > 0 => p = 0
  /\ Len(merged) > 0 => U!Offset[Len(merged)] < p
  /\ Len(merged) > 0 /\ Len(merged) < Len(archive) => p <= U!Offset[Len(merged) + 1]

UntarInv == ArchiveInv /\ (NoLookAlike => Between)

LEMMA NextHeader ==
  ASSUME ArchiveInv, Between, Len(merged) < Len(archive)
  PROVE  /\ Len(merged) + 1 \in 1 .. Len(archive)
         /\ p <= U!Offset[Len(merged) + 1] /\ U!Offset[Len(merged) + 1] \in Nat
         /\ Aligned(U!Offset[Len(merged) + 1])
<1>1. Len(merged) \in Nat /\ Len(archive) \in Nat
  BY DEF ArchiveInv, Between
<1>2. Len(merged) + 1 \in 1 .. Len(archive) /\ Len(merged) + 1 \in 1 .. Len(archive) + 1
  BY <1>1
<1>3. Aligned(U!Offset[Len(merged) + 1]) /\ U!Offset[Len(merged) + 1] \in Nat
  BY <1>2, OffsetFacts, AlignedNat
<1>4. CASE Len(merged) = 0
  BY <1>1, <1>2, <1>3, <1>4, OffsetStep DEF Between
<1>5. CASE Len(merged) # 0
  BY <1>1, <1>2, <1>3, <1>5 DEF Between
<1> QED BY <1>2, <1>3, <1>4, <1>5

LEMMA SkipBetween ==
  ASSUME ArchiveInv, NoLookAlike, Between, U!SkipBlock
  PROVE  Between'
<1>1. /\ archive' = archive /\ merged' = merged /\ p' = p + BLOCK /\ U!Magic(p) = U!Plain
      /\ U!Offset' = U!Offset
  BY DEF U!SkipBlock, U!Offset, U!RoundUp
<1>2. /\ Len(merged) \in Nat /\ Len(archive) \in Nat /\ BLOCK \in Nat \ {0} /\ p \in Nat
      /\ Aligned(p + BLOCK) /\ merged \in Seq(Nat) /\ Len(merged) <= Len(archive)
  BY ArchivesAssumption, AlignedNat, AlignedBlock, AlignedSum DEF Between, ArchiveInv
<1>3. ASSUME Len(merged) < Len(archive)
      PROVE  p' <= U!Offset[Len(merged) + 1]
  <2>1. /\ p <= U!Offset[Len(merged) + 1] /\ Aligned(U!Offset[Len(merged) + 1])
        /\ U!Offset[Len(merged) + 1] \in Nat /\ Len(merged) + 1 \in 1 .. Len(archive)
    BY <1>3, NextHeader
  <2>2. p # U!Offset[Len(merged) + 1]
    BY <1>1, <2>1, HeaderMagic
  <2>3. p < U!Offset[Len(merged) + 1]
    BY <1>2, <2>1, <2>2
  <2> QED BY <1>1, <2>1, <2>3, AlignedApart DEF Between
<1>4. ~(Len(merged) = 0 /\ Len(archive) > 0)
  <2> SUFFICES ASSUME Len(merged) = 0, Len(archive) > 0 PROVE FALSE
    OBVIOUS
  <2>1. p' <= U!Offset[1]
    BY <1>2, <1>3
  <2> QED BY <1>1, <1>2, <2>1, OffsetStep
<1>5. Len(merged) > 0 => U!Offset[Len(merged)] < p'
  <2> SUFFICES ASSUME Len(merged) > 0 PROVE U!Offset[Len(merged)] < p + BLOCK
    BY <1>1
  <2>1. Len(merged) \in 1 .. Len(archive) + 1
    BY <1>2
  <2>2. U!Offset[Len(merged)] \in Nat /\ U!Offset[Len(merged)] < p
    BY <2>1, OffsetFacts, AlignedNat DEF Between
  <2> QED BY <1>2, <2>2
<1>6. Aligned(p)'
  BY <1>1, <1>2 DEF Aligned
<1>7. \A n \in 1 .. Len(merged) : merged[n] = U!Offset[n]
  BY DEF Between
<1> QED BY <1>1, <1>2, <1>3, <1>4, <1>5, <1>6, <1>7 DEF Between

LEMMA HeaderBetween ==
  ASSUME ArchiveInv, NoLookAlike, Between, U!Header
  PROVE  Between'
<1>1. /\ archive' = archive /\ merged' = Append(merged, p) /\ U!Magic(p) # U!Plain
      /\ p' = U!RoundDown(p + BLOCK + U!Magic(p))
      /\ U!Offset' = U!Offset
  BY DEF U!Header, U!Step, U!Offset, U!RoundUp
<1>2. PICK k \in 1 .. Len(archive) : p = U!Offset[k] /\ U!Magic(p) = archive[k].size
  BY <1>1, MagicIs
<1>. PICK m : m = Len(merged)
  OBVIOUS
<1>3. /\ m \in Nat /\ Len(archive) \in Nat /\ BLOCK \in Nat \ {0} /\ p \in Nat
      /\ merged \in Seq(Nat) /\ m <= Len(archive) /\ k \in 1 .. Len(archive) + 1
      /\ archive[k].size \in Nat
  BY ArchivesAssumption, AlignedNat, EntrySize DEF Between, ArchiveInv
<1>4. k = m + 1
  <2>1. ~(k <= m)
    <3> SUFFICES ASSUME k <= m PROVE FALSE
      OBVIOUS
    <3>1. m \in 1 .. Len(archive) + 1 /\ m > 0
      BY <1>3
    <3>2. U!Offset[m] < p /\ U!Offset[m] \in Nat
      BY <3>1, OffsetFacts, AlignedNat DEF Between
    <3>3. CASE k = m
      BY <1>2, <1>3, <3>2, <3>3
    <3>4. CASE k < m
      <4>1. U!Offset[k] + BLOCK <= U!Offset[m]
        BY <1>3, <3>1, <3>4, OffsetFacts
      <4> QED BY <1>2, <1>3, <3>2, <4>1
    <3> QED BY <1>3, <3>3, <3>4
  <2>2. ~(m + 1 < k)
    <3> SUFFICES ASSUME m + 1 < k PROVE FALSE
      OBVIOUS
    <3>1. m < Len(archive) /\ m + 1 \in 1 .. Len(archive) + 1
      BY <1>3
    <3>2. p <= U!Offset[m + 1] /\ U!Offset[m + 1] \in Nat
      BY <3>1, NextHeader
    <3>3. U!Offset[m + 1] + BLOCK <= U!Offset[k]
      BY <1>3, <3>1, OffsetFacts
    <3> QED BY <1>2, <1>3, <3>2, <3>3
  <2> QED BY <1>3, <2>1, <2>2
<1>5. /\ merged' \in Seq(Nat) /\ Len(merged') = m + 1 /\ merged'[m + 1] = p
      /\ \A n \in 1 .. m : merged'[n] = merged[n]
  BY <1>1, <1>3
<1>6. m + 1 <= Len(archive)
  BY <1>2, <1>4
<1>7. \A n \in 1 .. m + 1 : merged'[n] = U!Offset[n]
  <2>1. \A n \in 1 .. m : merged[n] = U!Offset[n]
    BY DEF Between
  <2> SUFFICES ASSUME NEW n \in 1 .. m + 1 PROVE merged'[n] = U!Offset[n]
    OBVIOUS
  <2>2. CASE n = m + 1
    <3>1. p = U!Offset[m + 1]
      BY <1>2, <1>4
    <3> QED BY <1>5, <2>2, <3>1
  <2>3. CASE n \in 1 .. m
    <3>1. merged'[n] = merged[n]
      BY <1>5, <2>3
    <3> QED BY <2>1, <2>3, <3>1
  <2> QED BY <1>3, <2>2, <2>3
<1>. PICK s : s = archive[k].size
  OBVIOUS
<1>8. p + BLOCK + s \in Nat /\ s \in Nat
  BY <1>3
<1>9. /\ Aligned(p') /\ p' \in Nat /\ p' <= p + BLOCK + s /\ p + BLOCK + s < p' + BLOCK
  BY <1>1, <1>2, <1>8, RoundFacts, AlignedNat
<1>10. U!Offset[m + 1] < p'
  <2>1. p < p'
    BY <1>3, <1>8, <1>9
  <2>2. p = U!Offset[m + 1]
    BY <1>2, <1>4
  <2> QED BY <2>1, <2>2
<1>11. m + 1 < Len(archive) => p' <= U!Offset[m + 1 + 1]
  <2>1. U!Offset[k + 1] = U!Offset[k] + BLOCK + U!RoundUp(s)
    BY OffsetStep
  <2>2. s <= U!RoundUp(s) /\ U!RoundUp(s) \in Nat
    BY <1>8, RoundFacts, AlignedNat
  <2>3. U!Offset[k] = p
    BY <1>2
  <2>4. k + 1 = m + 1 + 1
    BY <1>4
  <2>. PICK o : o = U!Offset[k + 1]
    OBVIOUS
  <2>5. o = p + BLOCK + U!RoundUp(s)
    BY <2>1, <2>3
  <2>6. p' <= o
    BY <1>3, <1>8, <1>9, <2>2, <2>5
  <2>7. o = U!Offset[m + 1 + 1]
    BY <2>4
  <2> QED BY <2>6, <2>7
<1>12. Aligned(p)'
  BY <1>9 DEF Aligned
<1>13. (m + 1 = 0) = FALSE /\ m + 1 > 0
  BY <1>3
<1> QED BY <1>1, <1>5, <1>6, <1>7, <1>10, <1>11, <1>12, <1>13 DEF Between

LEMMA UntarInit == ToolInit => UntarInv
<1> SUFFICES ASSUME ToolInit PROVE UntarInv
  OBVIOUS
<1>1. archive \in U!Archives /\ p = 0 /\ merged = <<>>
  BY DEF ToolInit, U!Init
<1>2. ArchiveInv
  BY <1>1, ArchivesAre DEF ArchiveInv
<1>3. Between
  BY <1>1, <1>2, AlignedBlock DEF Between, ArchiveInv
<1> QED BY <1>2, <1>3 DEF UntarInv

LEMMA UntarStep == UntarInv /\ [ToolNext]_toolVars => UntarInv'
<1> SUFFICES ASSUME UntarInv, [ToolNext]_toolVars PROVE UntarInv'
  OBVIOUS
<1>1. ASSUME archive' = archive PROVE NoLookAlike' = NoLookAlike /\ ArchiveInv'
  BY <1>1 DEF NoLookAlike, UntarInv, ArchiveInv
<1>2. CASE UNCHANGED untarVars
  <2>1. archive' = archive /\ p' = p /\ merged' = merged
    BY <1>2 DEF untarVars
  <2>2. U!Offset' = U!Offset
    BY <2>1 DEF U!Offset, U!RoundUp
  <2>3. Between => Between'
    BY <2>1, <2>2 DEF Between, Aligned
  <2> QED BY <1>1, <2>1, <2>3 DEF UntarInv
<1>3. CASE ReadBlock
  <2>1. U!SkipBlock /\ archive' = archive
    BY <1>3 DEF ReadBlock, U!SkipBlock
  <2> QED BY <1>1, <2>1, SkipBetween DEF UntarInv
<1>4. CASE FoundHeader
  <2>1. U!Header /\ archive' = archive
    BY <1>4 DEF FoundHeader, U!Header
  <2> QED BY <1>1, <2>1, HeaderBetween DEF UntarInv
<1>5. CASE NextArchive \/ Create
  <2>1. p' = 0 /\ merged' = <<>> /\ (archive' \in U!Archives \/ archive' = <<>>)
    BY <1>5 DEF NextArchive, Create
  <2>2. ArchiveInv'
    <3>1. archive' \in Seq(U!Entries) /\ Len(archive') <= MaxEntries
      <4>1. CASE archive' \in U!Archives
        BY <4>1, ArchivesAre
      <4>2. CASE archive' = <<>>
        BY <4>2, ArchivesAssumption
      <4> QED BY <2>1, <4>1, <4>2
    <3> QED BY <3>1 DEF ArchiveInv, U!Entries
  <2>3. Aligned(p)'
    BY <2>1, AlignedBlock DEF Aligned
  <2>4. merged' \in Seq(Nat) /\ Len(merged') = 0 /\ Len(archive') \in Nat
    BY <2>1, <2>2 DEF ArchiveInv
  <2>5. Between'
    BY <2>1, <2>3, <2>4 DEF Between
  <2> QED BY <2>2, <2>5 DEF UntarInv
<1>6. CASE InMergeFile \/ CannotOpen \/ InWalkDir \/ ToolStopped
  BY <1>2, <1>6 DEF InMergeFile, CannotOpen, InWalkDir, ToolStopped, toolVars, untarVars
<1> QED BY <1>2, <1>3, <1>4, <1>5, <1>6 DEF ToolNext, toolVars

\* If no packed file looks like a header, Untar calls MergeFile for every
\* header of an archive, in order and for nothing else, although it rounds down
\* where it means to round up: for every block size, all sizes of the packed
\* files and any number of entries.
THEOREM AllHeadersMergedHolds == ToolSpec => []AllHeadersMerged
<1>1. UntarInv => AllHeadersMerged
  <2> SUFFICES ASSUME UntarInv, NoLookAlike
               PROVE  /\ \A n \in 1 .. Len(merged) : merged[n] = U!Offset[n]
                      /\ p >= U!Length => Len(merged) = Len(archive)
    BY DEF AllHeadersMerged, U!AllHeadersMerged, NoLookAlike
  <2>1. ArchiveInv /\ Between
    BY DEF UntarInv
  <2>2. \A n \in 1 .. Len(merged) : merged[n] = U!Offset[n]
    BY <2>1 DEF Between
  <2>3. ASSUME p >= U!Length, Len(merged) # Len(archive) PROVE FALSE
    <3>1. /\ Len(merged) \in Nat /\ Len(archive) \in Nat /\ Len(merged) < Len(archive)
          /\ BLOCK \in Nat \ {0} /\ p \in Nat
      BY <2>1, <2>3, ArchivesAssumption, AlignedNat DEF Between, ArchiveInv
    <3>2. p <= U!Offset[Len(merged) + 1] /\ U!Offset[Len(merged) + 1] \in Nat
      BY <2>1, <3>1, NextHeader
    <3>3. Len(merged) + 1 \in 1 .. Len(archive) + 1 /\ Len(archive) + 1 \in 1 .. Len(archive) + 1
          /\ Len(merged) + 1 < Len(archive) + 1
      BY <3>1
    <3>4. U!Offset[Len(merged) + 1] + BLOCK <= U!Offset[Len(archive) + 1] /\ U!Offset[Len(archive) + 1] \in Nat
      BY <2>1, <3>3, OffsetFacts, AlignedNat
    <3>5. U!Length = U!Offset[Len(archive) + 1] + 2 * BLOCK
      BY DEF U!Length
    <3> QED BY <2>3, <3>1, <3>2, <3>4, <3>5
  <2> QED BY <2>2, <2>3
<1> QED BY <1>1, UntarInit, UntarStep, PTL DEF ToolSpec
-----------------------------------------------------------------------------
(* Sequences *)

LEMMA PrefixStep ==
  ASSUME NEW S, NEW s \in Seq(S), NEW n \in 1 .. Len(s)
  PROVE  /\ SubSeq(s, 1, n - 1) \in Seq(S) /\ SubSeq(s, 1, n) \in Seq(S) /\ s[n] \in S
         /\ SubSeq(s, 1, n) = Append(SubSeq(s, 1, n - 1), s[n])
         /\ Len(SubSeq(s, 1, n)) = n
<1>1. n \in Nat /\ n - 1 \in Nat /\ Len(s) \in Nat /\ s[n] \in S /\ 1 \in 1 .. Len(s) /\ n \in 1 .. Len(s)
      /\ 1 \in Int /\ n \in Int /\ n - 1 \in Int
  BY LenProperties
<1>2. /\ \A k \in 1 .. n : s[k] \in S
      /\ \A k \in 1 .. n - 1 : s[k] \in S
  BY <1>1
<1>3. SubSeq(s, 1, n - 1) \in Seq(S)
  BY <1>1, <1>2, SubSeqProperties
<1>4. SubSeq(s, 1, n) \in Seq(S) /\ Len(SubSeq(s, 1, n)) = n
  BY <1>1, <1>2, SubSeqProperties
<1>5. SubSeq(s, 1, n) = SubSeq(s, 1, n - 1) \o <<s[n]>>
  <2>1. n \in 1 .. Len(s)
    OBVIOUS
  <2> QED BY <1>1, <2>1, SubSeqRecursiveSecond
<1>6. Append(SubSeq(s, 1, n - 1), s[n]) = SubSeq(s, 1, n - 1) \o <<s[n]>>
  BY <1>1, <1>3, AppendIsConcat
<1> QED BY <1>1, <1>3, <1>4, <1>5, <1>6

LEMMA PrefixFacts ==
  ASSUME NEW S, NEW s \in Seq(S), NEW n \in 0 .. Len(s)
  PROVE  /\ SubSeq(s, 1, n) \in Seq(S) /\ Len(SubSeq(s, 1, n)) = n
         /\ \A k \in 1 .. n : SubSeq(s, 1, n)[k] = s[k]
<1>1. /\ n \in Int /\ 1 \in Int /\ n \in Nat /\ Len(s) \in Nat
      /\ \A k \in 1 .. n : s[k] \in S
  BY LenProperties
<1>2. /\ SubSeq(s, 1, n) \in Seq(S) /\ Len(SubSeq(s, 1, n)) = IF 1 <= n THEN n - 1 + 1 ELSE 0
      /\ \A k \in 1 .. n - 1 + 1 : SubSeq(s, 1, n)[k] = s[1 + k - 1]
  BY <1>1, SubSeqProperties
<1> QED BY <1>1, <1>2

LEMMA PrefixOfAppend ==
  ASSUME NEW S, NEW s \in Seq(S), NEW e \in S, NEW n \in 0 .. Len(s)
  PROVE  SubSeq(Append(s, e), 1, n) = SubSeq(s, 1, n)
<1>. PICK t : t = Append(s, e)
  OBVIOUS
<1>1. /\ t \in Seq(S) /\ Len(t) = Len(s) + 1 /\ Len(s) \in Nat
      /\ \A k \in 1 .. Len(s) : t[k] = s[k]
  BY AppendProperties, LenProperties
<1>2. n \in 0 .. Len(t) /\ n \in Nat
  BY <1>1
<1>3. /\ SubSeq(t, 1, n) \in Seq(S) /\ Len(SubSeq(t, 1, n)) = n
      /\ \A k \in 1 .. n : SubSeq(t, 1, n)[k] = t[k]
  BY <1>1, <1>2, PrefixFacts
<1>4. /\ SubSeq(s, 1, n) \in Seq(S) /\ Len(SubSeq(s, 1, n)) = n
      /\ \A k \in 1 .. n : SubSeq(s, 1, n)[k] = s[k]
  BY PrefixFacts
<1>5. \A k \in 1 .. n : SubSeq(t, 1, n)[k] = SubSeq(s, 1, n)[k]
  BY <1>1, <1>2, <1>3, <1>4
<1> QED BY <1>3, <1>4, <1>5, SeqEqual

-----------------------------------------------------------------------------
(* MergeFile: the table and the paths of its inodes *)

\* The path of an inode: that of the header it was made from.
PathOf(k) == IF k = Root THEN <<>> ELSE input[inodes[k].content].path

Inode == [name : Names, parentid : Nat, kind : {"dir", "file", "link"}, content : Nat,
          big : BOOLEAN, compressed : BOOLEAN, src : BOOLEAN]

TableType ==
  /\ input \in Seq(FileHeaders)
  /\ done \in Nat /\ done <= Len(input)
  /\ inodes \in Seq(Inode)
  /\ stack \in Seq(Nat \X (Nat \ {0}))

\* Inode k was made from the first header with its path, below its parent.
NodeInv(k) ==
  /\ inodes[k].content \in 1 .. done
  /\ inodes[k].parentid \in 0 .. k - 1
  /\ PathOf(k) = Append(PathOf(inodes[k].parentid), inodes[k].name)
  /\ \A h \in 1 .. inodes[k].content - 1 : input[h].path # PathOf(k)

TreeInv ==
  /\ \A k \in 1 .. ninodes : NodeInv(k)
  /\ \A k, l \in 1 .. ninodes : PathOf(k) = PathOf(l) => k = l
  /\ \A h \in 1 .. done : \E k \in 1 .. ninodes : PathOf(k) = input[h].path

LEMMA HeaderFacts ==
  ASSUME NEW h \in FileHeaders
  PROVE  /\ h.path \in Seq(Names) /\ h.path # <<>> /\ Len(h.path) \in Nat \ {0}
         /\ h.type \in Types /\ h.big \in BOOLEAN
<1>1. h \in [path : Seq(Names) \ {<<>>}, type : Types, link : BOOLEAN, big : BOOLEAN]
  BY FsAssumption
<1>2. h.path \in Seq(Names) /\ h.path # <<>> /\ h.type \in Types /\ h.big \in BOOLEAN
  BY <1>1
<1> QED BY <1>2, EmptySeq

LEMMA NodeFacts ==
  ASSUME TableType, NEW k \in 1 .. ninodes
  PROVE  /\ ninodes \in Nat /\ k \in Nat /\ k # Root /\ inodes[k] \in Inode
         /\ inodes[k].name \in Names /\ inodes[k].parentid \in Nat
         /\ inodes[k].kind \in {"dir", "file", "link"} /\ inodes[k].content \in Nat
<1>1. ninodes \in Nat /\ inodes[k] \in Inode
  BY DEF TableType, ninodes
<1>2. k \in Nat /\ k # Root
  BY <1>1 DEF Root
<1> QED BY <1>1, <1>2 DEF Inode

LEMMA PathTyped ==
  ASSUME TableType, TreeInv, NEW k \in 0 .. ninodes
  PROVE  /\ PathOf(k) \in Seq(Names) /\ Len(PathOf(k)) \in Nat
         /\ k # Root => PathOf(k) # <<>>
         /\ k = Root => PathOf(k) = <<>> /\ Len(PathOf(k)) = 0
<1>1. CASE k = Root
  BY <1>1, EmptySeq DEF PathOf
<1>2. CASE k # Root
  <2>1. k \in 1 .. ninodes
    BY <1>2 DEF Root, TableType, ninodes
  <2>2. inodes[k].content \in 1 .. Len(input)
    BY <2>1 DEF TreeInv, NodeInv, TableType
  <2>3. input[inodes[k].content] \in FileHeaders
    BY <2>2 DEF TableType
  <2>4. PathOf(k) = input[inodes[k].content].path
    BY <1>2 DEF PathOf
  <2>5. PathOf(k) \in Seq(Names) /\ PathOf(k) # <<>>
    BY <2>3, <2>4, HeaderFacts
  <2> QED BY <1>2, <2>5, LenProperties
<1> QED BY <1>1, <1>2

LEMMA PathsDiffer ==
  ASSUME TableType, TreeInv, NEW k \in 0 .. ninodes, NEW l \in 0 .. ninodes, PathOf(k) = PathOf(l)
  PROVE  k = l
<1>1. ninodes \in Nat
  BY DEF TableType, ninodes
<1>2. (k = Root) = (l = Root)
  BY PathTyped
<1>3. CASE k # Root
  <2>1. k \in 1 .. ninodes /\ l \in 1 .. ninodes
    BY <1>1, <1>2, <1>3 DEF Root
  <2> QED BY <2>1 DEF TreeInv
<1> QED BY <1>2, <1>3

\* The path of an inode ends with its name, after its parent's.
LEMMA PathStep ==
  ASSUME TableType, TreeInv, NEW k \in 1 .. ninodes
  PROVE  /\ inodes[k].parentid \in 0 .. ninodes /\ inodes[k].parentid < k /\ k \in 0 .. ninodes
         /\ PathOf(k) = Append(PathOf(inodes[k].parentid), inodes[k].name)
         /\ Len(PathOf(k)) = Len(PathOf(inodes[k].parentid)) + 1
         /\ PathOf(k)[Len(PathOf(k))] = inodes[k].name
         /\ \A n \in 0 .. Len(PathOf(inodes[k].parentid)) :
              SubSeq(PathOf(k), 1, n) = SubSeq(PathOf(inodes[k].parentid), 1, n)
<1>1. ninodes \in Nat /\ k \in Nat /\ inodes[k].name \in Names
  BY NodeFacts
<1>2. NodeInv(k)
  BY DEF TreeInv
<1>3. inodes[k].parentid \in 0 .. ninodes /\ inodes[k].parentid < k /\ k \in 0 .. ninodes
  BY <1>1, <1>2 DEF NodeInv
<1>4. PathOf(k) = Append(PathOf(inodes[k].parentid), inodes[k].name)
  BY <1>2 DEF NodeInv
<1>5. PathOf(inodes[k].parentid) \in Seq(Names)
  BY <1>3, PathTyped
<1>6. Len(PathOf(k)) = Len(PathOf(inodes[k].parentid)) + 1 /\ PathOf(k)[Len(PathOf(k))] = inodes[k].name
  BY <1>1, <1>4, <1>5, AppendProperties
<1>7. \A n \in 0 .. Len(PathOf(inodes[k].parentid)) :
        SubSeq(PathOf(k), 1, n) = SubSeq(PathOf(inodes[k].parentid), 1, n)
  BY <1>1, <1>4, <1>5, PrefixOfAppend
<1> QED BY <1>3, <1>4, <1>6, <1>7

\* SearchInode finds an inode if there is one.
LEMMA SearchIs ==
  ASSUME TableType, NEW name, NEW parentid
  PROVE  \/ /\ SearchInode(name, parentid) = -1
            /\ \A id \in 1 .. ninodes : ~(inodes[id].parentid = parentid /\ inodes[id].name = name)
         \/ /\ SearchInode(name, parentid) \in 1 .. ninodes
            /\ inodes[SearchInode(name, parentid)].parentid = parentid
            /\ inodes[SearchInode(name, parentid)].name = name
<1> DEFINE hits == {id \in 1 .. ninodes : inodes[id].parentid = parentid /\ inodes[id].name = name}
           least(id) == \A k \in hits : id <= k
<1>1. hits \subseteq Nat
  BY DEF TableType, ninodes
<1>2. CASE hits = {}
  BY <1>2 DEF SearchInode
<1>3. CASE hits # {}
  <2>1. \E id \in hits : least(id)
    <3> HIDE DEF hits
    <3> QED BY <1>1, <1>3, LeastNumber
  <2>2. SearchInode(name, parentid) = CHOOSE id \in hits : least(id)
    BY <1>3 DEF SearchInode
  <2>3. SearchInode(name, parentid) \in hits
    <3> HIDE DEF hits, least
    <3> QED BY <2>1, <2>2, Zenon
  <2> QED BY <2>3
<1> QED BY <1>2, <1>3

\* Walk follows the path name by name.
LEMMA WalkIs ==
  ASSUME NEW path, NEW n \in Nat
  PROVE  \E w : /\ Walk(path, n) = w[n]
                /\ w[0] = Root
                /\ \A k \in 1 .. n : w[k] = IF w[k - 1] = -1 THEN -1 ELSE SearchInode(path[k], w[k - 1])
<1> DEFINE Later(v, k) == IF v = -1 THEN -1 ELSE SearchInode(path[k], v)
           IsWalk(w, m) == w = [k \in 0 .. m |-> IF k = 0 THEN Root ELSE Later(w[k - 1], k)]
           Bad == {m \in Nat : ~ \E w : IsWalk(w, m)}
<1>1. Bad = {}
  <2> SUFFICES ASSUME Bad # {} PROVE FALSE
    OBVIOUS
  <2>1. Bad \subseteq Nat
    OBVIOUS
  <2>2. PICK m \in Bad : \A l \in Bad : m <= l
    <3> HIDE DEF Bad
    <3> QED BY <2>1, LeastNumber
  <2>3. m \in Nat /\ ~ \E w : IsWalk(w, m)
    BY <2>2
  <2>4. m # 0
    <3> SUFFICES ASSUME m = 0 PROVE FALSE
      OBVIOUS
    <3>. PICK w : w = [k \in 0 .. 0 |-> Root]
      OBVIOUS
    <3>1. IsWalk(w, 0)
      <4> HIDE DEF Later
      <4>1. \A k \in 0 .. 0 : k = 0
        OBVIOUS
      <4>2. w = [k \in 0 .. 0 |-> IF k = 0 THEN Root ELSE Later(w[k - 1], k)]
        BY <4>1
      <4> QED BY <4>2
    <3> QED BY <2>3, <3>1
  <2>5. m - 1 \in Nat /\ m - 1 \notin Bad
    <3> HIDE DEF Bad
    <3> QED BY <2>2, <2>3, <2>4
  <2>6. PICK w : IsWalk(w, m - 1)
    BY <2>5
  <2> HIDE DEF Later, Bad
  <2>. PICK v : v = [k \in 0 .. m |-> IF k = 0 THEN Root ELSE Later(w[k - 1], k)]
    OBVIOUS
  <2>7. \A k \in 0 .. m : k # m => v[k] = w[k]
    <3> SUFFICES ASSUME NEW k \in 0 .. m, k # m PROVE v[k] = w[k]
      OBVIOUS
    <3>1. k \in 0 .. m - 1
      BY <2>3
    <3>2. w[k] = IF k = 0 THEN Root ELSE Later(w[k - 1], k)
      BY <2>6, <3>1
    <3> QED BY <3>2
  <2>8. \A k \in 0 .. m : k # 0 => w[k - 1] = v[k - 1]
    <3> SUFFICES ASSUME NEW k \in 0 .. m, k # 0 PROVE w[k - 1] = v[k - 1]
      OBVIOUS
    <3>1. k - 1 \in 0 .. m /\ k - 1 # m
      BY <2>3
    <3> QED BY <2>7, <3>1
  <2>9. IsWalk(v, m)
    BY <2>8
  <2> QED BY <2>3, <2>9
<1>2. \E w : IsWalk(w, n)
  BY <1>1
<1> DEFINE walk == CHOOSE w : IsWalk(w, n)
<1>3. Walk(path, n) = walk[n]
  BY DEF Walk
<1> HIDE DEF IsWalk
<1>4. IsWalk(walk, n)
  BY <1>2, Zenon
<1> USE DEF IsWalk
<1> HIDE DEF walk, Later
<1>5. walk[0] = Root
  <2>1. 0 \in 0 .. n
    OBVIOUS
  <2> QED BY <1>4, <2>1
<1>6. \A k \in 1 .. n : walk[k] = Later(walk[k - 1], k)
  <2> SUFFICES ASSUME NEW k \in 1 .. n PROVE walk[k] = Later(walk[k - 1], k)
    OBVIOUS
  <2>1. k \in 0 .. n /\ k # 0
    OBVIOUS
  <2> QED BY <1>4, <2>1
<1>7. \A k \in 1 .. n : walk[k] = IF walk[k - 1] = -1 THEN -1 ELSE SearchInode(path[k], walk[k - 1])
  BY <1>6 DEF Later
<1> QED BY <1>3, <1>5, <1>7

\* The inode that Walk reaches has the path it was called with.
LEMMA WalkSound ==
  ASSUME TableType, TreeInv, NEW path \in Seq(Names), NEW n \in 0 .. Len(path), Walk(path, n) # -1
  PROVE  Walk(path, n) \in 0 .. ninodes /\ PathOf(Walk(path, n)) = SubSeq(path, 1, n)
<1>1. n \in Nat /\ Len(path) \in Nat /\ ninodes \in Nat
  BY LenProperties DEF TableType, ninodes
<1>2. PICK w : /\ Walk(path, n) = w[n] /\ w[0] = Root
               /\ \A k \in 1 .. n : w[k] = IF w[k - 1] = -1 THEN -1 ELSE SearchInode(path[k], w[k - 1])
  BY <1>1, WalkIs
<1> DEFINE Good(k) == w[k] = -1 \/ (w[k] \in 0 .. ninodes /\ PathOf(w[k]) = SubSeq(path, 1, k))
           Bad == {k \in 0 .. n : ~Good(k)}
<1>3. Bad = {}
  <2> SUFFICES ASSUME Bad # {} PROVE FALSE
    OBVIOUS
  <2>1. Bad \subseteq Nat
    BY <1>1
  <2>2. PICK k \in Bad : \A l \in Bad : k <= l
    <3> HIDE DEF Bad
    <3> QED BY <2>1, LeastNumber
  <2>3. k \in 0 .. n /\ ~Good(k) /\ k \in Nat
    BY <1>1, <2>2
  <2>4. k # 0
    <3>1. Good(0)
      <4>1. SubSeq(path, 1, 0) = <<>>
        BY SubSeqEmpty
      <4>2. w[0] = Root /\ Root \in 0 .. ninodes /\ PathOf(Root) = <<>>
        BY <1>1, <1>2 DEF Root, PathOf
      <4> HIDE DEF PathOf
      <4> QED BY <4>1, <4>2
    <3> HIDE DEF Good
    <3> QED BY <2>3, <3>1
  <2>. PICK j : j = k - 1
    OBVIOUS
  <2>5. j \in 0 .. n /\ j < k /\ j = k - 1 /\ k \in 1 .. n /\ k \in 1 .. Len(path)
    BY <1>1, <2>3, <2>4
  <2>6. Good(j)
    <3>1. j \notin Bad
      <4> HIDE DEF Bad
      <4> QED BY <1>1, <2>2, <2>3, <2>5
    <3> QED BY <2>5, <3>1
  <2>7. w[k] = IF w[j] = -1 THEN -1 ELSE SearchInode(path[k], w[j])
    BY <1>2, <2>5
  <2>8. w[k] # -1 /\ w[j] # -1 /\ w[k] = SearchInode(path[k], w[j])
    BY <2>3, <2>7
  <2>9. /\ w[k] \in 1 .. ninodes /\ inodes[w[k]].parentid = w[j] /\ inodes[w[k]].name = path[k]
    BY <2>8, SearchIs
  <2>10. PathOf(w[j]) = SubSeq(path, 1, j)
    BY <2>6, <2>8
  <2>11. PathOf(w[k]) = Append(SubSeq(path, 1, j), path[k])
    BY <2>9, <2>10, PathStep
  <2>12. SubSeq(path, 1, k) = Append(SubSeq(path, 1, j), path[k])
    BY <2>5, PrefixStep
  <2>13. w[k] \in 0 .. ninodes
    BY <1>1, <2>9
  <2> QED BY <2>3, <2>11, <2>12, <2>13
<1>4. Good(n)
  BY <1>1, <1>3
<1> QED BY <1>2, <1>4

\* Every beginning of an inode's path is the path of an inode.
LEMMA Ancestors ==
  ASSUME TableType, TreeInv, NEW k \in 0 .. ninodes, NEW n \in 0 .. Len(PathOf(k))
  PROVE  \E a \in 0 .. ninodes : PathOf(a) = SubSeq(PathOf(k), 1, n)
<1> DEFINE Good(c) == \A m \in 0 .. Len(PathOf(c)) :
                        \E a \in 0 .. ninodes : PathOf(a) = SubSeq(PathOf(c), 1, m)
           Bad == {c \in 0 .. ninodes : ~Good(c)}
<1>1. ninodes \in Nat
  BY DEF TableType, ninodes
<1>2. Bad = {}
  <2> SUFFICES ASSUME Bad # {} PROVE FALSE
    OBVIOUS
  <2>1. Bad \subseteq Nat
    BY <1>1
  <2>2. PICK c \in Bad : \A l \in Bad : c <= l
    <3> HIDE DEF Bad
    <3> QED BY <2>1, LeastNumber
  <2>3. c \in 0 .. ninodes /\ ~Good(c)
    BY <2>2
  <2>4. PICK m \in 0 .. Len(PathOf(c)) : \A a \in 0 .. ninodes : PathOf(a) # SubSeq(PathOf(c), 1, m)
    BY <2>3
  <2>5. PathOf(c) \in Seq(Names) /\ Len(PathOf(c)) \in Nat
    BY <2>3, PathTyped
  <2>6. m # Len(PathOf(c))
    <3>1. SubSeq(PathOf(c), 1, Len(PathOf(c))) = PathOf(c)
      BY <2>5, SubSeqFull
    <3> QED BY <2>3, <2>4, <3>1
  <2>7. c \in 1 .. ninodes
    <3>1. c # Root
      BY <2>3, <2>4, <2>6, PathTyped
    <3> QED BY <1>1, <2>3, <3>1 DEF Root
  <2>. PICK d : d = inodes[c].parentid
    OBVIOUS
  <2>8. d \in 0 .. ninodes /\ d < c /\ Len(PathOf(c)) = Len(PathOf(d)) + 1
        /\ \A x \in 0 .. Len(PathOf(d)) : SubSeq(PathOf(c), 1, x) = SubSeq(PathOf(d), 1, x)
    BY <2>7, PathStep
  <2>9. m \in 0 .. Len(PathOf(d))
    <3>1. Len(PathOf(d)) \in Nat
      BY <2>8, PathTyped
    <3> QED BY <2>5, <2>6, <2>8, <3>1
  <2>10. Good(d)
    <3>1. d \notin Bad
      <4> HIDE DEF Bad
      <4> QED BY <1>1, <2>2, <2>3, <2>8
    <3> QED BY <2>8, <3>1
  <2>11. PICK a \in 0 .. ninodes : PathOf(a) = SubSeq(PathOf(d), 1, m)
    BY <2>9, <2>10
  <2> QED BY <2>4, <2>8, <2>9, <2>11
<1>3. Good(k)
  BY <1>2
<1> QED BY <1>3

LEMMA AppendEqual ==
  ASSUME NEW s \in Seq(Names), NEW t \in Seq(Names), NEW e \in Names, NEW f \in Names,
         Append(s, e) = Append(t, f)
  PROVE  s = t /\ e = f
BY AppendInjective

\* An inode whose path ends with a name has that name and the rest above it.
LEMMA PathSplit ==
  ASSUME TableType, TreeInv, NEW k \in 1 .. ninodes, NEW t \in Seq(Names), NEW f \in Names,
         PathOf(k) = Append(t, f)
  PROVE  PathOf(inodes[k].parentid) = t /\ inodes[k].name = f
<1>. PICK d, s, e : d = inodes[k].parentid /\ s = PathOf(d) /\ e = inodes[k].name
  OBVIOUS
<1>1. d \in 0 .. ninodes /\ PathOf(k) = Append(s, e) /\ e \in Names
  BY PathStep, NodeFacts
<1>2. s \in Seq(Names)
  BY <1>1, PathTyped
<1>3. s \in Seq(Names) /\ t \in Seq(Names) /\ e \in Names /\ f \in Names /\ Append(s, e) = Append(t, f)
  BY <1>1, <1>2
<1>4. s = t /\ e = f
  BY ONLY <1>3, AppendEqual
<1> QED BY <1>4

\* Walk reaches the inode with the path it was called with.
LEMMA WalkComplete ==
  ASSUME TableType, TreeInv, NEW path \in Seq(Names), NEW n \in 0 .. Len(path),
         NEW id \in 0 .. ninodes, PathOf(id) = SubSeq(path, 1, n)
  PROVE  Walk(path, n) = id
<1>1. n \in Nat /\ Len(path) \in Nat /\ ninodes \in Nat
  BY LenProperties DEF TableType, ninodes
<1>2. PICK w : /\ Walk(path, n) = w[n]
               /\ w[0] = Root
               /\ \A k \in 1 .. n : w[k] = IF w[k - 1] = -1 THEN -1 ELSE SearchInode(path[k], w[k - 1])
  <2>1. n \in Nat
    BY <1>1
  <2> QED BY ONLY <2>1, WalkIs
<1> DEFINE Good(k) == \A a \in 0 .. ninodes : PathOf(a) = SubSeq(path, 1, k) => w[k] = a
           Bad == {k \in 0 .. n : ~Good(k)}
<1>3. Bad = {}
  <2> SUFFICES ASSUME Bad # {} PROVE FALSE
    OBVIOUS
  <2>1. Bad \subseteq Nat
    BY <1>1
  <2>2. PICK k \in Bad : \A l \in Bad : k <= l
    <3> HIDE DEF Bad
    <3> QED BY <2>1, LeastNumber
  <2>3. k \in 0 .. n /\ ~Good(k) /\ k \in Nat
    BY <1>1, <2>2
  <2>4. PICK a \in 0 .. ninodes : PathOf(a) = SubSeq(path, 1, k) /\ w[k] # a
    BY <2>3
  <2>5. k # 0
    <3> SUFFICES ASSUME k = 0 PROVE FALSE
      OBVIOUS
    <3>1. PathOf(a) = <<>>
      BY <2>4, SubSeqEmpty
    <3>2. a = Root
      BY <3>1, PathTyped
    <3> QED BY <1>2, <2>4, <3>2
  <2>. PICK j : j = k - 1
    OBVIOUS
  <2>6. j \in 0 .. n /\ j < k /\ j = k - 1 /\ k \in 1 .. n /\ k \in 1 .. Len(path) /\ j \in Nat
    BY <1>1, <2>3, <2>5
  <2>7. Good(j)
    <3>1. j \notin Bad
      <4> HIDE DEF Bad
      <4> QED BY <1>1, <2>2, <2>3, <2>6
    <3> QED BY <2>6, <3>1
  <2>8. /\ SubSeq(path, 1, k) = Append(SubSeq(path, 1, j), path[k])
        /\ SubSeq(path, 1, j) \in Seq(Names) /\ path[k] \in Names /\ Len(SubSeq(path, 1, k)) = k
    BY <2>6, PrefixStep
  <2>9. a \in 1 .. ninodes
    <3>1. a # Root
      BY <2>4, <2>5, <2>8, PathTyped
    <3> QED BY <1>1, <3>1 DEF Root
  <2>. PICK d : d = inodes[a].parentid
    OBVIOUS
  <2>10. d \in 0 .. ninodes /\ PathOf(a) = Append(PathOf(d), inodes[a].name)
    BY <2>9, PathStep
  <2>11. PathOf(d) = SubSeq(path, 1, j) /\ inodes[a].name = path[k]
    <3>. PICK t, f : t = SubSeq(path, 1, j) /\ f = path[k]
      OBVIOUS
    <3>1. t \in Seq(Names) /\ f \in Names /\ PathOf(a) = Append(t, f)
      BY <2>4, <2>8
    <3> QED BY <2>9, <3>1, PathSplit
  <2>12. w[j] = d
    BY <2>7, <2>10, <2>11
  <2>13. w[k] = SearchInode(path[k], d)
    <3>1. d # -1
      BY <1>1, <2>10
    <3>2. w[k] = IF w[j] = -1 THEN -1 ELSE SearchInode(path[k], w[j])
      BY <1>2, <2>6
    <3> QED BY <2>12, <3>1, <3>2
  <2>14. w[k] \in 1 .. ninodes /\ inodes[w[k]].parentid = d /\ inodes[w[k]].name = path[k]
    BY <2>9, <2>11, <2>13, SearchIs
  <2>15. PathOf(w[k]) = PathOf(a) /\ w[k] \in 0 .. ninodes
    BY <2>10, <2>11, <2>14, PathStep
  <2> QED BY <2>4, <2>15, PathsDiffer
<1>4. Good(n)
  BY <1>1, <1>3
<1> QED BY <1>2, <1>4

\* GetFullPath gives the path of the header the inode was made from.
LEMMA FullPathIs ==
  ASSUME TableType, TreeInv, NEW id \in 0 .. ninodes
  PROVE  FullPath(id) = PathOf(id)
<1>1. ninodes \in Nat
  BY DEF TableType, ninodes
<1> DEFINE at(v, n, k) == IF n = 0 \/ k = Root THEN <<>> ELSE Append(v[inodes[k].parentid], inodes[k].name)
           row(v, n) == [k \in 0 .. ninodes |-> at(v, n, k)]
           IsFull(f, m) == f = [n \in 0 .. m |-> row(f[n - 1], n)]
           Bad == {m \in Nat : ~ \E f : IsFull(f, m)}
<1>2. Bad = {}
  <2> SUFFICES ASSUME Bad # {} PROVE FALSE
    OBVIOUS
  <2>1. Bad \subseteq Nat
    OBVIOUS
  <2>2. PICK m \in Bad : \A l \in Bad : m <= l
    <3> HIDE DEF Bad
    <3> QED BY <2>1, LeastNumber
  <2>3. m \in Nat /\ ~ \E f : IsFull(f, m)
    BY <2>2
  <2>4. row(0, 0) = [k \in 0 .. ninodes |-> <<>>] /\ \A v : row(v, 0) = row(0, 0)
    OBVIOUS
  <2> HIDE DEF row
  <2>5. m # 0
    <3> SUFFICES ASSUME m = 0 PROVE FALSE
      OBVIOUS
    <3>. PICK f : f = [n \in 0 .. 0 |-> row(0, 0)]
      OBVIOUS
    <3>1. \A n \in 0 .. 0 : n = 0 /\ row(f[n - 1], n) = row(0, 0)
      BY <2>4
    <3>2. f = [n \in 0 .. 0 |-> row(f[n - 1], n)]
      BY <3>1
    <3> QED BY <2>3, <3>2
  <2>6. m - 1 \in Nat /\ m - 1 \notin Bad
    <3> HIDE DEF Bad
    <3> QED BY <2>2, <2>3, <2>5
  <2>7. PICK f : IsFull(f, m - 1)
    BY <2>6
  <2> HIDE DEF Bad
  <2>. PICK g : g = [n \in 0 .. m |-> row(f[n - 1], n)]
    OBVIOUS
  <2>8. \A n \in 0 .. m : n # m => g[n] = f[n]
    <3> SUFFICES ASSUME NEW n \in 0 .. m, n # m PROVE g[n] = f[n]
      OBVIOUS
    <3>1. n \in 0 .. m - 1
      BY <2>3
    <3>2. f[n] = row(f[n - 1], n)
      BY <2>7, <3>1
    <3> QED BY <3>2
  <2>9. \A n \in 0 .. m : row(f[n - 1], n) = row(g[n - 1], n)
    <3> SUFFICES ASSUME NEW n \in 0 .. m PROVE row(f[n - 1], n) = row(g[n - 1], n)
      OBVIOUS
    <3>1. CASE n = 0
      <4>1. row(f[n - 1], 0) = row(0, 0) /\ row(g[n - 1], 0) = row(0, 0)
        BY <2>4
      <4> QED BY <3>1, <4>1
    <3>2. CASE n # 0
      <4>1. n - 1 \in 0 .. m /\ n - 1 # m
        BY <2>3, <3>2
      <4> QED BY <2>8, <4>1
    <3> QED BY <3>1, <3>2
  <2>10. IsFull(g, m)
    BY <2>9
  <2> QED BY <2>3, <2>10
<1>3. \E f : IsFull(f, ninodes)
  BY <1>1, <1>2
<1> DEFINE full == CHOOSE f : IsFull(f, ninodes)
<1>4. FullPath(id) = full[ninodes][id]
  BY DEF FullPath
<1> HIDE DEF IsFull
<1>5. IsFull(full, ninodes)
  BY <1>3, Zenon
<1> USE DEF IsFull
<1> HIDE DEF full, row
<1>6. \A n \in 0 .. ninodes : full[n] = row(full[n - 1], n)
  BY <1>5
<1>7. \A n, k \in 0 .. ninodes : full[n][k] = at(full[n - 1], n, k)
  <2> SUFFICES ASSUME NEW n \in 0 .. ninodes, NEW k \in 0 .. ninodes
               PROVE  full[n][k] = at(full[n - 1], n, k)
    OBVIOUS
  <2> HIDE DEF at
  <2>1. row(full[n - 1], n)[k] = at(full[n - 1], n, k)
    BY DEF row
  <2> QED BY <1>6, <2>1
\* A row n knows the paths of the inodes up to n.
<1> DEFINE Good(n) == \A k \in 0 .. n : full[n][k] = PathOf(k)
           Wrong == {n \in 0 .. ninodes : ~Good(n)}
<1>8. Wrong = {}
  <2> SUFFICES ASSUME Wrong # {} PROVE FALSE
    OBVIOUS
  <2>1. Wrong \subseteq Nat
    BY <1>1
  <2>2. PICK n \in Wrong : \A l \in Wrong : n <= l
    <3> HIDE DEF Wrong
    <3> QED BY <2>1, LeastNumber
  <2>3. n \in 0 .. ninodes /\ ~Good(n) /\ n \in Nat
    BY <1>1, <2>2
  <2>4. PICK k \in 0 .. n : full[n][k] # PathOf(k)
    BY <2>3
  <2>5. k \in 0 .. ninodes /\ full[n][k] = at(full[n - 1], n, k)
    BY <1>1, <1>7, <2>3
  <2>6. k # Root /\ n # 0
    <3>1. CASE k = Root
      BY <2>4, <2>5, <3>1 DEF PathOf
    <3>2. CASE n = 0
      <4>1. k = Root
        BY <3>2 DEF Root
      <4> QED BY <3>1, <4>1
    <3> QED BY <3>1, <3>2
  <2>. PICK d : d = inodes[k].parentid
    OBVIOUS
  <2>7. k \in 1 .. ninodes
    BY <1>1, <2>5, <2>6 DEF Root
  <2>8. d \in 0 .. ninodes /\ d < k /\ PathOf(k) = Append(PathOf(d), inodes[k].name)
    BY <2>7, PathStep
  <2>. PICK m : m = n - 1
    OBVIOUS
  <2>9. m \in 0 .. ninodes /\ m < n /\ d \in 0 .. m
    BY <1>1, <2>3, <2>6, <2>7, <2>8
  <2>10. Good(m)
    <3>1. m \notin Wrong
      <4> HIDE DEF Wrong
      <4> QED BY <1>1, <2>2, <2>3, <2>9
    <3> QED BY <2>9, <3>1
  <2>11. full[n][k] = Append(full[m][d], inodes[k].name)
    BY <2>5, <2>6
  <2>12. full[m][d] = PathOf(d)
    BY <2>9, <2>10
  <2> QED BY <2>4, <2>8, <2>11, <2>12
<1>9. full[ninodes][id] = PathOf(id)
  BY <1>1, <1>8
<1> QED BY <1>4, <1>9

LEMMA TableInit == Init => TableType /\ TreeInv
<1> SUFFICES ASSUME Init PROVE TableType /\ TreeInv
  OBVIOUS
<1>1. input = <<>> /\ done = 0 /\ inodes = <<>> /\ stack = <<>>
  BY DEF Init
<1>2. Len(input) = 0 /\ ninodes = 0
  BY <1>1 DEF ninodes
<1>3. TableType
  BY <1>1, <1>2 DEF TableType
<1>4. TreeInv
  BY <1>1, <1>2 DEF TreeInv
<1> QED BY <1>3, <1>4

\* An inode keeps its path when headers are added and other fields change.
LEMMA NodeKeep ==
  ASSUME TableType, TreeInv, NEW k \in 1 .. ninodes, done' \in Nat, done <= done',
         \A l \in 1 .. ninodes : /\ inodes'[l].content = inodes[l].content
                                 /\ inodes'[l].parentid = inodes[l].parentid
                                 /\ inodes'[l].name = inodes[l].name,
         \A h \in 1 .. done : input'[h] = input[h]
  PROVE  PathOf(k)' = PathOf(k) /\ NodeInv(k)'
<1>1. ninodes \in Nat /\ done \in Nat /\ k \in Nat
  BY NodeFacts DEF TableType
<1>2. ASSUME NEW l \in 0 .. ninodes PROVE PathOf(l)' = PathOf(l)
  <2>1. CASE l = Root
    BY <2>1 DEF PathOf, Root
  <2>2. CASE l # Root
    <3>1. l \in 1 .. ninodes
      BY <1>1, <2>2 DEF Root
    <3>2. inodes[l].content \in 1 .. done
      BY <3>1 DEF TreeInv, NodeInv
    <3> QED BY <2>2, <3>1, <3>2 DEF PathOf, Root
  <2> QED BY <2>1, <2>2
<1>. PICK c, d : c = inodes[k].content /\ d = inodes[k].parentid
  OBVIOUS
<1>3. /\ c \in 1 .. done /\ d \in 0 .. k - 1 /\ PathOf(k) = Append(PathOf(d), inodes[k].name)
      /\ \A h \in 1 .. c - 1 : input[h].path # PathOf(k)
  BY DEF TreeInv, NodeInv
<1>4. inodes'[k].content = c /\ inodes'[k].parentid = d /\ inodes'[k].name = inodes[k].name
  OBVIOUS
<1>5. PathOf(k)' = PathOf(k) /\ PathOf(d)' = PathOf(d)
  BY <1>1, <1>2, <1>3
<1>6. c \in 1 .. done'
  BY <1>1, <1>3
<1>7. \A h \in 1 .. c - 1 : input'[h] = input[h]
  BY <1>1, <1>3
<1>8. (PathOf(inodes[k].parentid))' = PathOf(d)
  BY <1>4, <1>5 DEF PathOf
<1> QED BY <1>3, <1>4, <1>5, <1>6, <1>7, <1>8 DEF NodeInv

LEMMA KindIs == \A type : Kind(type) \in {"dir", "file", "link"}
BY DEF Kind

\* What MergeFile knows of a header that does not make it give up.
LEMMA MergeFacts ==
  ASSUME TableType, TreeInv, Merging, ~Fails
  PROVE  /\ ph \in FileHeaders /\ ph.path \in Seq(Names) /\ Len(ph.path) \in Nat \ {0}
         /\ Parent \in 0 .. ninodes /\ ph.path[Len(ph.path)] \in Names
         /\ ph.path = Append(PathOf(Parent), ph.path[Len(ph.path)])
         /\ done + 1 \in 1 .. Len(input) /\ done \in Nat /\ ninodes \in Nat
<1>1. done + 1 \in 1 .. Len(input) /\ done \in Nat /\ ninodes \in Nat
  BY DEF Merging, TableType, ninodes
<1>2. ph \in FileHeaders
  BY <1>1 DEF ph, TableType
<1>3. ph.path \in Seq(Names) /\ Len(ph.path) \in Nat \ {0}
  BY <1>2, HeaderFacts
<1>. PICK path, n : path = ph.path /\ n = Len(path)
  OBVIOUS
<1>4. path \in Seq(Names) /\ n \in 1 .. Len(path) /\ n - 1 \in 0 .. Len(path)
  BY <1>3
<1>5. Parent # -1 /\ Parent = Walk(path, n - 1)
  BY DEF Fails, Parent
<1>6. Parent \in 0 .. ninodes /\ PathOf(Parent) = SubSeq(path, 1, n - 1)
  BY <1>4, <1>5, WalkSound
<1>7. SubSeq(path, 1, n) = Append(SubSeq(path, 1, n - 1), path[n]) /\ path[n] \in Names
  BY <1>4, PrefixStep
<1>8. SubSeq(path, 1, n) = path
  BY <1>4, SubSeqFull
<1>9. path = Append(PathOf(Parent), path[n])
  BY <1>6, <1>7, <1>8
<1> QED BY <1>1, <1>2, <1>3, <1>6, <1>7, <1>9

\* MergeFile looks for the name in the parent: that finds the path if it is there.
LEMMA ExistsIs ==
  ASSUME TableType, TreeInv, Merging, ~Fails
  PROVE  Exists <=> \E k \in 1 .. ninodes : PathOf(k) = ph.path
<1>. PICK path, name, d : path = ph.path /\ name = ph.path[Len(ph.path)] /\ d = Parent
  OBVIOUS
<1>1. d \in 0 .. ninodes /\ name \in Names /\ path = Append(PathOf(d), name) /\ ninodes \in Nat
  BY MergeFacts
<1>2. PathOf(d) \in Seq(Names)
  BY <1>1, PathTyped
<1>3. Exists <=> SearchInode(name, d) # -1
  BY DEF Exists
<1>4. ASSUME Exists PROVE \E k \in 1 .. ninodes : PathOf(k) = path
  <2>. PICK k : k = SearchInode(name, d)
    OBVIOUS
  <2>1. k \in 1 .. ninodes /\ inodes[k].parentid = d /\ inodes[k].name = name
    BY <1>3, <1>4, SearchIs
  <2>2. PathOf(k) = Append(PathOf(d), name)
    BY <2>1, PathStep
  <2> QED BY <1>1, <2>1, <2>2
<1>5. ASSUME NEW k \in 1 .. ninodes, PathOf(k) = path PROVE Exists
  <2>. PICK b, t : b = inodes[k].parentid /\ t = PathOf(d)
    OBVIOUS
  <2>1. b \in 0 .. ninodes
    BY PathStep
  <2>2. t \in Seq(Names) /\ name \in Names /\ PathOf(k) = Append(t, name)
    BY <1>1, <1>2, <1>5
  <2>3. PathOf(b) = t /\ inodes[k].name = name
    BY <2>2, PathSplit
  <2>4. b = d
    BY <1>1, <2>1, <2>3, PathsDiffer
  <2>6. inodes[k].parentid = d /\ inodes[k].name = name
    BY <2>3, <2>4
  <2>7. SearchInode(name, d) # -1
    BY ONLY <2>6, SearchIs, TableType, k \in 1 .. ninodes
  <2> QED BY <1>3, <2>7
<1> QED BY <1>4, <1>5

LEMMA TableCall ==
  ASSUME TableType, TreeInv, CallMergeFile
  PROVE  TableType' /\ TreeInv'
<1>1. PICK h \in FileHeaders : input' = Append(input, h)
  BY DEF CallMergeFile
<1>2. done' = done /\ inodes' = inodes /\ stack' = stack /\ ninodes' = ninodes /\ done \in Nat
  BY DEF CallMergeFile, ninodes, TableType
<1>3. /\ input' \in Seq(FileHeaders) /\ Len(input') = Len(input) + 1 /\ Len(input) \in Nat
      /\ \A k \in 1 .. Len(input) : input'[k] = input[k]
  BY <1>1, AppendProperties, LenProperties DEF TableType
<1>4. \A k \in 1 .. done : input'[k] = input[k]
  BY <1>2, <1>3 DEF TableType
<1>5. \A k \in 1 .. ninodes : PathOf(k)' = PathOf(k) /\ NodeInv(k)'
  BY <1>2, <1>4, NodeKeep
<1>6. TableType'
  BY <1>2, <1>3 DEF TableType
<1>7. TreeInv'
  BY <1>2, <1>4, <1>5 DEF TreeInv
<1> QED BY <1>6, <1>7

LEMMA TableExists ==
  ASSUME TableType, TreeInv, MergeExists
  PROVE  TableType' /\ TreeInv'
<1>1. /\ Merging /\ ~Fails /\ Exists
      /\ done' = done + 1 /\ input' = input /\ inodes' = inodes /\ stack' = stack /\ ninodes' = ninodes
  BY DEF MergeExists, ninodes
<1>2. done + 1 \in 1 .. Len(input) /\ done \in Nat /\ done' \in Nat
  BY <1>1, MergeFacts
<1>3. PICK k \in 1 .. ninodes : PathOf(k) = input[done + 1].path
  BY <1>1, ExistsIs DEF ph
<1>4. \A l \in 1 .. ninodes : PathOf(l)' = PathOf(l) /\ NodeInv(l)'
  BY <1>1, <1>2, NodeKeep
<1>5. TableType'
  BY <1>1, <1>2 DEF TableType
<1>6. \A h \in 1 .. done + 1 : \E l \in 1 .. ninodes : PathOf(l) = input[h].path
  <2> SUFFICES ASSUME NEW h \in 1 .. done + 1 PROVE \E l \in 1 .. ninodes : PathOf(l) = input[h].path
    OBVIOUS
  <2>1. CASE h = done + 1
    BY <1>3, <2>1
  <2>2. CASE h \in 1 .. done
    BY <2>2 DEF TreeInv
  <2> QED BY <1>2, <2>1, <2>2
<1>7. TreeInv'
  BY <1>1, <1>4, <1>6 DEF TreeInv
<1> QED BY <1>5, <1>7

LEMMA TableNew ==
  ASSUME TableType, TreeInv, MergeNew
  PROVE  TableType' /\ TreeInv'
<1>1. /\ Merging /\ ~Fails /\ ~Exists
      /\ done' = done + 1 /\ input' = input /\ stack' = stack
  BY DEF MergeNew
<1>2. /\ done + 1 \in 1 .. Len(input) /\ done \in Nat /\ ninodes \in Nat /\ Parent \in 0 .. ninodes
      /\ ph \in FileHeaders /\ ph.path[Len(ph.path)] \in Names
      /\ ph.path = Append(PathOf(Parent), ph.path[Len(ph.path)])
  BY <1>1, MergeFacts
<1>. PICK m, r : /\ m = ninodes + 1
                 /\ r = [name |-> ph.path[Len(ph.path)], parentid |-> Parent, kind |-> Kind(ph.type),
                         content |-> done + 1, big |-> ph.big, compressed |-> FALSE, src |-> FALSE]
  OBVIOUS
<1>3. r \in Inode
  <2>1. ph.big \in BOOLEAN /\ Kind(ph.type) \in {"dir", "file", "link"} /\ Parent \in Nat /\ done + 1 \in Nat
    BY <1>2, HeaderFacts, KindIs
  <2> HIDE DEF Parent, ph
  <2> QED BY <1>2, <2>1 DEF Inode
<1>4. /\ inodes' \in Seq(Inode) /\ ninodes' = m /\ m \in Nat /\ inodes'[m] = r
      /\ \A l \in 1 .. ninodes : inodes'[l] = inodes[l]
  <2>1. inodes' = Append(inodes, r)
    BY DEF MergeNew
  <2> HIDE DEF Parent, ph
  <2>2. inodes \in Seq(Inode) /\ ninodes = Len(inodes) /\ ninodes' = Len(inodes')
    BY DEF TableType, ninodes
  <2> QED BY <1>2, <1>3, <2>1, <2>2, AppendProperties
<1>5. r.name = ph.path[Len(ph.path)] /\ r.parentid = Parent /\ r.content = done + 1
  OBVIOUS
<1>6. \A l \in 1 .. ninodes : PathOf(l)' = PathOf(l) /\ NodeInv(l)'
  <2>1. done' \in Nat /\ done <= done'
    BY <1>1, <1>2
  <2>2. \A l \in 1 .. ninodes : /\ inodes'[l].content = inodes[l].content
                               /\ inodes'[l].parentid = inodes[l].parentid
                               /\ inodes'[l].name = inodes[l].name
    BY <1>4
  <2>3. \A h \in 1 .. done : input'[h] = input[h]
    BY <1>1
  <2> QED BY ONLY TableType, TreeInv, <2>1, <2>2, <2>3, NodeKeep
<1>7. \A l \in 0 .. ninodes : PathOf(l)' = PathOf(l)
  <2>1. PathOf(Root)' = PathOf(Root)
    BY DEF PathOf, Root
  <2> QED BY <1>2, <1>6, <2>1 DEF Root
<1>8. PathOf(m)' = ph.path
  BY <1>1, <1>2, <1>4, <1>5 DEF PathOf, Root, ph
<1>9. NodeInv(m)'
  <2>1. inodes'[m].content \in 1 .. done'
    BY <1>1, <1>2, <1>4, <1>5
  <2>2. inodes'[m].parentid \in 0 .. m - 1 /\ inodes'[m].parentid = Parent
    BY <1>2, <1>4, <1>5
  <2>3. (PathOf(inodes[m].parentid))' = PathOf(Parent)
    <3>1. (PathOf(inodes[m].parentid))' = IF inodes'[m].parentid = Root THEN <<>> ELSE
                 input'[inodes'[inodes'[m].parentid].content].path
      BY DEF PathOf, Root
    <3>. PICK d : d = Parent
      OBVIOUS
    <3>2. PathOf(d)' = IF d = Root THEN <<>> ELSE input'[inodes'[d].content].path
      BY DEF PathOf, Root
    <3>3. PathOf(d)' = PathOf(d)
      BY <1>2, <1>7
    <3> QED BY <2>2, <3>1, <3>2, <3>3
  <2>4. PathOf(m)' = Append((PathOf(inodes[m].parentid))', inodes'[m].name)
    BY <1>2, <1>4, <1>5, <1>8, <2>3
  <2>5. \A h \in 1 .. inodes'[m].content - 1 : input'[h].path # PathOf(m)'
    <3> SUFFICES ASSUME NEW h \in 1 .. done, input[h].path = ph.path PROVE FALSE
      BY <1>1, <1>2, <1>4, <1>5, <1>8
    <3>1. PICK l \in 1 .. ninodes : PathOf(l) = input[h].path
      BY DEF TreeInv
    <3> QED BY <1>1, <3>1, ExistsIs
  <2> QED BY <2>1, <2>2, <2>4, <2>5 DEF NodeInv
<1>10. TableType'
  BY <1>1, <1>2, <1>4 DEF TableType
<1>11. \A k \in 1 .. ninodes : PathOf(k) # ph.path
  BY <1>1, ExistsIs
<1>12. \A k \in 1 .. m : k = m \/ k \in 1 .. ninodes
  BY <1>2
<1>13. \A k, l \in 1 .. m : PathOf(k)' = PathOf(l)' => k = l
  <2>1. \A k, l \in 1 .. ninodes : PathOf(k) = PathOf(l) => k = l
    BY DEF TreeInv
  <2> QED BY <1>6, <1>8, <1>11, <1>12, <2>1
<1>14. \A h \in 1 .. done + 1 : \E k \in 1 .. m : PathOf(k)' = input'[h].path
  <2> SUFFICES ASSUME NEW h \in 1 .. done + 1 PROVE \E k \in 1 .. m : PathOf(k)' = input'[h].path
    OBVIOUS
  <2>1. CASE h = done + 1
    <3>1. m \in 1 .. m
      BY <1>2
    <3> QED BY <1>1, <1>8, <2>1, <3>1 DEF ph
  <2>2. CASE h \in 1 .. done
    <3>1. PICK k \in 1 .. ninodes : PathOf(k) = input[h].path
      BY <2>2 DEF TreeInv
    <3>2. k \in 1 .. m
      BY <1>2
    <3> QED BY <1>1, <1>6, <3>1, <3>2
  <2> QED BY <1>2, <2>1, <2>2
<1>15. \A k \in 1 .. m : NodeInv(k)'
  BY <1>6, <1>9, <1>12
<1>16. TreeInv'
  BY <1>1, <1>4, <1>13, <1>14, <1>15 DEF TreeInv
<1> QED BY <1>10, <1>16

-----------------------------------------------------------------------------
(* WalkDir: the stack and the marks *)

Frames == Nat \X (Nat \ {0})

LEMMA WalkingFacts ==
  ASSUME TableType, Walking
  PROVE  /\ Len(stack) \in Nat \ {0} /\ stack[1] = <<dirid, i>> /\ 1 \in 1 .. Len(stack)
         /\ dirid \in Nat /\ i \in Nat \ {0} /\ ninodes \in Nat /\ stack \in Seq(Frames)
         /\ \A j \in 1 .. Len(stack) : stack[j] \in Frames
<1>1. stack \in Seq(Frames) /\ stack # <<>> /\ ninodes \in Nat
  BY DEF TableType, Walking, ninodes, Frames
<1>2. Len(stack) \in Nat \ {0}
  BY <1>1, EmptySeq
<1>3. 1 \in 1 .. Len(stack) /\ \A j \in 1 .. Len(stack) : stack[j] \in Frames
  BY <1>1, <1>2
<1>4. stack[1] \in Frames
  BY <1>3
<1>5. stack[1] = <<dirid, i>> /\ dirid \in Nat /\ i \in Nat \ {0}
  BY <1>4 DEF Frames, dirid, i
<1> QED BY <1>1, <1>2, <1>3, <1>5

LEMMA ReturnIs ==
  ASSUME TableType, Walking
  PROVE  /\ Tail(stack) \in Seq(Frames) /\ Len(Tail(stack)) = Len(stack) - 1
         /\ \A j \in 1 .. Len(stack) - 1 : Tail(stack)[j] = stack[j + 1]
<1>1. stack \in Seq(Frames) /\ stack # <<>>
  BY WalkingFacts DEF Walking
<1> QED BY <1>1, HeadTailProperties

LEMMA AdvanceIs ==
  ASSUME TableType, Walking
  PROVE  /\ Advance \in Seq(Frames) /\ Len(Advance) = Len(stack)
         /\ Advance[1] = <<dirid, i + 1>>
         /\ \A j \in 1 .. Len(stack) : j # 1 => Advance[j] = stack[j]
<1>. PICK t, a, n : t = Tail(stack) /\ a = <<<<dirid, i + 1>>>> /\ n = Len(stack)
  OBVIOUS
<1>1. /\ t \in Seq(Frames) /\ Len(t) = n - 1 /\ n \in Nat \ {0}
      /\ \A j \in 1 .. n - 1 : t[j] = stack[j + 1]
  BY ReturnIs, WalkingFacts
<1>2. a \in Seq(Frames) /\ Len(a) = 1 /\ a[1] = <<dirid, i + 1>>
  <2>1. <<dirid, i + 1>> \in Frames
    BY WalkingFacts DEF Frames
  <2> QED BY <2>1
<1>3. Advance = a \o t
  BY DEF Advance
<1>4. /\ a \o t \in Seq(Frames) /\ Len(a \o t) = Len(a) + Len(t)
      /\ \A j \in 1 .. Len(a) + Len(t) : (a \o t)[j] = IF j <= Len(a) THEN a[j] ELSE t[j - Len(a)]
  BY ONLY <1>1, <1>2, ConcatProperties
<1>. PICK v : v = a \o t
  OBVIOUS
<1>5. v \in Seq(Frames) /\ Len(v) = n /\ \A j \in 1 .. n : v[j] = IF j <= 1 THEN a[j] ELSE t[j - 1]
  BY <1>1, <1>2, <1>4
<1>6. v[1] = <<dirid, i + 1>>
  BY <1>1, <1>2, <1>5
<1>7. \A j \in 1 .. n : j # 1 => v[j] = stack[j]
  <2> SUFFICES ASSUME NEW j \in 1 .. n, j # 1 PROVE v[j] = stack[j]
    OBVIOUS
  <2>1. v[j] = t[j - 1] /\ j - 1 \in 1 .. n - 1 /\ (j - 1) + 1 = j
    BY <1>1, <1>5
  <2>2. t[j - 1] = stack[(j - 1) + 1]
    BY <1>1, <2>1
  <2> QED BY <2>1, <2>2
<1> QED BY <1>3, <1>5, <1>6, <1>7

LEMMA PushIs ==
  ASSUME TableType, Walking, NEW v, v = <<<<i, 1>>>> \o Advance
  PROVE  /\ v \in Seq(Frames) /\ Len(v) = Len(stack) + 1
         /\ v[1] = <<i, 1>>
         /\ \A j \in 1 .. Len(stack) : v[j + 1] = Advance[j]
<1>. PICK t, a, n : t = Advance /\ a = <<<<i, 1>>>> /\ n = Len(stack)
  OBVIOUS
<1>1. t \in Seq(Frames) /\ Len(t) = n /\ n \in Nat
  BY AdvanceIs, WalkingFacts
<1>2. a \in Seq(Frames) /\ Len(a) = 1 /\ a[1] = <<i, 1>>
  <2>1. <<i, 1>> \in Frames
    BY WalkingFacts DEF Frames
  <2> QED BY <2>1
<1>3. v = a \o t
  OBVIOUS
<1>4. /\ a \o t \in Seq(Frames) /\ Len(a \o t) = Len(a) + Len(t)
      /\ \A j \in 1 .. Len(a) + Len(t) : (a \o t)[j] = IF j <= Len(a) THEN a[j] ELSE t[j - Len(a)]
  BY ONLY <1>1, <1>2, ConcatProperties
<1>5. v \in Seq(Frames) /\ Len(v) = n + 1 /\ \A j \in 1 .. n + 1 : v[j] = IF j <= 1 THEN a[j] ELSE t[j - 1]
  BY <1>1, <1>2, <1>3, <1>4
<1>6. v[1] = <<i, 1>>
  BY <1>1, <1>2, <1>5
<1>7. \A j \in 1 .. n : v[j + 1] = t[j]
  <2> SUFFICES ASSUME NEW j \in 1 .. n PROVE v[j + 1] = t[j]
    OBVIOUS
  <2>1. j + 1 \in 1 .. n + 1 /\ ~(j + 1 <= 1) /\ (j + 1) - 1 = j
    BY <1>1
  <2>2. v[j + 1] = t[(j + 1) - 1]
    BY <1>5, <2>1
  <2> QED BY <2>1, <2>2
<1> QED BY <1>5, <1>6, <1>7

\* WalkFile only sets the marks of the inode it writes.
LEMMA WalkFileIs ==
  ASSUME TableType, WalkFile
  PROVE  /\ i \in 1 .. ninodes /\ inodes' \in Seq(Inode) /\ ninodes' = ninodes
         /\ inodes'[i].src = Hidden(i) /\ inodes'[i].compressed = ShouldBeCompressed(inodes[i])
         /\ \A l \in 1 .. ninodes : l # i => inodes'[l] = inodes[l]
         /\ \A l \in 1 .. ninodes : /\ inodes'[l].content = inodes[l].content
                                    /\ inodes'[l].parentid = inodes[l].parentid
                                    /\ inodes'[l].name = inodes[l].name
                                    /\ inodes'[l].kind = inodes[l].kind
                                    /\ inodes'[l].big = inodes[l].big
<1>1. Walking /\ i <= ninodes /\ Child
  BY DEF WalkFile, Child
<1>. PICK m : m = i
  OBVIOUS
<1>2. m \in 1 .. ninodes /\ m \in Nat /\ inodes[m] \in Inode /\ inodes \in Seq(Inode) /\ ninodes = Len(inodes)
  BY <1>1, WalkingFacts, NodeFacts DEF TableType, ninodes
<1>. PICK a, b : a = Hidden(m) /\ b = ShouldBeCompressed(inodes[m])
  OBVIOUS
<1>3. a \in BOOLEAN /\ b \in BOOLEAN
  <2>1. a \in BOOLEAN
    BY DEF Hidden
  <2>2. b \in BOOLEAN
    BY DEF ShouldBeCompressed
  <2> QED BY <2>1, <2>2
<1>. PICK r : r = [inodes[m] EXCEPT !.src = a, !.compressed = b]
  OBVIOUS
<1>4. /\ r \in Inode /\ r.src = a /\ r.compressed = b
      /\ r.content = inodes[m].content /\ r.parentid = inodes[m].parentid /\ r.name = inodes[m].name
      /\ r.kind = inodes[m].kind /\ r.big = inodes[m].big
  BY <1>2, <1>3 DEF Inode
<1>5. inodes' = [inodes EXCEPT ![m] = r]
  <2>1. inodes' = [inodes EXCEPT ![m].src = a, ![m].compressed = b]
    BY DEF WalkFile
  <2> QED BY <1>2, <2>1 DEF Inode
<1>6. inodes' \in Seq(Inode) /\ Len(inodes') = Len(inodes) /\ inodes'[m] = r
      /\ \A l \in 1 .. ninodes : l # m => inodes'[l] = inodes[l]
  <2>. PICK t : t = inodes
    OBVIOUS
  <2>1. t \in Seq(Inode) /\ m \in 1 .. Len(t) /\ r \in Inode
    BY <1>2, <1>4
  <2>. PICK u : u = [t EXCEPT ![m] = r]
    OBVIOUS
  <2>2. u \in Seq(Inode)
    BY <2>1
  <2>3. Len(u) = Len(t)
    BY ONLY <2>1, u = [t EXCEPT ![m] = r], ExceptSeq
  <2>4. u[m] = r /\ \A l \in 1 .. Len(t) : l # m => u[l] = t[l]
    <3>1. DOMAIN t = 1 .. Len(t)
      BY <2>1, LenProperties
    <3>2. u[m] = r
      BY <2>1, <3>1
    <3>3. \A l \in 1 .. Len(t) : l # m => u[l] = t[l]
      BY <3>1
    <3> QED BY <3>2, <3>3
  <2>5. inodes' = u
    BY <1>5
  <2> QED BY <1>2, <2>2, <2>3, <2>4, <2>5
<1>7. ninodes' = ninodes
  BY <1>6 DEF ninodes
<1>8. inodes'[m].src = a /\ inodes'[m].compressed = b
  BY <1>4, <1>6
<1>9. \A l \in 1 .. ninodes : /\ inodes'[l].content = inodes[l].content
                              /\ inodes'[l].parentid = inodes[l].parentid
                              /\ inodes'[l].name = inodes[l].name
                              /\ inodes'[l].kind = inodes[l].kind
                              /\ inodes'[l].big = inodes[l].big
  BY <1>2, <1>4, <1>6
<1> QED BY <1>2, <1>6, <1>7, <1>8, <1>9

LEMMA TableWalk ==
  ASSUME TableType, TreeInv, WalkDir
  PROVE  TableType' /\ TreeInv'
<1>1. ASSUME inodes' = inodes, input' = input, done' = done, stack' \in Seq(Frames)
      PROVE  TableType' /\ TreeInv'
  <2>1. TableType'
    BY <1>1 DEF TableType, Frames
  <2>2. TreeInv'
    BY <1>1 DEF TreeInv, NodeInv, PathOf, ninodes, Root
  <2> QED BY <2>1, <2>2
<1>2. stack \in Seq(Frames)
  BY DEF TableType, Frames
<1>3. CASE WalkSkip
  <2>1. inodes' = inodes /\ input' = input /\ done' = done /\ stack' = Advance /\ Walking
    BY <1>3 DEF WalkSkip
  <2> QED BY <1>1, <2>1, AdvanceIs
<1>4. CASE WalkInto
  <2>1. inodes' = inodes /\ input' = input /\ done' = done /\ stack' = <<<<i, 1>>>> \o Advance /\ Walking
    BY <1>4 DEF WalkInto, Child
  <2> QED BY <1>1, <2>1, PushIs
<1>5. CASE WalkReturn
  <2>1. inodes' = inodes /\ input' = input /\ done' = done /\ stack' = Tail(stack) /\ Walking
    BY <1>5 DEF WalkReturn
  <2> QED BY <1>1, <2>1, ReturnIs
<1>6. CASE WalkExit
  <2>1. inodes' = inodes /\ input' = input /\ done' = done /\ stack' = stack
    BY <1>6 DEF WalkExit
  <2> QED BY <1>1, <1>2, <2>1
<1>7. CASE WalkFile
  <2>1. input' = input /\ done' = done /\ stack' = Advance /\ Walking
    BY <1>7 DEF WalkFile, Child
  <2>2. /\ inodes' \in Seq(Inode) /\ ninodes' = ninodes
        /\ \A l \in 1 .. ninodes : /\ inodes'[l].content = inodes[l].content
                                   /\ inodes'[l].parentid = inodes[l].parentid
                                   /\ inodes'[l].name = inodes[l].name
    BY <1>7, WalkFileIs
  <2>3. done \in Nat /\ done' \in Nat /\ done <= done' /\ \A h \in 1 .. done : input'[h] = input[h]
    BY <2>1 DEF TableType
  <2>4. \A l \in 1 .. ninodes : PathOf(l)' = PathOf(l) /\ NodeInv(l)'
    BY ONLY TableType, TreeInv, <2>2, <2>3, NodeKeep
  <2>5. stack' \in Seq(Frames)
    BY <2>1, AdvanceIs
  <2>6. TableType'
    BY <2>1, <2>2, <2>5 DEF TableType, Frames
  <2>7. TreeInv'
    BY <2>1, <2>2, <2>4 DEF TreeInv
  <2> QED BY <2>6, <2>7
<1> QED BY <1>3, <1>4, <1>5, <1>6, <1>7 DEF WalkDir

LEMMA TableStep == TableType /\ TreeInv /\ [ToolNext]_toolVars => (TableType /\ TreeInv)'
<1> SUFFICES ASSUME TableType, TreeInv, [ToolNext]_toolVars PROVE TableType' /\ TreeInv'
  OBVIOUS
<1>1. ASSUME inodes' = inodes, input' = input, done' = done, stack' = stack \/ stack' = <<<<Root, 1>>>>
      PROVE  TableType' /\ TreeInv'
  <2>1. stack' \in Seq(Nat \X (Nat \ {0}))
    <3>1. <<Root, 1>> \in Nat \X (Nat \ {0})
      BY DEF Root
    <3>2. <<<<Root, 1>>>> \in Seq(Nat \X (Nat \ {0}))
      BY <3>1
    <3> QED BY <1>1, <3>2 DEF TableType
  <2>2. TableType'
    BY <1>1, <2>1 DEF TableType
  <2>3. TreeInv'
    BY <1>1 DEF TreeInv, NodeInv, PathOf, ninodes, Root
  <2> QED BY <2>2, <2>3
<1>2. CASE UNCHANGED vars
  BY <1>1, <1>2 DEF vars
<1>3. CASE FoundHeader
  BY <1>3, TableCall DEF FoundHeader
<1>4. CASE InMergeFile
  <2>1. CASE MergeExit
    BY <1>1, <2>1 DEF MergeExit
  <2>2. CASE MergeExists
    BY <2>2, TableExists
  <2>3. CASE MergeNew
    BY <2>3, TableNew
  <2> QED BY <1>4, <2>1, <2>2, <2>3 DEF InMergeFile, MergeFile
<1>5. CASE CannotOpen
  BY <1>1, <1>5 DEF CannotOpen
<1>6. CASE Create
  BY <1>1, <1>6 DEF Create, StartWalk
<1>7. CASE InWalkDir
  BY <1>7, TableWalk DEF InWalkDir
<1>8. CASE ReadBlock \/ NextArchive \/ ToolStopped
  BY <1>2, <1>8 DEF ReadBlock, NextArchive, ToolStopped, toolVars
<1> QED BY <1>2, <1>3, <1>4, <1>5, <1>6, <1>7, <1>8 DEF ToolNext, toolVars

LEMMA TableHolds == ToolSpec => [](TableType /\ TreeInv)
<1>1. ToolInit => TableType /\ TreeInv
  BY TableInit DEF ToolInit
<1> QED BY <1>1, TableStep, PTL DEF ToolSpec

\* Every parent is in the table before its children, for any archives: the
\* parent of a new inode is found by walking the table.
THEOREM ParentsFirstHolds == ToolSpec => []ParentsFirst
<1>1. TableType /\ TreeInv => ParentsFirst
  BY PathStep DEF ParentsFirst
<1> QED BY <1>1, TableHolds, PTL

\* The table is the union of the archives and the first one wins.
THEOREM FirstArchiveWinsHolds == ToolSpec => []FirstArchiveWins
<1>1. ASSUME TableType, TreeInv PROVE FirstArchiveWins
  <2>1. ASSUME NEW k \in 1 .. ninodes, NEW c, c = inodes[k].content
        PROVE  /\ FullPath(k) = input[c].path
               /\ \A h \in 1 .. c - 1 : input[h].path # input[c].path
    <3>1. k \in 0 .. ninodes /\ k # Root
      BY <1>1, PathStep, NodeFacts
    <3>2. FullPath(k) = PathOf(k) /\ PathOf(k) = input[c].path
      BY <1>1, <2>1, <3>1, FullPathIs DEF PathOf
    <3> QED BY <1>1, <2>1, <3>2 DEF TreeInv, NodeInv
  <2>2. Cardinality({input[h].path : h \in 1 .. done}) = ninodes
    <3> DEFINE T == {input[h].path : h \in 1 .. done}
    <3>. PICK f : f = [k \in 1 .. ninodes |-> PathOf(k)]
      OBVIOUS
    <3>1. \A k \in 1 .. ninodes : PathOf(k) \in T
      BY <1>1, NodeFacts DEF TreeInv, NodeInv, PathOf
    <3>2. \A t \in T : \E k \in 1 .. ninodes : PathOf(k) = t
      BY <1>1 DEF TreeInv
    <3>3. \A k, l \in 1 .. ninodes : PathOf(k) = PathOf(l) => k = l
      BY <1>1 DEF TreeInv
    <3> HIDE DEF T
    <3>4. f \in Bijection(1 .. ninodes, T)
      <4>1. f \in [1 .. ninodes -> T]
        BY <3>1
      <4>2. f \in Injection(1 .. ninodes, T)
        BY <3>3, <4>1 DEF Injection, IsInjective
      <4>3. \A t \in T : \E k \in 1 .. ninodes : f[k] = t
        BY <3>2
      <4>4. f \in Surjection(1 .. ninodes, T)
        BY <4>1, <4>3 DEF Surjection
      <4> QED BY <4>2, <4>4 DEF Bijection
    <3>5. ExistsBijection(1 .. ninodes, T)
      BY <3>4 DEF ExistsBijection
    <3>6. ninodes \in Nat
      BY <1>1 DEF TableType, ninodes
    <3>7. IsFiniteSet(1 .. ninodes) /\ Cardinality(1 .. ninodes) = ninodes
      BY <3>6, FS_Interval
    <3>8. Cardinality(T) = Cardinality(1 .. ninodes)
      BY <3>5, <3>7, FS_Bijection
    <3> QED BY <3>7, <3>8 DEF T
  <2> QED BY <2>1, <2>2 DEF FirstArchiveWins
<1> QED BY <1>1, TableHolds, PTL

-----------------------------------------------------------------------------
(* WalkDir: the files below fs *)

FileNames == [mark : BOOLEAN, base : Nat, bz : Nat]

\* A path without its marks.
Clear(path) == [j \in 1 .. Len(path) |-> [path[j] EXCEPT !.mark = FALSE]]
Marked(path) == \E j \in 1 .. Len(path) : path[j].mark

\* Where inode k is written, the names it uses there and the name it ends with.
Place(k) == Clear(PathOf(k))
Packs(k) == ShouldBeCompressed(inodes[k])
Taken(k) == {Place(k)} \cup (IF Packs(k) THEN {Bz2(Place(k))} ELSE {})
Target(k) == IF Packs(k) THEN Bz2(Place(k)) ELSE Place(k)

\* Inode a is k or an ancestor of k.
Leads(a, k) == \E n \in 0 .. Len(PathOf(k)) : PathOf(a) = SubSeq(PathOf(k), 1, n)

\* A file the emulator must be able to load: only directories above it, and no
\* other inode with a name that it uses.
DirsAbove(k) == \A a \in 1 .. ninodes : Leads(a, k) /\ a # k => inodes[a].kind = "dir"
Alone(k) == \A l \in 1 .. ninodes : l # k => Taken(l) \cap Taken(k) = {}
Awaited(k) == inodes[k].kind = "file" /\ DirsAbove(k) /\ Alone(k)

\* The file is there, under the name that its marks say; or some call of
\* WalkDir has not yet come to it or to a directory above it.
Written(k) ==
  /\ inodes[k].src = Marked(PathOf(k)) /\ inodes[k].compressed = Packs(k)
  /\ Target(k) \in DOMAIN disk /\ disk[Target(k)] = inodes[k].content
Ahead(k) ==
  \E j \in 1 .. Len(stack) : \E a \in 1 .. ninodes :
    Leads(a, k) /\ inodes[a].parentid = stack[j][1] /\ stack[j][2] <= a

\* Below fs everything is in a directory, and every directory is an inode's.
DiskInv ==
  \A q \in DOMAIN disk :
    /\ q \in Seq(FileNames) /\ Len(q) > 0 /\ InDir(q)
    /\ disk[q] = Dir => \E l \in 1 .. ninodes : inodes[l].kind = "dir" /\ q = Place(l)

CoverInv == \A k \in 1 .. ninodes : Awaited(k) => Written(k) \/ Ahead(k)

FilesInv ==
  /\ phase = "merge" => disk = <<>>
  /\ phase = "done" => stack = <<>>
  /\ DiskInv
  /\ phase \in {"walk", "done"} => CoverInv

LEMMA ClearFacts ==
  ASSUME NEW path \in Seq(Names)
  PROVE  /\ Clear(path) \in Seq(FileNames) /\ Len(Clear(path)) = Len(path)
         /\ ~Marked(path) => Clear(path) = path
<1>1. /\ Len(path) \in Nat /\ DOMAIN path = 1 .. Len(path) /\ path \in [1 .. Len(path) -> Names]
      /\ \A j \in 1 .. Len(path) : path[j] \in FileNames
  BY FsAssumption, LenProperties DEF FileNames
<1>2. \A x \in FileNames : [x EXCEPT !.mark = FALSE] \in FileNames
  BY DEF FileNames
<1>3. \A x \in FileNames : ~x.mark => [x EXCEPT !.mark = FALSE] = x
  BY DEF FileNames
<1>. PICK c : c = Clear(path)
  OBVIOUS
<1>4. c \in [1 .. Len(path) -> FileNames]
  BY <1>1, <1>2 DEF Clear
<1>5. c \in Seq(FileNames) /\ Len(c) = Len(path)
  BY <1>1, <1>4
<1>6. ASSUME ~Marked(path) PROVE c = path
  <2>1. \A j \in 1 .. Len(path) : c[j] = path[j]
    BY <1>1, <1>3, <1>6 DEF Clear, Marked
  <2> QED BY <1>1, <1>4, <2>1
<1> QED BY <1>5, <1>6

LEMMA Bz2Facts ==
  ASSUME NEW q \in Seq(FileNames), Len(q) > 0
  PROVE  /\ Bz2(q) \in Seq(FileNames) /\ Len(Bz2(q)) = Len(q) /\ Bz2(q) # q
         /\ Above(Bz2(q)) = Above(q)
<1>. PICK n, x, y : n = Len(q) /\ x = q[n] /\ y = [x EXCEPT !.bz = x.bz + 1]
  OBVIOUS
<1>1. n \in Nat /\ n \in 1 .. Len(q) /\ x \in FileNames /\ DOMAIN q = 1 .. Len(q)
  BY LenProperties
<1>2. y \in FileNames /\ y # x
  BY <1>1 DEF FileNames
<1>. PICK b : b = [q EXCEPT ![n] = y]
  OBVIOUS
<1>3. Bz2(q) = b
  BY <1>1 DEF Bz2
<1>4. b \in Seq(FileNames) /\ b[n] = y /\ \A j \in 1 .. Len(q) : j # n => b[j] = q[j]
  BY <1>1, <1>2
<1>5. Len(b) = Len(q)
  BY ONLY <1>1, <1>2, q \in Seq(FileNames), b = [q EXCEPT ![n] = y], ExceptSeq
<1>6. b # q
  BY <1>2, <1>4
<1>7. SubSeq(b, 1, n - 1) = SubSeq(q, 1, n - 1)
  <2>. PICK m : m = n - 1
    OBVIOUS
  <2>1. m \in 0 .. Len(q) /\ m \in 0 .. Len(b) /\ m \in Nat
    BY <1>1, <1>5
  <2>2. /\ SubSeq(b, 1, m) \in Seq(FileNames) /\ Len(SubSeq(b, 1, m)) = m
        /\ \A j \in 1 .. m : SubSeq(b, 1, m)[j] = b[j]
    BY <1>4, <2>1, PrefixFacts
  <2>3. /\ SubSeq(q, 1, m) \in Seq(FileNames) /\ Len(SubSeq(q, 1, m)) = m
        /\ \A j \in 1 .. m : SubSeq(q, 1, m)[j] = q[j]
    BY <2>1, PrefixFacts
  <2>4. \A j \in 1 .. m : j \in 1 .. Len(q) /\ j # n
    BY <1>1
  <2>5. \A j \in 1 .. m : SubSeq(b, 1, m)[j] = SubSeq(q, 1, m)[j]
    BY <1>4, <2>2, <2>3, <2>4
  <2> QED BY <2>2, <2>3, <2>5, SeqEqual
<1>8. Above(b) = Above(q)
  BY <1>5, <1>7 DEF Above
<1> QED BY <1>3, <1>4, <1>5, <1>6, <1>8

LEMMA AboveFacts ==
  ASSUME NEW q \in Seq(FileNames), Len(q) > 0
  PROVE  /\ Above(q) \in Seq(FileNames) /\ Len(Above(q)) = Len(q) - 1 /\ Above(q) # q /\ Above(q) # Bz2(q)
<1>1. Len(q) \in Nat /\ Len(q) - 1 \in 0 .. Len(q)
  BY LenProperties
<1>2. Above(q) \in Seq(FileNames) /\ Len(Above(q)) = Len(q) - 1
  BY <1>1, PrefixFacts DEF Above
<1>3. Len(Bz2(q)) = Len(q)
  BY Bz2Facts
<1> QED BY <1>1, <1>2, <1>3

LEMMA PlaceFacts ==
  ASSUME TableType, TreeInv, NEW k \in 1 .. ninodes
  PROVE  /\ Place(k) \in Seq(FileNames) /\ Len(Place(k)) \in Nat /\ Len(Place(k)) > 0
         /\ NotHidden(k) = Place(k) /\ Hidden(k) = Marked(PathOf(k)) /\ FullPath(k) = PathOf(k)
         /\ ~Marked(PathOf(k)) => Place(k) = PathOf(k)
<1>1. k \in 0 .. ninodes /\ k # Root
  BY PathStep, NodeFacts
<1>2. PathOf(k) \in Seq(Names) /\ Len(PathOf(k)) \in Nat /\ PathOf(k) # <<>>
  BY <1>1, PathTyped
<1>3. Len(PathOf(k)) > 0
  BY <1>2, EmptySeq
<1>4. FullPath(k) = PathOf(k)
  BY <1>1, FullPathIs
<1>5. NotHidden(k) = Place(k) /\ Hidden(k) = Marked(PathOf(k))
  BY <1>4 DEF NotHidden, Hidden, Place, Clear, Marked
<1>6. /\ Place(k) \in Seq(FileNames) /\ Len(Place(k)) = Len(PathOf(k))
      /\ ~Marked(PathOf(k)) => Place(k) = PathOf(k)
  BY <1>2, ClearFacts DEF Place
<1> QED BY <1>2, <1>3, <1>4, <1>5, <1>6

\* WalkDir changes nothing that the files' names depend on.
LEMMA WalkKeeps ==
  ASSUME TableType, TreeInv, WalkDir
  PROVE  /\ ninodes' = ninodes
         /\ \A k \in 0 .. ninodes : PathOf(k)' = PathOf(k)
         /\ \A k \in 1 .. ninodes : /\ inodes'[k].content = inodes[k].content
                                    /\ inodes'[k].parentid = inodes[k].parentid
                                    /\ inodes'[k].name = inodes[k].name
                                    /\ inodes'[k].kind = inodes[k].kind
                                    /\ inodes'[k].big = inodes[k].big
<1>1. CASE WalkSkip \/ WalkInto \/ WalkReturn \/ WalkExit
  <2>1. input' = input /\ inodes' = inodes
    BY <1>1 DEF WalkSkip, WalkInto, WalkReturn, WalkExit
  <2> QED BY <2>1 DEF PathOf, ninodes, Root
<1>2. CASE WalkFile
  <2>1. /\ ninodes' = ninodes
        /\ \A k \in 1 .. ninodes : /\ inodes'[k].content = inodes[k].content
                                   /\ inodes'[k].parentid = inodes[k].parentid
                                   /\ inodes'[k].name = inodes[k].name
                                   /\ inodes'[k].kind = inodes[k].kind
                                   /\ inodes'[k].big = inodes[k].big
    BY <1>2, WalkFileIs
  <2>2. input' = input /\ ninodes \in Nat
    BY <1>2 DEF WalkFile, TableType, ninodes
  <2>3. ASSUME NEW k \in 0 .. ninodes PROVE PathOf(k)' = PathOf(k)
    <3>1. k = Root \/ k \in 1 .. ninodes
      BY <2>2 DEF Root
    <3> QED BY <2>1, <2>2, <3>1 DEF PathOf, Root
  <2> QED BY <2>1, <2>3
<1> QED BY <1>1, <1>2 DEF WalkDir

LEMMA WalkKeepsNames ==
  ASSUME TableType, TreeInv, WalkDir
  PROVE  \A k \in 1 .. ninodes :
           /\ Place(k)' = Place(k) /\ Packs(k)' = Packs(k) /\ Taken(k)' = Taken(k) /\ Target(k)' = Target(k)
           /\ \A a \in 1 .. ninodes : Leads(a, k)' <=> Leads(a, k)
           /\ Awaited(k)' <=> Awaited(k)
<1>1. ninodes' = ninodes /\ ninodes \in Nat
  BY WalkKeeps DEF TableType, ninodes
<1>2. \A k \in 1 .. ninodes : PathOf(k)' = PathOf(k) /\ inodes'[k].kind = inodes[k].kind
  <2>1. \A k \in 1 .. ninodes : k \in 0 .. ninodes
    BY <1>1
  <2> QED BY <2>1, WalkKeeps
<1>3. \A k \in 1 .. ninodes : Place(k)' = Place(k)
  BY <1>2 DEF Place, Clear
<1>4. \A k \in 1 .. ninodes : Packs(k)' = Packs(k)
  BY WalkKeeps DEF Packs, ShouldBeCompressed
<1>5. \A k \in 1 .. ninodes : Taken(k)' = Taken(k) /\ Target(k)' = Target(k)
  BY <1>3, <1>4 DEF Taken, Target, Bz2
<1>6. \A k, a \in 1 .. ninodes : Leads(a, k)' <=> Leads(a, k)
  BY <1>2 DEF Leads
<1>7. \A k \in 1 .. ninodes : Alone(k)' <=> Alone(k)
  BY <1>1, <1>5 DEF Alone
<1>8. \A k \in 1 .. ninodes : DirsAbove(k)' <=> DirsAbove(k)
  BY <1>1, <1>2, <1>6 DEF DirsAbove
<1>9. \A k \in 1 .. ninodes : Awaited(k)' <=> Awaited(k)
  BY <1>2, <1>7, <1>8 DEF Awaited
<1> QED BY <1>3, <1>4, <1>5, <1>6, <1>9

LEMMA ChildFacts ==
  ASSUME TableType, TreeInv, Child
  PROVE  /\ i \in 1 .. ninodes /\ Walking /\ inodes[i].parentid = dirid
         /\ Place(i) \in Seq(FileNames) /\ Len(Place(i)) > 0 /\ NotHidden(i) = Place(i)
         /\ Hidden(i) = Marked(PathOf(i))
<1>1. Walking /\ i <= ninodes /\ inodes[i].parentid = dirid
  BY DEF Child
<1>2. i \in 1 .. ninodes
  BY <1>1, WalkingFacts
<1> QED BY <1>1, <1>2, PlaceFacts

\* mkdir adds a directory or nothing.
LEMMA MkdirIs ==
  ASSUME NEW q, NEW d, d = Mkdir(q)
  PROVE  \/ d = disk
         \/ /\ q \notin DOMAIN disk /\ InDir(q)
            /\ DOMAIN d = DOMAIN disk \cup {q} /\ d[q] = Dir
            /\ \A r \in DOMAIN disk : d[r] = disk[r]
<1>1. CASE q \notin DOMAIN disk /\ InDir(q)
  <2>1. d = [r \in DOMAIN disk \cup {q} |-> IF r = q THEN Dir ELSE disk[r]]
    BY <1>1 DEF Mkdir
  <2> QED BY <1>1, <2>1
<1>2. CASE ~(q \notin DOMAIN disk /\ InDir(q))
  BY <1>2 DEF Mkdir
<1> QED BY <1>1, <1>2

LEMMA DiskMkdir ==
  ASSUME TableType, TreeInv, DiskInv, WalkInto
  PROVE  /\ DiskInv'
         /\ \A q \in DOMAIN disk : q \in DOMAIN disk' /\ disk'[q] = disk[q]
<1>1. Child /\ inodes[i].kind = "dir" /\ disk' = Mkdir(NotHidden(i)) /\ inodes' = inodes /\ WalkDir
  BY DEF WalkInto, WalkDir
<1>. PICK m, p0 : m = i /\ p0 = Place(m)
  OBVIOUS
<1>2. m \in 1 .. ninodes /\ p0 \in Seq(FileNames) /\ Len(p0) > 0 /\ disk' = Mkdir(p0) /\ inodes[m].kind = "dir"
  BY <1>1, ChildFacts
<1>3. ninodes' = ninodes /\ \A l \in 1 .. ninodes : Place(l)' = Place(l)
  BY <1>1, WalkKeepsNames, WalkKeeps
<1>4. \/ disk' = disk
      \/ /\ p0 \notin DOMAIN disk /\ InDir(p0)
         /\ DOMAIN disk' = DOMAIN disk \cup {p0} /\ disk'[p0] = Dir
         /\ \A r \in DOMAIN disk : disk'[r] = disk[r]
  BY <1>2, MkdirIs
<1>5. \A q \in DOMAIN disk : q \in DOMAIN disk' /\ disk'[q] = disk[q]
  BY <1>4
<1>6. \A q : InDir(q) => InDir(q)'
  BY <1>5 DEF InDir
<1>7. ASSUME NEW q \in DOMAIN disk'
      PROVE  /\ q \in Seq(FileNames) /\ Len(q) > 0 /\ InDir(q)'
             /\ disk'[q] = Dir => \E l \in 1 .. ninodes' : inodes'[l].kind = "dir" /\ q = Place(l)'
  <2>1. CASE q \in DOMAIN disk
    <3>1. /\ q \in Seq(FileNames) /\ Len(q) > 0 /\ InDir(q) /\ disk'[q] = disk[q]
          /\ disk[q] = Dir => \E l \in 1 .. ninodes : inodes[l].kind = "dir" /\ q = Place(l)
      BY <1>5, <2>1 DEF DiskInv
    <3> QED BY <1>1, <1>3, <1>6, <3>1
  <2>2. CASE q \notin DOMAIN disk
    <3>1. q = p0 /\ InDir(p0)
      BY <1>4, <2>2
    <3>2. \E l \in 1 .. ninodes' : inodes'[l].kind = "dir" /\ p0 = Place(l)'
      BY <1>1, <1>2, <1>3
    <3> QED BY <1>2, <1>6, <3>1, <3>2
  <2> QED BY <2>1, <2>2
<1>8. DiskInv'
  BY <1>7 DEF DiskInv
<1> QED BY <1>5, <1>8

\* WalkFile takes the place of the file or, packed, the name with .bz2, and
\* leaves everything else alone.
LEMMA WalkFileWrites ==
  ASSUME TableType, TreeInv, WalkFile
  PROVE  \E new :
           /\ new = Place(i) \/ (new = Bz2(Place(i)) /\ Packs(i) /\ ~Blocked(Place(i)))
           /\ Packs(i) /\ ~Blocked(Place(i)) => new = Bz2(Place(i))
           /\ ~Packs(i) => new = Place(i)
           /\ DOMAIN disk' = (DOMAIN disk \ {Place(i)}) \cup {new} /\ disk'[new] = inodes[i].content
           /\ \A r \in DOMAIN disk : r # Place(i) /\ r # new => disk'[r] = disk[r]
<1>1. Child /\ disk' = Write(NotHidden(i), inodes[i].content, ShouldBeCompressed(inodes[i]))
  BY DEF WalkFile
<1>2. NotHidden(i) = Place(i)
  BY <1>1, ChildFacts
<1>. PICK q, c : q = Place(i) /\ c = inodes[i].content
  OBVIOUS
<1>. PICK new : new = IF Packs(i) /\ ~Blocked(q) THEN Bz2(q) ELSE q
  OBVIOUS
<1>3. disk' = [r \in (DOMAIN disk \ {q}) \cup {new} |-> IF r = new THEN c ELSE disk[r]]
  BY <1>1, <1>2 DEF Packs, Write
<1>4. /\ DOMAIN disk' = (DOMAIN disk \ {q}) \cup {new} /\ disk'[new] = c
      /\ \A r \in DOMAIN disk : r # q /\ r # new => disk'[r] = disk[r]
  BY <1>3
<1>5. /\ new = q \/ (new = Bz2(q) /\ Packs(i) /\ ~Blocked(q))
      /\ Packs(i) /\ ~Blocked(q) => new = Bz2(q)
      /\ ~Packs(i) => new = q
  OBVIOUS
<1> QED BY <1>4, <1>5

LEMMA DiskWrite ==
  ASSUME TableType, TreeInv, DiskInv, WalkFile
  PROVE  DiskInv'
<1>1. Child /\ CanWrite(NotHidden(i)) /\ WalkDir
  BY DEF WalkFile, WalkDir
<1>. PICK m, q, c : m = i /\ q = Place(m) /\ c = inodes[m].content
  OBVIOUS
<1>2. m \in 1 .. ninodes /\ q \in Seq(FileNames) /\ Len(q) > 0 /\ CanWrite(q)
  BY <1>1, ChildFacts
<1>3. c # Dir
  <2>1. c \in 1 .. done /\ done \in Nat
    BY <1>2 DEF TreeInv, NodeInv, TableType
  <2> QED BY <2>1 DEF Dir
<1>4. PICK new : /\ new = q \/ (new = Bz2(q) /\ Packs(m) /\ ~Blocked(q))
                 /\ DOMAIN disk' = (DOMAIN disk \ {q}) \cup {new} /\ disk'[new] = c
                 /\ \A r \in DOMAIN disk : r # q /\ r # new => disk'[r] = disk[r]
  BY WalkFileWrites
<1>5. InDir(q) /\ (q \in DOMAIN disk => disk[q] # Dir)
  BY <1>2 DEF CanWrite
\* The directories that hold something stay.
<1>6. ASSUME NEW r, r \in Seq(FileNames), Len(r) > 0, InDir(r), r = q \/ r = new \/ r \in DOMAIN disk
      PROVE  InDir(r)'
  <2> SUFFICES ASSUME Len(r) # 1 PROVE Above(r) \in DOMAIN disk' /\ disk'[Above(r)] = Dir
    BY DEF InDir
  <2>. PICK u : u = Above(r)
    OBVIOUS
  <2>1. u \in DOMAIN disk /\ disk[u] = Dir
    BY <1>6 DEF InDir
  <2>2. u # q
    BY <1>5, <2>1
  <2>3. u # new
    <3> SUFFICES ASSUME u = new PROVE FALSE
      OBVIOUS
    <3>1. new = Bz2(q) /\ ~Blocked(q)
      BY <1>4, <2>2
    <3>2. r # q
      BY <1>2, <3>1, AboveFacts
    <3>3. r # new
      BY <1>6, AboveFacts
    <3>4. r \in DOMAIN disk /\ Len(r) > 1
      <4>1. Len(r) \in Nat
        BY <1>6, LenProperties
      <4>2. Len(r) > 1
        <5>. PICK n : n = Len(r)
          OBVIOUS
        <5>1. n \in Nat /\ n > 0 /\ n # 1
          BY <1>6, <4>1
        <5>2. n > 1
          BY <5>1
        <5> QED BY <5>2
      <4>3. r \in DOMAIN disk
        BY <1>6, <3>2, <3>3
      <4> QED BY <4>2, <4>3
    <3> QED BY <3>1, <3>4 DEF Blocked
  <2>4. u \in DOMAIN disk' /\ disk'[u] = Dir
    BY <1>4, <2>1, <2>2, <2>3
  <2> QED BY <2>4
<1>7. InDir(q)'
  BY <1>2, <1>5, <1>6
<1>8. new \in Seq(FileNames) /\ Len(new) > 0 /\ InDir(new)
  <2>1. CASE new = q
    BY <1>2, <1>5, <2>1
  <2>2. CASE new = Bz2(q)
    <3>1. new \in Seq(FileNames) /\ Len(new) = Len(q) /\ Above(new) = Above(q)
      BY <1>2, <2>2, Bz2Facts
    <3> QED BY <1>2, <1>5, <3>1 DEF InDir
  <2> QED BY <1>4, <2>1, <2>2
<1>9. ninodes' = ninodes /\ \A l \in 1 .. ninodes : Place(l)' = Place(l) /\ inodes'[l].kind = inodes[l].kind
  BY <1>1, WalkKeepsNames, WalkKeeps
<1>10. ASSUME NEW r \in DOMAIN disk'
      PROVE  /\ r \in Seq(FileNames) /\ Len(r) > 0 /\ InDir(r)'
             /\ disk'[r] = Dir => \E l \in 1 .. ninodes' : inodes'[l].kind = "dir" /\ r = Place(l)'
  <2>1. CASE r = new
    <3>1. InDir(new)' /\ new \in Seq(FileNames) /\ Len(new) > 0
      BY <1>6, <1>8
    <3>2. disk'[r] # Dir
      BY <1>3, <1>4, <2>1
    <3> QED BY <2>1, <3>1, <3>2
  <2>2. CASE r # new
    <3>1. r \in DOMAIN disk /\ disk'[r] = disk[r]
      BY <1>4, <2>2
    <3>2. /\ r \in Seq(FileNames) /\ Len(r) > 0 /\ InDir(r)
          /\ disk[r] = Dir => \E l \in 1 .. ninodes : inodes[l].kind = "dir" /\ r = Place(l)
      BY <3>1 DEF DiskInv
    <3>3. InDir(r)'
      BY <1>6, <3>1, <3>2
    <3>4. disk'[r] = Dir => \E l \in 1 .. ninodes' : inodes'[l].kind = "dir" /\ r = Place(l)'
      BY <1>9, <3>1, <3>2
    <3> QED BY <3>2, <3>3, <3>4
  <2> QED BY <2>1, <2>2
<1> QED BY <1>10 DEF DiskInv

\* bzip2 can replace the file: a directory with its name would be another inode.
LEMMA NotBlocked ==
  ASSUME TableType, TreeInv, DiskInv, NEW k \in 1 .. ninodes, inodes[k].kind = "file", Alone(k), Packs(k)
  PROVE  ~Blocked(Place(k))
<1> SUFFICES ASSUME Blocked(Place(k)) PROVE FALSE
  OBVIOUS
<1>1. PICK q \in DOMAIN disk : Len(q) > 1 /\ Above(q) = Bz2(Place(k))
  BY DEF Blocked
<1>2. q \in Seq(FileNames) /\ InDir(q)
  BY <1>1 DEF DiskInv
<1>3. Len(q) # 1
  <2>1. Len(q) \in Nat
    BY <1>2, LenProperties
  <2>. PICK n : n = Len(q)
    OBVIOUS
  <2>2. n \in Nat /\ n > 1
    BY <1>1, <2>1
  <2>3. n # 1
    BY <2>2
  <2> QED BY <2>3
<1>4. Above(q) \in DOMAIN disk /\ disk[Above(q)] = Dir
  BY <1>2, <1>3 DEF InDir
<1>5. PICK l \in 1 .. ninodes : inodes[l].kind = "dir" /\ Above(q) = Place(l)
  BY <1>4 DEF DiskInv
<1>6. l # k
  BY <1>5
<1>7. Place(l) \in Taken(l) /\ Place(l) \in Taken(k)
  BY <1>1, <1>5 DEF Taken
<1> QED BY <1>6, <1>7 DEF Alone

\* Once written, a file stays: no other inode has its names.
LEMMA WrittenKeep ==
  ASSUME TableType, TreeInv, DiskInv, WalkDir, NEW k \in 1 .. ninodes, Alone(k), Written(k),
         ~(WalkFile /\ k = i)
  PROVE  Written(k)'
<1>1. /\ Target(k)' = Target(k) /\ Packs(k)' = Packs(k)
      /\ inodes'[k].content = inodes[k].content
  BY WalkKeepsNames, WalkKeeps
<1>2. Marked(PathOf(k))' = Marked(PathOf(k))
  <2>1. k \in 0 .. ninodes
    BY PathStep
  <2>2. PathOf(k)' = PathOf(k)
    BY <2>1, WalkKeeps
  <2> QED BY <2>2 DEF Marked
<1>3. /\ inodes[k].src = Marked(PathOf(k)) /\ inodes[k].compressed = Packs(k)
      /\ Target(k) \in DOMAIN disk /\ disk[Target(k)] = inodes[k].content
  BY DEF Written
<1>4. ASSUME inodes'[k] = inodes[k], Target(k) \in DOMAIN disk', disk'[Target(k)] = disk[Target(k)]
      PROVE  Written(k)'
  BY <1>1, <1>2, <1>3, <1>4 DEF Written
<1>5. CASE WalkSkip \/ WalkReturn \/ WalkExit
  <2>1. inodes' = inodes /\ disk' = disk
    BY <1>5 DEF WalkSkip, WalkReturn, WalkExit
  <2> QED BY <1>3, <1>4, <2>1
<1>6. CASE WalkInto
  <2>1. inodes' = inodes /\ Target(k) \in DOMAIN disk' /\ disk'[Target(k)] = disk[Target(k)]
    BY <1>3, <1>6, DiskMkdir DEF WalkInto
  <2> QED BY <1>4, <2>1
<1>7. CASE WalkFile
  <2>. PICK m : m = i
    OBVIOUS
  <2>1. m \in 1 .. ninodes /\ m # k /\ inodes'[k] = inodes[k]
    BY <1>7, WalkFileIs
  <2>2. PICK new : /\ new = Place(m) \/ (new = Bz2(Place(m)) /\ Packs(m))
                   /\ DOMAIN disk' = (DOMAIN disk \ {Place(m)}) \cup {new}
                   /\ \A r \in DOMAIN disk : r # Place(m) /\ r # new => disk'[r] = disk[r]
    BY <1>7, WalkFileWrites
  <2>3. new \in Taken(m) /\ Place(m) \in Taken(m) /\ Target(k) \in Taken(k)
    BY <2>2 DEF Taken, Target
  <2>4. Taken(m) \cap Taken(k) = {}
    BY <2>1 DEF Alone
  <2>5. Target(k) # new /\ Target(k) # Place(m)
    BY <2>3, <2>4
  <2> QED BY <1>3, <1>4, <2>1, <2>2, <2>5
<1> QED BY <1>5, <1>6, <1>7 DEF WalkDir

LEMMA WrittenNow ==
  ASSUME TableType, TreeInv, DiskInv, WalkFile, NEW k \in 1 .. ninodes, Awaited(k), k = i
  PROVE  Written(k)'
<1>1. inodes[k].kind = "file" /\ Alone(k) /\ WalkDir /\ Child
  BY DEF Awaited, WalkDir, WalkFile
<1>2. PICK new : /\ Packs(k) /\ ~Blocked(Place(k)) => new = Bz2(Place(k))
                 /\ ~Packs(k) => new = Place(k)
                 /\ DOMAIN disk' = (DOMAIN disk \ {Place(k)}) \cup {new} /\ disk'[new] = inodes[k].content
  BY WalkFileWrites
<1>3. new = Target(k)
  <2>1. CASE Packs(k)
    BY <1>1, <1>2, <2>1, NotBlocked DEF Target
  <2>2. CASE ~Packs(k)
    BY <1>2, <2>2 DEF Target
  <2> QED BY <2>1, <2>2
<1>4. /\ Target(k)' = Target(k) /\ Packs(k)' = Packs(k)
      /\ inodes'[k].content = inodes[k].content
  BY <1>1, WalkKeepsNames, WalkKeeps
<1>5. Marked(PathOf(k))' = Marked(PathOf(k))
  <2>1. k \in 0 .. ninodes
    BY PathStep
  <2>2. PathOf(k)' = PathOf(k)
    BY <1>1, <2>1, WalkKeeps
  <2> QED BY <2>2 DEF Marked
<1>6. inodes'[k].src = Marked(PathOf(k)) /\ inodes'[k].compressed = Packs(k)
  BY <1>1, WalkFileIs, ChildFacts DEF Packs
<1> QED BY <1>2, <1>3, <1>4, <1>5, <1>6 DEF Written

\* Below every inode above k there is another one, down to k.
LEMMA NextDown ==
  ASSUME TableType, TreeInv, NEW k \in 1 .. ninodes, NEW a \in 0 .. ninodes, Leads(a, k), a # k
  PROVE  \E c \in 1 .. ninodes : Leads(c, k) /\ inodes[c].parentid = a
<1>. PICK path : path = PathOf(k)
  OBVIOUS
<1>1. k \in 0 .. ninodes /\ ninodes \in Nat
  BY PathStep, NodeFacts
<1>2. path \in Seq(Names) /\ Len(path) \in Nat
  BY <1>1, PathTyped
<1>3. PICK n \in 0 .. Len(path) : PathOf(a) = SubSeq(path, 1, n)
  BY DEF Leads
<1>4. n # Len(path)
  <2> SUFFICES ASSUME n = Len(path) PROVE FALSE
    OBVIOUS
  <2>1. PathOf(a) = PathOf(k)
    BY <1>2, <1>3, SubSeqFull
  <2> QED BY <1>1, <2>1, PathsDiffer
<1>. PICK m : m = n + 1
  OBVIOUS
<1>5. m \in 1 .. Len(path) /\ m \in 0 .. Len(path) /\ m - 1 = n /\ m > 0
  BY <1>2, <1>3, <1>4
<1>6. PICK c \in 0 .. ninodes : PathOf(c) = SubSeq(path, 1, m)
  BY <1>1, <1>5, Ancestors
<1>7. Leads(c, k)
  BY <1>5, <1>6 DEF Leads
<1>8. /\ SubSeq(path, 1, m) = Append(SubSeq(path, 1, n), path[m]) /\ Len(SubSeq(path, 1, m)) = m
      /\ path[m] \in Names /\ SubSeq(path, 1, n) \in Seq(Names)
  BY <1>2, <1>5, PrefixStep
<1>9. c \in 1 .. ninodes
  <2>1. c # Root
    BY <1>5, <1>6, <1>8, PathTyped
  <2> QED BY <1>1, <2>1 DEF Root
<1>. PICK d, t, f : d = inodes[c].parentid /\ t = SubSeq(path, 1, n) /\ f = path[m]
  OBVIOUS
<1>10. d \in 0 .. ninodes
  BY <1>9, PathStep
<1>11. t \in Seq(Names) /\ f \in Names /\ PathOf(c) = Append(t, f)
  BY <1>6, <1>8
<1>12. PathOf(d) = t
  BY <1>9, <1>11, PathSplit
<1>13. d = a
  BY <1>3, <1>10, <1>12, PathsDiffer
<1> QED BY <1>7, <1>9, <1>13

\* WalkDir steps past an inode above a file only to go into it.
LEMMA AheadStep ==
  ASSUME TableType, TreeInv, WalkDir, NEW k \in 1 .. ninodes, Awaited(k), Ahead(k)
  PROVE  Ahead(k)' \/ (WalkFile /\ k = i)
<1>1. PICK j \in 1 .. Len(stack) : \E a \in 1 .. ninodes :
        Leads(a, k) /\ inodes[a].parentid = stack[j][1] /\ stack[j][2] <= a
  BY DEF Ahead
<1>2. PICK a \in 1 .. ninodes : Leads(a, k) /\ inodes[a].parentid = stack[j][1] /\ stack[j][2] <= a
  BY <1>1
<1>3. ninodes' = ninodes /\ \A c \in 1 .. ninodes : inodes'[c].parentid = inodes[c].parentid
      /\ (Leads(c, k)' <=> Leads(c, k))
  BY WalkKeeps, WalkKeepsNames
<1>4. ASSUME NEW l \in 1 .. Len(stack'), NEW c \in 1 .. ninodes,
             Leads(c, k), inodes[c].parentid = stack'[l][1], stack'[l][2] <= c
      PROVE  Ahead(k)'
  BY <1>3, <1>4 DEF Ahead
<1>5. (a = k => inodes[a].kind = "file") /\ (a # k => inodes[a].kind = "dir")
  BY <1>2 DEF Awaited, DirsAbove
<1>. PICK n, m : n = Len(stack) /\ m = i
  OBVIOUS
<1>6. CASE WalkExit
  <2>1. stack' = stack
    BY <1>6 DEF WalkExit
  <2> QED BY <1>2, <1>4, <2>1
<1>7. CASE WalkReturn
  <2>1. Walking /\ m > ninodes /\ stack' = Tail(stack)
    BY <1>7 DEF WalkReturn
  <2>2. n \in Nat /\ stack[1] = <<dirid, m>> /\ m \in Nat /\ ninodes \in Nat
    BY <2>1, WalkingFacts
  <2>3. Len(stack') = n - 1 /\ \A l \in 1 .. n - 1 : stack'[l] = stack[l + 1]
    BY <2>1, ReturnIs
  <2>4. j # 1
    <3> SUFFICES ASSUME j = 1 PROVE FALSE
      OBVIOUS
    <3>1. m <= a
      BY <1>2, <2>2
    <3> QED BY <2>1, <2>2, <3>1
  <2>. PICK l : l = j - 1
    OBVIOUS
  <2>5. l \in 1 .. n - 1 /\ l + 1 = j
    BY <2>2, <2>4
  <2>6. l \in 1 .. Len(stack') /\ stack'[l] = stack[j]
    BY <2>3, <2>5
  <2> QED BY <1>2, <1>4, <2>6
<1>8. CASE WalkSkip \/ WalkFile
  <2>1. Walking /\ stack' = Advance /\ m <= ninodes
    BY <1>8 DEF WalkSkip, WalkFile, Child
  <2>2. n \in Nat /\ stack[1] = <<dirid, m>> /\ m \in Nat \ {0} /\ ninodes \in Nat /\ 1 \in 1 .. n
    BY <2>1, WalkingFacts
  <2>3. Len(stack') = n /\ stack'[1] = <<dirid, m + 1>> /\ \A l \in 1 .. n : l # 1 => stack'[l] = stack[l]
    BY <2>1, AdvanceIs
  <2>4. CASE j # 1
    BY <1>2, <1>4, <2>3, <2>4
  <2>5. CASE j = 1
    <3>1. m <= a /\ inodes[a].parentid = dirid
      BY <1>2, <2>2, <2>5
    <3>2. CASE a # m
      <4>1. m + 1 <= a
        BY <2>2, <3>1, <3>2
      <4>2. stack'[1][1] = dirid /\ stack'[1][2] = m + 1 /\ 1 \in 1 .. Len(stack')
        BY <2>2, <2>3
      <4> QED BY <1>2, <1>4, <3>1, <4>1, <4>2
    <3>3. CASE a = m
      <4>1. CASE WalkSkip
        <5>1. inodes[a].kind = "link"
          BY <3>1, <3>3, <4>1 DEF WalkSkip
        <5> QED BY <1>5, <5>1
      <4>2. CASE WalkFile
        <5>1. inodes[a].kind = "file"
          BY <3>3, <4>2 DEF WalkFile
        <5>2. a = k
          BY <1>5, <5>1
        <5> QED BY <3>3, <4>2, <5>2
      <4> QED BY <1>8, <4>1, <4>2
    <3> QED BY <3>2, <3>3
  <2> QED BY <2>4, <2>5
<1>9. CASE WalkInto
  <2>1. Walking /\ stack' = <<<<i, 1>>>> \o Advance /\ m <= ninodes /\ inodes[m].kind = "dir"
    BY <1>9 DEF WalkInto, Child
  <2>2. n \in Nat /\ stack[1] = <<dirid, m>> /\ m \in Nat \ {0} /\ ninodes \in Nat /\ 1 \in 1 .. n
    BY <2>1, WalkingFacts
  <2>3. /\ Advance[1] = <<dirid, m + 1>> /\ \A l \in 1 .. n : l # 1 => Advance[l] = stack[l]
    BY <2>1, AdvanceIs
  <2>4. Len(stack') = n + 1 /\ stack'[1] = <<m, 1>> /\ \A l \in 1 .. n : stack'[l + 1] = Advance[l]
    BY <2>1, PushIs
  <2>5. \A l \in 1 .. n : l + 1 \in 1 .. Len(stack')
    BY <2>2, <2>4
  <2>6. CASE j # 1
    <3>1. j + 1 \in 1 .. Len(stack') /\ stack'[j + 1] = stack[j]
      BY <2>3, <2>4, <2>5, <2>6
    <3> QED BY <1>2, <1>4, <3>1
  <2>7. CASE j = 1
    <3>1. m <= a /\ inodes[a].parentid = dirid
      BY <1>2, <2>2, <2>7
    <3>2. CASE a # m
      <4>1. m + 1 <= a
        BY <2>2, <3>1, <3>2
      <4>. PICK l : l = 1 + 1
        OBVIOUS
      <4>2. l \in 1 .. Len(stack') /\ stack'[l] = <<dirid, m + 1>>
        BY <2>2, <2>3, <2>4, <2>5
      <4>3. stack'[l][1] = dirid /\ stack'[l][2] = m + 1
        BY <4>2
      <4> QED BY <1>2, <1>4, <3>1, <4>1, <4>2, <4>3
    <3>3. CASE a = m
      <4>1. a # k /\ a \in 0 .. ninodes
        BY <1>5, <2>1, <2>2, <3>3 DEF Awaited
      <4>2. PICK c \in 1 .. ninodes : Leads(c, k) /\ inodes[c].parentid = a
        BY <1>2, <4>1, NextDown
      <4>3. stack'[1][1] = a /\ stack'[1][2] = 1 /\ 1 \in 1 .. Len(stack') /\ 1 <= c
        BY <2>2, <2>4, <3>3
      <4> QED BY <1>4, <4>2, <4>3
    <3> QED BY <3>2, <3>3
  <2> QED BY <2>6, <2>7
<1> QED BY <1>6, <1>7, <1>8, <1>9 DEF WalkDir

LEMMA FilesWalk ==
  ASSUME TableType, TreeInv, FilesInv, WalkDir
  PROVE  FilesInv'
<1>1. phase = "walk" /\ DiskInv /\ CoverInv
  BY DEF WalkDir, WalkSkip, WalkInto, WalkReturn, WalkFile, WalkExit, Child, Walking, FilesInv
<1>2. DiskInv'
  <2>1. CASE WalkSkip \/ WalkReturn \/ WalkExit
    <3>1. inodes' = inodes /\ disk' = disk
      BY <2>1 DEF WalkSkip, WalkReturn, WalkExit
    <3>2. ninodes' = ninodes /\ \A l \in 1 .. ninodes : Place(l)' = Place(l)
      BY WalkKeepsNames, WalkKeeps
    <3>3. \A q : InDir(q)' <=> InDir(q)
      BY <3>1 DEF InDir
    <3> QED BY <1>1, <3>1, <3>2, <3>3 DEF DiskInv
  <2>2. CASE WalkInto
    BY <1>1, <2>2, DiskMkdir
  <2>3. CASE WalkFile
    BY <1>1, <2>3, DiskWrite
  <2> QED BY <2>1, <2>2, <2>3 DEF WalkDir
<1>3. CoverInv'
  <2>1. ninodes' = ninodes /\ \A k \in 1 .. ninodes : Awaited(k)' <=> Awaited(k)
    BY WalkKeeps, WalkKeepsNames
  <2>2. ASSUME NEW k \in 1 .. ninodes, Awaited(k) PROVE Written(k)' \/ Ahead(k)'
    <3>1. CASE WalkFile /\ k = i
      BY <1>1, <2>2, <3>1, WrittenNow
    <3>2. CASE ~(WalkFile /\ k = i)
      <4>1. Written(k) \/ Ahead(k)
        BY <1>1, <2>2 DEF CoverInv
      <4>2. Alone(k)
        BY <2>2 DEF Awaited
      <4>3. CASE Written(k)
        BY <1>1, <3>2, <4>2, <4>3, WrittenKeep
      <4>4. CASE Ahead(k)
        BY <2>2, <3>2, <4>4, AheadStep
      <4> QED BY <4>1, <4>3, <4>4
    <3> QED BY <3>1, <3>2
  <2> QED BY <2>1, <2>2 DEF CoverInv
<1>4. phase' # "merge" /\ (phase' = "done" => stack' = <<>>)
  <2>1. CASE WalkReturn
    <3>1. Walking /\ stack' = Tail(stack) /\ phase' = (IF Len(stack) = 1 THEN "done" ELSE "walk")
      BY <1>1, <2>1 DEF WalkReturn
    <3>2. Len(stack) = 1 => Len(stack') = 0 /\ stack' \in Seq(Frames)
      BY <3>1, ReturnIs
    <3>3. Len(stack) = 1 => stack' = <<>>
      BY <3>2, EmptySeq
    <3> QED BY <3>1, <3>3
  <2>2. CASE ~WalkReturn
    BY <1>1, <2>2 DEF WalkDir, WalkSkip, WalkInto, WalkFile, WalkExit
  <2> QED BY <2>1, <2>2
<1> QED BY <1>2, <1>3, <1>4 DEF FilesInv

LEMMA FilesStart ==
  ASSUME TableType, TreeInv, FilesInv, StartWalk
  PROVE  FilesInv'
<1>1. /\ phase = "merge" /\ phase' = "walk" /\ stack' = <<<<Root, 1>>>>
      /\ input' = input /\ inodes' = inodes /\ disk' = disk /\ disk = <<>>
  BY DEF StartWalk, FilesInv
<1>2. DiskInv'
  BY <1>1 DEF DiskInv
<1>3. ninodes' = ninodes /\ ninodes \in Nat
  BY <1>1 DEF ninodes, TableType
<1>4. ASSUME NEW k \in 1 .. ninodes PROVE Ahead(k)'
  <2>1. k \in 0 .. ninodes /\ k # Root /\ Root \in 0 .. ninodes
    BY <1>3 DEF Root
  <2>2. PathOf(k) \in Seq(Names) /\ Len(PathOf(k)) \in Nat /\ PathOf(Root) = <<>>
    BY <2>1, PathTyped
  <2>3. PathOf(Root) = SubSeq(PathOf(k), 1, 0) /\ 0 \in 0 .. Len(PathOf(k))
    BY <2>2, SubSeqEmpty
  <2>4. Leads(Root, k)
    BY <2>3 DEF Leads
  <2>5. PICK c \in 1 .. ninodes : Leads(c, k) /\ inodes[c].parentid = Root
    BY <2>1, <2>4, NextDown
  <2>6. Leads(c, k)'
    BY <1>1, <2>5 DEF Leads, PathOf, Root
  <2>7. 1 \in 1 .. Len(stack') /\ stack'[1][1] = Root /\ stack'[1][2] = 1 /\ 1 <= c
    BY <1>1, <1>3
  <2> QED BY <1>1, <1>3, <2>5, <2>6, <2>7 DEF Ahead
<1>5. CoverInv'
  BY <1>3, <1>4 DEF CoverInv
<1> QED BY <1>1, <1>2, <1>5 DEF FilesInv

LEMMA FilesStep ==
  TableType /\ TreeInv /\ FilesInv /\ [ToolNext]_toolVars => FilesInv'
<1> SUFFICES ASSUME TableType, TreeInv, FilesInv, [ToolNext]_toolVars PROVE FilesInv'
  OBVIOUS
<1>1. ASSUME phase = "merge", phase' \in {"merge", "exit"}, disk' = disk PROVE FilesInv'
  <2>1. disk' = <<>>
    BY <1>1 DEF FilesInv
  <2>2. DiskInv'
    BY <2>1 DEF DiskInv
  <2> QED BY <1>1, <2>1, <2>2 DEF FilesInv
<1>2. CASE UNCHANGED vars
  <2>1. /\ phase' = phase /\ stack' = stack /\ disk' = disk /\ inodes' = inodes /\ input' = input
        /\ ninodes' = ninodes
    BY <1>2 DEF vars, ninodes
  <2>2. \A k : PathOf(k)' = PathOf(k) /\ Place(k)' = Place(k) /\ Packs(k)' = Packs(k)
    BY <2>1 DEF PathOf, Place, Clear, Packs, ShouldBeCompressed, Root
  <2>3. \A k : Taken(k)' = Taken(k) /\ Target(k)' = Target(k) /\ (Marked(PathOf(k))' <=> Marked(PathOf(k)))
               /\ \A a : Leads(a, k)' <=> Leads(a, k)
    BY <2>2 DEF Taken, Target, Bz2, Marked, Leads
  <2>4. \A k : Awaited(k)' <=> Awaited(k)
    BY <2>1, <2>3 DEF Awaited, DirsAbove, Alone
  <2>5. \A k : (Written(k)' <=> Written(k)) /\ (Ahead(k)' <=> Ahead(k))
    BY <2>1, <2>2, <2>3 DEF Written, Ahead
  <2>6. DiskInv'
    BY <2>1, <2>2 DEF DiskInv, InDir, FilesInv
  <2> QED BY <2>1, <2>4, <2>5, <2>6 DEF FilesInv, CoverInv
<1>3. CASE FoundHeader
  BY <1>1, <1>3 DEF FoundHeader, CallMergeFile
<1>4. CASE InMergeFile
  BY <1>1, <1>4 DEF InMergeFile, MergeFile, MergeExit, MergeExists, MergeNew, Merging
<1>5. CASE CannotOpen
  BY <1>1, <1>5 DEF CannotOpen, AtEnd, InUntar
<1>6. CASE Create
  BY <1>6, FilesStart DEF Create
<1>7. CASE InWalkDir
  BY <1>7, FilesWalk DEF InWalkDir
<1>8. CASE ReadBlock \/ NextArchive \/ ToolStopped
  BY <1>2, <1>8 DEF ReadBlock, NextArchive, ToolStopped, toolVars
<1> QED BY <1>2, <1>3, <1>4, <1>5, <1>6, <1>7, <1>8 DEF ToolNext, toolVars

LEMMA FilesHold == ToolSpec => []FilesInv
<1>1. ToolInit => FilesInv
  BY DEF ToolInit, Init, FilesInv, DiskInv
<1> QED BY <1>1, TableHolds, FilesStep, PTL DEF ToolSpec

\* The files of the listing are the awaited ones.
LEMMA ListedIs ==
  ASSUME TableType, TreeInv, NEW k \in 1 .. ninodes, Listed(k)
  PROVE  DirsAbove(k)
<1> SUFFICES ASSUME NEW a \in 1 .. ninodes, Leads(a, k), a # k PROVE inodes[a].kind = "dir"
  BY DEF DirsAbove
<1>. PICK path : path = PathOf(k)
  OBVIOUS
<1>1. k \in 0 .. ninodes /\ a \in 0 .. ninodes /\ a # Root /\ FullPath(k) = path
  BY PathStep, NodeFacts, PlaceFacts
<1>2. path \in Seq(Names) /\ Len(path) \in Nat /\ PathOf(a) # <<>>
  BY <1>1, PathTyped
<1>3. PICK n \in 0 .. Len(path) : PathOf(a) = SubSeq(path, 1, n)
  BY DEF Leads
<1>4. n # Len(path)
  <2> SUFFICES ASSUME n = Len(path) PROVE FALSE
    OBVIOUS
  <2>1. PathOf(a) = PathOf(k)
    BY <1>2, <1>3, SubSeqFull
  <2> QED BY <1>1, <2>1, PathsDiffer
<1>5. n # 0
  BY <1>2, <1>3, SubSeqEmpty
<1>6. n \in 1 .. Len(path) - 1
  BY <1>2, <1>4, <1>5
<1>7. Walk(path, n) = a
  BY <1>1, <1>2, <1>3, WalkComplete
<1>8. inodes[Walk(path, n)].kind = "dir"
  BY <1>1, <1>6 DEF Listed
<1> QED BY <1>7, <1>8

\* Every regular file of the listing can be loaded, for any archives: the walk
\* comes to every inode with only directories above it, what it writes there is
\* removed by no other inode, and bzip2 finds no directory in its way.
THEOREM FilesLoadableHolds == ToolSpec => []FilesLoadable
<1>1. ASSUME TableType, TreeInv, FilesInv PROVE FilesLoadable
  <2> SUFFICES ASSUME phase = "done", NEW k \in 1 .. ninodes, inodes[k].kind = "file", Listed(k),
                      \A l \in 1 .. ninodes : l # k => Uses(l) \cap Uses(k) = {}
               PROVE  ListedPath(k) \in DOMAIN disk /\ disk[ListedPath(k)] = inodes[k].content
    BY DEF FilesLoadable
  <2>1. \A l \in 1 .. ninodes : Uses(l) = Taken(l)
    <3> SUFFICES ASSUME NEW l \in 1 .. ninodes PROVE Uses(l) = Taken(l)
      OBVIOUS
    <3>1. NotHidden(l) = Place(l)
      BY <1>1, PlaceFacts
    <3> QED BY <3>1 DEF Uses, Taken, Packs
  <2>2. Awaited(k)
    <3>1. Alone(k)
      BY <2>1 DEF Alone
    <3>2. DirsAbove(k)
      BY <1>1, ListedIs
    <3> QED BY <3>1, <3>2 DEF Awaited
  <2>3. stack = <<>> /\ CoverInv
    BY <1>1 DEF FilesInv
  <2>4. ~Ahead(k)
    BY <2>3 DEF Ahead
  <2>5. Written(k)
    BY <2>2, <2>3, <2>4 DEF CoverInv
  <2>6. /\ NotHidden(k) = Place(k) /\ FullPath(k) = PathOf(k)
        /\ ~Marked(PathOf(k)) => Place(k) = PathOf(k)
    BY <1>1, PlaceFacts
  <2>7. ListedPath(k) = Target(k)
    <3>1. (IF inodes[k].src THEN NotHidden(k) ELSE FullPath(k)) = Place(k)
      BY <2>5, <2>6 DEF Written
    <3> QED BY <2>5, <3>1 DEF Written, ListedPath, Target
  <2> QED BY <2>5, <2>7 DEF Written
<1> QED BY <1>1, TableHolds, FilesHold, PTL
=============================================================================
