--------------------------- MODULE FsPipelineProofs ---------------------------
(***************************************************************************)
(* Proofs about FsPipeline, for any images, contents of the stack and      *)
(* summaries, in this order:                                               *)
(*                                                                         *)
(*   - what FlattenSeq makes of sequences of lines;                        *)
(*   - the lines lab3a prints about an inode;                              *)
(*   - what has been printed at each point of lab3a's run;                 *)
(*   - what lab3b.py's dictionaries hold after each line, and what its     *)
(*     scans have found by then;                                           *)
(*   - that this makes its verdict right.                                  *)
(***************************************************************************)
EXTENDS FsPipeline, WellFoundedInduction, FiniteSetTheorems, SequenceTheorems, TLAPS

\* A set of naturals has a least element.
LEMMA Least ==
  ASSUME NEW T \in SUBSET Nat, T # {}
  PROVE  \E x \in T : \A y \in T : x <= y
<1>1. PICK x \in T : \A y \in T : ~ (<<y, x>> \in OpToRel(<, Nat))
  BY WFMin, NatLessThanWellFounded
<1>2. \A y \in T : ~(y < x)
  BY <1>1 DEF OpToRel
<1> QED
  BY <1>2

-----------------------------------------------------------------------------
\* Sequences of lines

\* What a sequence of records holds after another is added to it.
LEMMA RangeConcat ==
  ASSUME NEW S, NEW s \in Seq(S), NEW t \in Seq(S)
  PROVE  s \o t \in Seq(S) /\ Range(s \o t) = Range(s) \cup Range(t)
<1>1. /\ s \o t \in Seq(S) /\ DOMAIN (s \o t) = 1..(Len(s) + Len(t))
      /\ Len(s) \in Nat /\ Len(t) \in Nat /\ DOMAIN s = 1..Len(s) /\ DOMAIN t = 1..Len(t)
      /\ \A j \in 1..(Len(s) + Len(t)) : (s \o t)[j] = IF j <= Len(s) THEN s[j] ELSE t[j - Len(s)]
  OBVIOUS
<1>2. ASSUME NEW x \in Range(s \o t) PROVE x \in Range(s) \cup Range(t)
  <2>1. PICK j \in 1..(Len(s) + Len(t)) : x = (s \o t)[j]
    BY <1>1 DEF Range
  <2>2. IF j <= Len(s) THEN j \in DOMAIN s /\ x = s[j] ELSE j - Len(s) \in DOMAIN t /\ x = t[j - Len(s)]
    BY <1>1, <2>1
  <2> QED
    BY <2>2 DEF Range
<1>3. ASSUME NEW x \in Range(s) PROVE x \in Range(s \o t)
  <2>1. PICK j \in 1..Len(s) : x = s[j]
    BY <1>1 DEF Range
  <2>2. j \in 1..(Len(s) + Len(t)) /\ x = (s \o t)[j]
    BY <1>1, <2>1
  <2> QED
    BY <1>1, <2>2 DEF Range
<1>4. ASSUME NEW x \in Range(t) PROVE x \in Range(s \o t)
  <2>1. PICK j \in 1..Len(t) : x = t[j]
    BY <1>1 DEF Range
  <2>2. Len(s) + j \in 1..(Len(s) + Len(t)) /\ x = (s \o t)[Len(s) + j]
    BY <1>1, <2>1
  <2> QED
    BY <1>1, <2>2 DEF Range
<1> QED
  BY <1>1, <1>2, <1>3, <1>4

\* FlattenSeq adds up the sequences of a sequence: the recursion that defines it has a
\* solution, built one sequence after the other.
LEMMA FlattenDef ==
  ASSUME NEW q, Len(q) \in Nat \ {0}
  PROVE  \E f : /\ FlattenSeq(q) = f[Len(q)]
                /\ f[1] = q[1]
                /\ \A n \in 2..Len(q) : f[n] = f[n - 1] \o q[n]
<1> DEFINE Body(f, n) == IF n = 1 THEN q[n] ELSE f[n - 1] \o q[n]
           P(m) == \E f : f = [n \in 1..m |-> Body(f, n)]
           T == {m \in Nat : ~P(m)}
           F == CHOOSE f : f = [n \in 1..Len(q) |-> Body(f, n)]
<1>1. P(0)
  <2> DEFINE f == [n \in 1..0 |-> <<>>]
  <2>1. f = [n \in 1..0 |-> Body(f, n)]
    OBVIOUS
  <2> QED
    BY <2>1
<1>2. ASSUME NEW m \in Nat, P(m) PROVE P(m + 1)
  <2>1. PICK f : f = [n \in 1..m |-> Body(f, n)]
    BY <1>2
  <2> DEFINE g == [n \in 1..(m + 1) |-> IF n = m + 1 THEN Body(f, n) ELSE f[n]]
  <2>2. ASSUME NEW n \in 1..(m + 1) PROVE g[n] = Body(g, n)
    <3>1. Body(g, n) = Body(f, n)
      <4>1. CASE n = 1
        BY <4>1
      <4>2. CASE n # 1
        <5>1. n - 1 \in 1..(m + 1) /\ n - 1 # m + 1
          BY <4>2
        <5>2. g[n - 1] = f[n - 1]
          BY <5>1
        <5> HIDE DEF g
        <5> QED
          BY <4>2, <5>2
      <4> QED
        BY <4>1, <4>2
    <3>2. n # m + 1 => f[n] = Body(f, n)
      <4> SUFFICES ASSUME n # m + 1 PROVE f[n] = Body(f, n)
        OBVIOUS
      <4>1. n \in 1..m
        OBVIOUS
      <4> HIDE DEF Body
      <4> QED
        BY <4>1, <2>1
    <3> QED
      BY <3>1, <3>2
  <2> HIDE DEF Body
  <2>3. g = [n \in 1..(m + 1) |-> Body(g, n)]
    BY <2>2
  <2> QED
    BY <2>3
<1>3. T = {}
  <2> HIDE DEF P
  <2>1. SUFFICES ASSUME T # {} PROVE FALSE
    OBVIOUS
  <2>2. PICK x \in T : \A y \in T : x <= y
    BY <2>1, Least
  <2>3. x \in Nat /\ ~P(x) /\ x # 0
    BY <1>1
  <2>4. x - 1 \in Nat /\ x - 1 \notin T /\ (x - 1) + 1 = x
    BY <2>2, <2>3
  <2>5. P(x - 1)
    BY <2>4
  <2> QED
    BY <2>3, <2>4, <2>5, <1>2
<1>4. P(Len(q))
  <2> HIDE DEF P
  <2> QED
    BY <1>3
<1>5. F = [n \in 1..Len(q) |-> Body(F, n)]
  <2> HIDE DEF Body
  <2> QED
    BY <1>4
<1>6. FlattenSeq(q) = F[Len(q)]
  BY DEF FlattenSeq
<1> HIDE DEF F
<1>7. \A n \in 1..Len(q) : F[n] = Body(F, n)
  <2> HIDE DEF Body
  <2> QED
    BY <1>5
<1>8. F[1] = q[1]
  <2>1. 1 \in 1..Len(q)
    OBVIOUS
  <2>2. F[1] = Body(F, 1)
    BY <1>7, <2>1
  <2> QED
    BY <2>2
<1>9. ASSUME NEW n \in 2..Len(q) PROVE F[n] = F[n - 1] \o q[n]
  <2>1. n \in 1..Len(q) /\ n # 1
    OBVIOUS
  <2>2. F[n] = Body(F, n)
    BY <1>7, <2>1
  <2> QED
    BY <2>1, <2>2
<1> QED
  BY <1>6, <1>8, <1>9

\* The elements of the result are those of the sequences.
LEMMA FlattenIs ==
  ASSUME NEW S, NEW q, Len(q) \in Nat, DOMAIN q = 1..Len(q), Len(q) = 0 => q = <<>>,
         \A n \in 1..Len(q) : q[n] \in Seq(S)
  PROVE  /\ FlattenSeq(q) \in Seq(S)
         /\ Range(FlattenSeq(q)) = UNION {Range(q[n]) : n \in 1..Len(q)}
<1>1. CASE Len(q) = 0
  <2>1. FlattenSeq(q) = <<>>
    BY <1>1 DEF FlattenSeq
  <2> QED
    BY <1>1, <2>1 DEF Range
<1>2. CASE Len(q) # 0
  <2>1. PICK f : /\ FlattenSeq(q) = f[Len(q)]
                 /\ f[1] = q[1]
                 /\ \A n \in 2..Len(q) : f[n] = f[n - 1] \o q[n]
    BY <1>2, FlattenDef
  <2> DEFINE Good(m) == f[m] \in Seq(S) /\ Range(f[m]) = UNION {Range(q[n]) : n \in 1..m}
             T == {m \in 1..Len(q) : ~Good(m)}
  <2>2. Good(1)
    BY <1>2, <2>1
  <2>3. ASSUME NEW m \in 2..Len(q), Good(m - 1) PROVE Good(m)
    <3>0. m \in 1..Len(q)
      OBVIOUS
    <3>1. f[m] = f[m - 1] \o q[m] /\ q[m] \in Seq(S)
      <4> HIDE DEF Good, T
      <4> QED
        BY <3>0, <2>1
    <3>2. f[m] \in Seq(S) /\ Range(f[m]) = Range(f[m - 1]) \cup Range(q[m])
      BY <3>1, <2>3, RangeConcat
    <3>3. 1..m = (1..(m - 1)) \cup {m}
      OBVIOUS
    <3> QED
      BY <2>3, <3>2, <3>3
  <2>4. T = {}
    <3> HIDE DEF Good
    <3>1. SUFFICES ASSUME T # {} PROVE FALSE
      OBVIOUS
    <3> T \in SUBSET Nat
      OBVIOUS
    <3>2. PICK x \in T : \A y \in T : x <= y
      <4> HIDE DEF T
      <4> QED
        BY <3>1, Least
    <3>3. x \in 2..Len(q) /\ ~Good(x)
      BY <2>2
    <3>4. x - 1 \in 1..Len(q) /\ x - 1 \notin T
      BY <3>2, <3>3
    <3> QED
      BY <3>3, <3>4, <2>3
  <2>5. Good(Len(q))
    <3> HIDE DEF Good
    <3> QED
      BY <1>2, <2>4
  <2> QED
    BY <2>1, <2>5
<1> QED
  BY <1>1, <1>2

-----------------------------------------------------------------------------
\* The lines printed about an inode

ImageOK == IsImage(image)

DirRow == [type : {"DIRECT"}, parent : Nat, num : Int, name : STRING]

\* The DIRECT lines of a directory.
LEMMA DirLinesAre ==
  ASSUME ImageOK, i \in 1..image.inodes_pg
  PROVE  DirLines \in Seq(DirRow)
<1>1. CASE Curr.mode # "d" \/ \A k \in 1..12 : Curr.i_block[k] = 0
  <2>1. DirLines = <<>>
    BY <1>1 DEF DirLines
  <2> QED
    BY <2>1
<1>2. CASE ~(Curr.mode # "d" \/ \A k \in 1..12 : Curr.i_block[k] = 0)
  <2> DEFINE entries == image.dirs[Curr.i_block[FirstBlock]]
             row(j) == [type |-> "DIRECT", parent |-> i, num |-> entries[j].inode,
                        name |-> entries[j].name]
             part(j) == IF entries[j].inode = 0 THEN <<>> ELSE << row(j) >>
             q == [j \in DOMAIN entries |-> part(j)]
             T == {k \in 1..12 : Curr.i_block[k] # 0}
  <2>1. PICK k \in T : \A j \in T : k <= j
    <3>1. T \in SUBSET Nat /\ T # {}
      BY <1>2
    <3> HIDE DEF T
    <3> QED
      BY <3>1, Least
  <2>2. k \in 1..12 /\ Curr.i_block[k] # 0 /\ \A j \in 1..(k - 1) : Curr.i_block[j] = 0
    BY <2>1
  <2>3. FirstBlock \in 1..12 /\ Curr.i_block[FirstBlock] # 0
    BY <2>2 DEF FirstBlock
  <2>4. Curr.i_block[FirstBlock] \in DOMAIN image.dirs
    BY <1>2, <2>3 DEF ImageOK, IsImage, Curr
  <2>5. entries \in Seq([inode : Int, name : STRING])
    BY <2>4 DEF ImageOK, IsImage
  <2> DEFINE Entry == [inode : Int, name : STRING]
  <2> HIDE DEF entries, Entry
  <2>12. entries \in Seq(Entry)
    BY <2>5 DEF Entry
  <2>6. /\ Len(entries) \in Nat /\ DOMAIN entries = 1..Len(entries)
        /\ \A j \in DOMAIN entries : entries[j] \in Entry
    BY <2>12
  <2>7. ASSUME NEW j \in DOMAIN entries PROVE part(j) \in Seq(DirRow)
    <3>1. row(j) \in DirRow
      BY <2>6 DEF DirRow, ImageOK, IsImage, Entry
    <3> HIDE DEF row
    <3>2. << row(j) >> \in Seq(DirRow)
      BY <3>1
    <3> QED
      BY <3>2
  <2>8. DirLines = FlattenSeq(q)
    BY <1>2 DEF DirLines, entries
  <2> HIDE DEF part
  <2>9. /\ Len(q) = Len(entries) /\ DOMAIN q = 1..Len(entries)
        /\ \A j \in 1..Len(entries) : q[j] = part(j)
    BY <2>6
  <2>10. Len(q) = 0 => q = <<>>
    BY <2>6, <2>9
  <2> HIDE DEF q
  <2>11. FlattenSeq(q) \in Seq(DirRow)
    BY <2>6, <2>7, <2>9, <2>10, FlattenIs
  <2> QED
    BY <2>8, <2>11
<1> QED
  BY <1>1, <1>2

-----------------------------------------------------------------------------
\* What lab3a has printed, at each point of its run

SuperRow == [type : {"SUPERBLOCK"}, blk_cnt : Nat, ino_cnt : Nat]
GroupRow == [type : {"GROUP"}]
FreeRow  == [type : {"BFREE", "IFREE"}, nums : SUBSET Nat]
InodeRow == [type : {"INODE"}, num : Nat, link_cnt : Nat, blk_addrs : Seq(Int), dates : {"comma"}]
AnyIndRow == [type : {"INDIRECT"}, num : Nat, block : Int \ {0}]
Row == SuperRow \cup GroupRow \cup FreeRow \cup InodeRow \cup DirRow \cup AnyIndRow

\* The lines about the inode at hand, before those about its indirect blocks.
Chunk == InodeLine \o DirLines

InUse(img, n) == img.table[n].mode # "0" /\ img.table[n].links # 0

\* The type of a line tells which fields it has.
LEMMA RowTypes ==
  ASSUME NEW r \in Row
  PROVE  /\ r.type \in {"SUPERBLOCK", "GROUP", "BFREE", "IFREE", "INODE", "DIRECT", "INDIRECT"}
         /\ r.type = "SUPERBLOCK" => r \in SuperRow
         /\ r.type \in {"BFREE", "IFREE"} => r \in FreeRow
         /\ r.type = "INODE" => r \in InodeRow
         /\ r.type = "INDIRECT" => r \in AnyIndRow
<1>1. \A x \in SuperRow : x.type = "SUPERBLOCK"
  BY DEF SuperRow
<1>2. \A x \in GroupRow : x.type = "GROUP"
  BY DEF GroupRow
<1>3. \A x \in FreeRow : x.type \in {"BFREE", "IFREE"}
  BY DEF FreeRow
<1>4. \A x \in InodeRow : x.type = "INODE"
  BY DEF InodeRow
<1>5. \A x \in DirRow : x.type = "DIRECT"
  BY DEF DirRow
<1>6. \A x \in AnyIndRow : x.type = "INDIRECT"
  BY DEF AnyIndRow
<1> QED
  BY <1>1, <1>2, <1>3, <1>4, <1>5, <1>6 DEF Row

\* The addresses of an inode are a sequence.
LEMMA FifteenSlots ==
  ASSUME NEW f \in [1..15 -> Nat]
  PROVE  f \in Seq(Int) /\ Len(f) = 15
<1>1. f \in UNION {[1..n -> Int] : n \in Nat}
  <2>1. f \in [1..15 -> Int] /\ 15 \in Nat
    OBVIOUS
  <2>2. [1..15 -> Int] \in {[1..n -> Int] : n \in Nat}
    BY <2>1, Zenon
  <2> QED
    BY <2>1, <2>2
<1>2. f \in Seq(Int)
  BY <1>1, SeqDef
<1>3. DOMAIN f = 1..15
  OBVIOUS
<1>4. DOMAIN f = 1..Len(f) /\ Len(f) \in Nat
  BY <1>2, LenProperties
<1> QED
  BY <1>2, <1>3, <1>4

\* These lines start with the INODE line, and none of them is an INDIRECT line.
LEMMA ChunkIs ==
  ASSUME ImageOK, i \in 1..image.inodes_pg
  PROVE  /\ InodeLine \in Seq(Row) /\ DirLines \in Seq(Row)
         /\ Chunk \in Seq(Row) /\ Len(Chunk) \in Nat \ {0}
         /\ Chunk[1] \in InodeRow /\ Chunk[1].num = i /\ Len(Chunk[1].blk_addrs) <= 15
         /\ \A j \in 2..Len(Chunk) : Chunk[j].type = "DIRECT"
<1> DEFINE head == InodeLine[1]
           rest == DirLines
<1>1. /\ i \in Nat \ {0} /\ i \in DOMAIN image.table
      /\ Curr.links \in Nat /\ Curr.i_block \in [1..15 -> Nat]
  BY DEF ImageOK, IsImage, Curr
<1>2. Printed \in Seq(Int) /\ Len(Printed) <= 15
  <2>1. Curr.i_block \in Seq(Int) /\ Len(Curr.i_block) = 15
    BY <1>1, FifteenSlots
  <2>2. CASE Printed = <<>>
    <3>1. <<>> \in Seq(Int) /\ Len(<<>>) = 0
      OBVIOUS
    <3> QED
      BY <2>2, <3>1
  <2>3. CASE Printed = Curr.i_block
    <3>1. 15 <= 15
      OBVIOUS
    <3> QED
      BY <2>1, <2>3, <3>1
  <2> QED
    BY <2>2, <2>3 DEF Printed
<1>3. InodeLine = << head >> /\ head \in InodeRow /\ head.num = i /\ Len(head.blk_addrs) <= 15
  BY <1>1, <1>2 DEF InodeLine, InodeRow
<1> HIDE DEF head
<1>4. head \in Row /\ head.type = "INODE" /\ << head >> \in Seq(Row)
  BY <1>3 DEF Row, InodeRow
<1>5. rest \in Seq(DirRow)
  BY <1>1, DirLinesAre
<1>6. DirRow \subseteq Row
  BY DEF Row
<1>7. DirLines \in Seq(Row)
  BY <1>5, <1>6, SeqMonotonic
<1>8. Chunk = << head >> \o rest
  BY <1>3 DEF Chunk
<1>9. rest \in Seq(Row)
  BY <1>7
<1> HIDE DEF rest
<1>11. /\ Chunk \in Seq(Row) /\ Len(Chunk) = 1 + Len(rest)
       /\ Chunk[1] = head /\ \A j \in 2..Len(Chunk) : Chunk[j] = rest[j - 1] /\ j - 1 \in DOMAIN rest
       /\ Len(rest) \in Nat
  BY <1>4, <1>8, <1>9
<1>12. \A j \in DOMAIN rest : rest[j] \in DirRow
  BY <1>5
<1>13. \A r \in DirRow : r.type = "DIRECT"
  BY DEF DirRow
<1> QED
  BY <1>3, <1>4, <1>7, <1>11, <1>12, <1>13

\* The places of lab3a: where it is, and how it can end.
SumPlaces ==
  /\ i \in Nat \ {0} /\ i <= image.inodes_pg + 1
  /\ pc \in {"open", "bfree", "ifree", "inode", "slots"} /\ (pc \notin {"inode", "slots"} => i = 1)
  /\ pc = "slots" => i <= image.inodes_pg
  /\ pc # "slots" => slot = 1 /\ depth = 0
  /\ slot \in 1..4 /\ depth \in 0..3 /\ (depth > 0 => slot <= 3 /\ depth <= slot)
  /\ status \in {SRunning, 0, 1, SigAbrt}
  /\ status = 0 => pc = "inode" /\ i > image.inodes_pg

\* The number of lines printed so far.
SumLength ==
  /\ pc = "open" => out = <<>>
  /\ pc = "bfree" => Len(out) = 2
  /\ pc = "ifree" => Len(out) = 3
  /\ pc \in {"inode", "slots"} => Len(out) >= 4

\* The inodes before this one have had their INODE line.
Seen == IF pc = "slots" THEN i + 1 ELSE i

\* The stack, and the loops of the calls under way.
StackOK ==
  /\ ind_blocks \in [1..3 -> [1..PTRS -> Nat]]
  /\ at \in [1..3 -> 1..(PTRS + 1)]

\* Line r, printed as the j-th, when the inodes before m have been looked at.
LineRight(img, r, j, m) ==
  /\ r.type = "SUPERBLOCK" <=> j = 1
  /\ r.type = "BFREE" <=> j = 3
  /\ r.type = "IFREE" <=> j = 4
  /\ j = 1 => r.ino_cnt = img.inodes
  /\ j = 3 => r.nums = Listed(img.bzeros, img.blocks_pg)
  /\ j = 4 => r.nums = Listed(img.izeros, img.inodes_pg)
  /\ r.type = "INODE" => r.num \in 1..(m - 1) /\ Len(r.blk_addrs) <= 15
  /\ r.type = "INDIRECT" => r.num \in 1..(m - 1)

\* The lines s: each is right, and each inode in use has had its INODE line once.
LinesRight(img, s, m) ==
  /\ s \in Seq(Row)
  /\ \A j \in DOMAIN s : LineRight(img, s[j], j, m)
  /\ \A j, k \in DOMAIN s :
       s[j].type = "INODE" /\ s[k].type = "INODE" /\ s[j].num = s[k].num => j = k
  /\ \A n \in 1..(m - 1) : InUse(img, n) => \E j \in DOMAIN s : s[j].type = "INODE" /\ s[j].num = n

\* The blocks the INDIRECT lines of inode n are about.
BlocksOf(s, n) == {s[j].block : j \in {j \in DOMAIN s : s[j].type = "INDIRECT" /\ s[j].num = n}}

-----------------------------------------------------------------------------
\* Where each indirect block has one pointer, what a slot reaches is a chain

OnePtr(img, stack) ==
  /\ \A b \in DOMAIN img.inds :
       img.inds[b][1] < img.blocks /\ \A n \in 2..PTRS : img.inds[b][n] = 0
  /\ \A d \in 1..3, n \in 2..PTRS : stack[d][n] = 0
InImage(img, f) == \A k \in 13..15 : f.i_block[k] < img.blocks

First(img, b)  == IF b \in DOMAIN img.inds THEN img.inds[b][1] ELSE 0
Hop(img, b, k) == CASE k = 0 -> b
                    [] k = 1 -> First(img, b)
                    [] k = 2 -> First(img, First(img, b))
                    [] k = 3 -> First(img, First(img, First(img, b)))
Chain(img, b, e) == {Hop(img, b, k) : k \in 1..e} \ {0}
Trees(img, f, sl) == UNION {Chain(img, f.i_block[12 + k], k) : k \in 1..(sl - 1)}

\* The hops of a chain; nothing follows the end of one.
LEMMA Hops ==
  ASSUME NEW img, IsImage(img), NEW b \in Nat
  PROVE  /\ \A k \in 0..3 : Hop(img, b, k) \in Nat
         /\ Hop(img, b, 0) = b
         /\ \A k \in 0..2 : Hop(img, b, k + 1) = First(img, Hop(img, b, k))
         /\ \A k, l \in 0..3 : k <= l /\ Hop(img, b, k) = 0 => Hop(img, b, l) = 0
         /\ \A st : OnePtr(img, st) => \A k \in 1..3 : Hop(img, b, k) # 0 => Hop(img, b, k) < img.blocks
<1>1. 1 \in 1..PTRS /\ DOMAIN img.inds \subseteq 1..(img.blocks - 1) /\ img.blocks \in Nat
      /\ \A c \in DOMAIN img.inds : img.inds[c] \in [1..PTRS -> Nat]
  BY SizesAssumption DEF IsImage
<1>2. \A c \in Nat : First(img, c) \in Nat
  BY <1>1 DEF First
<1>3. First(img, 0) = 0
  BY <1>1 DEF First
<1>4. /\ Hop(img, b, 0) = b /\ Hop(img, b, 1) = First(img, b)
      /\ Hop(img, b, 2) = First(img, Hop(img, b, 1)) /\ Hop(img, b, 3) = First(img, Hop(img, b, 2))
  BY DEF Hop
<1>5. \A k : k \in 0..3 <=> k = 0 \/ k = 1 \/ k = 2 \/ k = 3
  OBVIOUS
<1>6. \A k : k \in 0..2 <=> k = 0 \/ k = 1 \/ k = 2
  OBVIOUS
<1>7. \A k \in 0..3 : Hop(img, b, k) \in Nat
  BY <1>2, <1>4, <1>5
<1>8. \A k \in 0..2 : Hop(img, b, k + 1) = First(img, Hop(img, b, k))
  BY <1>4, <1>6
<1>9. \A k, l \in 0..3 : k <= l /\ Hop(img, b, k) = 0 => Hop(img, b, l) = 0
  BY <1>3, <1>4, <1>5
<1>10. ASSUME NEW st, OnePtr(img, st), NEW k \in 1..3, Hop(img, b, k) # 0
       PROVE  Hop(img, b, k) < img.blocks
  <2>1. k - 1 \in 0..2 /\ (k - 1) + 1 = k
    OBVIOUS
  <2>2. Hop(img, b, k) = First(img, Hop(img, b, k - 1))
    BY <1>8, <2>1
  <2>3. \A c : First(img, c) # 0 => First(img, c) < img.blocks
    BY <1>10 DEF First, OnePtr
  <2> QED
    BY <1>10, <2>2, <2>3
<1> QED
  BY <1>4, <1>7, <1>8, <1>9, <1>10

\* A chain grows by a hop, and not any more when it has come to its end.
LEMMA Chains ==
  ASSUME NEW img, IsImage(img), NEW b \in Nat, NEW e \in 0..2
  PROVE  /\ Chain(img, b, 0) = {} /\ Chain(img, 0, e + 1) = {}
         /\ Hop(img, b, e + 1) # 0 => Chain(img, b, e + 1) = Chain(img, b, e) \cup {Hop(img, b, e + 1)}
         /\ Hop(img, b, e + 1) = 0 => \A l \in (e + 1)..3 : Chain(img, b, l) = Chain(img, b, e)
<1>1. Chain(img, b, 0) = {}
  BY DEF Chain
<1>2. Chain(img, 0, e + 1) = {}
  <2>1. Hop(img, 0, 0) = 0 /\ 0 \in 0..3
    BY Hops
  <2>2. \A k \in 1..(e + 1) : k \in 0..3 /\ 0 <= k
    OBVIOUS
  <2>3. \A k \in 1..(e + 1) : Hop(img, 0, k) = 0
    BY <2>1, <2>2, Hops
  <2> QED
    BY <2>3 DEF Chain
<1>3. ASSUME Hop(img, b, e + 1) # 0
      PROVE  Chain(img, b, e + 1) = Chain(img, b, e) \cup {Hop(img, b, e + 1)}
  <2>1. \A k : k \in 1..(e + 1) <=> k \in 1..e \/ k = e + 1
    OBVIOUS
  <2> QED
    BY <1>3, <2>1 DEF Chain
<1>4. ASSUME Hop(img, b, e + 1) = 0, NEW l \in (e + 1)..3
      PROVE  Chain(img, b, l) = Chain(img, b, e)
  <2>1. \A k \in 1..l : k \in 1..e \/ (k \in 0..3 /\ e + 1 \in 0..3 /\ e + 1 <= k)
    OBVIOUS
  <2>2. \A k \in 1..l : k \in 1..e \/ Hop(img, b, k) = 0
    BY <1>4, <2>1, Hops
  <2>3. \A k \in 1..e : k \in 1..l
    OBVIOUS
  <2> QED
    BY <2>2, <2>3 DEF Chain
<1> QED
  BY <1>1, <1>2, <1>3, <1>4

\* The trees of one more slot.
LEMMA OneMoreTree ==
  ASSUME NEW img, NEW f, NEW sl \in 1..3
  PROVE  /\ Trees(img, f, 1) = {}
         /\ Trees(img, f, sl + 1) = Trees(img, f, sl) \cup Chain(img, f.i_block[12 + sl], sl)
<1>1. \A k : k \in 1..((sl + 1) - 1) <=> k \in 1..(sl - 1) \/ k = sl
  OBVIOUS
<1>2. 1..(1 - 1) = {}
  OBVIOUS
<1> DEFINE C(k) == Chain(img, f.i_block[12 + k], k)
<1> HIDE DEF C
<1>3. UNION {C(k) : k \in 1..((sl + 1) - 1)} = (UNION {C(k) : k \in 1..(sl - 1)}) \cup C(sl)
  BY <1>1
<1> QED
  BY <1>2, <1>3 DEF Trees, C

\* The three trees are what the file reaches.
LEMMA TreesAreReached ==
  ASSUME ImageOK, NEW f, f.i_block \in [1..15 -> Nat], NEW st, OnePtr(image, st)
  PROVE  Trees(image, f, 4) = Reached(f)
<1> DEFINE P(b) == First(image, b)
           h(k, l) == Hop(image, f.i_block[12 + k], l)
<1>1. 0 \notin DOMAIN image.inds /\ 1 \in 1..PTRS
      /\ \A b \in DOMAIN image.inds : image.inds[b] \in [1..PTRS -> Nat]
      /\ \A n \in 1..PTRS : n = 1 \/ n \in 2..PTRS
  <2>1. IsImage(image)
    BY DEF ImageOK
  <2>2. PTRS \in Nat \ {0}
    BY SizesAssumption
  <2>3. 1 \in 1..PTRS /\ \A n \in 1..PTRS : n = 1 \/ n \in 2..PTRS
    BY <2>2
  <2>5. /\ DOMAIN image.inds \subseteq 1..(image.blocks - 1) /\ image.blocks \in Nat
        /\ \A b \in DOMAIN image.inds : image.inds[b] \in [1..PTRS -> Nat]
    BY <2>1 DEF IsImage
  <2>6. \A n : 0 \notin 1..n
    OBVIOUS
  <2>7. 0 \notin DOMAIN image.inds
    BY <2>5, <2>6, Zenon
  <2>4. 0 \notin DOMAIN image.inds /\ \A b \in DOMAIN image.inds : image.inds[b] \in [1..PTRS -> Nat]
    BY <2>5, <2>7, Zenon
  <2> QED
    BY <2>3, <2>4
<1>2. ASSUME NEW S PROVE Pointers(S) = {P(b) : b \in S} \ {0}
  <2>1. ASSUME NEW b \in DOMAIN image.inds
        PROVE  \A x : x # 0 => (x \in Range(image.inds[b]) <=> x = P(b))
    <3>1. P(b) = image.inds[b][1] /\ DOMAIN image.inds[b] = 1..PTRS
      BY <1>1 DEF First
    <3>2. \A n \in 2..PTRS : image.inds[b][n] = 0
      BY DEF OnePtr
    <3> QED
      BY <1>1, <3>1, <3>2 DEF Range
  <2>2. \A b : b \notin DOMAIN image.inds => P(b) = 0
    BY DEF First
  <2> HIDE DEF P
  <2>3. ASSUME NEW x \in Pointers(S) PROVE x \in {P(b) : b \in S} \ {0}
    <3>1. PICK b \in S \cap DOMAIN image.inds : x \in Range(image.inds[b])
      BY <2>3 DEF Pointers
    <3>2. x # 0
      BY <2>3 DEF Pointers
    <3> QED
      BY <2>1, <3>1, <3>2
  <2>4. ASSUME NEW x \in {P(b) : b \in S} \ {0} PROVE x \in Pointers(S)
    <3>1. PICK b \in S : x = P(b) /\ x # 0
      BY <2>4
    <3>2. b \in DOMAIN image.inds /\ x \in Range(image.inds[b])
      BY <2>1, <2>2, <3>1
    <3> QED
      BY <3>1, <3>2 DEF Pointers
  <2> QED
    BY <2>3, <2>4
<1> HIDE DEF P
<1>3. P(0) = 0
  BY <1>1 DEF P, First
<1>4. ASSUME NEW k \in 1..3
      PROVE  h(k, 1) = P(f.i_block[12 + k]) /\ h(k, 2) = P(h(k, 1)) /\ h(k, 3) = P(h(k, 2))
  BY DEF Hop, P
<1> HIDE DEF h
<1>5. ASSUME NEW x PROVE Pointers({x} \ {0}) = {P(x)} \ {0}
  <2>1. Pointers({x} \ {0}) = {P(b) : b \in {x} \ {0}} \ {0}
    BY <1>2
  <2> QED
    BY <1>3, <2>1
<1>6. /\ Pointers({f.i_block[13]}) = {h(1, 1)} \ {0}
      /\ Pointers({f.i_block[14]}) = {h(2, 1)} \ {0}
      /\ Pointers({f.i_block[15]}) = {h(3, 1)} \ {0}
  <2>1. \A x : Pointers({x}) = {P(x)} \ {0}
    BY <1>2
  <2>2. h(1, 1) = P(f.i_block[13]) /\ h(2, 1) = P(f.i_block[14]) /\ h(3, 1) = P(f.i_block[15])
    BY <1>4
  <2> QED
    BY <2>1, <2>2
<1>7. \A k \in 1..3 : /\ Pointers({h(k, 1)} \ {0}) = {h(k, 2)} \ {0}
                      /\ Pointers({h(k, 2)} \ {0}) = {h(k, 3)} \ {0}
  BY <1>4, <1>5
<1>8. Reached(f) = ({h(1, 1)} \ {0}) \cup ({h(2, 1)} \ {0}) \cup ({h(2, 2)} \ {0})
                     \cup ({h(3, 1)} \ {0}) \cup ({h(3, 2)} \ {0}) \cup ({h(3, 3)} \ {0})
  <2> DEFINE A == Pointers({f.i_block[13]})
             B == Pointers({f.i_block[14]})
             C == Pointers({f.i_block[15]})
  <2>1. Reached(f) = A \cup B \cup Pointers(B) \cup C \cup Pointers(C) \cup Pointers(Pointers(C))
    BY DEF Reached
  <2>2. A = {h(1, 1)} \ {0} /\ B = {h(2, 1)} \ {0} /\ C = {h(3, 1)} \ {0}
    BY <1>6
  <2> HIDE DEF A, B, C
  <2>3. Pointers(B) = {h(2, 2)} \ {0} /\ Pointers(C) = {h(3, 2)} \ {0}
    BY <1>7, <2>2
  <2>4. Pointers(Pointers(C)) = {h(3, 3)} \ {0}
    BY <1>7, <2>3
  <2> QED
    BY <2>1, <2>2, <2>3, <2>4
<1>9. /\ Trees(image, f, 4) = Trees(image, f, 3) \cup Chain(image, f.i_block[12 + 3], 3)
      /\ Trees(image, f, 3) = Trees(image, f, 2) \cup Chain(image, f.i_block[12 + 2], 2)
      /\ Trees(image, f, 2) = Trees(image, f, 1) \cup Chain(image, f.i_block[12 + 1], 1)
      /\ Trees(image, f, 1) = {}
  <2>1. 3 + 1 = 4 /\ 2 + 1 = 3 /\ 1 + 1 = 2 /\ 1 \in 1..3 /\ 2 \in 1..3 /\ 3 \in 1..3
    OBVIOUS
  <2>2. Trees(image, f, 3 + 1) = Trees(image, f, 3) \cup Chain(image, f.i_block[12 + 3], 3)
    BY <2>1, OneMoreTree
  <2>3. Trees(image, f, 2 + 1) = Trees(image, f, 2) \cup Chain(image, f.i_block[12 + 2], 2)
    BY <2>1, OneMoreTree
  <2>4. Trees(image, f, 1 + 1) = Trees(image, f, 1) \cup Chain(image, f.i_block[12 + 1], 1)
        /\ Trees(image, f, 1) = {}
    BY <2>1, OneMoreTree
  <2> QED
    BY <2>1, <2>2, <2>3, <2>4
<1>10. /\ Chain(image, f.i_block[12 + 1], 1) = {h(1, 1)} \ {0}
       /\ Chain(image, f.i_block[12 + 2], 2) = {h(2, 1), h(2, 2)} \ {0}
       /\ Chain(image, f.i_block[12 + 3], 3) = {h(3, 1), h(3, 2), h(3, 3)} \ {0}
  <2>1. 1..1 = {1} /\ 1..2 = {1, 2} /\ 1..3 = {1, 2, 3}
    OBVIOUS
  <2> QED
    BY <2>1 DEF Chain, h
<1> QED
  BY <1>8, <1>9, <1>10

-----------------------------------------------------------------------------
\* The lines about indirect blocks

\* The inodes before m have had INDIRECT lines about what they reach.
TreesRight(img, s, m) ==
  \A n \in 1..(m - 1) : InUse(img, n) /\ InImage(img, img.table[n]) =>
    BlocksOf(s, n) = Trees(img, img.table[n], 4)

\* The inode n has, up to slot sl of its file and to the loop a of the call at depth dp:
\* the calls above it have made theirs, and fetched one hop of the chain each.
OnTheWay(img, s, n, sl, dp, a, st) ==
  LET f == img.table[n]
      b == f.i_block[12 + sl]
  IN  InImage(img, f) =>
        IF dp = 0 THEN BlocksOf(s, n) = Trees(img, f, sl)
        ELSE /\ \A k \in 1..dp : st[k][1] = Hop(img, b, k)
             /\ \A k \in 1..(dp - 1) : a[k] >= 2
             /\ BlocksOf(s, n) = Trees(img, f, sl) \cup Chain(img, b, IF a[dp] = 1 THEN dp - 1 ELSE sl)

\* Where each indirect block has one pointer.
BlocksRight(img, s, m, here, sl, dp, a, st) ==
  OnePtr(img, st) => /\ TreesRight(img, s, m)
                     /\ here = "slots" => OnTheWay(img, s, m, sl, dp, a, st)

SumInv ==
  /\ ImageOK /\ SumPlaces /\ SumLength /\ StackOK
  /\ LinesRight(image, out, Seen)
  /\ BlocksRight(image, out, i, pc, slot, depth, at, ind_blocks)

\* The lines of the inode at hand keep the lines right.
LEMMA AppendRight ==
  ASSUME ImageOK, NEW s, LinesRight(image, s, i), i \in 1..image.inodes_pg, Len(s) >= 4
  PROVE  /\ LinesRight(image, s \o Chunk, i + 1) /\ Len(s \o Chunk) >= 4
         /\ \A n : BlocksOf(s \o Chunk, n) = BlocksOf(s, n)
<1> DEFINE c == Chunk
           t == s \o c
<1>1. /\ c \in Seq(Row) /\ Len(c) \in Nat \ {0}
      /\ c[1] \in InodeRow /\ c[1].num = i /\ Len(c[1].blk_addrs) <= 15
      /\ \A j \in 2..Len(c) : c[j].type = "DIRECT"
  BY ChunkIs
<1> HIDE DEF c
<1>2. s \in Seq(Row) /\ i \in Nat \ {0}
  BY DEF LinesRight, ImageOK, IsImage
<1>3. /\ t \in Seq(Row) /\ Len(t) = Len(s) + Len(c) /\ DOMAIN t = 1..Len(t)
      /\ Len(s) \in Nat /\ DOMAIN s = 1..Len(s) /\ DOMAIN c = 1..Len(c)
      /\ \A j \in 1..Len(s) : t[j] = s[j]
      /\ \A j \in (Len(s) + 1)..Len(t) : t[j] = c[j - Len(s)] /\ j - Len(s) \in 1..Len(c)
      /\ \A j \in 1..Len(c) : t[Len(s) + j] = c[j] /\ Len(s) + j \in (Len(s) + 1)..Len(t)
      /\ \A j \in DOMAIN t : j \in DOMAIN s \/ j \in (Len(s) + 1)..Len(t)
  BY <1>1, <1>2
<1> HIDE DEF t
<1>4. c[1].type = "INODE"
  BY <1>1 DEF InodeRow
<1>5. ASSUME NEW j \in (Len(s) + 1)..Len(t)
      PROVE  /\ t[j].type \in {"INODE", "DIRECT"}
             /\ t[j].type = "INODE" => j = Len(s) + 1 /\ t[j].num = i /\ Len(t[j].blk_addrs) <= 15
  <2>1. t[j] = c[j - Len(s)] /\ j - Len(s) \in 1..Len(c)
    BY <1>3
  <2>2. CASE j - Len(s) = 1
    <3>1. j = Len(s) + 1 /\ t[j] = c[1]
      BY <1>3, <2>1, <2>2
    <3>2. c[1].num = i /\ Len(c[1].blk_addrs) <= 15
      BY <1>1
    <3> QED
      BY <3>1, <3>2, <1>4
  <2>3. CASE j - Len(s) # 1
    <3>1. j - Len(s) \in 2..Len(c)
      BY <1>1, <1>3, <2>1, <2>3
    <3>2. c[j - Len(s)].type = "DIRECT"
      BY <3>1, <1>1
    <3> QED
      BY <2>1, <3>2
  <2> QED
    BY <2>2, <2>3
<1>6. ASSUME NEW j \in DOMAIN t PROVE LineRight(image, t[j], j, i + 1)
  <2>1. CASE j \in DOMAIN s
    <3>1. LineRight(image, s[j], j, i) /\ t[j] = s[j]
      BY <1>3, <2>1 DEF LinesRight
    <3>2. 1..(i - 1) \subseteq 1..((i + 1) - 1)
      BY <1>2
    <3> QED
      BY <3>1, <3>2 DEF LineRight
  <2>2. CASE j \in (Len(s) + 1)..Len(t)
    <3>1. j \notin {1, 3, 4} /\ i \in 1..((i + 1) - 1)
      BY <1>2, <1>3, <2>2
    <3> QED
      BY <1>5, <2>2, <3>1 DEF LineRight
  <2> QED
    BY <1>3, <2>1, <2>2
<1>7. ASSUME NEW j \in DOMAIN t, NEW k \in DOMAIN t,
             t[j].type = "INODE", t[k].type = "INODE", t[j].num = t[k].num
      PROVE  j = k
  <2>1. \A h \in DOMAIN s : s[h].type = "INODE" => s[h].num # i
    <3>1. \A h \in DOMAIN s : s[h].type = "INODE" => s[h].num \in 1..(i - 1)
      BY DEF LinesRight, LineRight
    <3>2. i \notin 1..(i - 1)
      BY <1>2
    <3> QED
      BY <3>1, <3>2
  <2>2. \A h \in DOMAIN s : t[h] = s[h]
    BY <1>3
  <2>3. CASE j \in DOMAIN s /\ k \in DOMAIN s
    BY <1>7, <2>2, <2>3 DEF LinesRight
  <2>4. CASE j \notin DOMAIN s /\ k \notin DOMAIN s
    <3>1. j \in (Len(s) + 1)..Len(t) /\ k \in (Len(s) + 1)..Len(t)
      BY <1>3, <2>4
    <3> QED
      BY <1>5, <1>7, <3>1
  <2>5. CASE j \in DOMAIN s /\ k \notin DOMAIN s
    <3>1. k \in (Len(s) + 1)..Len(t) /\ t[j] = s[j]
      BY <1>3, <2>5
    <3>2. t[k].num = i
      BY <1>5, <1>7, <3>1
    <3> QED
      BY <1>7, <2>1, <2>5, <3>1, <3>2
  <2>6. CASE j \notin DOMAIN s /\ k \in DOMAIN s
    <3>1. j \in (Len(s) + 1)..Len(t) /\ t[k] = s[k]
      BY <1>3, <2>6
    <3>2. t[j].num = i
      BY <1>5, <1>7, <3>1
    <3> QED
      BY <1>7, <2>1, <2>6, <3>1, <3>2
  <2> QED
    BY <2>3, <2>4, <2>5, <2>6
<1>8. ASSUME NEW n \in 1..((i + 1) - 1), InUse(image, n)
      PROVE  \E j \in DOMAIN t : t[j].type = "INODE" /\ t[j].num = n
  <2>1. CASE n = i
    <3>1. t[Len(s) + 1] = c[1] /\ Len(s) + 1 \in DOMAIN t
      BY <1>1, <1>3
    <3> QED
      BY <1>1, <1>4, <2>1, <3>1
  <2>2. CASE n # i
    <3>1. n \in 1..(i - 1)
      BY <1>2, <2>2
    <3>2. PICK j \in DOMAIN s : s[j].type = "INODE" /\ s[j].num = n
      BY <1>8, <3>1 DEF LinesRight
    <3>3. j \in DOMAIN t /\ t[j] = s[j]
      BY <1>1, <1>3
    <3> QED
      BY <3>2, <3>3
  <2> QED
    BY <2>1, <2>2
<1>9. ASSUME NEW n PROVE BlocksOf(t, n) = BlocksOf(s, n)
  <2>1. ASSUME NEW j \in DOMAIN t, t[j].type = "INDIRECT"
        PROVE  j \in DOMAIN s /\ t[j] = s[j]
    BY <1>3, <1>5, <2>1
  <2>2. \A j \in DOMAIN s : j \in DOMAIN t /\ t[j] = s[j]
    BY <1>1, <1>3
  <2> QED
    BY <2>1, <2>2 DEF BlocksOf
<1>10. LinesRight(image, t, i + 1)
  BY <1>3, <1>6, <1>7, <1>8 DEF LinesRight
<1>11. Len(t) >= 4
  BY <1>1, <1>3
<1> QED
  BY <1>9, <1>10, <1>11 DEF t, c

\* One INDIRECT line more.
LEMMA IndirectRight ==
  ASSUME ImageOK, NEW s, NEW m \in Nat, LinesRight(image, s, m + 1), m \in 1..image.inodes_pg,
         Len(s) >= 4, NEW r \in AnyIndRow, r.num = m
  PROVE  /\ LinesRight(image, Append(s, r), m + 1) /\ Len(Append(s, r)) >= 4
         /\ BlocksOf(Append(s, r), m) = BlocksOf(s, m) \cup {r.block}
         /\ \A n : n # m => BlocksOf(Append(s, r), n) = BlocksOf(s, n)
<1> DEFINE t == Append(s, r)
           p == r.block
<1>1. r.type = "INDIRECT" /\ r.num = m /\ r.block = p
  BY DEF AnyIndRow
<1>2. r \in Row
  BY DEF Row
<1>3. s \in Seq(Row)
  BY DEF LinesRight
<1>4. /\ t \in Seq(Row) /\ Len(t) = Len(s) + 1 /\ DOMAIN t = 1..Len(t)
      /\ Len(s) \in Nat /\ DOMAIN s = 1..Len(s) /\ t[Len(t)] = r
      /\ \A j \in 1..Len(s) : t[j] = s[j]
  BY <1>2, <1>3
<1> HIDE DEF t, p
<1>5. \A j \in DOMAIN t : (j \in DOMAIN s /\ t[j] = s[j]) \/ (j = Len(t) /\ t[j] = r)
  BY <1>4
<1>6. \A j \in DOMAIN s : j \in DOMAIN t /\ t[j] = s[j]
  BY <1>4
<1>7. \A j \in DOMAIN t : LineRight(image, t[j], j, m + 1)
  <2>1. \A j \in DOMAIN s : LineRight(image, s[j], j, m + 1)
    BY DEF LinesRight
  <2>2. LineRight(image, r, Len(t), m + 1)
    <3>1. Len(t) \notin {1, 3, 4} /\ m \in 1..((m + 1) - 1)
      BY <1>4
    <3> QED
      BY <1>1, <3>1 DEF LineRight
  <2> QED
    BY <1>5, <2>1, <2>2
<1>8. \A j \in DOMAIN t : t[j].type = "INODE" => j \in DOMAIN s /\ t[j] = s[j]
  BY <1>1, <1>5
<1>9. LinesRight(image, t, m + 1)
  <2>1. \A j, k \in DOMAIN t :
          t[j].type = "INODE" /\ t[k].type = "INODE" /\ t[j].num = t[k].num => j = k
    BY <1>8 DEF LinesRight
  <2>2. \A n \in 1..((m + 1) - 1) : InUse(image, n) => \E j \in DOMAIN t : t[j].type = "INODE" /\ t[j].num = n
    BY <1>6 DEF LinesRight
  <2> QED
    BY <1>4, <1>7, <2>1, <2>2 DEF LinesRight
<1>10. Len(t) \in DOMAIN t /\ Len(t) >= 4
  BY <1>4
<1>11. BlocksOf(t, m) = BlocksOf(s, m) \cup {p}
  <2>1. ASSUME NEW x \in BlocksOf(t, m) PROVE x \in BlocksOf(s, m) \cup {p}
    BY <1>1, <1>5 DEF BlocksOf
  <2>2. ASSUME NEW x \in BlocksOf(s, m) PROVE x \in BlocksOf(t, m)
    BY <1>6 DEF BlocksOf
  <2>3. p \in BlocksOf(t, m)
    BY <1>1, <1>4, <1>10 DEF BlocksOf
  <2> QED
    BY <2>1, <2>2, <2>3
<1>12. ASSUME NEW n, n # m PROVE BlocksOf(t, n) = BlocksOf(s, n)
  BY <1>1, <1>5, <1>6, <1>12 DEF BlocksOf
<1> QED
  BY <1>9, <1>10, <1>11, <1>12 DEF t, p

\* lab3a is right so far, or has not been started.
Inv1 == IF own THEN SumInv ELSE SummaryInit

\* The invariant holds at the start.
LEMMA SumStart == Init => Inv1
<1> SUFFICES ASSUME Init PROVE Inv1
  OBVIOUS
<1>1. CASE own = TRUE /\ image \in Images /\ ind_blocks \in Junk /\ csv_lines = <<>>
  <2>1. out = <<>> /\ i = 1 /\ pc = "open" /\ status = SRunning
        /\ slot = 1 /\ depth = 0 /\ at = <<1, 1, 1>>
    BY DEF Init, SummaryInit
  <2>2. ImageOK
    BY <1>1, InputsAssumption DEF ImageOK
  <2>3. image.inodes_pg \in Nat \ {0}
    BY <2>2, SizesAssumption DEF ImageOK, IsImage
  <2>4. SumPlaces /\ SumLength
    BY <2>1, <2>3 DEF SumPlaces, SumLength, SRunning
  <2>5. <<>> \in Seq(Row) /\ DOMAIN <<>> = {} /\ 1..(1 - 1) = {}
    OBVIOUS
  <2>6. LinesRight(image, out, Seen)
    BY <2>1, <2>5 DEF LinesRight, Seen
  <2>7. BlocksRight(image, out, i, pc, slot, depth, at, ind_blocks)
    BY <2>1, <2>5 DEF BlocksRight, TreesRight
  <2>8. StackOK
    BY <1>1, <2>1, InputsAssumption, SizesAssumption DEF StackOK
  <2> QED
    BY <1>1, <2>2, <2>4, <2>6, <2>7, <2>8 DEF Inv1, SumInv
<1>2. CASE own = FALSE
  BY <1>2 DEF Inv1, Init
<1> QED
  BY <1>1, <1>2 DEF Init

\* The two lines at the start.
LEMMA HeaderRight == SumInv /\ status = SRunning /\ Header => SumInv'
<1> SUFFICES ASSUME SumInv, status = SRunning, Header PROVE SumInv'
  OBVIOUS
<1> DEFINE r == [type |-> "SUPERBLOCK", blk_cnt |-> image.blocks, ino_cnt |-> image.inodes]
           g == [type |-> "GROUP"]
<1>1. /\ image' = image /\ i' = i /\ status' = status /\ pc' = "bfree"
      /\ slot' = slot /\ depth' = depth /\ at' = at /\ ind_blocks' = ind_blocks
      /\ out' = << r, g >> /\ i = 1 /\ pc = "open"
  BY DEF Header, SumInv, SumPlaces, tree
<1>2. ImageOK /\ ImageOK' /\ StackOK'
  BY <1>1 DEF SumInv, ImageOK, StackOK
<1>3. r \in SuperRow /\ g \in GroupRow
  BY <1>2 DEF SuperRow, GroupRow, ImageOK, IsImage
<1>4. r \in Row /\ g \in Row
  BY <1>3 DEF Row
<1>5. r.type = "SUPERBLOCK" /\ g.type = "GROUP" /\ r.ino_cnt = image.inodes
  OBVIOUS
<1> HIDE DEF r, g
<1>6. << r, g >> \in Seq(Row) /\ Len(<< r, g >>) = 2 /\ DOMAIN << r, g >> = 1..2
      /\ << r, g >>[1] = r /\ << r, g >>[2] = g
  BY <1>4
<1>7. SumPlaces' /\ SumLength'
  BY <1>1, <1>6 DEF SumInv, SumPlaces, SumLength, SRunning
<1>8. \A j \in DOMAIN << r, g >> : LineRight(image, << r, g >>[j], j, i)
  <2>1. LineRight(image, r, 1, i)
    BY <1>5 DEF LineRight
  <2>2. LineRight(image, g, 2, i)
    BY <1>5 DEF LineRight
  <2>3. \A j \in 1..2 : j = 1 \/ j = 2
    OBVIOUS
  <2> QED
    BY <1>6, <2>1, <2>2, <2>3
<1>9. \A j \in DOMAIN << r, g >> : << r, g >>[j].type # "INODE"
  <2>1. \A j \in 1..2 : j = 1 \/ j = 2
    OBVIOUS
  <2> QED
    BY <1>5, <1>6, <2>1
<1>10. 1..(i - 1) = {}
  BY <1>1
<1>11. LinesRight(image, out', i)
  BY <1>1, <1>6, <1>8, <1>9, <1>10 DEF LinesRight
<1>12. LinesRight(image, out, Seen)'
  BY <1>1, <1>11 DEF Seen
<1>13. BlocksRight(image, out, i, pc, slot, depth, at, ind_blocks)'
  BY <1>1, <1>10 DEF BlocksRight, TreesRight
<1> QED
  BY <1>2, <1>7, <1>12, <1>13 DEF SumInv

\* The line of a bitmap, the third or the fourth.
LEMMA FreeRight ==
  ASSUME SumInv, status = SRunning, NEW r, r \in FreeRow, NEW st \in {SRunning, SigAbrt},
         image' = image, tree' = tree, i' = i, out' = Append(out, r), status' = st,
         \/ pc = "bfree" /\ pc' = "ifree" /\ r.type = "BFREE"
            /\ r.nums = Listed(image.bzeros, image.blocks_pg)
         \/ pc = "ifree" /\ pc' = "inode" /\ r.type = "IFREE"
            /\ r.nums = Listed(image.izeros, image.inodes_pg)
  PROVE  SumInv'
<1>0. slot' = slot /\ depth' = depth /\ at' = at /\ ind_blocks' = ind_blocks
  BY DEF tree
<1>1. ImageOK /\ ImageOK' /\ StackOK'
  BY <1>0 DEF SumInv, ImageOK, IsImage, StackOK
<1>2. out \in Seq(Row) /\ r \in Row /\ i = 1 /\ Seen = i /\ Seen' = i
  BY DEF SumInv, LinesRight, Row, SumPlaces, Seen
<1> DEFINE t == Append(out, r)
<1>3. /\ t \in Seq(Row) /\ Len(t) = Len(out) + 1 /\ DOMAIN t = 1..Len(t)
      /\ Len(out) \in Nat /\ DOMAIN out = 1..Len(out) /\ t[Len(t)] = r
      /\ \A j \in 1..Len(out) : t[j] = out[j]
  BY <1>2
<1>4. out' = t
  OBVIOUS
<1> HIDE DEF t
<1>5. IF pc = "bfree" THEN Len(out) = 2 ELSE pc = "ifree" /\ Len(out) = 3
  BY DEF SumInv, SumLength
<1>6. SumPlaces' /\ SumLength'
  <2>1. SumPlaces'
    BY <1>0, <1>2 DEF SumInv, SumPlaces, SRunning, SigAbrt
  <2>2. SumLength'
    BY <1>3, <1>4, <1>5 DEF SumLength
  <2> QED
    BY <2>1, <2>2
<1>7. LineRight(image, r, Len(t), i)
  <2>1. \/ Len(t) = 3 /\ r.type = "BFREE" /\ r.nums = Listed(image.bzeros, image.blocks_pg)
        \/ Len(t) = 4 /\ r.type = "IFREE" /\ r.nums = Listed(image.izeros, image.inodes_pg)
    BY <1>3, <1>5
  <2>2. CASE Len(t) = 3 /\ r.type = "BFREE" /\ r.nums = Listed(image.bzeros, image.blocks_pg)
    BY <2>2 DEF LineRight
  <2>3. CASE Len(t) = 4 /\ r.type = "IFREE" /\ r.nums = Listed(image.izeros, image.inodes_pg)
    BY <2>3 DEF LineRight
  <2> QED
    BY <2>1, <2>2, <2>3
<1>8. \A j \in DOMAIN t : LineRight(image, t[j], j, i)
  <2>1. \A j \in DOMAIN out : LineRight(image, out[j], j, i)
    BY <1>2 DEF SumInv, LinesRight
  <2>2. \A j \in DOMAIN t : j \in DOMAIN out \/ j = Len(t)
    BY <1>3
  <2> QED
    BY <1>3, <1>7, <2>1, <2>2
<1>9. \A j \in DOMAIN t : t[j].type # "INODE"
  <2>1. 1..(i - 1) = {}
    BY <1>2
  <2> QED
    BY <1>8, <2>1 DEF LineRight
<1>10. 1..(i - 1) = {}
  BY <1>2
<1>11. LinesRight(image, t, i)
  BY <1>3, <1>8, <1>9, <1>10 DEF LinesRight
<1>12. LinesRight(image, out, Seen)'
  BY <1>2, <1>4, <1>11
<1>13. BlocksRight(image, out, i, pc, slot, depth, at, ind_blocks)'
  BY <1>10 DEF BlocksRight, TreesRight
<1> QED
  BY <1>1, <1>6, <1>12, <1>13 DEF SumInv

\* What the steps over the inode table can rely on.
LEMMA TableFacts ==
  ASSUME SumInv, pc \in {"inode", "slots"}
  PROVE  /\ ImageOK /\ i \in Nat \ {0} /\ image.inodes_pg \in Nat \ {0} /\ out \in Seq(Row)
         /\ Len(out) >= 4 /\ BITS \in Nat
         /\ i <= image.inodes_pg => Curr.i_block \in [1..15 -> Nat]
<1>1. ImageOK /\ i \in Nat \ {0} /\ Len(out) >= 4 /\ out \in Seq(Row)
  BY DEF SumInv, SumPlaces, SumLength, LinesRight
<1>2. image.inodes_pg \in Nat \ {0}
  <2>1. image.inodes_pg \in 1..BITS
    BY <1>1, Zenon DEF ImageOK, IsImage
  <2> QED
    BY <2>1, SizesAssumption
<1>3. i <= image.inodes_pg => Curr.i_block \in [1..15 -> Nat]
  <2> SUFFICES ASSUME i <= image.inodes_pg PROVE Curr.i_block \in [1..15 -> Nat]
    OBVIOUS
  <2>1. i \in 1..image.inodes_pg
    BY <1>1, <1>2
  <2> QED
    BY <1>1, <2>1 DEF ImageOK, IsImage, Curr
<1> QED
  BY <1>1, <1>2, <1>3, SizesAssumption

\* The blocks of an inode that has had no INDIRECT line.
LEMMA NoneYet ==
  ASSUME LinesRight(image, out, i), i \in Nat \ {0}
  PROVE  BlocksOf(out, i) = {}
<1>1. \A j \in DOMAIN out : out[j].type = "INDIRECT" => out[j].num \in 1..(i - 1)
  BY DEF LinesRight, LineRight
<1>2. i \notin 1..(i - 1)
  OBVIOUS
<1> QED
  BY <1>1, <1>2 DEF BlocksOf

\* An inode, or the end of the table.
LEMMA InodesRight == SumInv /\ status = SRunning /\ InodeSummary => SumInv'
<1> SUFFICES ASSUME SumInv, status = SRunning, InodeSummary PROVE SumInv'
  OBVIOUS
<1>1. /\ image' = image /\ pc = "inode" /\ slot = 1 /\ depth = 0
      /\ slot' = slot /\ depth' = depth /\ at' = at /\ ind_blocks' = ind_blocks
  BY DEF InodeSummary, tree, SumInv, SumPlaces
<1>2. /\ ImageOK /\ i \in Nat \ {0} /\ image.inodes_pg \in Nat \ {0} /\ out \in Seq(Row)
      /\ Len(out) >= 4
  BY <1>1, TableFacts
<1>3. ImageOK' /\ StackOK'
  BY <1>1 DEF SumInv, ImageOK, StackOK
<1>4. LinesRight(image, out, i)
  BY <1>1 DEF SumInv, Seen
<1>5. BlocksRight(image, out, i, pc, slot, depth, at, ind_blocks)
  BY DEF SumInv
<1>6. CASE i > image.inodes_pg /\ status' = 0 /\ out' = out /\ i' = i /\ pc' = pc
  <2>1. SumPlaces' /\ SumLength'
    BY <1>1, <1>2, <1>6 DEF SumInv, SumPlaces, SumLength
  <2>2. LinesRight(image, out, Seen)'
    BY <1>1, <1>4, <1>6 DEF Seen
  <2>3. BlocksRight(image, out, i, pc, slot, depth, at, ind_blocks)'
    BY <1>1, <1>5, <1>6
  <2> QED
    BY <1>3, <2>1, <2>2, <2>3 DEF SumInv
<1>7. CASE /\ i <= image.inodes_pg /\ Allocated
           /\ out' = out \o InodeLine \o DirLines /\ pc' = "slots" /\ i' = i /\ status' = status
  <2>1. i \in 1..image.inodes_pg
    BY <1>2, <1>7
  <2>2. out' = out \o Chunk
    <3>1. InodeLine \in Seq(Row) /\ DirLines \in Seq(Row)
      BY <1>2, <2>1, ChunkIs
    <3>2. \A a, b, c \in Seq(Row) : (a \o b) \o c = a \o (b \o c)
      BY ConcatAssociative
    <3>3. (out \o InodeLine) \o DirLines = out \o (InodeLine \o DirLines)
      BY <1>2, <3>1, <3>2
    <3> QED
      BY <1>7, <3>3 DEF Chunk
  <2>3. /\ LinesRight(image, out \o Chunk, i + 1) /\ Len(out \o Chunk) >= 4
        /\ \A n : BlocksOf(out \o Chunk, n) = BlocksOf(out, n)
    BY <1>2, <1>4, <2>1, AppendRight
  <2>4. SumPlaces'
    BY <1>1, <1>2, <1>7, <2>1 DEF SumInv, SumPlaces, SRunning
  <2>5. SumLength'
    BY <1>7, <2>2, <2>3 DEF SumLength
  <2>6. LinesRight(image, out, Seen)'
    BY <1>1, <1>7, <2>2, <2>3 DEF Seen
  <2>7. BlocksRight(image, out', i, "slots", slot, depth, at, ind_blocks)
    <3> SUFFICES ASSUME OnePtr(image, ind_blocks)
                 PROVE  TreesRight(image, out', i) /\ OnTheWay(image, out', i, slot, depth, at, ind_blocks)
      BY DEF BlocksRight
    <3>1. TreesRight(image, out', i)
      BY <1>5, <2>2, <2>3 DEF BlocksRight, TreesRight
    <3>2. BlocksOf(out', i) = {} /\ Trees(image, image.table[i], 1) = {}
      <4>1. BlocksOf(out, i) = {}
        BY <1>2, <1>4, NoneYet
      <4>2. Trees(image, image.table[i], 1) = {}
        <5>1. 1 \in 1..3
          OBVIOUS
        <5> QED
          BY <5>1, OneMoreTree
      <4> QED
        BY <2>2, <2>3, <4>1, <4>2
    <3>3. OnTheWay(image, out', i, slot, depth, at, ind_blocks)
      BY <1>1, <3>2 DEF OnTheWay
    <3> QED
      BY <3>1, <3>3
  <2>8. BlocksRight(image, out, i, pc, slot, depth, at, ind_blocks)'
    BY <1>1, <1>7, <2>7
  <2> QED
    BY <1>3, <2>4, <2>5, <2>6, <2>8 DEF SumInv
<1>8. CASE /\ i <= image.inodes_pg /\ ~Allocated
           /\ i' = i + 1 /\ out' = out /\ pc' = pc /\ status' = status
  <2>1. SumPlaces' /\ SumLength'
    BY <1>1, <1>2, <1>8 DEF SumInv, SumPlaces, SumLength, SRunning
  <2>2. ~InUse(image, i)
    BY <1>8 DEF Allocated, Curr, InUse
  <2>3. \A n \in 1..((i + 1) - 1) : n \in 1..(i - 1) \/ n = i
    BY <1>2
  <2>4. 1..(i - 1) \subseteq 1..((i + 1) - 1)
    BY <1>2
  <2>5. LinesRight(image, out, i + 1)
    <3>1. \A j \in DOMAIN out : LineRight(image, out[j], j, i + 1)
      BY <1>4, <2>4 DEF LinesRight, LineRight
    <3> QED
      BY <1>4, <2>2, <2>3, <3>1 DEF LinesRight
  <2>6. BlocksRight(image, out, i + 1, pc, slot, depth, at, ind_blocks)
    BY <1>1, <1>5, <2>2, <2>3 DEF BlocksRight, TreesRight
  <2>7. LinesRight(image, out, Seen)'
    BY <1>1, <1>8, <2>5 DEF Seen
  <2>8. BlocksRight(image, out, i, pc, slot, depth, at, ind_blocks)'
    BY <1>1, <1>8, <2>6
  <2> QED
    BY <1>3, <2>1, <2>7, <2>8 DEF SumInv
<1> QED
  BY <1>6, <1>7, <1>8 DEF InodeSummary

\* A call of print_ind_blks() puts the first pointer of its block on the stack.
LEMMA CallRight ==
  ASSUME ImageOK, StackOK, depth \in 0..2, NEW b \in Nat, print_ind_blks(b)
  PROVE  /\ depth' = depth + 1
         /\ ind_blocks' \in [1..3 -> [1..PTRS -> Nat]]
         /\ OnePtr(image, ind_blocks') => OnePtr(image, ind_blocks)
         /\ b < image.blocks => ind_blocks'[depth + 1][1] = First(image, b)
         /\ \A k \in 1..3 : k # depth + 1 => ind_blocks'[k] = ind_blocks[k]
<1> DEFINE e == depth + 1
           p == FirstPointer(b)
<1>1. e \in 1..3 /\ 1 \in 1..PTRS /\ p \in Nat /\ p = First(image, b)
  BY SizesAssumption DEF FirstPointer, First, ImageOK, IsImage
<1>2. depth' = e
  BY DEF print_ind_blks
<1>3. ind_blocks' = IF b < image.blocks THEN [ind_blocks EXCEPT ![e][1] = p] ELSE ind_blocks
  BY DEF print_ind_blks
<1> HIDE DEF e, p
<1>4. ind_blocks \in [1..3 -> [1..PTRS -> Nat]]
  BY DEF StackOK
<1>5. CASE ~(b < image.blocks)
  BY <1>2, <1>3, <1>4, <1>5 DEF e
<1>6. CASE b < image.blocks
  <2> DEFINE row == [ind_blocks[e] EXCEPT ![1] = p]
  <2>1. row \in [1..PTRS -> Nat] /\ row[1] = p /\ \A n \in 2..PTRS : row[n] = ind_blocks[e][n]
    <3> DEFINE old == ind_blocks[e]
    <3>1. old \in [1..PTRS -> Nat]
      BY <1>1, <1>4
    <3>2. \A n \in 2..PTRS : n \in 1..PTRS /\ n # 1
      OBVIOUS
    <3> HIDE DEF old
    <3>3. [old EXCEPT ![1] = p] \in [1..PTRS -> Nat] /\ [old EXCEPT ![1] = p][1] = p
      BY <1>1, <3>1
    <3>4. \A n \in 2..PTRS : [old EXCEPT ![1] = p][n] = old[n]
      BY <3>1, <3>2
    <3> QED
      BY <3>3, <3>4 DEF old
  <2>2. ind_blocks' = [ind_blocks EXCEPT ![e] = row]
    BY <1>3, <1>6
  <2> HIDE DEF row
  <2>3. /\ ind_blocks' \in [1..3 -> [1..PTRS -> Nat]] /\ ind_blocks'[e] = row
        /\ \A k \in 1..3 : k # e => ind_blocks'[k] = ind_blocks[k]
    BY <1>1, <1>4, <2>1, <2>2
  <2>4. \A d \in 1..3, n \in 2..PTRS : ind_blocks'[d][n] = ind_blocks[d][n]
    BY <2>1, <2>3
  <2>5. OnePtr(image, ind_blocks') => OnePtr(image, ind_blocks)
    BY <2>4 DEF OnePtr
  <2> QED
    BY <1>1, <1>2, <2>1, <2>3, <2>5 DEF e
<1> QED
  BY <1>5, <1>6

\* The next slot of the inode at hand.
LEMMA SlotsRight == SumInv /\ status = SRunning /\ IndSlot => SumInv'
<1> SUFFICES ASSUME SumInv, status = SRunning, IndSlot PROVE SumInv'
  OBVIOUS
<1> DEFINE b == Curr.i_block[12 + slot]
<1>1. /\ pc = "slots" /\ depth = 0 /\ image' = image /\ out' = out /\ status' = status
      /\ slot \in 1..4 /\ i <= image.inodes_pg
  BY DEF IndSlot, SumInv, SumPlaces
<1>2. /\ ImageOK /\ i \in Nat \ {0} /\ image.inodes_pg \in Nat \ {0} /\ out \in Seq(Row)
      /\ Len(out) >= 4 /\ Curr.i_block \in [1..15 -> Nat]
  BY <1>1, TableFacts
<1>3. LinesRight(image, out, i + 1)
  BY <1>1 DEF SumInv, Seen
<1>4. OnePtr(image, ind_blocks) =>
        /\ TreesRight(image, out, i)
        /\ InImage(image, image.table[i]) => BlocksOf(out, i) = Trees(image, image.table[i], slot)
  BY <1>1 DEF SumInv, BlocksRight, OnTheWay
<1>5. ImageOK' /\ StackOK
  BY <1>1 DEF SumInv, ImageOK
<1>6. b = image.table[i].i_block[12 + slot]
  BY DEF Curr
<1>nums. i \in Nat \ {0} /\ image.inodes_pg \in Nat
  BY <1>2
<1>7. CASE /\ slot > 3 /\ i' = i + 1 /\ pc' = "inode" /\ slot' = 1
           /\ depth' = depth /\ at' = at /\ ind_blocks' = ind_blocks
  <2>1. slot = 4
    BY <1>1, <1>7
  <2>2. SumPlaces' /\ SumLength'
    <3>1. SumPlaces'
      <4>1. i' \in Nat \ {0} /\ i' <= image'.inodes_pg + 1 /\ (pc' = "slots" => i' <= image'.inodes_pg)
        BY <1>1, <1>nums, <1>7
      <4>2. pc' \in {"inode", "slots"}
        BY <1>1, <1>7
      <4>3. /\ pc' # "slots" => slot' = 1 /\ depth' = 0
            /\ slot' \in 1..4 /\ depth' \in 0..3 /\ (depth' > 0 => slot' <= 3 /\ depth' <= slot')
        BY <1>1, <1>7
      <4>4. status' \in {SRunning, 0, 1, SigAbrt} /\ status' # 0
        BY <1>1 DEF SRunning
      <4> QED
        BY <4>1, <4>2, <4>3, <4>4 DEF SumPlaces
    <3>2. SumLength'
      BY <1>1, <1>2, <1>7 DEF SumLength
    <3> QED
      BY <3>1, <3>2
  <2>3. LinesRight(image, out, Seen)' /\ StackOK'
    BY <1>1, <1>3, <1>5, <1>7 DEF Seen, StackOK
  <2>4. \A n \in 1..((i + 1) - 1) : n \in 1..(i - 1) \/ n = i
    BY <1>2
  <2>5. OnePtr(image, ind_blocks) => TreesRight(image, out, i + 1)
    BY <1>4, <2>1, <2>4 DEF TreesRight
  <2>6. BlocksRight(image, out, i, pc, slot, depth, at, ind_blocks)'
    BY <1>1, <1>7, <2>5 DEF BlocksRight
  <2> QED
    BY <1>5, <2>2, <2>3, <2>6 DEF SumInv
<1>8. CASE /\ slot <= 3 /\ b = 0 /\ slot' = slot + 1
           /\ i' = i /\ pc' = pc /\ depth' = depth /\ at' = at /\ ind_blocks' = ind_blocks
  <2>1. slot \in 1..3 /\ slot - 1 \in 0..2 /\ (slot - 1) + 1 = slot
    BY <1>1, <1>8
  <2>2. SumPlaces' /\ SumLength'
    <3>1. SumPlaces'
      <4>1. i' \in Nat \ {0} /\ i' <= image'.inodes_pg + 1 /\ (pc' = "slots" => i' <= image'.inodes_pg)
        BY <1>1, <1>nums, <1>8
      <4>2. pc' \in {"inode", "slots"}
        BY <1>1, <1>8
      <4>3. /\ pc' # "slots" => slot' = 1 /\ depth' = 0
            /\ slot' \in 1..4 /\ depth' \in 0..3 /\ (depth' > 0 => slot' <= 3 /\ depth' <= slot')
        BY <1>1, <1>8
      <4>4. status' \in {SRunning, 0, 1, SigAbrt} /\ status' # 0
        BY <1>1 DEF SRunning
      <4> QED
        BY <4>1, <4>2, <4>3, <4>4 DEF SumPlaces
    <3>2. SumLength'
      BY <1>1, <1>2, <1>8 DEF SumLength
    <3> QED
      BY <3>1, <3>2
  <2>3. LinesRight(image, out, Seen)' /\ StackOK'
    BY <1>1, <1>3, <1>5, <1>8 DEF Seen, StackOK
  <2>4. Trees(image, image.table[i], slot + 1) = Trees(image, image.table[i], slot)
    <3>1. Chain(image, 0, slot) = {}
      <4>1. IsImage(image) /\ 0 \in Nat
        BY <1>2 DEF ImageOK
      <4>2. Chain(image, 0, (slot - 1) + 1) = {}
        BY <2>1, <4>1, Chains
      <4> QED
        BY <2>1, <4>2
    <3>2. Trees(image, image.table[i], slot + 1)
            = Trees(image, image.table[i], slot) \cup Chain(image, image.table[i].i_block[12 + slot], slot)
      BY <2>1, OneMoreTree
    <3> QED
      BY <1>6, <1>8, <3>1, <3>2
  <2>5. OnePtr(image, ind_blocks) =>
          TreesRight(image, out, i) /\ OnTheWay(image, out, i, slot + 1, 0, at, ind_blocks)
    BY <1>4, <2>4 DEF OnTheWay
  <2>6. BlocksRight(image, out, i, pc, slot, depth, at, ind_blocks)'
    BY <1>1, <1>8, <2>5 DEF BlocksRight
  <2> QED
    BY <1>5, <2>2, <2>3, <2>6 DEF SumInv
<1>9. CASE /\ slot <= 3 /\ b # 0 /\ print_ind_blks(b) /\ at' = [at EXCEPT ![1] = 1]
           /\ i' = i /\ pc' = pc /\ slot' = slot
  <2>1. slot \in 1..3 /\ b \in Nat
    <3>1. slot \in 1..3
      BY <1>1, <1>9
    <3>2. \A n \in 1..3 : 12 + n \in 1..15
      OBVIOUS
    <3>3. 12 + slot \in 1..15 /\ Curr.i_block \in [1..15 -> Nat]
      BY <1>2, <3>1, <3>2
    <3>4. \A f \in [1..15 -> Nat] : \A n \in 1..15 : f[n] \in Nat
      OBVIOUS
    <3> QED
      BY <3>1, <3>3, <3>4
  <2>2. depth \in 0..2 /\ depth + 1 = 1
    BY <1>1
  <2> DEFINE c == b
  <2>3. c \in Nat /\ print_ind_blks(c) /\ c = b
    BY <1>9, <2>1
  <2> HIDE DEF b, c
  <2>4. /\ depth' = 1 /\ ind_blocks' \in [1..3 -> [1..PTRS -> Nat]]
        /\ OnePtr(image, ind_blocks') => OnePtr(image, ind_blocks)
        /\ b < image.blocks => ind_blocks'[1][1] = First(image, b)
    <3>1. /\ depth' = depth + 1 /\ ind_blocks' \in [1..3 -> [1..PTRS -> Nat]]
          /\ OnePtr(image, ind_blocks') => OnePtr(image, ind_blocks)
          /\ c < image.blocks => ind_blocks'[depth + 1][1] = First(image, c)
      BY <1>2, <1>5, <2>2, <2>3, CallRight
    <3> QED
      BY <2>2, <2>3, <3>1
  <2>5. at' \in [1..3 -> 1..(PTRS + 1)] /\ at'[1] = 1
    BY <1>5, <1>9, SizesAssumption DEF StackOK
  <2>6. SumPlaces' /\ SumLength'
    <3>1. SumPlaces'
      <4>1. i' \in Nat \ {0} /\ i' <= image'.inodes_pg + 1 /\ (pc' = "slots" => i' <= image'.inodes_pg)
        BY <1>1, <1>nums, <1>9
      <4>2. pc' \in {"inode", "slots"}
        BY <1>1, <1>9
      <4>3. /\ pc' # "slots" => slot' = 1 /\ depth' = 0
            /\ slot' \in 1..4 /\ depth' \in 0..3 /\ (depth' > 0 => slot' <= 3 /\ depth' <= slot')
        BY <1>1, <1>9, <2>1, <2>4
      <4>4. status' \in {SRunning, 0, 1, SigAbrt} /\ status' # 0
        BY <1>1 DEF SRunning
      <4> QED
        BY <4>1, <4>2, <4>3, <4>4 DEF SumPlaces
    <3>2. SumLength'
      BY <1>1, <1>2, <1>9 DEF SumLength
    <3> QED
      BY <3>1, <3>2
  <2>7. LinesRight(image, out, Seen)' /\ StackOK'
    BY <1>1, <1>3, <1>9, <2>4, <2>5 DEF Seen, StackOK
  <2>8. OnePtr(image, ind_blocks') => OnTheWay(image, out, i, slot, 1, at', ind_blocks')
    <3> SUFFICES ASSUME OnePtr(image, ind_blocks'), InImage(image, image.table[i])
                 PROVE  /\ \A k \in 1..1 : ind_blocks'[k][1] = Hop(image, b, k)
                        /\ \A k \in 1..(1 - 1) : at'[k] >= 2
                        /\ BlocksOf(out, i) = Trees(image, image.table[i], slot)
                             \cup Chain(image, b, IF at'[1] = 1 THEN 1 - 1 ELSE slot)
      BY <1>6 DEF OnTheWay
    <3>1. b < image.blocks
      BY <1>6, <2>1 DEF InImage
    <3>2. Hop(image, b, 1) = First(image, b)
      BY DEF Hop
    <3>3. Chain(image, b, 0) = {}
      <4>1. 1..0 = {}
        OBVIOUS
      <4> QED
        BY <4>1 DEF Chain
    <3>4. 1 - 1 = 0 /\ (\A k \in 1..1 : k = 1) /\ (\A k \in 1..0 : FALSE)
      OBVIOUS
    <3> QED
      BY <1>4, <2>4, <2>5, <3>1, <3>2, <3>3, <3>4
  <2>9. BlocksRight(image, out, i, pc, slot, depth, at, ind_blocks)'
    BY <1>1, <1>4, <1>9, <2>4, <2>8 DEF BlocksRight
  <2> QED
    BY <1>5, <2>6, <2>7, <2>9 DEF SumInv
<1> QED
  BY <1>7, <1>8, <1>9 DEF IndSlot

\* What holds of the call under way.
LEMMA CallFacts ==
  ASSUME SumInv, depth > 0
  PROVE  /\ pc = "slots" /\ depth \in 1..3 /\ slot \in 1..3 /\ depth <= slot
         /\ ImageOK /\ StackOK /\ i \in Nat /\ i \in 1..image.inodes_pg /\ Len(out) >= 4
         /\ at[depth] \in 1..(PTRS + 1) /\ PTRS \in Nat \ {0}
         /\ Curr.i_block[12 + slot] \in Nat
         /\ LinesRight(image, out, i + 1)
<1>1. pc = "slots" /\ depth \in 1..3 /\ slot \in 1..3 /\ depth <= slot /\ i <= image.inodes_pg
  BY DEF SumInv, SumPlaces
<1>2. /\ ImageOK /\ i \in Nat \ {0} /\ image.inodes_pg \in Nat \ {0} /\ Len(out) >= 4
      /\ Curr.i_block \in [1..15 -> Nat]
  BY <1>1, TableFacts
<1>3. StackOK /\ LinesRight(image, out, i + 1)
  BY <1>1 DEF SumInv, Seen
<1>4. Curr.i_block[12 + slot] \in Nat
  <2>1. \A n \in 1..3 : 12 + n \in 1..15
    OBVIOUS
  <2>2. 12 + slot \in 1..15 /\ Curr.i_block \in [1..15 -> Nat]
    BY <1>1, <1>2, <2>1
  <2>3. \A f \in [1..15 -> Nat] : \A n \in 1..15 : f[n] \in Nat
    OBVIOUS
  <2> QED
    BY <2>2, <2>3
<1>5. at[depth] \in 1..(PTRS + 1)
  BY <1>1, <1>3 DEF StackOK
<1> QED
  BY <1>1, <1>2, <1>3, <1>4, <1>5, SizesAssumption

\* A round of the loop of print_ind_blks().
LEMMA RowsRight == SumInv /\ status = SRunning /\ IndRow => SumInv'
<1> SUFFICES ASSUME SumInv, status = SRunning, IndRow PROVE SumInv'
  OBVIOUS
<1> DEFINE f == image.table[i]
           b == f.i_block[12 + slot]
           p == ind_blocks[depth][at[depth]]
           on == [at EXCEPT ![depth] = @ + 1]
           r == [type |-> "INDIRECT", num |-> i, block |-> p]
<1>1. /\ depth > 0 /\ at[depth] <= PTRS
      /\ image' = image /\ i' = i /\ pc' = pc /\ status' = status /\ slot' = slot
  BY DEF IndRow
<1>2. /\ pc = "slots" /\ depth \in 1..3 /\ slot \in 1..3 /\ depth <= slot
      /\ ImageOK /\ StackOK /\ i \in Nat /\ i \in 1..image.inodes_pg /\ Len(out) >= 4
      /\ at[depth] \in 1..(PTRS + 1) /\ PTRS \in Nat \ {0}
      /\ b \in Nat
      /\ LinesRight(image, out, i + 1)
  BY <1>1, CallFacts DEF Curr
<1>3. ImageOK' /\ IsImage(image)
  BY <1>1, <1>2 DEF ImageOK
<1>4. /\ p \in Nat /\ on \in [1..3 -> 1..(PTRS + 1)] /\ on[depth] >= 2
      /\ \A k \in 1..3 : k # depth => on[k] = at[k]
  <2>1. ind_blocks \in [1..3 -> [1..PTRS -> Nat]] /\ at \in [1..3 -> 1..(PTRS + 1)]
    BY <1>2 DEF StackOK
  <2>2. depth \in 1..3 /\ at[depth] \in 1..PTRS /\ at[depth] + 1 \in 2..(PTRS + 1)
    BY <1>1, <1>2
  <2>3. ind_blocks[depth] \in [1..PTRS -> Nat]
    BY <2>1, <2>2
  <2>4. p \in Nat
    BY <2>2, <2>3
  <2> DEFINE v == at[depth] + 1
  <2>5. v \in 1..(PTRS + 1) /\ v >= 2
    BY <2>2
  <2>6. on = [at EXCEPT ![depth] = v]
    OBVIOUS
  <2> HIDE DEF v, on
  <2>7. on \in [1..3 -> 1..(PTRS + 1)] /\ on[depth] = v /\ \A k \in 1..3 : k # depth => on[k] = at[k]
    BY <2>1, <2>2, <2>5, <2>6
  <2> QED
    BY <2>4, <2>5, <2>7
<1>5. OnePtr(image, ind_blocks) =>
        /\ TreesRight(image, out, i)
        /\ InImage(image, f) =>
             /\ \A k \in 1..depth : ind_blocks[k][1] = Hop(image, b, k)
             /\ \A k \in 1..(depth - 1) : at[k] >= 2
             /\ BlocksOf(out, i) = Trees(image, f, slot)
                  \cup Chain(image, b, IF at[depth] = 1 THEN depth - 1 ELSE slot)
  BY <1>1, <1>2 DEF SumInv, BlocksRight, OnTheWay
<1>6. /\ depth - 1 \in 0..2 /\ (depth - 1) + 1 = depth /\ slot \in depth..3 /\ depth \in 1..depth
      /\ \A k \in 1..depth : k \in 1..(depth - 1) \/ k = depth
      /\ \A k \in 1..(depth - 1) : k \in 1..3 /\ k # depth /\ k # depth + 1
  BY <1>2
<1>7. OnePtr(image, ind_blocks) /\ at[depth] # 1 => p = 0
  <2>1. at[depth] # 1 => at[depth] \in 2..PTRS
    BY <1>1, <1>2
  <2> QED
    BY <1>2, <2>1 DEF OnePtr
<1>8. ASSUME OnePtr(image, ind_blocks), InImage(image, f), at[depth] = 1
      PROVE  /\ p = Hop(image, b, depth)
             /\ p # 0 => Chain(image, b, depth) = Chain(image, b, depth - 1) \cup {p}
             /\ p = 0 => Chain(image, b, slot) = Chain(image, b, depth - 1)
  <2>1. p = Hop(image, b, depth)
    BY <1>5, <1>6, <1>8
  <2> DEFINE e == depth - 1
  <2>2. e \in 0..2 /\ e + 1 = depth
    BY <1>6
  <2> HIDE DEF e, b, p, f
  <2>3. /\ Hop(image, b, e + 1) # 0 => Chain(image, b, e + 1) = Chain(image, b, e) \cup {Hop(image, b, e + 1)}
        /\ Hop(image, b, e + 1) = 0 => \A l \in (e + 1)..3 : Chain(image, b, l) = Chain(image, b, e)
    BY <1>2, <1>3, <2>2, Chains
  <2> QED
    BY <1>6, <2>1, <2>2, <2>3 DEF e
<1>9. \/ p = 0 /\ at' = on /\ out' = out /\ depth' = depth /\ ind_blocks' = ind_blocks
      \/ /\ p # 0 /\ out' = Append(out, r)
         /\ \/ Lvl = 1 /\ at' = on /\ depth' = depth /\ ind_blocks' = ind_blocks
            \/ Lvl > 1 /\ print_ind_blks(p) /\ at' = [on EXCEPT ![depth + 1] = 1]
  BY DEF IndRow
<1>10. r = [type |-> "INDIRECT", num |-> i, block |-> p]
  OBVIOUS
<1> HIDE DEF f, b, p, on, r
<1>11. CASE p = 0 /\ at' = on /\ out' = out /\ depth' = depth /\ ind_blocks' = ind_blocks
  <2>1. SumPlaces' /\ SumLength'
    BY <1>1, <1>2, <1>11 DEF SumInv, SumPlaces, SumLength
  <2>2. LinesRight(image, out, Seen)' /\ StackOK'
    BY <1>1, <1>2, <1>4, <1>11 DEF Seen, StackOK
  <2>3. OnePtr(image, ind_blocks) =>
          TreesRight(image, out, i) /\ OnTheWay(image, out, i, slot, depth, on, ind_blocks)
    <3> SUFFICES ASSUME OnePtr(image, ind_blocks), InImage(image, f)
                 PROVE  /\ \A k \in 1..depth : ind_blocks[k][1] = Hop(image, b, k)
                        /\ \A k \in 1..(depth - 1) : on[k] >= 2
                        /\ BlocksOf(out, i) = Trees(image, f, slot)
                             \cup Chain(image, b, IF on[depth] = 1 THEN depth - 1 ELSE slot)
      BY <1>2, <1>5 DEF OnTheWay, f, b
    <3>1. Chain(image, b, IF at[depth] = 1 THEN depth - 1 ELSE slot) = Chain(image, b, slot)
      BY <1>8, <1>11
    <3>2. on[depth] # 1
      BY <1>4
    <3>3. \A k \in 1..(depth - 1) : on[k] = at[k]
      BY <1>4, <1>6
    <3> QED
      BY <1>5, <3>1, <3>2, <3>3
  <2>4. BlocksRight(image, out, i, pc, slot, depth, at, ind_blocks)'
    BY <1>1, <1>11, <2>3 DEF BlocksRight
  <2> QED
    BY <1>3, <2>1, <2>2, <2>4 DEF SumInv
<1>12. ASSUME p # 0, out' = Append(out, r)
       PROVE  /\ LinesRight(image, out', i + 1) /\ Len(out') >= 4
              /\ BlocksOf(out', i) = BlocksOf(out, i) \cup {p}
              /\ \A n : n # i => BlocksOf(out', n) = BlocksOf(out, n)
  <2>1. p \in Int \ {0}
    BY <1>4, <1>12
  <2>2. ImageOK /\ LinesRight(image, out, i + 1) /\ i \in Nat /\ i \in 1..image.inodes_pg /\ Len(out) >= 4
    BY <1>2
  <2>3. /\ LinesRight(image, Append(out, r), i + 1) /\ Len(Append(out, r)) >= 4
        /\ BlocksOf(Append(out, r), i) = BlocksOf(out, i) \cup {p}
        /\ \A n : n # i => BlocksOf(Append(out, r), n) = BlocksOf(out, n)
    <3>1. r \in AnyIndRow /\ r.num = i /\ r.block = p
      BY <1>2, <1>10, <2>1 DEF AnyIndRow
    <3>2. /\ LinesRight(image, Append(out, r), i + 1) /\ Len(Append(out, r)) >= 4
          /\ BlocksOf(Append(out, r), i) = BlocksOf(out, i) \cup {r.block}
          /\ \A n : n # i => BlocksOf(Append(out, r), n) = BlocksOf(out, n)
      BY <2>2, <3>1, IndirectRight
    <3> QED
      BY <3>1, <3>2
  <2> QED
    BY <1>12, <2>3
<1>13. ASSUME p # 0, out' = Append(out, r), OnePtr(image, ind_blocks)
       PROVE  /\ TreesRight(image, out', i)
              /\ InImage(image, f) =>
                   /\ at[depth] = 1
                   /\ BlocksOf(out', i) = Trees(image, f, slot) \cup Chain(image, b, depth)
  <2>1. at[depth] = 1
    BY <1>7, <1>13
  <2>2. TreesRight(image, out', i)
    <3>1. \A n \in 1..(i - 1) : n # i
      BY <1>2
    <3> QED
      BY <1>5, <1>12, <1>13, <3>1 DEF TreesRight
  <2>3. InImage(image, f) => BlocksOf(out', i) = Trees(image, f, slot) \cup Chain(image, b, depth)
    BY <1>5, <1>8, <1>12, <1>13, <2>1
  <2> QED
    BY <2>1, <2>2, <2>3
<1>14. CASE p # 0 /\ out' = Append(out, r) /\ Lvl = 1 /\ at' = on /\ depth' = depth /\ ind_blocks' = ind_blocks
  <2>1. SumPlaces' /\ SumLength'
    BY <1>1, <1>2, <1>12, <1>14 DEF SumInv, SumPlaces, SumLength
  <2>2. LinesRight(image, out, Seen)' /\ StackOK'
    BY <1>1, <1>2, <1>4, <1>12, <1>14 DEF Seen, StackOK
  <2>3. depth = slot
    BY <1>2, <1>14 DEF Lvl
  <2>4. OnePtr(image, ind_blocks) =>
          TreesRight(image, out', i) /\ OnTheWay(image, out', i, slot, depth, on, ind_blocks)
    <3> SUFFICES ASSUME OnePtr(image, ind_blocks), InImage(image, f)
                 PROVE  /\ \A k \in 1..depth : ind_blocks[k][1] = Hop(image, b, k)
                        /\ \A k \in 1..(depth - 1) : on[k] >= 2
                        /\ BlocksOf(out', i) = Trees(image, f, slot)
                             \cup Chain(image, b, IF on[depth] = 1 THEN depth - 1 ELSE slot)
      BY <1>2, <1>13, <1>14 DEF OnTheWay, f, b
    <3>2. on[depth] # 1
      BY <1>4
    <3>3. \A k \in 1..(depth - 1) : on[k] = at[k]
      BY <1>4, <1>6
    <3> QED
      BY <1>5, <1>13, <1>14, <2>3, <3>2, <3>3
  <2>5. BlocksRight(image, out, i, pc, slot, depth, at, ind_blocks)'
    BY <1>1, <1>14, <2>4 DEF BlocksRight
  <2> QED
    BY <1>3, <2>1, <2>2, <2>5 DEF SumInv
<1>15. CASE /\ p # 0 /\ out' = Append(out, r) /\ Lvl > 1 /\ print_ind_blks(p)
            /\ at' = [on EXCEPT ![depth + 1] = 1]
  <2>1. depth < slot /\ depth \in 0..2 /\ depth + 1 \in 1..3 /\ depth + 1 <= slot
    BY <1>2, <1>15 DEF Lvl
  <2>2. /\ depth' = depth + 1
        /\ ind_blocks' \in [1..3 -> [1..PTRS -> Nat]]
        /\ OnePtr(image, ind_blocks') => OnePtr(image, ind_blocks)
        /\ p < image.blocks => ind_blocks'[depth + 1][1] = First(image, p)
        /\ \A k \in 1..3 : k # depth + 1 => ind_blocks'[k] = ind_blocks[k]
    BY <1>2, <1>4, <1>15, <2>1, CallRight
  <2>3. /\ at' \in [1..3 -> 1..(PTRS + 1)] /\ at'[depth + 1] = 1
        /\ \A k \in 1..3 : k # depth + 1 => at'[k] = on[k]
    BY <1>2, <1>4, <1>15, <2>1
  <2>4. SumPlaces' /\ SumLength'
    BY <1>1, <1>2, <1>12, <1>15, <2>1, <2>2 DEF SumInv, SumPlaces, SumLength
  <2>5. LinesRight(image, out, Seen)' /\ StackOK'
    BY <1>1, <1>2, <1>12, <1>15, <2>2, <2>3 DEF Seen, StackOK
  <2>6. ASSUME OnePtr(image, ind_blocks')
        PROVE  TreesRight(image, out', i) /\ OnTheWay(image, out', i, slot, depth + 1, at', ind_blocks')
    <3>1. OnePtr(image, ind_blocks) /\ TreesRight(image, out', i)
      BY <1>13, <1>15, <2>2, <2>6
    <3> DEFINE e == depth + 1
    <3>2. e # 0 /\ e - 1 = depth /\ e \in 1..3
      BY <1>2, <2>1
    <3> SUFFICES ASSUME InImage(image, f)
                 PROVE  /\ \A k \in 1..e : ind_blocks'[k][1] = Hop(image, b, k)
                        /\ \A k \in 1..(e - 1) : at'[k] >= 2
                        /\ BlocksOf(out', i) = Trees(image, f, slot)
                             \cup Chain(image, b, IF at'[e] = 1 THEN e - 1 ELSE slot)
      <4> HIDE DEF e
      <4>1. OnTheWay(image, out', i, slot, e, at', ind_blocks')
        BY <3>2 DEF OnTheWay, f, b
      <4> QED
        BY <3>1, <4>1 DEF e
    <3>3. BlocksOf(out', i) = Trees(image, f, slot) \cup Chain(image, b, depth) /\ at[depth] = 1
      BY <1>13, <1>15, <3>1
    <3>4. p = Hop(image, b, depth)
      BY <1>8, <3>1, <3>3
    <3>5. Hop(image, b, e) = First(image, p) /\ p < image.blocks
      <4>1. depth \in 0..2 /\ depth \in 1..3
        BY <1>2, <2>1
      <4>2. /\ Hop(image, b, depth + 1) = First(image, Hop(image, b, depth))
            /\ Hop(image, b, depth) # 0 => Hop(image, b, depth) < image.blocks
        BY <1>2, <1>3, <3>1, <4>1, Hops
      <4> QED
        BY <1>15, <3>4, <4>2
    <3>6. ASSUME NEW k \in 1..e PROVE ind_blocks'[k][1] = Hop(image, b, k)
      <4>1. CASE k = e
        BY <2>2, <3>5, <4>1
      <4>2. CASE k # e
        <5>1. k \in 1..depth /\ k \in 1..3 /\ k # depth + 1
          BY <1>2, <4>2
        <5> QED
          BY <1>5, <2>2, <3>1, <5>1
      <4> QED
        BY <4>1, <4>2
    <3>7. ASSUME NEW k \in 1..(e - 1) PROVE at'[k] >= 2
      <4>1. k \in 1..depth /\ k \in 1..3 /\ k # depth + 1
        BY <1>2, <3>2
      <4>2. at'[k] = on[k]
        BY <2>3, <4>1
      <4>3. CASE k = depth
        BY <1>4, <4>2, <4>3
      <4>4. CASE k # depth
        <5>1. on[k] = at[k] /\ k \in 1..(depth - 1)
          BY <1>4, <1>6, <4>1, <4>4
        <5> QED
          BY <1>5, <3>1, <4>2, <5>1
      <4> QED
        BY <4>3, <4>4
    <3> QED
      BY <2>3, <3>2, <3>3, <3>6, <3>7
  <2>7. BlocksRight(image, out, i, pc, slot, depth, at, ind_blocks)'
    BY <1>1, <2>2, <2>6 DEF BlocksRight
  <2> QED
    BY <1>3, <2>4, <2>5, <2>7 DEF SumInv
<1> QED
  BY <1>9, <1>11, <1>14, <1>15

\* The end of a call.
LEMMA ReturnRight == SumInv /\ status = SRunning /\ IndReturn => SumInv'
<1> SUFFICES ASSUME SumInv, status = SRunning, IndReturn PROVE SumInv'
  OBVIOUS
<1> DEFINE f == image.table[i]
           b == f.i_block[12 + slot]
<1>1. /\ depth > 0 /\ at[depth] > PTRS
      /\ image' = image /\ out' = out /\ i' = i /\ pc' = pc /\ status' = status
      /\ at' = at /\ ind_blocks' = ind_blocks
      /\ depth' = depth - 1 /\ slot' = IF depth = 1 THEN slot + 1 ELSE slot
  BY DEF IndReturn
<1>2. /\ pc = "slots" /\ depth \in 1..3 /\ slot \in 1..3 /\ depth <= slot
      /\ ImageOK /\ StackOK /\ i \in Nat /\ i \in 1..image.inodes_pg /\ Len(out) >= 4
      /\ at[depth] \in 1..(PTRS + 1) /\ PTRS \in Nat \ {0}
      /\ LinesRight(image, out, i + 1)
  BY <1>1, CallFacts
<1>3. ImageOK' /\ StackOK'
  BY <1>1, <1>2 DEF ImageOK, StackOK
<1>4. SumPlaces' /\ SumLength' /\ LinesRight(image, out, Seen)'
  BY <1>1, <1>2 DEF SumInv, SumPlaces, SumLength, Seen
<1>5. OnePtr(image, ind_blocks) =>
        /\ TreesRight(image, out, i)
        /\ InImage(image, f) =>
             /\ \A k \in 1..depth : ind_blocks[k][1] = Hop(image, b, k)
             /\ \A k \in 1..(depth - 1) : at[k] >= 2
             /\ BlocksOf(out, i) = Trees(image, f, slot) \cup Chain(image, b, slot)
  BY <1>1, <1>2 DEF SumInv, BlocksRight, OnTheWay
<1>6. Trees(image, f, slot + 1) = Trees(image, f, slot) \cup Chain(image, b, slot)
  BY <1>2, OneMoreTree
<1>7. OnePtr(image, ind_blocks) =>
        TreesRight(image, out, i) /\ OnTheWay(image, out, i, slot', depth', at, ind_blocks)
  <2> SUFFICES ASSUME OnePtr(image, ind_blocks), InImage(image, f)
               PROVE  OnTheWay(image, out, i, slot', depth', at, ind_blocks)
    BY <1>5 DEF OnTheWay, f
  <2>1. CASE depth = 1
    <3>1. depth' = 0 /\ slot' = slot + 1
      BY <1>1, <2>1
    <3> HIDE DEF b
    <3> QED
      BY <1>5, <1>6, <3>1 DEF OnTheWay, f
  <2>2. CASE depth # 1
    <3> DEFINE e == depth - 1
    <3>1. depth' = e /\ slot' = slot /\ e # 0 /\ e \in 1..(depth - 1)
          /\ (\A k \in 1..e : k \in 1..depth) /\ \A k \in 1..(e - 1) : k \in 1..(depth - 1)
      BY <1>1, <1>2, <2>2
    <3>2. at[e] # 1 /\ \A k \in 1..(e - 1) : at[k] >= 2
      BY <1>5, <3>1
    <3>3. \A k \in 1..e : ind_blocks[k][1] = Hop(image, b, k)
      BY <1>5, <3>1
    <3>4. BlocksOf(out, i) = Trees(image, f, slot) \cup Chain(image, b, slot)
      BY <1>5
    <3> HIDE DEF e
    <3>5. OnTheWay(image, out, i, slot, e, at, ind_blocks)
      BY <3>1, <3>2, <3>3, <3>4 DEF OnTheWay
    <3> QED
      BY <3>1, <3>5
  <2> QED
    BY <2>1, <2>2
<1>8. BlocksRight(image, out, i, pc, slot, depth, at, ind_blocks)'
  BY <1>1, <1>7 DEF BlocksRight
<1> QED
  BY <1>3, <1>4, <1>8 DEF SumInv

\* Every step keeps what lab3a has printed right.
LEMMA SumStep == Inv1 /\ [Next]_vars => Inv1'
<1> SUFFICES ASSUME Inv1, [Next]_vars PROVE Inv1'
  OBVIOUS
<1>1. ASSUME UNCHANGED <<svars, own>> PROVE Inv1'
  BY <1>1 DEF Inv1, svars, tree, SumInv, SummaryInit, ImageOK, SumPlaces, SumLength, StackOK, Seen
<1>2. ASSUME Summarise PROVE Inv1'
  <2>1. own /\ own' = own /\ status = SRunning /\ SumInv
    BY <1>2 DEF Summarise, Summary, Inv1
  <2>2. CASE Header
    BY <2>1, <2>2, HeaderRight DEF Inv1
  <2> DEFINE row(type, zeros, cnt) == [type |-> type, nums |-> Listed(zeros, cnt)]
  <2>3. CASE FreeBlockSummary
    <3>1. row("BFREE", image.bzeros, image.blocks_pg) \in FreeRow
      BY SizesAssumption DEF Listed, FreeRow
    <3>2. SumInv'
      BY <2>1, <2>3, <3>1, FreeRight DEF FreeBlockSummary, FreeLists
    <3> QED
      BY <2>1, <3>2 DEF Inv1
  <2>4. CASE FreeInodeSummary
    <3>1. row("IFREE", image.izeros, image.inodes_pg) \in FreeRow
      BY SizesAssumption DEF Listed, FreeRow
    <3>2. SumInv'
      BY <2>1, <2>4, <3>1, FreeRight DEF FreeInodeSummary, FreeLists
    <3> QED
      BY <2>1, <3>2 DEF Inv1
  <2>5. CASE InodeSummary
    BY <2>1, <2>5, InodesRight DEF Inv1
  <2>6. CASE IndSlot
    BY <2>1, <2>6, SlotsRight DEF Inv1
  <2>7. CASE IndRow
    BY <2>1, <2>7, RowsRight DEF Inv1
  <2>8. CASE IndReturn
    BY <2>1, <2>8, ReturnRight DEF Inv1
  <2> QED
    BY <1>2, <2>2, <2>3, <2>4, <2>5, <2>6, <2>7, <2>8 DEF Summarise, Summary
<1>3. ASSUME ReadFails PROVE Inv1'
  BY <1>3 DEF ReadFails, Fails, Inv1, svars, tree, SumInv, SummaryInit, ImageOK, SumPlaces, SumLength,
     StackOK, Seen, SRunning
<1>4. ASSUME Hand \/ Check \/ Ended \/ UNCHANGED vars PROVE UNCHANGED <<svars, own>>
  BY <1>4 DEF Hand, Check, Ended, vars, svars
<1> QED
  BY <1>1, <1>2, <1>3, <1>4 DEF Next

\* The zero bits of a bitmap whose last zeros are in the byte the group ends in.
LEMMA ListedIs ==
  ASSUME NEW cnt \in 1..BITS, NEW zeros \in SUBSET (1..(8 * ((cnt + 7) \div 8)))
  PROVE  Listed(zeros, cnt) = zeros \cap 1..cnt
<1>1. cnt \in Nat /\ cnt >= 1 /\ BITS \in Nat /\ cnt <= BITS
  BY SizesAssumption
<1>2. ASSUME NEW n \in Nat, n > cnt, n <= 8 * ((cnt + 7) \div 8)
      PROVE  (n - 1) \div 8 = (cnt - 1) \div 8
  BY <1>1, <1>2, Z3
<1>3. (cnt + 7) \div 8 \in Nat
  BY <1>1
<1>4. \A n \in zeros : n \in Nat /\ n >= 1 /\ n <= 8 * ((cnt + 7) \div 8)
  BY <1>3
<1>5. ASSUME NEW n \in Listed(zeros, cnt) PROVE n \in zeros \cap 1..cnt
  <2>1. n \in zeros /\ ~(n > cnt /\ (n - 1) \div 8 = (cnt - 1) \div 8)
    BY DEF Listed
  <2>2. n \in Nat /\ n >= 1 /\ n <= 8 * ((cnt + 7) \div 8)
    BY <1>4, <2>1
  <2>3. ~(n > cnt)
    BY <1>2, <2>1, <2>2
  <2> QED
    BY <1>1, <2>1, <2>2, <2>3
<1>6. ASSUME NEW n \in zeros \cap 1..cnt PROVE n \in Listed(zeros, cnt)
  BY <1>1 DEF Listed
<1> QED
  BY <1>5, <1>6

\* The free lists are the third and the fourth line.
LEMMA NumbersAre ==
  ASSUME SumInv, pc = "inode"
  PROVE  /\ Numbers("BFREE") = Listed(image.bzeros, image.blocks_pg)
         /\ Numbers("IFREE") = Listed(image.izeros, image.inodes_pg)
<1>1. out \in Seq(Row) /\ Len(out) >= 4
  BY DEF SumInv, LinesRight, SumLength
<1>2. 3 \in DOMAIN out /\ 4 \in DOMAIN out
  BY <1>1
<1>3. \A j \in DOMAIN out : (out[j].type = "BFREE" <=> j = 3) /\ (out[j].type = "IFREE" <=> j = 4)
  BY DEF SumInv, LinesRight, LineRight
<1>4. /\ out[3].nums = Listed(image.bzeros, image.blocks_pg)
      /\ out[4].nums = Listed(image.izeros, image.inodes_pg)
  BY <1>2 DEF SumInv, LinesRight, LineRight
<1>5. {j \in DOMAIN out : out[j].type = "BFREE"} = {3} /\ {j \in DOMAIN out : out[j].type = "IFREE"} = {4}
  BY <1>2, <1>3
<1>6. Numbers("BFREE") = out[3].nums /\ Numbers("IFREE") = out[4].nums
  BY <1>5 DEF Numbers
<1> QED
  BY <1>4, <1>6

\* The summary of any image is right about its free blocks and inodes, where no bitmap
\* has a zero behind the byte the group ends in, and about the blocks each file reaches,
\* where no indirect block has a second pointer and the stack starts clear of one:
\* lab3a's loops over the bitmaps and the inode table, and its calls of print_ind_blks()
\* at three levels, each of which finds on the stack what earlier calls have fetched.
THEOREM SummaryRightHolds == Spec => []SummaryRight
<1>1. Inv1 => SummaryRight
  <2> SUFFICES ASSUME Inv1, status = 0 PROVE SummaryRight
    BY DEF SummaryRight, FreeListsRight, BlocksListed
  <2>1. own /\ SumInv
    BY DEF Inv1, SummaryInit, SRunning
  <2>2. pc = "inode" /\ i > image.inodes_pg /\ i <= image.inodes_pg + 1 /\ i \in Nat
    BY <2>1 DEF SumInv, SumPlaces
  <2>3. image.blocks_pg \in 1..BITS /\ image.inodes_pg \in 1..BITS
        /\ DOMAIN image.table = 1..image.inodes_pg
    BY <2>1 DEF SumInv, ImageOK, IsImage
  <2>4. FreeListsRight
    <3>1. /\ Numbers("BFREE") = Listed(image.bzeros, image.blocks_pg)
          /\ Numbers("IFREE") = Listed(image.izeros, image.inodes_pg)
      BY <2>1, <2>2, NumbersAre
    <3>2. image.bzeros \subseteq 1..(8 * ((image.blocks_pg + 7) \div 8)) =>
            Listed(image.bzeros, image.blocks_pg) = image.bzeros \cap 1..image.blocks_pg
      BY <2>3, ListedIs
    <3>3. image.izeros \subseteq 1..(8 * ((image.inodes_pg + 7) \div 8)) =>
            Listed(image.izeros, image.inodes_pg) = image.izeros \cap 1..image.inodes_pg
      BY <2>3, ListedIs
    <3> QED
      BY <3>1, <3>2, <3>3 DEF FreeListsRight
  <2>5. BlocksListed
    <3> SUFFICES ASSUME OnePointerEach, NEW n \in DOMAIN image.table,
                        image.table[n].mode \in {"f", "d"}, image.table[n].links # 0,
                        InImage(image, image.table[n])
                 PROVE  Reached(image.table[n]) = BlocksOf(out, n)
      BY DEF BlocksListed, BlocksOf, InImage
    <3>1. InUse(image, n)
      BY DEF InUse
    <3>2. n \in 1..(i - 1)
      BY <2>2, <2>3, SizesAssumption
    <3>3. OnePtr(image, ind_blocks) /\ image.table[n].i_block \in [1..15 -> Nat] /\ ImageOK
      BY <2>1 DEF OnePointerEach, OnePtr, SumInv, ImageOK, IsImage
    <3>4. BlocksOf(out, n) = Trees(image, image.table[n], 4)
      BY <2>1, <3>1, <3>2, <3>3 DEF SumInv, BlocksRight, TreesRight
    <3>5. Trees(image, image.table[n], 4) = Reached(image.table[n])
      BY <3>3, TreesAreReached
    <3> QED
      BY <3>4, <3>5
  <2> QED
    BY <2>4, <2>5 DEF SummaryRight
<1> QED
  BY <1>1, SumStart, SumStep, PTL DEF Spec

-----------------------------------------------------------------------------
\* The summary is handed over

\* A summary printed to its end is one that lab3b.py can be given.
LEMMA PrintedIsSummary ==
  ASSUME SumInv, status = 0
  PROVE  IsSummary(out)
<1>1. /\ out \in Seq(Row) /\ Len(out) >= 4 /\ i \in Nat \ {0} /\ i <= image.inodes_pg + 1
      /\ pc = "inode"
  BY DEF SumInv, LinesRight, SumLength, SumPlaces
<1>2. Len(out) \in Nat \ {0} /\ DOMAIN out = 1..Len(out) /\ \A j \in DOMAIN out : out[j] \in Row
  BY <1>1
<1>3. \A j \in DOMAIN out : LineRight(image, out[j], j, i)
  <2>1. LinesRight(image, out, i)
    BY <1>1 DEF SumInv, Seen
  <2> QED
    BY <2>1 DEF LinesRight
<1>4. ASSUME NEW j \in DOMAIN out PROVE IsLine(out[j])
  <2> DEFINE r == out[j]
  <2>1. r \in Row /\ LineRight(image, r, j, i)
    BY <1>2, <1>3
  <2> HIDE DEF r
  <2>2. /\ r.type \in {"SUPERBLOCK", "GROUP", "BFREE", "IFREE", "INODE", "DIRECT", "INDIRECT"}
        /\ r.type = "SUPERBLOCK" => r \in SuperRow
        /\ r.type \in {"BFREE", "IFREE"} => r \in FreeRow
        /\ r.type = "INODE" => r \in InodeRow
        /\ r.type = "INDIRECT" => r \in AnyIndRow
    BY <2>1, RowTypes
  <2>3. r.type = "SUPERBLOCK" => r.blk_cnt \in Nat /\ r.ino_cnt \in Nat
    BY <2>2 DEF SuperRow
  <2>4. r.type \in {"BFREE", "IFREE"} => r.nums \subseteq Nat
    BY <2>2 DEF FreeRow
  <2>5. r.type = "INODE" => r.num \in Nat /\ r.link_cnt \in Nat /\ r.blk_addrs \in Seq(Int)
    BY <2>2 DEF InodeRow
  <2>6. r.type = "INODE" => Len(r.blk_addrs) <= 15
    BY <2>1 DEF LineRight
  <2>7. r.type = "INDIRECT" => r.block \in Int \ {0}
    BY <2>2 DEF AnyIndRow
  <2>8. r.type # "DIRENT"
    BY <2>2
  <2> QED
    BY <2>3, <2>4, <2>5, <2>6, <2>7, <2>8 DEF IsLine, r
<1>5. out[1].ino_cnt = image.inodes
  BY <1>1, <1>2, <1>3 DEF LineRight
<1>6. ASSUME NEW j \in DOMAIN out, out[j].type = "INODE" PROVE out[j].num \in 1..out[1].ino_cnt
  <2>1. out[j].num \in 1..(i - 1)
    BY <1>3, <1>6 DEF LineRight
  <2>2. image.inodes_pg \in Nat /\ image.inodes \in Nat /\ image.inodes_pg <= image.inodes
    BY SizesAssumption DEF SumInv, ImageOK, IsImage
  <2> QED
    BY <1>1, <1>5, <2>1, <2>2
<1>7. \A j \in DOMAIN out : out[j].type # "DIRENT"
  BY <1>2, RowTypes
<1>8. \A j \in DOMAIN out : out[j].type = "SUPERBLOCK" <=> j = 1
  BY <1>3 DEF LineRight
<1>9. \A j, k \in DOMAIN out :
        out[j].type = "INODE" /\ out[k].type = "INODE" /\ out[j].num = out[k].num => j = k
  BY DEF SumInv, LinesRight
<1> QED
  BY <1>2, <1>4, <1>6, <1>7, <1>8, <1>9 DEF IsSummary

\* What lab3b.py is given, and how far it has read: csv_lines is empty until lab3a's
\* output is handed over, and the lines read are all well formed.
Given ==
  /\ own \in BOOLEAN
  /\ csv_lines = <<>> => own /\ AuditInit
  /\ csv_lines # <<>> => IsSummary(csv_lines) /\ (own => csv_lines = out /\ status = 0)

AuditPlaces ==
  /\ line \in 0..Len(csv_lines)
  /\ apc \in {"read", "links", "blocks", "entries", "inodes", "duplicates", "parents", "exit"}
  /\ astatus \in {Running, 0, 1, 2}
  /\ apc # "read" => line = Len(csv_lines)
  /\ \A j \in 1..line : ~Malformed(csv_lines[j])

Inv2 == Inv1 /\ Given /\ AuditPlaces

\* The first action of lab3b.py needs a summary.
LEMMA AuditHasLines == Given /\ Check => csv_lines # <<>> /\ IsSummary(csv_lines)
  BY DEF Given, Check

\* A summary is not empty.
LEMMA SummaryNotEmpty == \A s : IsSummary(s) => s # <<>>
  BY DEF IsSummary

\* The invariant holds at the start.
LEMMA GivenStart == Init => Inv2
<1> SUFFICES ASSUME Init PROVE Inv2
  OBVIOUS
<1>1. Inv1
  BY SumStart
<1>2. line = 0 /\ apc = "read" /\ astatus = Running /\ AuditInit
  BY DEF Init, AuditInit
<1>3. CASE own = TRUE /\ csv_lines = <<>>
  <2>1. Given
    BY <1>2, <1>3 DEF Given
  <2>2. AuditPlaces
    <3>1. Len(<<>>) = 0 /\ 1..0 = {}
      OBVIOUS
    <3> QED
      BY <1>2, <1>3, <3>1 DEF AuditPlaces
  <2> QED
    BY <1>1, <2>1, <2>2 DEF Inv2
<1>4. CASE own = FALSE /\ csv_lines \in Summaries
  <2>1. IsSummary(csv_lines) /\ csv_lines # <<>>
    BY <1>4, InputsAssumption, SummaryNotEmpty
  <2>2. Given
    BY <1>2, <1>4, <2>1 DEF Given
  <2>3. Len(csv_lines) \in Nat
    BY <2>1 DEF IsSummary
  <2>4. AuditPlaces
    <3>1. 1..0 = {} /\ 0 \in 0..Len(csv_lines)
      BY <2>3
    <3> QED
      BY <1>2, <3>1 DEF AuditPlaces
  <2> QED
    BY <1>1, <2>2, <2>4 DEF Inv2
<1> QED
  BY <1>3, <1>4 DEF Init

\* What a line read does to where the audit is.
LEMMA ReadPlaces ==
  ASSUME AuditPlaces, Len(csv_lines) \in Nat, ReadLine
  PROVE  /\ csv_lines' = csv_lines /\ apc = "read" /\ apc' = apc /\ line < Len(csv_lines)
         /\ \/ /\ Malformed(csv_lines[line + 1]) /\ astatus' = 1
               /\ UNCHANGED <<line, dicts, is_consistent, found>>
            \/ /\ ~Malformed(csv_lines[line + 1]) /\ line' = line + 1 /\ astatus' = astatus
  BY DEF ReadLine, Raises

\* A step of lab3b.py.
LEMMA AuditStep ==
  ASSUME AuditPlaces, Len(csv_lines) \in Nat, astatus = Running, Audit
  PROVE  csv_lines' = csv_lines /\ AuditPlaces'
<1>1. CASE ReadLine
  <2>1. /\ csv_lines' = csv_lines /\ apc = "read" /\ apc' = apc /\ line < Len(csv_lines)
        /\ \/ /\ Malformed(csv_lines[line + 1]) /\ astatus' = 1
              /\ UNCHANGED <<line, dicts, is_consistent, found>>
           \/ /\ ~Malformed(csv_lines[line + 1]) /\ line' = line + 1 /\ astatus' = astatus
    BY <1>1, ReadPlaces
  <2>2. CASE line' = line
    BY <2>1, <2>2 DEF AuditPlaces
  <2>3. CASE line' = line + 1 /\ ~Malformed(csv_lines[line + 1]) /\ astatus' = astatus
    <3>1. line \in 0..Len(csv_lines) /\ line' \in 0..Len(csv_lines')
      BY <2>1, <2>3 DEF AuditPlaces
    <3>2. \A j \in 1..(line + 1) : j \in 1..line \/ j = line + 1
      BY <3>1
    <3>3. \A j \in 1..line' : ~Malformed(csv_lines[j])
      BY <2>3, <3>2 DEF AuditPlaces
    <3> QED
      BY <2>1, <2>3, <3>1, <3>3 DEF AuditPlaces
  <2> QED
    BY <2>1, <2>2, <2>3
<1>2. CASE LinesDone \/ ScanLinks \/ ScanBlocks \/ ScanEntries \/ ScanInodes \/ ScanDuplicates
           \/ ScanParents \/ AuditExit
  <2>1. csv_lines' = csv_lines /\ line' = line /\ line = Len(csv_lines)
    BY <1>2 DEF LinesDone, ScanLinks, ScanBlocks, ScanEntries, ScanInodes, ScanDuplicates, ScanParents,
       AuditExit, Scanned, Raises, AuditPlaces
  <2>2. /\ apc' \in {"read", "links", "blocks", "entries", "inodes", "duplicates", "parents", "exit"}
        /\ astatus' \in {Running, 0, 1, 2}
    BY <1>2 DEF LinesDone, ScanLinks, ScanBlocks, ScanEntries, ScanInodes, ScanDuplicates, ScanParents,
       AuditExit, Scanned, Raises, AuditPlaces
  <2> QED
    BY <2>1, <2>2 DEF AuditPlaces
<1> QED
  BY <1>1, <1>2 DEF Audit

\* Every step keeps what lab3b.py is given, and where it is, right.
LEMMA GivenStep == Inv2 /\ [Next]_vars => Inv2'
<1> SUFFICES ASSUME Inv2, [Next]_vars PROVE Inv2'
  OBVIOUS
<1>1. Inv1'
  BY SumStep DEF Inv2
<1>2. CASE Summarise \/ ReadFails
  <2>1. own /\ own' = own /\ status = SRunning /\ UNCHANGED avars
    BY <1>2 DEF Summarise, ReadFails, Summary, Fails
  <2>2. csv_lines = <<>>
    BY <2>1 DEF Inv2, Given, SRunning
  <2>3. Given'
    BY <2>1, <2>2 DEF Inv2, Given, avars, dicts, AuditInit
  <2>4. AuditPlaces'
    BY <2>1 DEF Inv2, AuditPlaces, avars
  <2> QED
    BY <1>1, <2>3, <2>4 DEF Inv2
<1>3. CASE Hand
  <2>1. /\ own /\ status = 0 /\ csv_lines = <<>> /\ csv_lines' = out
        /\ own' = own /\ status' = status /\ out' = out
        /\ line' = line /\ apc' = apc /\ astatus' = astatus
    BY <1>3 DEF Hand, svars
  <2>2. IsSummary(out)
    BY <2>1, PrintedIsSummary DEF Inv2, Inv1
  <2>3. Given'
    BY <2>1, <2>2, SummaryNotEmpty DEF Given
  <2>4. line = 0 /\ apc = "read" /\ astatus = Running
    BY <2>1 DEF Inv2, Given, AuditInit
  <2>5. Len(out) \in Nat
    BY <2>2 DEF IsSummary
  <2>6. AuditPlaces'
    <3>1. 1..0 = {} /\ 0 \in 0..Len(out)
      BY <2>5
    <3> QED
      BY <2>1, <2>4, <3>1 DEF AuditPlaces
  <2> QED
    BY <1>1, <2>3, <2>6 DEF Inv2
<1>4. CASE Check
  <2>1. csv_lines # <<>> /\ IsSummary(csv_lines)
    BY <1>4, AuditHasLines DEF Inv2
  <2>2. Len(csv_lines) \in Nat /\ astatus = Running /\ Audit /\ UNCHANGED <<svars, own>>
    BY <1>4, <2>1 DEF Check, Audit, IsSummary
  <2>3. csv_lines' = csv_lines /\ AuditPlaces'
    BY <2>2, AuditStep DEF Inv2
  <2>4. Given'
    BY <2>1, <2>2, <2>3 DEF Inv2, Given, svars
  <2> QED
    BY <1>1, <2>3, <2>4 DEF Inv2
<1>5. CASE Ended \/ UNCHANGED vars
  <2>1. UNCHANGED <<svars, avars, own>>
    BY <1>5 DEF Ended, vars
  <2>2. Given' /\ AuditPlaces'
    BY <2>1 DEF Inv2, Given, AuditPlaces, avars, svars, dicts, AuditInit
  <2> QED
    BY <1>1, <2>2 DEF Inv2
<1> QED
  BY <1>2, <1>3, <1>4, <1>5 DEF Next

-----------------------------------------------------------------------------
\* What lab3b.py's dictionaries hold after m lines of the summary s

Read(s, m, t) == {j \in 1..m : s[j].type = t}
SuperOf(s)    == [blk_cnt |-> s[1].blk_cnt, ino_cnt |-> s[1].ino_cnt]
NumsOf(s, m, t) == UNION {s[j].nums : j \in Read(s, m, t)}

\* The entries '..', and the other ones, whose inode number is one of the file system.
Valid(s, j)    == s[j].num \in 1..s[1].ino_cnt
DotDots(s, m)  == {j \in Read(s, m, "DIRENT") : Valid(s, j) /\ s[j].name = ".."}
Others(s, m)    == {j \in Read(s, m, "DIRENT") : Valid(s, j) /\ s[j].name \notin {".", ".."}}
Naming(s, m, n) == {j \in Read(s, m, "DIRENT") : s[j].num = n}

\* The places that hold the block address b, as in Refs().
Slots(s, j, b)   == {k \in DOMAIN s[j].blk_addrs : s[j].blk_addrs[k] = b}
IsRef(s, m, b, r) ==
  \/ \E j \in Read(s, m, "INODE") : \E k \in Slots(s, j, b) : r = <<j, k>>
  \/ \E j \in Read(s, m, "INDIRECT") : s[j].block = b /\ r = <<j, 0>>
Twice(s, m, b) == \E r, q : IsRef(s, m, b, r) /\ IsRef(s, m, b, q) /\ r # q

LinkCounts(s, m, d) ==
  /\ DOMAIN d = {s[j].num : j \in Read(s, m, "INODE")}
  /\ \A j \in Read(s, m, "INODE") : d[s[j].num] = s[j].link_cnt
RefCounts(s, m, d) ==
  /\ DOMAIN d = {s[j].num : j \in Read(s, m, "DIRENT")}
  /\ \A n \in DOMAIN d : d[n] = Cardinality(Naming(s, m, n))
BlockCounts(s, m, d) ==
  /\ DOMAIN d \subseteq Int \ reserved_blocks
  /\ \A b \in Int \ reserved_blocks : b \in DOMAIN d <=> \E r : IsRef(s, m, b, r)
  /\ \A b \in DOMAIN d : d[b] \in Nat \ {0} /\ (d[b] > 1 <=> Twice(s, m, b))
Parents(s, m, d) ==
  /\ DOMAIN d = {s[j].parent : j \in DotDots(s, m)}
  /\ \A j \in DotDots(s, m) : d[s[j].parent] = s[j].num
Names(s, m, d) ==
  /\ DOMAIN d = {s[j].num : j \in Others(s, m)}
  /\ \A n \in DOMAIN d : \E j \in Others(s, m) : s[j].num = n /\ d[n] = s[j].parent

\* A line that nothing is printed about.
BadAddress(s, b) == b < 0 \/ b > s[1].blk_cnt \/ b \in reserved_blocks \ {0}
Clean(s, j) ==
  /\ s[j].type = "INODE" =>
       \A k \in DOMAIN s[j].blk_addrs : s[j].blk_addrs[k] # 0 => ~BadAddress(s, s[j].blk_addrs[k])
  /\ s[j].type = "INDIRECT" => ~BadAddress(s, s[j].block)
  /\ s[j].type = "DIRENT" => Valid(s, j) /\ (s[j].name = "." => s[j].num = s[j].parent)
AllClean(s, m) == \A j \in 1..m : Clean(s, j)

ReadInv ==
  /\ line >= 1 => superblock = SuperOf(csv_lines)
  /\ ifree = NumsOf(csv_lines, line, "IFREE") /\ bfree = NumsOf(csv_lines, line, "BFREE")
  /\ LinkCounts(csv_lines, line, inode_dict_lnk_cnt)
  /\ RefCounts(csv_lines, line, inode_dict_ref_lnk_cnt)
  /\ BlockCounts(csv_lines, line, block_dict)
  /\ Parents(csv_lines, line, inode_dict_parents)
  /\ Names(csv_lines, line, inode_dict_lr)

\* What each scan looks for, as it is there or not.
CountsAgree(d, e) == \A n \in DOMAIN d : d[n] = IF n \in DOMAIN e THEN e[n] ELSE 0
BlocksAgree(sb, bf, d) ==
  \A b \in 1..sb.blk_cnt : /\ ~(b \in bf /\ b \in DOMAIN d)
                           /\ ~(b \notin bf /\ b \notin DOMAIN d /\ b \notin reserved_blocks)
EntriesAgree(fr, d, e) == ~\E n \in DOMAIN d : n \in fr /\ n \in DOMAIN e
InodesAgree(sb, fr, d, e) ==
  \A n \in 1..sb.ino_cnt : /\ ~(n \notin fr /\ n \notin DOMAIN d /\ n \notin DOMAIN e
                                /\ n \notin reserved_inodes)
                           /\ ~(n \in DOMAIN d /\ n \in fr)
OnceEach(d) == ~\E b \in DOMAIN d : d[b] > 1
WrongParent(d, e, p) == IF p = 2 THEN d[p] # 2 ELSE p \notin DOMAIN e \/ d[p] # e[p]
ParentsAgree(d, e) == \A p \in DOMAIN d : ~WrongParent(d, e, p)

\* The places after each of the scans.
AfterLinks      == {"blocks", "entries", "inodes", "duplicates", "parents", "exit"}
AfterBlocks     == {"entries", "inodes", "duplicates", "parents", "exit"}
AfterEntries    == {"inodes", "duplicates", "parents", "exit"}
AfterInodes     == {"duplicates", "parents", "exit"}
AfterDuplicates == {"parents", "exit"}

\* Three of the scans clear is_consistent, as the lines do; the other three have let
\* the script go on.
FlagRight ==
  /\ is_consistent \in BOOLEAN
  /\ is_consistent <=>
       /\ AllClean(csv_lines, line)
       /\ apc \in AfterBlocks => BlocksAgree(superblock, bfree, block_dict)
       /\ apc \in AfterInodes => InodesAgree(superblock, ifree, inode_dict_lnk_cnt, inode_dict_lr)
       /\ apc = "exit" => ParentsAgree(inode_dict_parents, inode_dict_lr)
PassedRight ==
  /\ apc \in AfterLinks => CountsAgree(inode_dict_lnk_cnt, inode_dict_ref_lnk_cnt)
  /\ apc \in AfterEntries => EntriesAgree(ifree, inode_dict_ref_lnk_cnt, inode_dict_lr)
  /\ apc \in AfterDuplicates => OnceEach(block_dict)
StatusRight ==
  /\ astatus \in {0, 2} => apc = "exit" /\ (is_consistent <=> astatus = 0)
  /\ astatus = 1 =>
       \/ apc = "read" /\ line < Len(csv_lines) /\ Malformed(csv_lines[line + 1])
       \/ apc = "links" /\ ~CountsAgree(inode_dict_lnk_cnt, inode_dict_ref_lnk_cnt)
       \/ apc = "entries" /\ ~EntriesAgree(ifree, inode_dict_ref_lnk_cnt, inode_dict_lr)
       \/ apc = "duplicates" /\ ~OnceEach(block_dict)
ScanInv == FlagRight /\ PassedRight /\ StatusRight

Inv3 == Inv2 /\ ReadInv /\ ScanInv

\* The lines of a type after one more line.
LEMMA ReadNext ==
  ASSUME NEW s, NEW m \in Nat, NEW t
  PROVE  /\ s[m + 1].type = t => Read(s, m + 1, t) = Read(s, m, t) \cup {m + 1}
         /\ s[m + 1].type # t => Read(s, m + 1, t) = Read(s, m, t)
         /\ m + 1 \notin Read(s, m, t)
<1>1. \A j : j \in 1..(m + 1) <=> j \in 1..m \/ j = m + 1
  OBVIOUS
<1>2. m + 1 \notin 1..m
  OBVIOUS
<1> QED
  BY <1>1, <1>2 DEF Read

\* The numbers of a free list.
LEMMA NumsNext ==
  ASSUME NEW s, NEW m \in Nat, NEW t
  PROVE  /\ s[m + 1].type = t => NumsOf(s, m + 1, t) = NumsOf(s, m, t) \cup s[m + 1].nums
         /\ s[m + 1].type # t => NumsOf(s, m + 1, t) = NumsOf(s, m, t)
<1>1. CASE s[m + 1].type = t
  <2>1. Read(s, m + 1, t) = Read(s, m, t) \cup {m + 1}
    BY <1>1, ReadNext
  <2> QED
    BY <1>1, <2>1 DEF NumsOf
<1>2. CASE s[m + 1].type # t
  <2>1. Read(s, m + 1, t) = Read(s, m, t)
    BY <1>2, ReadNext
  <2> QED
    BY <1>2, <2>1 DEF NumsOf
<1> QED
  BY <1>1, <1>2

\* The link counts.
LEMMA LinkNext ==
  ASSUME NEW s, NEW m \in Nat, NEW d, LinkCounts(s, m, d)
  PROVE  /\ s[m + 1].type # "INODE" => LinkCounts(s, m + 1, d)
         /\ s[m + 1].type = "INODE" /\ (\A j \in Read(s, m, "INODE") : s[j].num # s[m + 1].num)
              => LinkCounts(s, m + 1, Mapped(d, s[m + 1].num, s[m + 1].link_cnt))
<1> DEFINE R == Read(s, m, "INODE")
           S == Read(s, m + 1, "INODE")
<1>1. CASE s[m + 1].type # "INODE"
  BY <1>1, ReadNext DEF LinkCounts
<1>2. CASE s[m + 1].type = "INODE"
  <2> SUFFICES ASSUME \A j \in R : s[j].num # s[m + 1].num
               PROVE  LinkCounts(s, m + 1, Mapped(d, s[m + 1].num, s[m + 1].link_cnt))
    BY <1>2
  <2>1. S = R \cup {m + 1}
    BY <1>2, ReadNext
  <2>2. DOMAIN d = {s[j].num : j \in R} /\ \A j \in R : d[s[j].num] = s[j].link_cnt
    BY DEF LinkCounts
  <2> DEFINE e == Mapped(d, s[m + 1].num, s[m + 1].link_cnt)
  <2> HIDE DEF R, S
  <2>3. DOMAIN e = DOMAIN d \cup {s[m + 1].num}
        /\ \A n \in DOMAIN e : e[n] = IF n = s[m + 1].num THEN s[m + 1].link_cnt ELSE d[n]
    BY DEF Mapped
  <2> HIDE DEF e
  <2>4. DOMAIN e = {s[j].num : j \in S}
    BY <2>1, <2>2, <2>3
  <2>5. \A j \in S : e[s[j].num] = s[j].link_cnt
    BY <2>1, <2>2, <2>3
  <2> QED
    BY <2>4, <2>5 DEF LinkCounts, S, e
<1> QED
  BY <1>1, <1>2

\* The entries that name an inode.
LEMMA RefNext ==
  ASSUME NEW s, NEW m \in Nat, NEW d, RefCounts(s, m, d)
  PROVE  /\ s[m + 1].type # "DIRENT" => RefCounts(s, m + 1, d)
         /\ s[m + 1].type = "DIRENT" => RefCounts(s, m + 1, Counted(d, s[m + 1].num))
<1>1. CASE s[m + 1].type # "DIRENT"
  BY <1>1, ReadNext DEF RefCounts, Naming
<1>2. CASE s[m + 1].type = "DIRENT"
  <2> DEFINE R == Read(s, m, "DIRENT")
             S == Read(s, m + 1, "DIRENT")
             x == s[m + 1].num
             e == Counted(d, x)
  <2>1. S = R \cup {m + 1} /\ m + 1 \notin R
    <3>1. s[m + 1].type = "DIRENT" => S = R \cup {m + 1}
      BY ReadNext
    <3>2. m + 1 \notin R
      BY ReadNext
    <3> QED
      BY <1>2, <3>1, <3>2
  <2>2. DOMAIN d = {s[j].num : j \in R} /\ \A n \in DOMAIN d : d[n] = Cardinality(Naming(s, m, n))
    BY DEF RefCounts
  <2>3. ASSUME NEW n PROVE IsFiniteSet(Naming(s, m, n))
    <3>1. IsFiniteSet(1..m) /\ Naming(s, m, n) \subseteq 1..m
      BY FS_Interval DEF Naming, Read
    <3> QED
      BY <3>1, FS_Subset
  <2>4. \A n : n # x => Naming(s, m + 1, n) = Naming(s, m, n)
    BY <2>1 DEF Naming
  <2>5. Naming(s, m + 1, x) = Naming(s, m, x) \cup {m + 1} /\ m + 1 \notin Naming(s, m, x)
    BY <2>1 DEF Naming
  <2>6. Cardinality(Naming(s, m + 1, x)) = Cardinality(Naming(s, m, x)) + 1
    BY <2>3, <2>5, FS_AddElement
  <2>7. x \notin DOMAIN d => Cardinality(Naming(s, m, x)) = 0
    <3>1. x \notin DOMAIN d => Naming(s, m, x) = {}
      BY <2>2 DEF Naming
    <3> QED
      BY <3>1, FS_EmptySet
  <2>8. /\ DOMAIN e = DOMAIN d \cup {x}
        /\ \A n \in DOMAIN e : e[n] = IF n = x THEN (IF x \in DOMAIN d THEN d[x] ELSE 0) + 1 ELSE d[n]
    BY DEF Counted, Mapped
  <2> HIDE DEF e, x, R, S
  <2>9. DOMAIN e = {s[j].num : j \in S}
    <3>1. {s[j].num : j \in S} = {s[j].num : j \in R} \cup {s[m + 1].num}
      BY <2>1
    <3> QED
      BY <2>2, <2>8, <3>1 DEF x
  <2>10. \A n \in DOMAIN e : e[n] = Cardinality(Naming(s, m + 1, n))
    <3>1. ASSUME NEW n \in DOMAIN e, n # x PROVE e[n] = Cardinality(Naming(s, m + 1, n))
      BY <2>2, <2>4, <2>8, <3>1
    <3>2. x \in DOMAIN d => e[x] = Cardinality(Naming(s, m + 1, x))
      BY <2>2, <2>6, <2>8
    <3>3. x \notin DOMAIN d => e[x] = Cardinality(Naming(s, m + 1, x))
      BY <2>6, <2>7, <2>8
    <3> QED
      BY <3>1, <3>2, <3>3
  <2>11. RefCounts(s, m + 1, e)
    BY <2>9, <2>10 DEF RefCounts, S
  <2> QED
    BY <1>2, <2>11 DEF e, x
<1> QED
  BY <1>1, <1>2

\* Where the entries '..' lead; there is one for each directory.
LEMMA ParentsNext ==
  ASSUME NEW s, NEW m \in Nat, NEW d, Parents(s, m, d)
  PROVE  /\ s[m + 1].type # "DIRENT" \/ ~Valid(s, m + 1) \/ s[m + 1].name # ".."
              => Parents(s, m + 1, d)
         /\ s[m + 1].type = "DIRENT" /\ Valid(s, m + 1) /\ s[m + 1].name = ".."
            /\ (\A j \in DotDots(s, m) : s[j].parent # s[m + 1].parent)
              => Parents(s, m + 1, Mapped(d, s[m + 1].parent, s[m + 1].num))
<1> DEFINE R == DotDots(s, m)
           S == DotDots(s, m + 1)
<1>1. CASE s[m + 1].type # "DIRENT" \/ ~Valid(s, m + 1) \/ s[m + 1].name # ".."
  <2>1. S = R
    <3>1. \A j : j \in Read(s, m + 1, "DIRENT") /\ ~(j = m + 1) <=> j \in Read(s, m, "DIRENT")
      BY ReadNext
    <3>2. \A j : j \in Read(s, m + 1, "DIRENT") => s[j].type = "DIRENT"
      BY DEF Read
    <3> QED
      BY <1>1, <3>1, <3>2 DEF DotDots
  <2> QED
    BY <1>1, <2>1 DEF Parents
<1>2. CASE s[m + 1].type = "DIRENT" /\ Valid(s, m + 1) /\ s[m + 1].name = ".."
  <2> SUFFICES ASSUME \A j \in R : s[j].parent # s[m + 1].parent
               PROVE  Parents(s, m + 1, Mapped(d, s[m + 1].parent, s[m + 1].num))
    BY <1>2
  <2>1. S = R \cup {m + 1}
    BY <1>2, ReadNext DEF DotDots
  <2>2. DOMAIN d = {s[j].parent : j \in R} /\ \A j \in R : d[s[j].parent] = s[j].num
    BY DEF Parents
  <2> DEFINE e == Mapped(d, s[m + 1].parent, s[m + 1].num)
  <2> HIDE DEF R, S
  <2>3. DOMAIN e = DOMAIN d \cup {s[m + 1].parent}
        /\ \A n \in DOMAIN e : e[n] = IF n = s[m + 1].parent THEN s[m + 1].num ELSE d[n]
    BY DEF Mapped
  <2> HIDE DEF e
  <2>4. DOMAIN e = {s[j].parent : j \in S}
    BY <2>1, <2>2, <2>3
  <2>5. \A j \in S : e[s[j].parent] = s[j].num
    BY <2>1, <2>2, <2>3
  <2> QED
    BY <2>4, <2>5 DEF Parents, S, e
<1> QED
  BY <1>1, <1>2

\* The directories that name an inode: the last one is kept.
LEMMA NamesNext ==
  ASSUME NEW s, NEW m \in Nat, NEW d, Names(s, m, d)
  PROVE  /\ s[m + 1].type # "DIRENT" \/ ~Valid(s, m + 1) \/ s[m + 1].name \in {".", ".."}
              => Names(s, m + 1, d)
         /\ s[m + 1].type = "DIRENT" /\ Valid(s, m + 1) /\ s[m + 1].name \notin {".", ".."}
              => Names(s, m + 1, Mapped(d, s[m + 1].num, s[m + 1].parent))
<1> DEFINE R == Others(s, m)
           S == Others(s, m + 1)
<1>1. CASE s[m + 1].type # "DIRENT" \/ ~Valid(s, m + 1) \/ s[m + 1].name \in {".", ".."}
  <2>1. S = R
    <3>1. \A j : j \in Read(s, m + 1, "DIRENT") /\ ~(j = m + 1) <=> j \in Read(s, m, "DIRENT")
      BY ReadNext
    <3>2. \A j : j \in Read(s, m + 1, "DIRENT") => s[j].type = "DIRENT"
      BY DEF Read
    <3> QED
      BY <1>1, <3>1, <3>2 DEF Others
  <2> QED
    BY <1>1, <2>1 DEF Names
<1>2. CASE s[m + 1].type = "DIRENT" /\ Valid(s, m + 1) /\ s[m + 1].name \notin {".", ".."}
  <2>1. S = R \cup {m + 1}
    BY <1>2, ReadNext DEF Others
  <2>2. /\ DOMAIN d = {s[j].num : j \in R}
        /\ \A n \in DOMAIN d : \E j \in R : s[j].num = n /\ d[n] = s[j].parent
    BY DEF Names
  <2> DEFINE e == Mapped(d, s[m + 1].num, s[m + 1].parent)
  <2> HIDE DEF R, S
  <2>3. DOMAIN e = DOMAIN d \cup {s[m + 1].num}
        /\ \A n \in DOMAIN e : e[n] = IF n = s[m + 1].num THEN s[m + 1].parent ELSE d[n]
    BY DEF Mapped
  <2> HIDE DEF e
  <2>4. DOMAIN e = {s[j].num : j \in S}
    BY <2>1, <2>2, <2>3
  <2>5. \A n \in DOMAIN e : \E j \in S : s[j].num = n /\ e[n] = s[j].parent
    BY <2>1, <2>2, <2>3
  <2> QED
    BY <1>2, <2>4, <2>5 DEF Names, S, e
<1> QED
  BY <1>1, <1>2

\* One more line that nothing is printed about, or not.
LEMMA CleanNext ==
  ASSUME NEW s, NEW m \in Nat
  PROVE  AllClean(s, m + 1) <=> AllClean(s, m) /\ Clean(s, m + 1)
<1>1. \A j : j \in 1..(m + 1) <=> j \in 1..m \/ j = m + 1
  OBVIOUS
<1> QED
  BY <1>1 DEF AllClean

\* A finite set has more than one element if two of its elements differ.
LEMMA Several ==
  ASSUME NEW K, IsFiniteSet(K)
  PROVE  /\ Cardinality(K) \in Nat /\ (Cardinality(K) = 0 <=> K = {})
         /\ Cardinality(K) > 1 <=> \E x, y \in K : x # y
<1>1. Cardinality(K) \in Nat
  BY FS_CardinalityType
<1>2. Cardinality(K) = 0 <=> K = {}
  BY FS_EmptySet
<1>3. Cardinality(K) = 1 <=> \E x : K = {x}
  BY FS_Singleton
<1>4. (\E x, y \in K : x # y) <=> K # {} /\ ~\E x : K = {x}
  <2>1. ASSUME NEW x \in K, ~\E y \in K : x # y PROVE K = {x}
    BY <2>1
  <2> QED
    BY <2>1
<1>5. Cardinality(K) > 1 <=> Cardinality(K) # 0 /\ Cardinality(K) # 1
  BY <1>1
<1> QED
  BY <1>1, <1>2, <1>3, <1>4, <1>5

\* The references to the blocks after addresses a[k] were found at the places g[k].
LEMMA BlockMore ==
  ASSUME NEW s, NEW m \in Nat, NEW d, BlockCounts(s, m, d), NEW a, NEW g, IsFiniteSet(DOMAIN a),
         \A k \in DOMAIN a : a[k] \in Int \ {0},
         \A k, l \in DOMAIN a : g[k] = g[l] => k = l,
         \A k \in DOMAIN a : \A b : ~IsRef(s, m, b, g[k]),
         \A b \in Int \ reserved_blocks : \A r :
           IsRef(s, m + 1, b, r) <=> IsRef(s, m, b, r) \/ \E k \in DOMAIN a : a[k] = b /\ r = g[k]
  PROVE  BlockCounts(s, m + 1, Referenced(d, a))
<1> DEFINE K(b) == {k \in DOMAIN a : a[k] = b}
           old(b) == IF b \in DOMAIN d THEN d[b] ELSE 0
           e == Referenced(d, a)
<1>1. ASSUME NEW b
      PROVE  /\ Cardinality(K(b)) \in Nat /\ (Cardinality(K(b)) = 0 <=> K(b) = {})
             /\ Cardinality(K(b)) > 1 <=> \E k, l \in K(b) : k # l
  <2>1. IsFiniteSet(K(b))
    BY FS_Subset
  <2> HIDE DEF K
  <2> QED
    BY <2>1, Several
<1>2. /\ DOMAIN e = DOMAIN d \cup (Range(a) \ (reserved_blocks \ {0}))
      /\ \A b \in DOMAIN e : e[b] = old(b) + Cardinality(K(b))
  BY DEF Referenced
<1>3. ASSUME NEW b \in Int \ reserved_blocks
      PROVE  /\ old(b) \in Nat /\ (old(b) # 0 <=> b \in DOMAIN d)
             /\ old(b) # 0 <=> \E r : IsRef(s, m, b, r)
             /\ old(b) > 1 <=> Twice(s, m, b)
  <2>1. b \in DOMAIN d <=> \E r : IsRef(s, m, b, r)
    BY DEF BlockCounts
  <2>2. CASE b \in DOMAIN d
    <3>1. d[b] \in Nat \ {0} /\ (d[b] > 1 <=> Twice(s, m, b))
      BY <2>2 DEF BlockCounts
    <3>2. old(b) = d[b]
      BY <2>2
    <3> HIDE DEF old
    <3> QED
      BY <2>1, <2>2, <3>1, <3>2
  <2>3. CASE b \notin DOMAIN d
    <3>1. old(b) = 0
      BY <2>3
    <3>2. ~Twice(s, m, b)
      BY <2>1, <2>3 DEF Twice
    <3> HIDE DEF old
    <3> QED
      BY <2>1, <2>3, <3>1, <3>2
  <2> QED
    BY <2>2, <2>3
<1>4. 0 \in reserved_blocks
  BY DEF reserved_blocks
<1>5. \A b : b \in Range(a) <=> K(b) # {}
  BY DEF Range
<1>6. \A b \in Range(a) : b \in Int \ {0}
  BY DEF Range
<1>7. DOMAIN e \subseteq Int \ reserved_blocks
  BY <1>2, <1>4, <1>6 DEF BlockCounts
<1>8. ASSUME NEW b \in Int \ reserved_blocks
      PROVE  b \in DOMAIN e <=> \E r : IsRef(s, m + 1, b, r)
  <2>1. b \in DOMAIN e <=> b \in DOMAIN d \/ K(b) # {}
    BY <1>2, <1>5
  <2>2. (\E r : IsRef(s, m + 1, b, r)) <=> (\E r : IsRef(s, m, b, r)) \/ K(b) # {}
    OBVIOUS
  <2>3. b \in DOMAIN d <=> \E r : IsRef(s, m, b, r)
    BY DEF BlockCounts
  <2> QED
    BY <2>1, <2>2, <2>3
<1>9. ASSUME NEW b \in DOMAIN e PROVE e[b] \in Nat \ {0} /\ (e[b] > 1 <=> Twice(s, m + 1, b))
  <2>1. b \in Int \ reserved_blocks /\ e[b] = old(b) + Cardinality(K(b))
    BY <1>2, <1>7
  <2>2. /\ old(b) \in Nat /\ (old(b) # 0 <=> b \in DOMAIN d)
        /\ old(b) # 0 <=> \E r : IsRef(s, m, b, r)
        /\ old(b) > 1 <=> Twice(s, m, b)
    BY <1>3, <2>1
  <2>3. /\ Cardinality(K(b)) \in Nat /\ (Cardinality(K(b)) = 0 <=> K(b) = {})
        /\ Cardinality(K(b)) > 1 <=> \E k, l \in K(b) : k # l
    BY <1>1
  <2>4. \A r : IsRef(s, m + 1, b, r) <=> IsRef(s, m, b, r) \/ \E k \in K(b) : r = g[k]
    BY <2>1
  <2>5. \A k \in K(b) : ~IsRef(s, m, b, g[k]) /\ \A l \in K(b) : g[k] = g[l] => k = l
    OBVIOUS
  <2>6. old(b) # 0 \/ K(b) # {}
    BY <1>2, <1>5, <2>2
  <2> HIDE DEF K, old, e
  <2>7. e[b] \in Nat \ {0}
    BY <2>1, <2>2, <2>3, <2>6
  <2>8. e[b] > 1 <=> \/ old(b) > 1 \/ Cardinality(K(b)) > 1
                     \/ old(b) # 0 /\ Cardinality(K(b)) # 0
    BY <2>1, <2>2, <2>3
  <2>9. ASSUME e[b] > 1 PROVE Twice(s, m + 1, b)
    <3>1. CASE old(b) > 1
      BY <2>2, <2>4, <3>1 DEF Twice
    <3>2. CASE Cardinality(K(b)) > 1
      <4>1. PICK k \in K(b), l \in K(b) : k # l
        BY <2>3, <3>2
      <4>2. g[k] # g[l] /\ IsRef(s, m + 1, b, g[k]) /\ IsRef(s, m + 1, b, g[l])
        BY <2>4, <2>5, <4>1
      <4> QED
        BY <4>2 DEF Twice
    <3>3. CASE old(b) # 0 /\ Cardinality(K(b)) # 0
      <4>1. PICK r : IsRef(s, m, b, r)
        BY <2>2, <3>3
      <4>2. PICK k \in K(b) : TRUE
        BY <2>3, <3>3
      <4>3. r # g[k] /\ IsRef(s, m + 1, b, r) /\ IsRef(s, m + 1, b, g[k])
        BY <2>4, <2>5, <4>1
      <4> QED
        BY <4>3 DEF Twice
    <3> QED
      BY <2>8, <2>9, <3>1, <3>2, <3>3
  <2>10. ASSUME Twice(s, m + 1, b) PROVE e[b] > 1
    <3>1. PICK r, q : IsRef(s, m + 1, b, r) /\ IsRef(s, m + 1, b, q) /\ r # q
      BY <2>10 DEF Twice
    <3>2. CASE IsRef(s, m, b, r) /\ IsRef(s, m, b, q)
      BY <2>2, <2>8, <3>1, <3>2 DEF Twice
    <3>3. CASE ~IsRef(s, m, b, r) /\ ~IsRef(s, m, b, q)
      <4>1. \E k, l \in K(b) : k # l
        BY <2>4, <3>1, <3>3
      <4> QED
        BY <2>3, <2>8, <4>1
    <3>4. CASE ~(IsRef(s, m, b, r) <=> IsRef(s, m, b, q))
      <4>1. K(b) # {} /\ \E x : IsRef(s, m, b, x)
        BY <2>4, <3>1, <3>4
      <4> QED
        BY <2>2, <2>3, <2>8, <4>1
    <3> QED
      BY <3>2, <3>3, <3>4
  <2> QED
    BY <2>7, <2>9, <2>10
<1> HIDE DEF e
<1> QED
  BY <1>7, <1>8, <1>9 DEF BlockCounts, e

\* The references after one more line, of each type.
LEMMA BlockNext ==
  ASSUME NEW s, NEW m \in Nat, NEW d, BlockCounts(s, m, d), IsLine(s[m + 1])
  PROVE  /\ s[m + 1].type \notin {"INODE", "INDIRECT"} => BlockCounts(s, m + 1, d)
         /\ s[m + 1].type = "INODE" => BlockCounts(s, m + 1, Referenced(d, Addresses(s[m + 1])))
         /\ s[m + 1].type = "INDIRECT" => BlockCounts(s, m + 1, Referenced(d, <<s[m + 1].block>>))
<1> DEFINE q == s[m + 1]
<1>1. ASSUME NEW k, NEW b PROVE ~IsRef(s, m, b, <<m + 1, k>>)
  <2>1. \A j \in 1..m : j # m + 1
    OBVIOUS
  <2> QED
    BY <2>1 DEF IsRef, Read
<1>2. CASE q.type \notin {"INODE", "INDIRECT"}
  <2>1. Read(s, m + 1, "INODE") = Read(s, m, "INODE") /\ Read(s, m + 1, "INDIRECT") = Read(s, m, "INDIRECT")
    <3>1. q.type # "INODE" /\ q.type # "INDIRECT"
      BY <1>2
    <3>2. q.type # "INODE" => Read(s, m + 1, "INODE") = Read(s, m, "INODE")
      BY ReadNext
    <3>3. q.type # "INDIRECT" => Read(s, m + 1, "INDIRECT") = Read(s, m, "INDIRECT")
      BY ReadNext
    <3> QED
      BY <3>1, <3>2, <3>3
  <2>2. \A b, r : IsRef(s, m + 1, b, r) <=> IsRef(s, m, b, r)
    BY <2>1 DEF IsRef
  <2>3. \A b : Twice(s, m + 1, b) <=> Twice(s, m, b)
    BY <2>2 DEF Twice
  <2> QED
    BY <1>2, <2>2, <2>3 DEF BlockCounts
<1>3. CASE q.type = "INODE"
  <2> DEFINE a == Addresses(q)
             g == [k \in DOMAIN a |-> <<m + 1, k>>]
  <2>1. q.blk_addrs \in Seq(Int) /\ Len(q.blk_addrs) <= 15
    BY <1>3 DEF IsLine
  <2>2. /\ DOMAIN a = {k \in DOMAIN q.blk_addrs : q.blk_addrs[k] # 0}
        /\ \A k \in DOMAIN a : a[k] = q.blk_addrs[k]
    BY DEF Addresses
  <2>3. DOMAIN q.blk_addrs = 1..Len(q.blk_addrs) /\ \A k \in DOMAIN q.blk_addrs : q.blk_addrs[k] \in Int
    BY <2>1
  <2>4. IsFiniteSet(DOMAIN a)
    <3> DEFINE n == Len(q.blk_addrs)
    <3>2. n \in Int /\ 1 \in Int
      BY <2>1
    <3>3. IsFiniteSet(1..n)
      <4> HIDE DEF n
      <4> QED
        BY <3>2, FS_Interval
    <3>1. IsFiniteSet(1..Len(q.blk_addrs))
      BY <3>3
    <3> QED
      BY <2>2, <2>3, <3>1, FS_Subset
  <2>5. \A k \in DOMAIN a : a[k] \in Int \ {0}
    BY <2>2, <2>3
  <2>6. Read(s, m + 1, "INODE") = Read(s, m, "INODE") \cup {m + 1}
        /\ Read(s, m + 1, "INDIRECT") = Read(s, m, "INDIRECT")
    <3>2. q.type = "INODE" => Read(s, m + 1, "INODE") = Read(s, m, "INODE") \cup {m + 1}
      BY ReadNext
    <3>3. q.type # "INDIRECT" => Read(s, m + 1, "INDIRECT") = Read(s, m, "INDIRECT")
      BY ReadNext
    <3> QED
      BY <1>3, <3>2, <3>3
  <2> HIDE DEF a
  <2>7. \A k \in DOMAIN a : g[k] = <<m + 1, k>>
    OBVIOUS
  <2> HIDE DEF g
  <2>8. ASSUME NEW b \in Int \ reserved_blocks, NEW r
        PROVE  IsRef(s, m + 1, b, r) <=> IsRef(s, m, b, r) \/ \E k \in DOMAIN a : a[k] = b /\ r = g[k]
    <3>1. b # 0
      BY DEF reserved_blocks
    <3>2. \A k : k \in Slots(s, m + 1, b) <=> k \in DOMAIN a /\ a[k] = b
      BY <2>2, <3>1 DEF Slots
    <3>3. IsRef(s, m + 1, b, r) <=> IsRef(s, m, b, r) \/ \E k \in Slots(s, m + 1, b) : r = <<m + 1, k>>
      BY <2>6 DEF IsRef
    <3> QED
      BY <2>7, <3>2, <3>3
  <2>9. \A k, l \in DOMAIN a : g[k] = g[l] => k = l
    BY <2>7
  <2>10. \A k \in DOMAIN a : \A b : ~IsRef(s, m, b, g[k])
    BY <1>1, <2>7
  <2>11. BlockCounts(s, m + 1, Referenced(d, a))
    BY <2>4, <2>5, <2>8, <2>9, <2>10, BlockMore
  <2> QED
    BY <1>3, <2>11 DEF a
<1>4. CASE q.type = "INDIRECT"
  <2> DEFINE a == <<q.block>>
             g == [k \in {1} |-> <<m + 1, 0>>]
  <2>1. q.block \in Int \ {0}
    BY <1>4 DEF IsLine
  <2>2. DOMAIN a = {1} /\ a[1] = q.block
    <3>1. DOMAIN a = 1..1 /\ 1..1 = {1}
      OBVIOUS
    <3> QED
      BY <3>1
  <2>4. IsFiniteSet(DOMAIN a)
    BY <2>2, FS_Singleton
  <2>6. Read(s, m + 1, "INDIRECT") = Read(s, m, "INDIRECT") \cup {m + 1}
        /\ Read(s, m + 1, "INODE") = Read(s, m, "INODE")
    <3>2. q.type = "INDIRECT" => Read(s, m + 1, "INDIRECT") = Read(s, m, "INDIRECT") \cup {m + 1}
      BY ReadNext
    <3>3. q.type # "INODE" => Read(s, m + 1, "INODE") = Read(s, m, "INODE")
      BY ReadNext
    <3> QED
      BY <1>4, <3>2, <3>3
  <2> HIDE DEF a
  <2>7. g[1] = <<m + 1, 0>>
    OBVIOUS
  <2> HIDE DEF g
  <2>8. ASSUME NEW b \in Int \ reserved_blocks, NEW r
        PROVE  IsRef(s, m + 1, b, r) <=> IsRef(s, m, b, r) \/ \E k \in DOMAIN a : a[k] = b /\ r = g[k]
    <3>3. IsRef(s, m + 1, b, r) <=> IsRef(s, m, b, r) \/ (q.block = b /\ r = <<m + 1, 0>>)
      BY <2>6 DEF IsRef
    <3> QED
      BY <2>2, <2>7, <3>3
  <2>9. \A k, l \in DOMAIN a : g[k] = g[l] => k = l
    BY <2>2
  <2>10. \A k \in DOMAIN a : \A b : ~IsRef(s, m, b, g[k])
    BY <1>1, <2>2, <2>7
  <2>5. \A k \in DOMAIN a : a[k] \in Int \ {0}
    BY <2>1, <2>2
  <2>11. BlockCounts(s, m + 1, Referenced(d, a))
    BY <2>4, <2>5, <2>8, <2>9, <2>10, BlockMore
  <2> QED
    BY <1>4, <2>11 DEF a
<1> QED
  BY <1>2, <1>3, <1>4

\* What is printed about an address.
LEMMA BadBlockIs ==
  ASSUME NEW s, superblock = SuperOf(s), NEW b
  PROVE  BadBlock(b) = {} <=> ~BadAddress(s, b)
<1>1. superblock.blk_cnt = s[1].blk_cnt
  BY DEF SuperOf
<1> QED
  BY <1>1 DEF BadBlock, BadAddress

\* A line read: the dictionaries hold what the lines read say, and is_consistent is
\* cleared if something is printed about the line.
LEMMA LineStep ==
  ASSUME IsSummary(csv_lines), line \in 0..(Len(csv_lines) - 1), ReadInv, is_consistent \in BOOLEAN,
         LET r == csv_lines[line + 1] IN
           Superblock(r) \/ Free(r) \/ Inode(r) \/ Indirect(r) \/ Dirent(r) \/ Other(r),
         csv_lines' = csv_lines, line' = line + 1
  PROVE  ReadInv' /\ is_consistent' = (is_consistent /\ Clean(csv_lines, line + 1))
<1> DEFINE s == csv_lines
           m == line
           r == s[m + 1]
<1>1. /\ m \in Nat /\ m + 1 \in DOMAIN s /\ 1 \in DOMAIN s /\ 1..m \subseteq DOMAIN s
      /\ DOMAIN s = 1..Len(s) /\ Len(s) \in Nat
  BY DEF IsSummary
<1>2. IsLine(r) /\ (r.type = "SUPERBLOCK" <=> m + 1 = 1) /\ IsLine(s[1]) /\ s[1].type = "SUPERBLOCK"
  BY <1>1 DEF IsSummary
<1>3. s[1].blk_cnt \in Nat /\ s[1].ino_cnt \in Nat
  BY <1>2 DEF IsLine
<1>4. r.type # "SUPERBLOCK" => m >= 1 /\ superblock = SuperOf(s)
  BY <1>1, <1>2 DEF ReadInv
<1>5. /\ (m >= 1 => superblock = SuperOf(s))
      /\ ifree = NumsOf(s, m, "IFREE") /\ bfree = NumsOf(s, m, "BFREE")
      /\ LinkCounts(s, m, inode_dict_lnk_cnt)
      /\ RefCounts(s, m, inode_dict_ref_lnk_cnt)
      /\ BlockCounts(s, m, block_dict)
      /\ Parents(s, m, inode_dict_parents)
      /\ Names(s, m, inode_dict_lr)
  BY DEF ReadInv
<1>6. csv_lines' = s /\ line' = m + 1
  OBVIOUS
<1>7. /\ \A j \in Read(s, m, "INODE") : r.type = "INODE" => s[j].num # r.num
      /\ \A j \in DotDots(s, m) : r.type = "DIRENT" /\ r.name = ".." => s[j].parent # r.parent
  <2>1. \A j \in 1..m : j \in DOMAIN s /\ j # m + 1
    BY <1>1
  <2> HIDE DEF m, s
  <2>2. \A j \in Read(s, m, "INODE") : j \in 1..m /\ s[j].type = "INODE"
    BY DEF Read
  <2>3. \A j \in DotDots(s, m) : j \in 1..m /\ s[j].type = "DIRENT" /\ s[j].name = ".."
    BY DEF DotDots, Read
  <2>4. \A j, k \in DOMAIN s :
          s[j].type = "INODE" /\ s[k].type = "INODE" /\ s[j].num = s[k].num => j = k
    BY DEF IsSummary, s
  <2>5. \A j, k \in DOMAIN s :
          s[j].type = "DIRENT" /\ s[k].type = "DIRENT" /\ s[j].parent = s[k].parent
          /\ s[j].name = ".." /\ s[k].name = ".." => j = k
    BY DEF IsSummary, s
  <2>6. \A j \in Read(s, m, "INODE") : r.type = "INODE" => s[j].num # r.num
    BY <1>1, <2>1, <2>2, <2>4
  <2>7. \A j \in DotDots(s, m) : r.type = "DIRENT" /\ r.name = ".." => s[j].parent # r.parent
    BY <1>1, <2>1, <2>3, <2>5
  <2> QED
    BY <2>6, <2>7
<1> HIDE DEF s, m
\* What the lemmas above say of each dictionary that stays as it is.
<1>8. /\ \A t : r.type # t => NumsOf(s, m + 1, t) = NumsOf(s, m, t)
      /\ \A t : r.type = t => NumsOf(s, m + 1, t) = NumsOf(s, m, t) \cup r.nums
      /\ r.type # "INODE" => LinkCounts(s, m + 1, inode_dict_lnk_cnt)
      /\ r.type # "DIRENT" => RefCounts(s, m + 1, inode_dict_ref_lnk_cnt)
      /\ r.type \notin {"INODE", "INDIRECT"} => BlockCounts(s, m + 1, block_dict)
      /\ r.type # "DIRENT" \/ ~Valid(s, m + 1) \/ r.name # ".." => Parents(s, m + 1, inode_dict_parents)
      /\ r.type # "DIRENT" \/ ~Valid(s, m + 1) \/ r.name \in {".", ".."} => Names(s, m + 1, inode_dict_lr)
  <2>1. /\ \A t : r.type # t => NumsOf(s, m + 1, t) = NumsOf(s, m, t)
        /\ \A t : r.type = t => NumsOf(s, m + 1, t) = NumsOf(s, m, t) \cup r.nums
    BY <1>1, NumsNext
  <2>2. r.type # "INODE" => LinkCounts(s, m + 1, inode_dict_lnk_cnt)
    BY <1>1, <1>5, LinkNext
  <2>3. r.type # "DIRENT" => RefCounts(s, m + 1, inode_dict_ref_lnk_cnt)
    BY <1>1, <1>5, RefNext
  <2>4. r.type \notin {"INODE", "INDIRECT"} => BlockCounts(s, m + 1, block_dict)
    BY <1>1, <1>2, <1>5, BlockNext
  <2>5. r.type # "DIRENT" \/ ~Valid(s, m + 1) \/ r.name # ".." => Parents(s, m + 1, inode_dict_parents)
    BY <1>1, <1>5, ParentsNext
  <2>6. r.type # "DIRENT" \/ ~Valid(s, m + 1) \/ r.name \in {".", ".."} => Names(s, m + 1, inode_dict_lr)
    BY <1>1, <1>5, NamesNext
  <2> QED
    BY <2>1, <2>2, <2>3, <2>4, <2>5, <2>6
<1> DEFINE Goal ==
             /\ superblock' = SuperOf(s)
             /\ ifree' = NumsOf(s, m + 1, "IFREE") /\ bfree' = NumsOf(s, m + 1, "BFREE")
             /\ LinkCounts(s, m + 1, inode_dict_lnk_cnt')
             /\ RefCounts(s, m + 1, inode_dict_ref_lnk_cnt')
             /\ BlockCounts(s, m + 1, block_dict')
             /\ Parents(s, m + 1, inode_dict_parents')
             /\ Names(s, m + 1, inode_dict_lr')
             /\ is_consistent' = (is_consistent /\ Clean(s, m + 1))
<1>9. SUFFICES Goal
  <2>1. ASSUME Goal PROVE ReadInv'
    BY <1>6, <2>1 DEF ReadInv
  <2>2. ASSUME Goal PROVE is_consistent' = (is_consistent /\ Clean(csv_lines, line + 1))
    BY <2>2 DEF s, m
  <2> QED
    BY <2>1, <2>2
<1>10. CASE Superblock(r)
  <2>1. r.type = "SUPERBLOCK" /\ m + 1 = 1
    BY <1>2, <1>10 DEF Superblock
  <2>2. superblock' = SuperOf(s)
    BY <1>10, <2>1 DEF Superblock, SuperOf
  <2>3. Clean(s, m + 1)
    BY <2>1 DEF Clean
  <2>4. /\ UNCHANGED <<ifree, bfree, block_dict, inode_dict_lnk_cnt, inode_dict_ref_lnk_cnt,
                       inode_dict_lr, inode_dict_parents, is_consistent>>
    BY <1>10 DEF Superblock
  <2> HIDE DEF r
  <2>5. /\ r.type # "IFREE" /\ r.type # "BFREE" /\ r.type # "INODE" /\ r.type # "INDIRECT"
        /\ r.type # "DIRENT"
    BY <2>1
  <2> QED
    BY <1>5, <1>8, <2>2, <2>3, <2>4, <2>5
<1>11. CASE Free(r)
  <2>1. /\ r.type \in {"IFREE", "BFREE"} /\ r.type # "INODE" /\ r.type # "INDIRECT"
        /\ r.type # "DIRENT" /\ r.type # "SUPERBLOCK"
    BY <1>11 DEF Free
  <2>2. UNCHANGED <<superblock, block_dict, inode_dict_lnk_cnt, inode_dict_ref_lnk_cnt,
                    inode_dict_lr, inode_dict_parents, is_consistent>>
    BY <1>11 DEF Free
  <2>3. Clean(s, m + 1)
    BY <2>1 DEF Clean
  <2>4. ifree' = NumsOf(s, m + 1, "IFREE") /\ bfree' = NumsOf(s, m + 1, "BFREE")
    <3>1. \/ r.type = "IFREE" /\ ifree' = ifree \cup r.nums /\ bfree' = bfree
          \/ r.type = "BFREE" /\ bfree' = bfree \cup r.nums /\ ifree' = ifree
      BY <1>11 DEF Free
    <3> HIDE DEF r
    <3>2. CASE r.type = "IFREE" /\ ifree' = ifree \cup r.nums /\ bfree' = bfree
      <4>1. r.type # "BFREE"
        BY <3>2
      <4> QED
        BY <1>5, <1>8, <3>2, <4>1
    <3>3. CASE r.type = "BFREE" /\ bfree' = bfree \cup r.nums /\ ifree' = ifree
      <4>1. r.type # "IFREE"
        BY <3>3
      <4> QED
        BY <1>5, <1>8, <3>3, <4>1
    <3> QED
      BY <3>1, <3>2, <3>3
  <2> HIDE DEF r
  <2> QED
    BY <1>4, <1>5, <1>8, <2>1, <2>2, <2>3, <2>4
<1>12. CASE Inode(r)
  <2> DEFINE bad == UNION {BadBlock(b) : b \in Range(Addresses(r))}
  <2>1. /\ r.type = "INODE"
        /\ inode_dict_lnk_cnt' = Mapped(inode_dict_lnk_cnt, r.num, r.link_cnt)
        /\ is_consistent' = (is_consistent /\ bad = {})
        /\ block_dict' = Referenced(block_dict, Addresses(r))
        /\ UNCHANGED <<superblock, ifree, bfree, inode_dict_ref_lnk_cnt, inode_dict_lr,
                       inode_dict_parents>>
    BY <1>12 DEF Inode
  <2>2. superblock = SuperOf(s)
    BY <1>4, <2>1
  <2>3. bad = {} <=> \A b \in Range(Addresses(r)) : BadBlock(b) = {}
    OBVIOUS
  <2>4. bad = {} <=> \A b \in Range(Addresses(r)) : ~BadAddress(s, b)
    BY <2>2, <2>3, BadBlockIs
  <2> HIDE DEF bad
  <2>5. \A b : b \in Range(Addresses(r)) <=>
               \E k \in DOMAIN r.blk_addrs : r.blk_addrs[k] # 0 /\ b = r.blk_addrs[k]
    BY DEF Range, Addresses
  <2>6. bad = {} <=> Clean(s, m + 1)
    BY <2>1, <2>4, <2>5 DEF Clean
  <2>7. LinkCounts(s, m + 1, Mapped(inode_dict_lnk_cnt, r.num, r.link_cnt))
    BY <1>1, <1>5, <1>7, <2>1, LinkNext
  <2>8. BlockCounts(s, m + 1, Referenced(block_dict, Addresses(r)))
    BY <1>1, <1>2, <1>5, <2>1, BlockNext
  <2>9. r.type # "IFREE" /\ r.type # "BFREE" /\ r.type # "DIRENT"
    BY <2>1
  <2>10. ifree' = NumsOf(s, m + 1, "IFREE") /\ bfree' = NumsOf(s, m + 1, "BFREE")
    BY <1>5, <1>8, <2>1, <2>9
  <2>11. /\ RefCounts(s, m + 1, inode_dict_ref_lnk_cnt') /\ Parents(s, m + 1, inode_dict_parents')
         /\ Names(s, m + 1, inode_dict_lr')
    BY <1>8, <2>1, <2>9
  <2>12. is_consistent' = (is_consistent /\ Clean(s, m + 1))
    BY <2>1, <2>6
  <2> HIDE DEF r
  <2> QED
    BY <2>1, <2>2, <2>7, <2>8, <2>10, <2>11, <2>12
<1>13. CASE Indirect(r)
  <2>1. /\ r.type = "INDIRECT"
        /\ is_consistent' = (is_consistent /\ BadBlock(r.block) = {})
        /\ block_dict' = Referenced(block_dict, <<r.block>>)
        /\ UNCHANGED <<superblock, ifree, bfree, inode_dict_lnk_cnt, inode_dict_ref_lnk_cnt,
                       inode_dict_lr, inode_dict_parents>>
    BY <1>13 DEF Indirect
  <2>2. superblock = SuperOf(s)
    BY <1>4, <2>1
  <2>3. BadBlock(r.block) = {} <=> ~BadAddress(s, r.block)
    BY <2>2, BadBlockIs
  <2>4. BadBlock(r.block) = {} <=> Clean(s, m + 1)
    BY <2>1, <2>3 DEF Clean
  <2>8. BlockCounts(s, m + 1, Referenced(block_dict, <<r.block>>))
    BY <1>1, <1>2, <1>5, <2>1, BlockNext
  <2>9. r.type # "IFREE" /\ r.type # "BFREE" /\ r.type # "DIRENT" /\ r.type # "INODE"
    BY <2>1
  <2>10. ifree' = NumsOf(s, m + 1, "IFREE") /\ bfree' = NumsOf(s, m + 1, "BFREE")
    BY <1>5, <1>8, <2>1, <2>9
  <2>11. /\ RefCounts(s, m + 1, inode_dict_ref_lnk_cnt') /\ Parents(s, m + 1, inode_dict_parents')
         /\ Names(s, m + 1, inode_dict_lr') /\ LinkCounts(s, m + 1, inode_dict_lnk_cnt')
    BY <1>8, <2>1, <2>9
  <2>12. is_consistent' = (is_consistent /\ Clean(s, m + 1))
    BY <2>1, <2>4
  <2> HIDE DEF r
  <2> QED
    BY <2>1, <2>2, <2>8, <2>10, <2>11, <2>12
<1>14. CASE Dirent(r)
  <2> DEFINE bad == r.num < 1 \/ r.num > superblock.ino_cnt
             self == ~bad /\ r.name = "." /\ r.num # r.parent
  <2>1. /\ r.type = "DIRENT"
        /\ is_consistent' = (is_consistent /\ ~bad /\ ~self)
        /\ inode_dict_ref_lnk_cnt' = Counted(inode_dict_ref_lnk_cnt, r.num)
        /\ inode_dict_parents' = IF ~bad /\ r.name = ".."
                                 THEN Mapped(inode_dict_parents, r.parent, r.num)
                                 ELSE inode_dict_parents
        /\ inode_dict_lr' = IF ~bad /\ r.name \notin {".", ".."}
                            THEN Mapped(inode_dict_lr, r.num, r.parent) ELSE inode_dict_lr
        /\ UNCHANGED <<superblock, ifree, bfree, block_dict, inode_dict_lnk_cnt>>
    BY <1>14 DEF Dirent
  <2>2. superblock = SuperOf(s)
    BY <1>4, <2>1
  <2>3. bad <=> ~Valid(s, m + 1)
    <3>1. superblock.ino_cnt = s[1].ino_cnt
      BY <2>2 DEF SuperOf
    <3>2. r.num \in Int
      BY <1>2, <2>1 DEF IsLine
    <3> QED
      BY <1>3, <3>1, <3>2 DEF Valid
  <2>4. ~bad /\ ~self <=> Clean(s, m + 1)
    BY <2>1, <2>3 DEF Clean
  <2> HIDE DEF bad, self
  <2>5. RefCounts(s, m + 1, Counted(inode_dict_ref_lnk_cnt, r.num))
    BY <1>1, <1>5, <2>1, RefNext
  <2>6. Parents(s, m + 1, inode_dict_parents')
    <3>1. CASE ~bad /\ r.name = ".."
      <4>1. Parents(s, m + 1, Mapped(inode_dict_parents, r.parent, r.num))
        BY <1>1, <1>5, <1>7, <2>1, <2>3, <3>1, ParentsNext
      <4> QED
        BY <2>1, <3>1, <4>1
    <3>2. CASE ~(~bad /\ r.name = "..")
      BY <1>8, <2>1, <2>3, <3>2
    <3> QED
      BY <3>1, <3>2
  <2>7. Names(s, m + 1, inode_dict_lr')
    <3>1. CASE ~bad /\ r.name \notin {".", ".."}
      <4>1. Names(s, m + 1, Mapped(inode_dict_lr, r.num, r.parent))
        BY <1>1, <1>5, <2>1, <2>3, <3>1, NamesNext
      <4> QED
        BY <2>1, <3>1, <4>1
    <3>2. CASE ~(~bad /\ r.name \notin {".", ".."})
      BY <1>8, <2>1, <2>3, <3>2
    <3> QED
      BY <3>1, <3>2
  <2>9. r.type # "IFREE" /\ r.type # "BFREE" /\ r.type # "INODE" /\ r.type # "INDIRECT"
    BY <2>1
  <2>10. ifree' = NumsOf(s, m + 1, "IFREE") /\ bfree' = NumsOf(s, m + 1, "BFREE")
    BY <1>5, <1>8, <2>1, <2>9
  <2>11. /\ LinkCounts(s, m + 1, inode_dict_lnk_cnt') /\ BlockCounts(s, m + 1, block_dict')
    BY <1>8, <2>1, <2>9
  <2>12. is_consistent' = (is_consistent /\ Clean(s, m + 1))
    BY <2>1, <2>4
  <2> HIDE DEF r
  <2> QED
    BY <2>1, <2>2, <2>5, <2>6, <2>7, <2>10, <2>11, <2>12
<1>15. CASE Other(r)
  <2>1. /\ r.type # "IFREE" /\ r.type # "BFREE" /\ r.type # "INODE" /\ r.type # "INDIRECT"
        /\ r.type # "DIRENT" /\ r.type # "SUPERBLOCK"
    BY <1>15 DEF Other
  <2>2. UNCHANGED <<superblock, ifree, bfree, block_dict, inode_dict_lnk_cnt, inode_dict_ref_lnk_cnt,
                    inode_dict_lr, inode_dict_parents, is_consistent>>
    BY <1>15 DEF Other, dicts
  <2>3. Clean(s, m + 1)
    BY <2>1 DEF Clean
  <2> HIDE DEF r
  <2> QED
    BY <1>4, <1>5, <1>8, <2>1, <2>2, <2>3
<1> QED
  BY <1>10, <1>11, <1>12, <1>13, <1>14, <1>15 DEF s, m

\* Before any line is read the dictionaries are empty.
LEMMA NothingRead ==
  ASSUME NEW s
  PROVE  /\ NumsOf(s, 0, "IFREE") = {} /\ NumsOf(s, 0, "BFREE") = {}
         /\ LinkCounts(s, 0, Empty) /\ RefCounts(s, 0, Empty) /\ BlockCounts(s, 0, Empty)
         /\ Parents(s, 0, Empty) /\ Names(s, 0, Empty) /\ AllClean(s, 0)
<1>1. \A t : Read(s, 0, t) = {}
  BY DEF Read
<1>2. DOMAIN Empty = {}
  BY DEF Empty
<1>3. DotDots(s, 0) = {} /\ Others(s, 0) = {} /\ \A n : Naming(s, 0, n) = {}
  BY <1>1 DEF DotDots, Others, Naming
<1>4. \A b, r : ~IsRef(s, 0, b, r)
  BY <1>1 DEF IsRef
<1>5. BlockCounts(s, 0, Empty)
  BY <1>2, <1>4 DEF BlockCounts
<1>6. AllClean(s, 0)
  BY DEF AllClean
<1>7. NumsOf(s, 0, "IFREE") = {} /\ NumsOf(s, 0, "BFREE") = {}
  BY <1>1 DEF NumsOf
<1>8. LinkCounts(s, 0, Empty) /\ RefCounts(s, 0, Empty)
  BY <1>1, <1>2 DEF LinkCounts, RefCounts
<1>9. Parents(s, 0, Empty) /\ Names(s, 0, Empty)
  BY <1>2, <1>3 DEF Parents, Names
<1> QED
  BY <1>5, <1>6, <1>7, <1>8, <1>9

\* The invariant holds at the start.
LEMMA AuditStart == AuditInit => ReadInv /\ ScanInv
<1> SUFFICES ASSUME AuditInit PROVE ReadInv /\ ScanInv
  OBVIOUS
<1>1. ReadInv
  BY NothingRead DEF AuditInit, ReadInv
<1>2. apc = "read" /\ astatus = Running /\ line = 0 /\ is_consistent = TRUE
  BY DEF AuditInit
<1>3. AllClean(csv_lines, 0)
  BY NothingRead
<1>4. FlagRight
  BY <1>2, <1>3 DEF FlagRight, AfterBlocks, AfterInodes
<1>5. PassedRight
  BY <1>2 DEF PassedRight, AfterLinks, AfterEntries, AfterDuplicates
<1>6. StatusRight
  BY <1>2 DEF StatusRight, Running
<1> QED
  BY <1>1, <1>4, <1>5, <1>6 DEF ScanInv

\* Steps that leave what was read alone.
LEMMA ReadKept == ReadInv /\ UNCHANGED <<csv_lines, line, dicts>> => ReadInv'
  BY DEF ReadInv, dicts

\* A scan that finds nothing but what it prints: is_consistent is cleared if it found
\* something, and the next one follows.
LEMMA ScannedIs ==
  ASSUME NEW P, NEW next, Scanned(P, next)
  PROVE  /\ is_consistent' = (is_consistent /\ P = {}) /\ apc' = next /\ astatus' = astatus
         /\ UNCHANGED <<csv_lines, line, dicts>>
         /\ UNCHANGED <<superblock, ifree, bfree, block_dict, inode_dict_lnk_cnt,
                        inode_dict_ref_lnk_cnt, inode_dict_lr, inode_dict_parents>>
  BY DEF Scanned, dicts

\* A step of lab3b.py keeps the invariant.
LEMMA ScanStep ==
  ASSUME IsSummary(csv_lines), AuditPlaces, ReadInv, ScanInv, astatus = Running, Audit
  PROVE  ReadInv' /\ ScanInv'
<1> USE DEF ScanInv
<1>0. is_consistent \in BOOLEAN /\ Len(csv_lines) \in Nat /\ line \in 0..Len(csv_lines)
  BY DEF FlagRight, IsSummary, AuditPlaces
<1> DEFINE Same == UNCHANGED <<superblock, ifree, bfree, block_dict, inode_dict_lnk_cnt,
                               inode_dict_ref_lnk_cnt, inode_dict_lr, inode_dict_parents>>
<1>1. CASE ReadLine
  <2>1. /\ csv_lines' = csv_lines /\ apc = "read" /\ apc' = apc /\ line < Len(csv_lines)
        /\ \/ /\ Malformed(csv_lines[line + 1]) /\ astatus' = 1
              /\ UNCHANGED <<line, dicts, is_consistent, found>>
           \/ /\ ~Malformed(csv_lines[line + 1]) /\ line' = line + 1 /\ astatus' = astatus
    BY <1>0, <1>1, ReadPlaces
  <2>2. CASE Malformed(csv_lines[line + 1])
    <3>1. astatus' = 1 /\ line' = line /\ UNCHANGED <<csv_lines, line, dicts>>
          /\ is_consistent' = is_consistent /\ Same
      BY <2>1, <2>2 DEF dicts
    <3>2. ReadInv'
      BY <3>1, ReadKept
    <3>3. FlagRight' /\ PassedRight'
      BY <2>1, <3>1 DEF FlagRight, PassedRight
    <3>4. StatusRight'
      BY <2>1, <2>2, <3>1 DEF StatusRight
    <3> QED
      BY <3>2, <3>3, <3>4
  <2>3. CASE ~Malformed(csv_lines[line + 1])
    <3>1. line' = line + 1 /\ astatus' = astatus /\ line \in 0..(Len(csv_lines) - 1) /\ line \in Nat
      BY <1>0, <2>1, <2>3
    <3>2. LET r == csv_lines[line + 1] IN
            Superblock(r) \/ Free(r) \/ Inode(r) \/ Indirect(r) \/ Dirent(r) \/ Other(r)
      BY <1>1, <2>3 DEF ReadLine
    <3>3. ReadInv' /\ is_consistent' = (is_consistent /\ Clean(csv_lines, line + 1))
      BY <1>0, <2>1, <3>1, <3>2, LineStep
    <3>4. AllClean(csv_lines, line + 1) <=> AllClean(csv_lines, line) /\ Clean(csv_lines, line + 1)
      BY <3>1, CleanNext
    <3>5. is_consistent <=> AllClean(csv_lines, line)
      BY <2>1 DEF FlagRight, AfterBlocks, AfterInodes
    <3>6. FlagRight'
      BY <1>0, <2>1, <3>1, <3>3, <3>4, <3>5 DEF FlagRight, AfterBlocks, AfterInodes
    <3>7. PassedRight' /\ StatusRight'
      BY <2>1, <3>1 DEF PassedRight, StatusRight, AfterLinks, AfterEntries, AfterDuplicates, Running
    <3> QED
      BY <3>3, <3>6, <3>7
  <2> QED
    BY <2>2, <2>3
<1>2. CASE LinesDone
  <2>1. apc = "read" /\ apc' = "links" /\ UNCHANGED <<csv_lines, line, dicts>> /\ Same
        /\ astatus' = astatus /\ is_consistent' = is_consistent
    BY <1>2 DEF LinesDone, dicts
  <2>2. ReadInv'
    BY <2>1, ReadKept
  <2>3. FlagRight'
    BY <2>1 DEF FlagRight, AfterBlocks, AfterInodes
  <2>4. PassedRight' /\ StatusRight'
    BY <2>1 DEF PassedRight, StatusRight, AfterLinks, AfterEntries, AfterDuplicates, Running
  <2> QED
    BY <2>2, <2>3, <2>4
\* An exception in a scan, with what it says of the dictionaries.
<1>3. ASSUME Raises,
             \/ apc = "links" /\ ~CountsAgree(inode_dict_lnk_cnt, inode_dict_ref_lnk_cnt)
             \/ apc = "entries" /\ ~EntriesAgree(ifree, inode_dict_ref_lnk_cnt, inode_dict_lr)
             \/ apc = "duplicates" /\ ~OnceEach(block_dict)
      PROVE  ReadInv' /\ ScanInv'
  <2>1. astatus' = 1 /\ UNCHANGED <<csv_lines, line, dicts>> /\ Same
        /\ apc' = apc /\ is_consistent' = is_consistent
    BY <1>3 DEF Raises, dicts
  <2>2. ReadInv'
    BY <2>1, ReadKept
  <2>3. FlagRight' /\ PassedRight'
    BY <2>1 DEF FlagRight, PassedRight
  <2>4. StatusRight'
    BY <1>3, <2>1 DEF StatusRight
  <2> QED
    BY <2>2, <2>3, <2>4
\* A scan that ends, at any of the places.
<1>4. ASSUME NEW P, NEW next, Scanned(P, next),
             \/ /\ apc = "links" /\ next = "blocks" /\ P = {}
                /\ CountsAgree(inode_dict_lnk_cnt, inode_dict_ref_lnk_cnt)
             \/ /\ apc = "blocks" /\ next = "entries"
                /\ P = {} <=> BlocksAgree(superblock, bfree, block_dict)
             \/ /\ apc = "entries" /\ next = "inodes" /\ P = {}
                /\ EntriesAgree(ifree, inode_dict_ref_lnk_cnt, inode_dict_lr)
             \/ /\ apc = "inodes" /\ next = "duplicates"
                /\ P = {} <=> InodesAgree(superblock, ifree, inode_dict_lnk_cnt, inode_dict_lr)
             \/ apc = "duplicates" /\ next = "parents" /\ P = {} /\ OnceEach(block_dict)
             \/ /\ apc = "parents" /\ next = "exit"
                /\ P = {} <=> ParentsAgree(inode_dict_parents, inode_dict_lr)
      PROVE  ReadInv' /\ ScanInv'
  <2>1. /\ is_consistent' = (is_consistent /\ P = {}) /\ apc' = next /\ astatus' = astatus
        /\ UNCHANGED <<csv_lines, line, dicts>> /\ Same
    BY <1>4, ScannedIs
  <2>2. ReadInv'
    BY <2>1, ReadKept
  <2>3. FlagRight'
    BY <1>4, <2>1 DEF FlagRight, AfterBlocks, AfterInodes
  <2>4. PassedRight'
    BY <1>4, <2>1 DEF PassedRight, AfterLinks, AfterEntries, AfterDuplicates
  <2>5. StatusRight'
    BY <2>1 DEF StatusRight, Running
  <2> QED
    BY <2>2, <2>3, <2>4, <2>5
<1>5. CASE ScanLinks
  <2>1. (\A ino \in DOMAIN inode_dict_lnk_cnt : inode_dict_lnk_cnt[ino] = Links(ino))
          <=> CountsAgree(inode_dict_lnk_cnt, inode_dict_ref_lnk_cnt)
    BY DEF CountsAgree, Links
  <2>2. CASE CountsAgree(inode_dict_lnk_cnt, inode_dict_ref_lnk_cnt)
    <3>1. apc = "links" /\ Scanned({}, "blocks")
      BY <1>5, <2>1, <2>2 DEF ScanLinks
    <3> QED
      BY <1>4, <2>2, <3>1
  <2>3. CASE ~CountsAgree(inode_dict_lnk_cnt, inode_dict_ref_lnk_cnt)
    <3>1. apc = "links" /\ Raises
      BY <1>5, <2>1, <2>3 DEF ScanLinks
    <3> QED
      BY <1>3, <2>3, <3>1
  <2> QED
    BY <2>2, <2>3
<1>6. CASE ScanBlocks
  <2> DEFINE P == {<<"ALLOCATED", b>> : b \in {b \in 1..superblock.blk_cnt :
                     b \in bfree /\ b \in DOMAIN block_dict}}
                  \cup {<<"UNREFERENCED", b>> : b \in {b \in 1..superblock.blk_cnt :
                     b \notin bfree /\ b \notin DOMAIN block_dict /\ b \notin reserved_blocks}}
  <2>1. apc = "blocks" /\ Scanned(P, "entries")
    BY <1>6 DEF ScanBlocks
  <2>2. P = {} <=> BlocksAgree(superblock, bfree, block_dict)
    BY DEF BlocksAgree
  <2> HIDE DEF P
  <2> QED
    BY <1>4, <2>1, <2>2
<1>7. CASE ScanEntries
  <2>2. CASE EntriesAgree(ifree, inode_dict_ref_lnk_cnt, inode_dict_lr)
    <3>1. apc = "entries" /\ Scanned({}, "inodes")
      BY <1>7, <2>2 DEF ScanEntries, EntriesAgree
    <3> QED
      BY <1>4, <2>2, <3>1
  <2>3. CASE ~EntriesAgree(ifree, inode_dict_ref_lnk_cnt, inode_dict_lr)
    <3>1. apc = "entries" /\ Raises
      BY <1>7, <2>3 DEF ScanEntries, EntriesAgree
    <3> QED
      BY <1>3, <2>3, <3>1
  <2> QED
    BY <2>2, <2>3
<1>8. CASE ScanInodes
  <2> DEFINE all     == 1..superblock.ino_cnt
             missing == {n \in all : /\ n \notin ifree /\ n \notin DOMAIN inode_dict_lnk_cnt
                                     /\ n \notin DOMAIN inode_dict_lr /\ n \notin reserved_inodes}
             used    == {n \in all : n \in DOMAIN inode_dict_lnk_cnt /\ n \in ifree}
             P == {<<"NOT FREE", n>> : n \in missing} \cup {<<"FREE", n>> : n \in used}
  <2>1. apc = "inodes" /\ Scanned(P, "duplicates")
    BY <1>8 DEF ScanInodes
  <2>2. P = {} <=> InodesAgree(superblock, ifree, inode_dict_lnk_cnt, inode_dict_lr)
    BY DEF InodesAgree
  <2> HIDE DEF P
  <2> QED
    BY <1>4, <2>1, <2>2
<1>9. CASE ScanDuplicates
  <2>2. CASE OnceEach(block_dict)
    <3>1. apc = "duplicates" /\ Scanned({}, "parents")
      BY <1>9, <2>2 DEF ScanDuplicates, OnceEach
    <3> QED
      BY <1>4, <2>2, <3>1
  <2>3. CASE ~OnceEach(block_dict)
    <3>1. apc = "duplicates" /\ Raises
      BY <1>9, <2>3 DEF ScanDuplicates, OnceEach
    <3> QED
      BY <1>3, <2>3, <3>1
  <2> QED
    BY <2>2, <2>3
<1>10. CASE ScanParents
  <2> DEFINE wrong(p) == IF p = 2 THEN inode_dict_parents[p] # 2
                         ELSE \/ p \notin DOMAIN inode_dict_lr
                              \/ inode_dict_parents[p] # inode_dict_lr[p]
             P == {<<"PARENT", p>> : p \in {p \in DOMAIN inode_dict_parents : wrong(p)}}
  <2>1. apc = "parents" /\ Scanned(P, "exit")
    BY <1>10 DEF ScanParents
  <2>2. P = {} <=> ParentsAgree(inode_dict_parents, inode_dict_lr)
    BY DEF ParentsAgree, WrongParent
  <2> HIDE DEF P
  <2> QED
    BY <1>4, <2>1, <2>2
<1>11. CASE AuditExit
  <2>1. /\ apc = "exit" /\ apc' = apc /\ astatus' = (IF is_consistent THEN 0 ELSE 2)
        /\ UNCHANGED <<csv_lines, line, dicts>> /\ Same /\ is_consistent' = is_consistent
    BY <1>11 DEF AuditExit, dicts
  <2>2. ReadInv'
    BY <2>1, ReadKept
  <2>3. FlagRight' /\ PassedRight'
    BY <2>1 DEF FlagRight, PassedRight
  <2>4. StatusRight'
    BY <1>0, <2>1 DEF StatusRight
  <2> QED
    BY <2>2, <2>3, <2>4
<1> QED
  BY <1>1, <1>2, <1>5, <1>6, <1>7, <1>8, <1>9, <1>10, <1>11 DEF Audit

\* Every step keeps the invariant.
LEMMA Inv3Step == Inv3 /\ [Next]_vars => Inv3'
<1> SUFFICES ASSUME Inv3, [Next]_vars PROVE Inv3'
  OBVIOUS
<1>1. Inv2' /\ Inv2
  BY GivenStep DEF Inv3
<1>2. CASE Check
  <2>1. IsSummary(csv_lines) /\ astatus = Running /\ Audit
    BY <1>1, <1>2, AuditHasLines DEF Inv2, Check, Audit
  <2>2. ReadInv' /\ ScanInv'
    BY <1>1, <2>1, ScanStep DEF Inv2, Inv3
  <2> QED
    BY <1>1, <2>2 DEF Inv3
<1>3. CASE Hand
  <2>1. AuditInit /\ UNCHANGED <<line, dicts, is_consistent, found, apc, astatus>>
    BY <1>1, <1>3 DEF Hand, Inv2, Given
  <2>2. AuditInit'
    BY <2>1 DEF AuditInit, dicts
  <2>3. AuditInit' => ReadInv' /\ ScanInv'
    BY AuditStart, PTL
  <2> QED
    BY <1>1, <2>2, <2>3 DEF Inv3
<1>4. CASE Summarise \/ ReadFails \/ Ended \/ UNCHANGED vars
  <2>1. UNCHANGED avars
    BY <1>4 DEF Summarise, ReadFails, Ended, vars
  <2>2. ReadInv'
    BY <2>1, ReadKept DEF avars, Inv3
  <2>3. ScanInv'
    BY <2>1 DEF avars, dicts, Inv3, ScanInv, FlagRight, PassedRight, StatusRight
  <2> QED
    BY <1>1, <2>2, <2>3 DEF Inv3
<1> QED
  BY <1>2, <1>3, <1>4 DEF Next

\* The invariant of both programs.
LEMMA Inv3Holds == Spec => []Inv3
<1>1. Init => Inv3
  BY GivenStart, AuditStart DEF Init, Inv3
<1> QED
  BY <1>1, Inv3Step, PTL DEF Spec

-----------------------------------------------------------------------------
\* The verdict

\* All the lines have been read.
AllRead == IsSummary(csv_lines) /\ ReadInv /\ line = Len(csv_lines)

\* The lines of a type are then those of the summary.
LEMMA LinesAre ==
  ASSUME IsSummary(csv_lines)
  PROVE  \A t : Lines(t) = Read(csv_lines, Len(csv_lines), t)
  BY DEF IsSummary, Lines, Read

\* The addresses in use are those with a place that holds them.
LEMMA UsedAre ==
  ASSUME IsSummary(csv_lines), NEW b
  PROVE  /\ b \in Used <=> b # 0 /\ \E r : IsRef(csv_lines, Len(csv_lines), b, r)
         /\ \A r : r \in Refs(b) <=> IsRef(csv_lines, Len(csv_lines), b, r)
         /\ b \in Used => b \in Int
<1> DEFINE s == csv_lines
           R == Lines("INODE")
           D == Lines("INDIRECT")
<1>1. R = Read(s, Len(s), "INODE") /\ D = Read(s, Len(s), "INDIRECT")
  BY LinesAre
<1>2. ASSUME NEW j \in R
      PROVE  /\ s[j].blk_addrs \in Seq(Int) /\ Len(s[j].blk_addrs) <= 15
             /\ DOMAIN s[j].blk_addrs \subseteq 1..15
             /\ \A k \in DOMAIN s[j].blk_addrs : s[j].blk_addrs[k] \in Int
  <2>1. IsLine(s[j]) /\ s[j].type = "INODE"
    BY DEF IsSummary, Lines
  <2>2. s[j].blk_addrs \in Seq(Int) /\ Len(s[j].blk_addrs) <= 15
    BY <2>1 DEF IsLine
  <2>3. /\ DOMAIN s[j].blk_addrs = 1..Len(s[j].blk_addrs) /\ Len(s[j].blk_addrs) \in Nat
        /\ \A k \in DOMAIN s[j].blk_addrs : s[j].blk_addrs[k] \in Int
    BY <2>2
  <2>4. \A k \in 1..Len(s[j].blk_addrs) : k \in 1..15
    <3> DEFINE n == Len(s[j].blk_addrs)
    <3> SUFFICES \A k \in 1..n : k \in 1..15
      OBVIOUS
    <3>1. n \in Nat /\ n <= 15
      BY <2>2, <2>3
    <3> HIDE DEF n
    <3> QED
      BY <3>1
  <2> QED
    BY <2>2, <2>3, <2>4
<1>3. ASSUME NEW j \in D PROVE s[j].block \in Int \ {0}
  BY DEF IsSummary, Lines, IsLine
<1> HIDE DEF s, R, D
<1>4. \A r : IsRef(s, Len(s), b, r) <=>
        \/ \E j \in R : \E k \in DOMAIN s[j].blk_addrs : s[j].blk_addrs[k] = b /\ r = <<j, k>>
        \/ \E j \in D : s[j].block = b /\ r = <<j, 0>>
  BY <1>1 DEF IsRef, Slots
<1>5. \A r : r \in Refs(b) <=>
        \/ r \in R \X (1..15) /\ r[2] \in DOMAIN s[r[1]].blk_addrs /\ s[r[1]].blk_addrs[r[2]] = b
        \/ \E j \in D : s[j].block = b /\ r = <<j, 0>>
  BY DEF Refs, R, D, s
<1>6. ASSUME NEW r
      PROVE  r \in R \X (1..15) /\ r[2] \in DOMAIN s[r[1]].blk_addrs /\ s[r[1]].blk_addrs[r[2]] = b
             <=> \E j \in R : \E k \in DOMAIN s[j].blk_addrs : s[j].blk_addrs[k] = b /\ r = <<j, k>>
  <2>1. ASSUME r \in R \X (1..15), r[2] \in DOMAIN s[r[1]].blk_addrs, s[r[1]].blk_addrs[r[2]] = b
        PROVE  \E j \in R : \E k \in DOMAIN s[j].blk_addrs : s[j].blk_addrs[k] = b /\ r = <<j, k>>
    <3>1. r[1] \in R /\ r = <<r[1], r[2]>>
      BY <2>1
    <3> QED
      BY <2>1, <3>1
  <2>2. ASSUME NEW j \in R, NEW k \in DOMAIN s[j].blk_addrs, s[j].blk_addrs[k] = b, r = <<j, k>>
        PROVE  r \in R \X (1..15) /\ r[2] \in DOMAIN s[r[1]].blk_addrs /\ s[r[1]].blk_addrs[r[2]] = b
    <3>1. k \in 1..15
      BY <1>2
    <3>2. r[1] = j /\ r[2] = k
      BY <2>2
    <3> QED
      BY <2>2, <3>1, <3>2
  <2> QED
    BY <2>1, <2>2
<1>7. b \in Used <=> /\ b # 0
                     /\ \/ \E j \in R : \E k \in DOMAIN s[j].blk_addrs : s[j].blk_addrs[k] = b
                        \/ \E j \in D : s[j].block = b
  <2>1. \A j \in R : b \in ToSet(s[j].blk_addrs) <=> \E k \in DOMAIN s[j].blk_addrs : s[j].blk_addrs[k] = b
    BY DEF ToSet
  <2>2. b \in Used <=> b # 0 /\ ((\E j \in R : b \in ToSet(s[j].blk_addrs)) \/ \E j \in D : s[j].block = b)
    <3> DEFINE U == UNION {ToSet(s[j].blk_addrs) : j \in R}
               V == {s[j].block : j \in D}
    <3>2. b \in U <=> \E j \in R : b \in ToSet(s[j].blk_addrs)
      OBVIOUS
    <3>3. b \in V <=> \E j \in D : s[j].block = b
      OBVIOUS
    <3>4. Used = {x \in U \cup V : x # 0}
      BY DEF Used, R, D, s
    <3> HIDE DEF U, V
    <3>5. b \in Used <=> b # 0 /\ (b \in U \/ b \in V)
      BY <3>4
    <3> QED
      BY <3>2, <3>3, <3>5
  <2> QED
    BY <2>1, <2>2
<1>8. b \in Used <=> b # 0 /\ \E r : IsRef(s, Len(s), b, r)
  BY <1>4, <1>7
<1>9. \A r : r \in Refs(b) <=> IsRef(s, Len(s), b, r)
  BY <1>4, <1>5, <1>6
<1>10. b \in Used => b \in Int
  BY <1>2, <1>3, <1>7
<1> QED
  BY <1>8, <1>9, <1>10 DEF s

\* The dictionaries, in the terms of the summary.
LEMMA DictsAre ==
  ASSUME AllRead
  PROVE  /\ superblock.blk_cnt \in Nat /\ superblock.ino_cnt \in Nat /\ superblock = SuperOf(csv_lines)
         /\ ifree = FreeInodes /\ bfree = FreeBlocks
         /\ DOMAIN inode_dict_lnk_cnt = Inodes /\ Inodes \subseteq 1..superblock.ino_cnt
         /\ \A j \in Lines("INODE") : inode_dict_lnk_cnt[csv_lines[j].num] = csv_lines[j].link_cnt
         /\ DOMAIN inode_dict_ref_lnk_cnt = {csv_lines[j].num : j \in Entries}
         /\ \A n : Cardinality({m \in Entries : csv_lines[m].num = n}) =
                     IF n \in DOMAIN inode_dict_ref_lnk_cnt THEN inode_dict_ref_lnk_cnt[n] ELSE 0
         /\ DOMAIN block_dict = Used \ reserved_blocks
         /\ \A b \in DOMAIN block_dict : block_dict[b] > 1 <=> \E r, q \in Refs(b) : r # q
<1> DEFINE s == csv_lines
           m == Len(s)
<1>1. IsSummary(s) /\ m \in Nat \ {0} /\ DOMAIN s = 1..m
  BY DEF AllRead, IsSummary
<1>2. /\ superblock = SuperOf(s)
      /\ ifree = NumsOf(s, m, "IFREE") /\ bfree = NumsOf(s, m, "BFREE")
      /\ LinkCounts(s, m, inode_dict_lnk_cnt)
      /\ RefCounts(s, m, inode_dict_ref_lnk_cnt)
      /\ BlockCounts(s, m, block_dict)
  BY <1>1 DEF AllRead, ReadInv
<1>3. s[1].blk_cnt \in Nat /\ s[1].ino_cnt \in Nat
  <2>1. IsLine(s[1]) /\ s[1].type = "SUPERBLOCK"
    BY <1>1 DEF IsSummary
  <2> QED
    BY <2>1 DEF IsLine
<1>4. superblock.blk_cnt = s[1].blk_cnt /\ superblock.ino_cnt = s[1].ino_cnt
  BY <1>2 DEF SuperOf
<1>5. \A t : Lines(t) = Read(s, m, t)
  BY <1>1, LinesAre
<1> HIDE DEF m
<1>6. ifree = FreeInodes /\ bfree = FreeBlocks
  BY <1>2, <1>5 DEF NumsOf, FreeInodes, FreeBlocks
<1>7. /\ DOMAIN inode_dict_lnk_cnt = Inodes
      /\ \A j \in Lines("INODE") : inode_dict_lnk_cnt[s[j].num] = s[j].link_cnt
  BY <1>2, <1>5 DEF LinkCounts, Inodes
<1>8. Inodes \subseteq 1..superblock.ino_cnt
  BY <1>1, <1>4 DEF Inodes, Lines, IsSummary
<1>9. /\ DOMAIN inode_dict_ref_lnk_cnt = {s[j].num : j \in Entries}
      /\ \A n \in DOMAIN inode_dict_ref_lnk_cnt : inode_dict_ref_lnk_cnt[n] = Cardinality(Naming(s, m, n))
  BY <1>2, <1>5 DEF RefCounts, Entries
<1>10. \A n : {j \in Entries : s[j].num = n} = Naming(s, m, n)
  BY <1>5 DEF Naming, Entries
<1>11. \A n : n \notin DOMAIN inode_dict_ref_lnk_cnt => Naming(s, m, n) = {}
  BY <1>9, <1>10
<1>12. \A n : Cardinality({j \in Entries : s[j].num = n}) =
                IF n \in DOMAIN inode_dict_ref_lnk_cnt THEN inode_dict_ref_lnk_cnt[n] ELSE 0
  <2> SUFFICES ASSUME NEW n
               PROVE  Cardinality({j \in Entries : s[j].num = n}) =
                        IF n \in DOMAIN inode_dict_ref_lnk_cnt THEN inode_dict_ref_lnk_cnt[n] ELSE 0
    OBVIOUS
  <2>1. {j \in Entries : s[j].num = n} = Naming(s, m, n)
    BY <1>10
  <2>2. CASE n \in DOMAIN inode_dict_ref_lnk_cnt
    BY <1>9, <2>1, <2>2
  <2>3. CASE n \notin DOMAIN inode_dict_ref_lnk_cnt
    BY <1>11, <2>1, <2>3, FS_EmptySet
  <2> QED
    BY <2>2, <2>3
<1>13. 0 \in reserved_blocks
  BY DEF reserved_blocks
<1>14. \A b : /\ b \in Used <=> b # 0 /\ \E r : IsRef(s, m, b, r)
              /\ \A r : r \in Refs(b) <=> IsRef(s, m, b, r)
              /\ b \in Used => b \in Int
  BY <1>1, UsedAre DEF m
<1>15. DOMAIN block_dict = Used \ reserved_blocks
  <2>1. DOMAIN block_dict \subseteq Int \ reserved_blocks
        /\ \A b \in Int \ reserved_blocks : b \in DOMAIN block_dict <=> \E r : IsRef(s, m, b, r)
    BY <1>2 DEF BlockCounts
  <2> QED
    BY <1>13, <1>14, <2>1
<1>16. \A b \in DOMAIN block_dict : block_dict[b] > 1 <=> \E r, q \in Refs(b) : r # q
  <2>1. \A b \in DOMAIN block_dict : block_dict[b] > 1 <=> Twice(s, m, b)
    BY <1>2 DEF BlockCounts
  <2> QED
    BY <1>14, <2>1 DEF Twice
<1> QED
  BY <1>2, <1>3, <1>4, <1>6, <1>7, <1>8, <1>9, <1>12, <1>15, <1>16 DEF s

\* The two dictionaries about directories, likewise, if every entry names an inode of
\* the file system.
LEMMA TreeDictsAre ==
  ASSUME AllRead, \A j \in Entries : csv_lines[j].num \in 1..superblock.ino_cnt
  PROVE  /\ DOMAIN inode_dict_parents = {csv_lines[j].parent : j \in {j \in Entries : csv_lines[j].name = ".."}}
         /\ \A j \in Entries : csv_lines[j].name = ".." =>
              inode_dict_parents[csv_lines[j].parent] = csv_lines[j].num
         /\ \A n : n \in DOMAIN inode_dict_lr <=>
              \E j \in Entries : csv_lines[j].name \notin {".", ".."} /\ csv_lines[j].num = n
         /\ \A n \in DOMAIN inode_dict_lr :
              \E j \in Entries : /\ csv_lines[j].name \notin {".", ".."} /\ csv_lines[j].num = n
                                 /\ inode_dict_lr[n] = csv_lines[j].parent
<1> DEFINE s == csv_lines
           m == Len(s)
<1>1. IsSummary(s) /\ m \in Nat \ {0} /\ superblock = SuperOf(s) /\ superblock.ino_cnt = s[1].ino_cnt
  BY DictsAre DEF AllRead, IsSummary, SuperOf
<1>2. Parents(s, m, inode_dict_parents) /\ Names(s, m, inode_dict_lr)
  BY DEF AllRead, ReadInv
<1>3. Entries = Read(s, m, "DIRENT")
  BY <1>1, LinesAre DEF Entries
<1> HIDE DEF m
<1>4. \A j \in Entries : Valid(s, j)
  BY <1>1 DEF Valid
<1>5. \A j : j \in DotDots(s, m) <=> j \in Entries /\ s[j].name = ".."
  BY <1>3, <1>4 DEF DotDots
<1>6. \A j : j \in Others(s, m) <=> j \in Entries /\ s[j].name \notin {".", ".."}
  BY <1>3, <1>4 DEF Others
<1>7. DOMAIN inode_dict_parents = {s[j].parent : j \in {j \in Entries : s[j].name = ".."}}
  <2>1. DotDots(s, m) = {j \in Entries : s[j].name = ".."}
    BY <1>5
  <2> QED
    BY <1>2, <2>1 DEF Parents
<1>8. \A j \in Entries : s[j].name = ".." => inode_dict_parents[s[j].parent] = s[j].num
  BY <1>2, <1>5 DEF Parents
<1>9. \A n : n \in DOMAIN inode_dict_lr <=> \E j \in Entries : s[j].name \notin {".", ".."} /\ s[j].num = n
  <2>1. \A n : n \in DOMAIN inode_dict_lr <=> \E j \in Others(s, m) : s[j].num = n
    BY <1>2 DEF Names
  <2> QED
    BY <1>6, <2>1
<1>10. \A n \in DOMAIN inode_dict_lr :
         \E j \in Entries : s[j].name \notin {".", ".."} /\ s[j].num = n /\ inode_dict_lr[n] = s[j].parent
  <2>1. \A n \in DOMAIN inode_dict_lr : \E j \in Others(s, m) : s[j].num = n /\ inode_dict_lr[n] = s[j].parent
    BY <1>2 DEF Names
  <2> QED
    BY <1>6, <2>1
<1> QED
  BY <1>7, <1>8, <1>9, <1>10 DEF s

\* Nothing is printed while the lines are read if the addresses and the entries are good.
LEMMA CleanIs ==
  ASSUME AllRead
  PROVE  AllClean(csv_lines, line) <=>
           /\ \A b \in Used : ~BadAddress(csv_lines, b)
           /\ \A j \in Entries : /\ csv_lines[j].num \in 1..superblock.ino_cnt
                                 /\ csv_lines[j].name = "." => csv_lines[j].num = csv_lines[j].parent
<1> DEFINE s == csv_lines
           m == Len(s)
<1>1. IsSummary(s) /\ line = m /\ superblock.ino_cnt = s[1].ino_cnt
  BY DictsAre DEF AllRead, SuperOf
<1>2. \A t : Lines(t) = Read(s, m, t)
  BY <1>1, LinesAre
<1>3. \A j \in Entries : Valid(s, j) <=> s[j].num \in 1..superblock.ino_cnt
  BY <1>1 DEF Valid
<1>4. \A b : b \in Used <=> b # 0 /\ \E r : IsRef(s, m, b, r)
  BY <1>1, UsedAre
<1> HIDE DEF m
<1>5. \A b : (\E r : IsRef(s, m, b, r)) <=>
              \/ \E j \in Lines("INODE") : \E k \in DOMAIN s[j].blk_addrs : s[j].blk_addrs[k] = b
              \/ \E j \in Lines("INDIRECT") : s[j].block = b
  BY <1>2 DEF IsRef, Slots
<1>6. \A j \in Lines("INDIRECT") : s[j].block # 0
  BY <1>1 DEF IsSummary, IsLine, Lines
<1>7. (\A b \in Used : ~BadAddress(s, b)) <=>
        /\ \A j \in Lines("INODE") : \A k \in DOMAIN s[j].blk_addrs :
             s[j].blk_addrs[k] # 0 => ~BadAddress(s, s[j].blk_addrs[k])
        /\ \A j \in Lines("INDIRECT") : ~BadAddress(s, s[j].block)
  BY <1>4, <1>5, <1>6
<1>8. AllClean(s, m) <=>
        /\ \A j \in Lines("INODE") : \A k \in DOMAIN s[j].blk_addrs :
             s[j].blk_addrs[k] # 0 => ~BadAddress(s, s[j].blk_addrs[k])
        /\ \A j \in Lines("INDIRECT") : ~BadAddress(s, s[j].block)
        /\ \A j \in Entries : Valid(s, j) /\ (s[j].name = "." => s[j].num = s[j].parent)
  BY <1>2 DEF AllClean, Clean, Read, Entries
<1> QED
  BY <1>1, <1>3, <1>7, <1>8

\* All the checks together.
AllAgree ==
  /\ AllClean(csv_lines, line)
  /\ BlocksAgree(superblock, bfree, block_dict)
  /\ InodesAgree(superblock, ifree, inode_dict_lnk_cnt, inode_dict_lr)
  /\ ParentsAgree(inode_dict_parents, inode_dict_lr)
  /\ CountsAgree(inode_dict_lnk_cnt, inode_dict_ref_lnk_cnt)
  /\ EntriesAgree(ifree, inode_dict_ref_lnk_cnt, inode_dict_lr)
  /\ OnceEach(block_dict)

\* What all checks pass is consistent, but for three cases.
LEMMA AgreeIsConsistent ==
  ASSUME AllRead, AllAgree, ~Phantom, ~PastTheEnd, ~NamedTwice
  PROVE  Consistent
<1> DEFINE s == csv_lines
           N == superblock.blk_cnt
           I == superblock.ino_cnt
<1>1. /\ N \in Nat /\ I \in Nat /\ superblock = SuperOf(s)
      /\ ifree = FreeInodes /\ bfree = FreeBlocks
      /\ DOMAIN inode_dict_lnk_cnt = Inodes /\ Inodes \subseteq 1..I
      /\ \A j \in Lines("INODE") : inode_dict_lnk_cnt[s[j].num] = s[j].link_cnt
      /\ DOMAIN inode_dict_ref_lnk_cnt = {s[j].num : j \in Entries}
      /\ \A n : Cardinality({m \in Entries : s[m].num = n}) =
                  IF n \in DOMAIN inode_dict_ref_lnk_cnt THEN inode_dict_ref_lnk_cnt[n] ELSE 0
      /\ DOMAIN block_dict = Used \ reserved_blocks
      /\ \A b \in DOMAIN block_dict : block_dict[b] > 1 <=> \E r, q \in Refs(b) : r # q
  BY DictsAre
<1>2. /\ \A b \in Used : ~BadAddress(s, b)
      /\ \A j \in Entries : s[j].num \in 1..I /\ (s[j].name = "." => s[j].num = s[j].parent)
  BY CleanIs DEF AllAgree
<1>3. /\ DOMAIN inode_dict_parents = {s[j].parent : j \in {j \in Entries : s[j].name = ".."}}
      /\ \A j \in Entries : s[j].name = ".." => inode_dict_parents[s[j].parent] = s[j].num
      /\ \A n : n \in DOMAIN inode_dict_lr <=>
           \E j \in Entries : s[j].name \notin {".", ".."} /\ s[j].num = n
      /\ \A n \in DOMAIN inode_dict_lr :
           \E j \in Entries : s[j].name \notin {".", ".."} /\ s[j].num = n /\ inode_dict_lr[n] = s[j].parent
  BY <1>2, TreeDictsAre
<1>4. s[1].blk_cnt = N /\ \A b \in Used : b \in Int /\ b # 0
  BY <1>1, UsedAre DEF SuperOf, AllRead
<1>5. ASSUME NEW b \in Used PROVE 0 < b /\ b < N /\ b \notin reserved_blocks
  <2>1. ~(b < 0) /\ ~(b > N) /\ b \notin reserved_blocks \ {0} /\ b \in Int /\ b # 0
    BY <1>2, <1>4 DEF BadAddress
  <2>2. b \notin reserved_blocks
    BY <2>1
  <2>3. b # N
    BY <2>2 DEF PastTheEnd, BlockCount
  <2> QED
    BY <1>1, <2>1, <2>2, <2>3
<1>6. BlocksConsistent
  <2>1. \A b \in Used : \A r, q \in Refs(b) : r = q
    <3>1. \A b \in Used : b \in DOMAIN block_dict
      BY <1>1, <1>5
    <3> QED
      BY <1>1, <3>1 DEF AllAgree, OnceEach
  <2>2. \A b \in 1..(N - 1) \ reserved_blocks : b \in FreeBlocks <=> b \notin Used
    <3> SUFFICES ASSUME NEW b \in 1..(N - 1) \ reserved_blocks PROVE b \in FreeBlocks <=> b \notin Used
      OBVIOUS
    <3>1. b \in 1..N
      BY <1>1
    <3>2. /\ ~(b \in bfree /\ b \in DOMAIN block_dict)
          /\ ~(b \notin bfree /\ b \notin DOMAIN block_dict /\ b \notin reserved_blocks)
      BY <3>1 DEF AllAgree, BlocksAgree
    <3> QED
      BY <1>1, <3>2
  <2> QED
    BY <1>5, <2>1, <2>2 DEF BlocksConsistent, BlockCount
<1>7. EntriesConsistent
  <2>1. \A j \in Lines("INODE") : s[j].link_cnt = Cardinality({m \in Entries : s[m].num = s[j].num})
    <3> SUFFICES ASSUME NEW j \in Lines("INODE")
                 PROVE  s[j].link_cnt = Cardinality({m \in Entries : s[m].num = s[j].num})
      OBVIOUS
    <3> DEFINE n == s[j].num
    <3>1. n \in DOMAIN inode_dict_lnk_cnt
      BY <1>1 DEF Inodes
    <3>2. inode_dict_lnk_cnt[n] = s[j].link_cnt
      BY <1>1
    <3>3. inode_dict_lnk_cnt[n] =
            IF n \in DOMAIN inode_dict_ref_lnk_cnt THEN inode_dict_ref_lnk_cnt[n] ELSE 0
      BY <3>1 DEF AllAgree, CountsAgree
    <3>4. Cardinality({m \in Entries : s[m].num = n}) =
            IF n \in DOMAIN inode_dict_ref_lnk_cnt THEN inode_dict_ref_lnk_cnt[n] ELSE 0
      BY <1>1
    <3> QED
      BY <3>2, <3>3, <3>4
  <2>2. ASSUME NEW j \in Entries, s[j].name = ".." PROVE Namers(s[j].parent) = {s[j].num}
    <3> DEFINE p == s[j].parent
    <3>1. p \in DOMAIN inode_dict_parents /\ inode_dict_parents[p] = s[j].num
      BY <1>3, <2>2
    <3>2. ~WrongParent(inode_dict_parents, inode_dict_lr, p)
      BY <3>1 DEF AllAgree, ParentsAgree
    <3>3. CASE p = 2
      BY <3>1, <3>2, <3>3 DEF Namers, WrongParent
    <3>4. CASE p # 2
      <4>1. p \in DOMAIN inode_dict_lr /\ inode_dict_lr[p] = s[j].num
        BY <3>1, <3>2, <3>4 DEF WrongParent
      <4>2. PICK k \in Entries : s[k].name \notin {".", ".."} /\ s[k].num = p /\ s[j].num = s[k].parent
        BY <1>3, <4>1
      <4>3. ASSUME NEW l \in Entries, s[l].name \notin {".", ".."}, s[l].num = p
            PROVE  s[l].parent = s[j].num
        <5>1. k \in Nat /\ l \in Nat
          BY DEF Entries, Lines, AllRead, IsSummary
        <5>2. {s[k].name, s[l].name} \cap {".", ".."} = {}
          BY <4>2, <4>3
        <5>3. k < l \/ l < k \/ k = l
          BY <5>1
        <5>4. s[k].num = s[l].num
          BY <4>2, <4>3
        <5>5. CASE k < l
          BY <4>2, <5>2, <5>4, <5>5 DEF NamedTwice
        <5>6. CASE l < k
          <6>1. {s[l].name, s[k].name} \cap {".", ".."} = {}
            BY <4>2, <4>3
          <6> QED
            BY <4>2, <5>4, <5>6, <6>1 DEF NamedTwice
        <5> QED
          BY <4>2, <5>3, <5>5, <5>6
      <4>4. Namers(p) = {s[l].parent : l \in {l \in Entries : s[l].name \notin {".", ".."} /\ s[l].num = p}}
        BY <3>4 DEF Namers
      <4> QED
        BY <4>2, <4>3, <4>4
    <3> QED
      BY <3>3, <3>4
  <2> QED
    BY <1>2, <2>1, <2>2 DEF EntriesConsistent
<1>8. InodesConsistent
  <2>1. \A n \in 1..I : /\ ~(n \notin ifree /\ n \notin Inodes /\ n \notin DOMAIN inode_dict_lr
                             /\ n \notin reserved_inodes)
                        /\ ~(n \in Inodes /\ n \in ifree)
    BY <1>1 DEF AllAgree, InodesAgree
  <2>2. ASSUME NEW n \in 1..I \ reserved_inodes PROVE n \in FreeInodes <=> n \notin Inodes
    <3>1. n \notin FreeInodes /\ n \notin Inodes => n \in DOMAIN inode_dict_lr
      BY <1>1, <2>1
    <3>2. n \in DOMAIN inode_dict_lr /\ n \notin Inodes \cup FreeInodes => Phantom
      BY <1>2, <1>3 DEF Phantom
    <3> QED
      BY <1>1, <2>1, <3>1, <3>2
  <2>3. FreeInodes \cap Inodes = {}
    BY <1>1, <2>1
  <2>4. ASSUME NEW j \in Entries, s[j].name \notin {".", ".."} PROVE s[j].num \notin FreeInodes
    <3>1. s[j].num \in DOMAIN inode_dict_ref_lnk_cnt /\ s[j].num \in DOMAIN inode_dict_lr
      BY <1>1, <1>3, <2>4
    <3> QED
      BY <1>1, <3>1 DEF AllAgree, EntriesAgree
  <2> QED
    BY <2>2, <2>3, <2>4 DEF InodesConsistent
<1> QED
  BY <1>6, <1>7, <1>8 DEF Consistent

\* A consistent file system of 64 blocks passes all checks.
LEMMA ConsistentAgrees ==
  ASSUME AllRead, Consistent, BlockCount = 64
  PROVE  AllAgree
<1> DEFINE s == csv_lines
           I == superblock.ino_cnt
<1>1. /\ I \in Nat /\ superblock = SuperOf(s) /\ superblock.blk_cnt = 64
      /\ ifree = FreeInodes /\ bfree = FreeBlocks
      /\ DOMAIN inode_dict_lnk_cnt = Inodes
      /\ \A j \in Lines("INODE") : inode_dict_lnk_cnt[s[j].num] = s[j].link_cnt
      /\ DOMAIN inode_dict_ref_lnk_cnt = {s[j].num : j \in Entries}
      /\ \A n : Cardinality({m \in Entries : s[m].num = n}) =
                  IF n \in DOMAIN inode_dict_ref_lnk_cnt THEN inode_dict_ref_lnk_cnt[n] ELSE 0
      /\ DOMAIN block_dict = Used \ reserved_blocks
      /\ \A b \in DOMAIN block_dict : block_dict[b] > 1 <=> \E r, q \in Refs(b) : r # q
  BY DictsAre DEF BlockCount
<1>2. BlocksConsistent /\ EntriesConsistent /\ InodesConsistent
  BY DEF Consistent
<1>3. \A j \in Entries : s[j].num \in 1..I /\ (s[j].name = "." => s[j].num = s[j].parent)
  BY <1>2 DEF EntriesConsistent
<1>4. /\ DOMAIN inode_dict_parents = {s[j].parent : j \in {j \in Entries : s[j].name = ".."}}
      /\ \A j \in Entries : s[j].name = ".." => inode_dict_parents[s[j].parent] = s[j].num
      /\ \A n : n \in DOMAIN inode_dict_lr <=>
           \E j \in Entries : s[j].name \notin {".", ".."} /\ s[j].num = n
      /\ \A n \in DOMAIN inode_dict_lr :
           \E j \in Entries : s[j].name \notin {".", ".."} /\ s[j].num = n /\ inode_dict_lr[n] = s[j].parent
  BY <1>3, TreeDictsAre
<1>5. \A b \in Used : b \in Int /\ 0 < b /\ b < 64 /\ b \notin reserved_blocks
  BY <1>2, UsedAre DEF BlocksConsistent, AllRead
<1>6. AllClean(s, line)
  <2>1. s[1].blk_cnt = 64
    BY <1>1 DEF SuperOf
  <2>2. \A b \in Used : ~BadAddress(s, b)
    BY <1>5, <2>1 DEF BadAddress
  <2> QED
    BY <1>3, <2>2, CleanIs
<1>7. BlocksAgree(superblock, bfree, block_dict)
  <2> SUFFICES ASSUME NEW b \in 1..64
               PROVE  /\ ~(b \in bfree /\ b \in DOMAIN block_dict)
                      /\ ~(b \notin bfree /\ b \notin DOMAIN block_dict /\ b \notin reserved_blocks)
    BY <1>1 DEF BlocksAgree
  <2>1. CASE b \in reserved_blocks
    BY <1>1, <2>1
  <2>2. CASE b \notin reserved_blocks
    <3>1. b \in 1..(64 - 1) \ reserved_blocks
      BY <2>2 DEF reserved_blocks
    <3>2. b \in FreeBlocks <=> b \notin Used
      BY <1>2, <3>1 DEF BlocksConsistent
    <3> QED
      BY <1>1, <2>2, <3>2
  <2> QED
    BY <2>1, <2>2
<1>8. InodesAgree(superblock, ifree, inode_dict_lnk_cnt, inode_dict_lr)
  <2> SUFFICES ASSUME NEW n \in 1..I
               PROVE  /\ ~(n \notin ifree /\ n \notin Inodes /\ n \notin DOMAIN inode_dict_lr
                           /\ n \notin reserved_inodes)
                      /\ ~(n \in Inodes /\ n \in ifree)
    BY <1>1 DEF InodesAgree
  <2>1. n \notin reserved_inodes => (n \in FreeInodes <=> n \notin Inodes)
    BY <1>2 DEF InodesConsistent
  <2>2. ~(n \in Inodes /\ n \in FreeInodes)
    BY <1>2 DEF InodesConsistent
  <2> QED
    BY <1>1, <2>1, <2>2
<1>9. ParentsAgree(inode_dict_parents, inode_dict_lr)
  <2> SUFFICES ASSUME NEW p \in DOMAIN inode_dict_parents
               PROVE  ~WrongParent(inode_dict_parents, inode_dict_lr, p)
    BY DEF ParentsAgree
  <2>1. PICK j \in Entries : s[j].name = ".." /\ s[j].parent = p
    BY <1>4
  <2>2. inode_dict_parents[p] = s[j].num /\ Namers(p) = {s[j].num}
    BY <1>2, <1>4, <2>1 DEF EntriesConsistent
  <2>3. CASE p = 2
    <3>1. Namers(p) = {2}
      BY <2>3 DEF Namers
    <3>2. s[j].num = 2
      BY <2>2, <3>1
    <3> QED
      BY <2>2, <2>3, <3>2 DEF WrongParent
  <2>4. CASE p # 2
    <3>1. Namers(p) = {s[k].parent : k \in {k \in Entries : s[k].name \notin {".", ".."} /\ s[k].num = p}}
      BY <2>4 DEF Namers
    <3>2. p \in DOMAIN inode_dict_lr
      <4>1. \E k \in Entries : s[k].name \notin {".", ".."} /\ s[k].num = p
        BY <2>2, <3>1
      <4> QED
        BY <1>4, <4>1
    <3>3. PICK k \in Entries : s[k].name \notin {".", ".."} /\ s[k].num = p
                               /\ inode_dict_lr[p] = s[k].parent
      BY <1>4, <3>2
    <3>4. s[k].parent \in Namers(p)
      BY <3>1, <3>3
    <3>5. inode_dict_lr[p] = s[j].num
      BY <2>2, <3>3, <3>4
    <3> QED
      BY <2>2, <2>4, <3>2, <3>5 DEF WrongParent
  <2> QED
    BY <2>3, <2>4
<1>10. CountsAgree(inode_dict_lnk_cnt, inode_dict_ref_lnk_cnt)
  <2> SUFFICES ASSUME NEW n \in DOMAIN inode_dict_lnk_cnt
               PROVE  inode_dict_lnk_cnt[n] =
                        IF n \in DOMAIN inode_dict_ref_lnk_cnt THEN inode_dict_ref_lnk_cnt[n] ELSE 0
    BY DEF CountsAgree
  <2>1. PICK j \in Lines("INODE") : s[j].num = n
    BY <1>1 DEF Inodes
  <2>2. inode_dict_lnk_cnt[n] = s[j].link_cnt
    BY <1>1, <2>1
  <2>3. s[j].link_cnt = Cardinality({m \in Entries : s[m].num = s[j].num})
    BY <1>2 DEF EntriesConsistent
  <2>4. Cardinality({m \in Entries : s[m].num = n}) =
          IF n \in DOMAIN inode_dict_ref_lnk_cnt THEN inode_dict_ref_lnk_cnt[n] ELSE 0
    BY <1>1
  <2> QED
    BY <2>1, <2>2, <2>3, <2>4
<1>11. EntriesAgree(ifree, inode_dict_ref_lnk_cnt, inode_dict_lr)
  BY <1>1, <1>2, <1>4 DEF EntriesAgree, InodesConsistent
<1>12. OnceEach(block_dict)
  <2>1. \A b \in Used : \A r, q \in Refs(b) : r = q
    BY <1>2 DEF BlocksConsistent
  <2> QED
    BY <1>1, <2>1 DEF OnceEach
<1> QED
  BY <1>6, <1>7, <1>8, <1>9, <1>10, <1>11, <1>12 DEF AllAgree

\* Entries named by a directory are entries.
LEMMA NamesAreEntries ==
  ASSUME ReadInv
  PROVE  DOMAIN inode_dict_lr \subseteq DOMAIN inode_dict_ref_lnk_cnt
<1>1. /\ DOMAIN inode_dict_lr = {csv_lines[j].num : j \in Others(csv_lines, line)}
      /\ DOMAIN inode_dict_ref_lnk_cnt = {csv_lines[j].num : j \in Read(csv_lines, line, "DIRENT")}
  BY DEF ReadInv, Names, RefCounts
<1>2. Others(csv_lines, line) \subseteq Read(csv_lines, line, "DIRENT")
  BY DEF Others
<1> QED
  BY <1>1, <1>2

\* The verdict of lab3b.py is right for any summary: what it calls consistent is so
\* but for the three cases it has no check for, and it never blames a consistent file
\* system of 64 blocks.
THEOREM VerdictRightHolds == Spec => []VerdictRight
<1>1. Inv3 => VerdictRight
  <2> SUFFICES ASSUME Inv3 PROVE VerdictRight
    OBVIOUS
  <2>1. Inv1 /\ Given /\ AuditPlaces /\ ReadInv /\ ScanInv
    BY DEF Inv3, Inv2
  <2>2. TypeOK
    <3>1. /\ i \in Nat /\ status \in {SRunning, 0, 1, SigAbrt} /\ depth \in 0..3 /\ slot \in 1..4
          /\ pc \in {"open", "bfree", "ifree", "inode", "slots"}
      <4>1. CASE SummaryInit
        BY <4>1 DEF SummaryInit
      <4>2. CASE SumInv
        <5>1. SumPlaces
          BY <4>2 DEF SumInv
        <5> QED
          BY <5>1 DEF SumPlaces
      <4> QED
        BY <2>1, <4>1, <4>2 DEF Inv1
    <3>2. /\ own \in BOOLEAN /\ is_consistent \in BOOLEAN
          /\ line \in 0..Len(csv_lines) /\ astatus \in {Running, 0, 1, 2}
          /\ apc \in {"read", "links", "blocks", "entries", "inodes", "duplicates", "parents", "exit"}
      BY <2>1 DEF Given, AuditPlaces, ScanInv, FlagRight
    <3>3. DOMAIN inode_dict_lr \subseteq DOMAIN inode_dict_ref_lnk_cnt
      BY <2>1, NamesAreEntries
    <3> QED
      BY <3>1, <3>2, <3>3, Zenon DEF TypeOK
  <2>3. astatus # Running => csv_lines # <<>> /\ IsSummary(csv_lines)
    BY <2>1 DEF Given, AuditInit
  <2>4. apc # "read" => AllRead
    <3> SUFFICES ASSUME apc # "read" PROVE AllRead
      OBVIOUS
    <3>1. csv_lines # <<>>
      BY <2>1 DEF Given, AuditInit
    <3> QED
      BY <2>1, <3>1 DEF AllRead, Given, AuditPlaces
  <2>5. VerdictSound
    <3> SUFFICES ASSUME astatus = 0, ~Phantom, ~PastTheEnd, ~NamedTwice PROVE Consistent
      BY DEF VerdictSound
    <3>1. apc = "exit" /\ is_consistent
      BY <2>1 DEF ScanInv, StatusRight
    <3>2. AllAgree
      BY <2>1, <3>1 DEF AllAgree, ScanInv, FlagRight, PassedRight, AfterLinks, AfterBlocks, AfterEntries,
         AfterInodes, AfterDuplicates
    <3> QED
      BY <2>4, <3>1, <3>2, AgreeIsConsistent
  <2>6. VerdictComplete
    <3> SUFFICES ASSUME astatus # Running, BlockCount = 64, Consistent, astatus # 0,
                        \A j \in DOMAIN csv_lines : ~Malformed(csv_lines[j])
                 PROVE  FALSE
      BY DEF VerdictComplete, Readable
    <3>1. astatus = 1 \/ astatus = 2
      BY <2>1 DEF AuditPlaces
    <3>2. apc # "read"
      <4>1. CASE astatus = 2
        BY <2>1, <4>1 DEF ScanInv, StatusRight
      <4>2. CASE astatus = 1
        <5> SUFFICES ASSUME apc = "read" PROVE FALSE
          OBVIOUS
        <5>1. line < Len(csv_lines) /\ Malformed(csv_lines[line + 1])
          BY <2>1, <4>2 DEF ScanInv, StatusRight
        <5>2. line + 1 \in DOMAIN csv_lines
          BY <2>1, <2>3, <5>1 DEF IsSummary, AuditPlaces
        <5> QED
          BY <5>1, <5>2
      <4> QED
        BY <3>1, <4>1, <4>2
    <3>3. AllAgree
      BY <2>4, <3>2, ConsistentAgrees
    <3>4. CASE astatus = 1
      BY <2>1, <3>2, <3>3, <3>4 DEF ScanInv, StatusRight, AllAgree
    <3>5. CASE astatus = 2
      BY <2>1, <3>3, <3>5 DEF ScanInv, StatusRight, FlagRight, AllAgree
    <3> QED
      BY <3>1, <3>4, <3>5
  <2> QED
    BY <2>2, <2>5, <2>6 DEF VerdictRight
<1> QED
  BY <1>1, Inv3Holds, PTL

=============================================================================
