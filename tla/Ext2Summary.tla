------------------------------ MODULE Ext2Summary ------------------------------
(***************************************************************************)
(* CS111 project 3a: lab3a.c prints a summary of an ext2 image with one    *)
(* block group.  The image is given by its bitmaps, its inode table and    *)
(* the contents of its directory blocks and indirect blocks; a line        *)
(* printed is a record with the fields lab3b.py looks at.                  *)
(***************************************************************************)
EXTENDS Integers, Sequences, SequencesExt

CONSTANTS BITS,     \* the bits of a bitmap block
          PTRS      \* the pointers of an indirect block

ASSUME SizesAssumption == BITS \in Nat \ {0} /\ BITS % 8 = 0 /\ PTRS \in Nat \ {0}

VARIABLES
  image,          \* what is summarised
  out,            \* the lines printed
  i,              \* index of the loop over the inode table
  pc, status,
  slot,           \* which of the three indirect slots of the inode is looked at
  depth, at,      \* the calls of print_ind_blks() under way, and the loop of each
  ind_blocks      \* the stack where these keep their pointers, one array for each depth

tree  == <<slot, depth, at, ind_blocks>>
svars == <<image, out, i, pc, status, tree>>

SRunning == -1
SigAbrt  == 134

SummaryInit ==
  /\ out = <<>> /\ i = 1 /\ pc = "open" /\ status = SRunning
  /\ slot = 1 /\ depth = 0 /\ at = <<1, 1, 1>>

\* open() or a pread() fails: exit(1).
Fails ==
  /\ status = SRunning
  /\ status' = 1
  /\ UNCHANGED <<image, out, i, pc, tree>>

\* The SUPERBLOCK and GROUP lines.
Header ==
  /\ pc = "open"
  /\ out' = << [type |-> "SUPERBLOCK", blk_cnt |-> image.blocks, ino_cnt |-> image.inodes],
               [type |-> "GROUP"] >>
  /\ pc' = "bfree"
  /\ UNCHANGED <<image, i, status, tree>>

\* The numbers printed for a bitmap with the given zero bits: the end of the group
\* only ends the loop over the bits of its byte, and the next bytes are looked at too.
Listed(zeros, cnt) ==
  {n \in 1..BITS : n \in zeros /\ ~(n > cnt /\ (n - 1) \div 8 = (cnt - 1) \div 8)}

\* One of the two bitmaps; the assertion compares with the group descriptor.
FreeLists(here, type, zeros, cnt, told, next) ==
  /\ pc = here
  /\ out' = Append(out, [type |-> type, nums |-> Listed(zeros, cnt)])
  /\ pc' = next
  /\ status' = IF Cardinality(Listed(zeros, cnt)) = told THEN status ELSE SigAbrt
  /\ UNCHANGED <<image, i, tree>>

FreeBlockSummary ==
  FreeLists("bfree", "BFREE", image.bzeros, image.blocks_pg, image.bfree_told, "ifree")
FreeInodeSummary ==
  FreeLists("ifree", "IFREE", image.izeros, image.inodes_pg, image.ifree_told, "inode")

-----------------------------------------------------------------------------
\* The inode table

Curr      == image.table[i]
Allocated == Curr.mode # "0" /\ Curr.links # 0

\* The addresses are printed for files, directories and long symbolic links.
Printed == IF Curr.mode \in {"f", "d"} \/ (Curr.mode = "s" /\ Curr.long)
           THEN Curr.i_block ELSE <<>>

\* A date ends in ", GMT", so it is two fields of the line.
InodeLine == << [type |-> "INODE", num |-> i, link_cnt |-> Curr.links,
                 blk_addrs |-> Printed, dates |-> "comma"] >>

\* logical_offset is not set back for the next block, so only the entries of the first
\* block of a directory are printed.
FirstBlock ==
  CHOOSE k \in 1..12 : Curr.i_block[k] # 0 /\ \A j \in 1..(k - 1) : Curr.i_block[j] = 0
DirLines ==
  IF Curr.mode # "d" \/ \A k \in 1..12 : Curr.i_block[k] = 0 THEN <<>>
  ELSE LET entries == image.dirs[Curr.i_block[FirstBlock]]
       IN  FlattenSeq([j \in DOMAIN entries |->
             IF entries[j].inode = 0 THEN <<>>
             ELSE << [type |-> "DIRECT", parent |-> i, num |-> entries[j].inode,
                      name |-> entries[j].name] >>])

\* The INODE line, and what a directory holds; or the end of the table.
InodeSummary ==
  /\ pc = "inode"
  /\ \/ /\ i > image.inodes_pg
        /\ status' = 0 /\ UNCHANGED <<out, i, pc>>
     \/ /\ i <= image.inodes_pg /\ Allocated
        /\ out' = out \o InodeLine \o DirLines /\ pc' = "slots" /\ UNCHANGED <<i, status>>
     \/ /\ i <= image.inodes_pg /\ ~Allocated
        /\ i' = i + 1 /\ UNCHANGED <<out, pc, status>>
  /\ UNCHANGED <<image, tree>>

\* A call of print_ind_blks(): pread() fetches sizeof(BLOCK_SIZE) bytes, one pointer,
\* and none past the end of the image; the rest is what the stack holds, the pointer
\* an earlier call at this depth has fetched included.
FirstPointer(b) == IF b \in DOMAIN image.inds THEN image.inds[b][1] ELSE 0
print_ind_blks(b) ==
  /\ depth' = depth + 1
  /\ ind_blocks' = IF b < image.blocks
                   THEN [ind_blocks EXCEPT ![depth + 1][1] = FirstPointer(b)] ELSE ind_blocks

\* main() looks at the next slot, whatever the type of the inode: a short symbolic
\* link has text there.
IndSlot ==
  /\ pc = "slots" /\ depth = 0
  /\ \/ /\ slot > 3
        /\ i' = i + 1 /\ pc' = "inode" /\ slot' = 1 /\ UNCHANGED <<depth, at, ind_blocks>>
     \/ /\ slot <= 3 /\ Curr.i_block[12 + slot] = 0
        /\ slot' = slot + 1 /\ UNCHANGED <<i, pc, depth, at, ind_blocks>>
     \/ /\ slot <= 3 /\ Curr.i_block[12 + slot] # 0
        /\ print_ind_blks(Curr.i_block[12 + slot]) /\ at' = [at EXCEPT ![1] = 1]
        /\ UNCHANGED <<i, pc, slot>>
  /\ UNCHANGED <<image, out, status>>

\* The level of the call under way; the last one is 1.
Lvl == slot - depth + 1

\* Mutant of IndRow: the recursion ends one level early.
IndRowShallow ==
  /\ depth > 0 /\ at[depth] <= PTRS
  /\ LET p  == ind_blocks[depth][at[depth]]
         on == [at EXCEPT ![depth] = @ + 1]
     IN  \/ p = 0 /\ at' = on /\ UNCHANGED <<out, depth, ind_blocks>>
         \/ /\ p # 0
            /\ out' = Append(out, [type |-> "INDIRECT", num |-> i, block |-> p])
            /\ \/ Lvl <= 2 /\ at' = on /\ UNCHANGED <<depth, ind_blocks>>
               \/ Lvl > 2 /\ print_ind_blks(p) /\ at' = [on EXCEPT ![depth + 1] = 1]
  /\ UNCHANGED <<image, i, pc, status, slot>>

\* One round of the loop of print_ind_blks(): a line for a pointer that is not zero,
\* then, above level 1, a call for the block it points to.
IndRow ==
  /\ depth > 0 /\ at[depth] <= PTRS
  /\ LET p  == ind_blocks[depth][at[depth]]
         on == [at EXCEPT ![depth] = @ + 1]
     IN  \/ p = 0 /\ at' = on /\ UNCHANGED <<out, depth, ind_blocks>>
         \/ /\ p # 0
            /\ out' = Append(out, [type |-> "INDIRECT", num |-> i, block |-> p])
            /\ \/ Lvl = 1 /\ at' = on /\ UNCHANGED <<depth, ind_blocks>>
               \/ Lvl > 1 /\ print_ind_blks(p) /\ at' = [on EXCEPT ![depth + 1] = 1]
  /\ UNCHANGED <<image, i, pc, status, slot>>

IndReturn ==
  /\ depth > 0 /\ at[depth] > PTRS
  /\ depth' = depth - 1
  /\ slot' = IF depth = 1 THEN slot + 1 ELSE slot
  /\ UNCHANGED <<image, out, i, pc, status, at, ind_blocks>>

Summary ==
  /\ status = SRunning
  /\ Header \/ FreeBlockSummary \/ FreeInodeSummary \/ InodeSummary
     \/ IndSlot \/ IndRow \/ IndReturn

-----------------------------------------------------------------------------
Numbers(type) == UNION {out[j].nums : j \in {j \in DOMAIN out : out[j].type = type}}

\* The free lists of a summary that was printed to its end: what the bitmaps say of
\* the group, and nothing else, for a bitmap with no zero after the byte the group ends
\* in.  (Zeros behind that byte are listed too.)
FreeListsRight ==
  status = 0 =>
    /\ image.bzeros \subseteq 1..(8 * ((image.blocks_pg + 7) \div 8)) =>
         Numbers("BFREE") = image.bzeros \cap 1..image.blocks_pg
    /\ image.izeros \subseteq 1..(8 * ((image.inodes_pg + 7) \div 8)) =>
         Numbers("IFREE") = image.izeros \cap 1..image.inodes_pg

\* The blocks that file f reaches through its three indirect slots, by any pointer.
Pointers(S) == (UNION {Range(image.inds[b]) : b \in S \cap DOMAIN image.inds}) \ {0}
Reached(f)  == LET a == Pointers({f.i_block[13]})
                   b == Pointers({f.i_block[14]})
                   c == Pointers({f.i_block[15]})
               IN  a \cup b \cup Pointers(b) \cup c \cup Pointers(c) \cup Pointers(Pointers(c))

\* What the call to pread() takes for granted: no indirect block has a second pointer,
\* none points past the end of the image, and the stack holds nothing but what the
\* calls have fetched.
OnePointerEach ==
  /\ \A b \in DOMAIN image.inds :
       image.inds[b][1] < image.blocks /\ \A n \in 2..PTRS : image.inds[b][n] = 0
  /\ \A d \in 1..3, n \in 2..PTRS : ind_blocks[d][n] = 0

\* Where that is so, the INDIRECT lines of a file or a directory are about exactly the
\* blocks it reaches through its indirect slots, on whatever level, although each call
\* finds the pointers of earlier ones on the stack.  (Elsewhere the lines are wrong.)
BlocksListed ==
  status = 0 /\ OnePointerEach =>
    \A n \in DOMAIN image.table :
      LET f == image.table[n] IN
      f.mode \in {"f", "d"} /\ f.links # 0 /\ (\A k \in 13..15 : f.i_block[k] < image.blocks) =>
        Reached(f) = {out[j].block : j \in {j \in DOMAIN out :
                        out[j].type = "INDIRECT" /\ out[j].num = n}}

\* The summary of an image says what the image says of the free blocks and inodes of
\* its group and of the blocks its files reach, within what FreeListsRight and
\* BlocksListed take for granted of the bitmaps and the indirect blocks.
SummaryRight == FreeListsRight /\ BlocksListed
=============================================================================
