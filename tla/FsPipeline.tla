------------------------------- MODULE FsPipeline -------------------------------
(***************************************************************************)
(* Projects 3a and 3b together: lab3a summarises an image, and lab3b.py    *)
(* audits the summary; or lab3b.py audits a summary in the format it was   *)
(* written for, as the course's own lab3a prints it.                       *)
(***************************************************************************)
EXTENDS Ext2Summary, FsAudit

CONSTANTS Images, Junk,    \* images, and what may be on the stack, per depth
          Summaries        \* summaries in the course's format

NoImage == [blocks |-> 0]

\* An image has one block group, whose bitmaps are a block each; what the directories
\* and the indirect blocks hold is known.
IsImage(img) ==
  /\ img.blocks \in Nat /\ img.inodes \in Nat
  /\ img.blocks_pg \in 1..BITS /\ img.inodes_pg \in 1..BITS /\ img.inodes_pg <= img.inodes
  /\ img.bzeros \subseteq Nat /\ img.izeros \subseteq Nat
  /\ DOMAIN img.table = 1..img.inodes_pg
  /\ \A n \in DOMAIN img.table : LET inode == img.table[n] IN
       /\ inode.links \in Nat /\ inode.i_block \in [1..15 -> Nat]
       /\ inode.mode = "d" => \A k \in 1..12 : inode.i_block[k] \in DOMAIN img.dirs \cup {0}
  /\ \A b \in DOMAIN img.dirs : img.dirs[b] \in Seq([inode : Int, name : STRING])
  /\ DOMAIN img.inds \subseteq 1..(img.blocks - 1)
  /\ \A b \in DOMAIN img.inds : img.inds[b] \in [1..PTRS -> Nat]

\* A summary starts with the SUPERBLOCK line, and has one INODE line per inode and one
\* entry '..' per directory at most.
IsLine(r) ==
  /\ r.type = "SUPERBLOCK" => r.blk_cnt \in Nat /\ r.ino_cnt \in Nat
  /\ r.type \in {"BFREE", "IFREE"} => r.nums \subseteq Nat
  /\ r.type = "INODE" => r.num \in Nat /\ r.link_cnt \in Nat /\ r.blk_addrs \in Seq(Int)
                         /\ Len(r.blk_addrs) <= 15
  /\ r.type = "INDIRECT" => r.block \in Int \ {0}
  /\ r.type = "DIRENT" => r.num \in Int /\ r.parent \in Int
IsSummary(s) ==
  /\ Len(s) \in Nat \ {0} /\ DOMAIN s = 1..Len(s)
  /\ \A j \in DOMAIN s : IsLine(s[j]) /\ (s[j].type = "SUPERBLOCK" <=> j = 1)
  /\ \A j \in DOMAIN s : s[j].type = "INODE" => s[j].num \in 1..s[1].ino_cnt
  /\ \A j, k \in DOMAIN s :
       s[j].type = "INODE" /\ s[k].type = "INODE" /\ s[j].num = s[k].num => j = k
  /\ \A j, k \in DOMAIN s :
       s[j].type = "DIRENT" /\ s[k].type = "DIRENT" /\ s[j].parent = s[k].parent
       /\ s[j].name = ".." /\ s[k].name = ".." => j = k

ASSUME InputsAssumption ==
  /\ \A img \in Images : IsImage(img)
  /\ Junk \subseteq [1..3 -> [1..PTRS -> Nat]]
  /\ \A s \in Summaries : IsSummary(s)

VARIABLE own               \* whether the summary is the one lab3a prints

vars == <<svars, avars, own>>

Init ==
  /\ SummaryInit /\ AuditInit
  /\ \/ own = TRUE /\ image \in Images /\ ind_blocks \in Junk /\ csv_lines = <<>>
     \/ own = FALSE /\ image = NoImage /\ ind_blocks = <<>> /\ csv_lines \in Summaries

Summarise == own /\ Summary /\ UNCHANGED <<avars, own>>
ReadFails == own /\ Fails /\ UNCHANGED <<avars, own>>

\* The output of lab3a becomes the argument of lab3b.py.
Hand ==
  /\ own /\ status = 0 /\ csv_lines = <<>> /\ out # <<>>
  /\ csv_lines' = out
  /\ UNCHANGED <<svars, line, dicts, is_consistent, found, apc, astatus, own>>

Check == (~own \/ csv_lines # <<>>) /\ Audit /\ UNCHANGED <<svars, own>>

Done == astatus # Running \/ status \in {1, SigAbrt}
Ended == Done /\ UNCHANGED vars

Next == Summarise \/ ReadFails \/ Hand \/ Check \/ Ended

Spec == Init /\ [][Next]_vars

-----------------------------------------------------------------------------
\* The values the variables may take.
TypeOK ==
  /\ own \in BOOLEAN /\ i \in Nat /\ status \in {SRunning, 0, 1, SigAbrt}
  /\ pc \in {"open", "bfree", "ifree", "inode", "slots"}
  /\ depth \in 0..3 /\ slot \in 1..4
  /\ line \in 0..Len(csv_lines) /\ is_consistent \in BOOLEAN
  /\ apc \in {"read", "links", "blocks", "entries", "inodes", "duplicates", "parents", "exit"}
  /\ astatus \in {Running, 0, 1, 2}
  /\ DOMAIN inode_dict_lr \subseteq DOMAIN inode_dict_ref_lnk_cnt

\* The exit status is right where no known fault of lab3b.py stands in the way: 0 for
\* every consistent summary of 64 blocks with no line it cannot read, and for an
\* inconsistent one only in the three cases that no check of it is about.
VerdictRight == TypeOK /\ VerdictSound /\ VerdictComplete

=============================================================================
