-------------------------------- MODULE FsAudit --------------------------------
(***************************************************************************)
(* CS111 project 3b: lab3b.py reads the summary of a file system, one      *)
(* record per line, into dictionaries, then scans these for                *)
(* inconsistencies and exits with 0 (none) or 2.  An exception ends it     *)
(* with 1.  A line is a record with the fields the script uses.            *)
(***************************************************************************)
EXTENDS Integers, Sequences, SequencesExt

VARIABLES
  csv_lines, line,          \* the summary, and the number of lines read
  superblock,               \* None, or the counts of blocks and inodes
  ifree, bfree,
  block_dict,               \* block -> how often it is referenced
  inode_dict_lnk_cnt,       \* inode -> link count in its INODE line
  inode_dict_ref_lnk_cnt,   \* inode -> directory entries that name it
  inode_dict_lr,            \* inode -> the directory that names it
  inode_dict_parents,       \* directory -> where its '..' leads
  is_consistent,
  found,                    \* the inconsistencies printed
  apc, astatus

dicts == <<superblock, ifree, bfree, block_dict, inode_dict_lnk_cnt,
           inode_dict_ref_lnk_cnt, inode_dict_lr, inode_dict_parents>>
avars == <<csv_lines, line, dicts, is_consistent, found, apc, astatus>>

Running == -1
None    == [blk_cnt |-> -1, ino_cnt |-> -1]
Empty   == [n \in {} |-> 0]

reserved_blocks == 0..7 \cup {64}
reserved_inodes == 1..10

AuditInit ==
  /\ line = 0 /\ superblock = None /\ ifree = {} /\ bfree = {}
  /\ block_dict = Empty /\ inode_dict_lnk_cnt = Empty
  /\ inode_dict_ref_lnk_cnt = Empty /\ inode_dict_lr = Empty
  /\ inode_dict_parents = Empty
  /\ is_consistent = TRUE /\ found = {} /\ apc = "read" /\ astatus = Running

-----------------------------------------------------------------------------
\* Reading the lines

\* An uncaught exception: ValueError, IndexError, NameError.
Raises == astatus' = 1 /\ UNCHANGED <<csv_lines, line, dicts, is_consistent, found, apc>>

\* A dictionary with one more entry, or another value, for n; and with n counted.
Mapped(d, n, v) == [m \in DOMAIN d \cup {n} |-> IF m = n THEN v ELSE d[m]]
Counted(d, n)   == Mapped(d, n, (IF n \in DOMAIN d THEN d[n] ELSE 0) + 1)

\* What is printed about a block address, and how it is counted.
BadBlock(b) ==
  (IF b < 0 \/ b > superblock.blk_cnt THEN {<<"INVALID", b>>} ELSE {})
  \cup (IF b \in reserved_blocks \ {0} THEN {<<"RESERVED", b>>} ELSE {})

\* block_dict after the addresses in the function a: how often each is referenced.
Referenced(d, a) ==
  [b \in DOMAIN d \cup (Range(a) \ (reserved_blocks \ {0})) |->
     (IF b \in DOMAIN d THEN d[b] ELSE 0) + Cardinality({k \in DOMAIN a : a[k] = b})]

Superblock(r) ==
  /\ r.type = "SUPERBLOCK"
  /\ superblock' = [blk_cnt |-> r.blk_cnt, ino_cnt |-> r.ino_cnt]
  /\ UNCHANGED <<ifree, bfree, block_dict, inode_dict_lnk_cnt, inode_dict_ref_lnk_cnt,
                 inode_dict_lr, inode_dict_parents, is_consistent, found>>

\* The lines of one free list follow one another and are taken as one.
Free(r) ==
  /\ \/ r.type = "IFREE" /\ ifree' = ifree \cup r.nums /\ UNCHANGED bfree
     \/ r.type = "BFREE" /\ bfree' = bfree \cup r.nums /\ UNCHANGED ifree
  /\ UNCHANGED <<superblock, block_dict, inode_dict_lnk_cnt, inode_dict_ref_lnk_cnt,
                 inode_dict_lr, inode_dict_parents, is_consistent, found>>

\* The addresses of an INODE line that are not zero, by their index.
Addresses(r) == [k \in {k \in DOMAIN r.blk_addrs : r.blk_addrs[k] # 0} |-> r.blk_addrs[k]]

Inode(r) ==
  /\ r.type = "INODE"
  /\ inode_dict_lnk_cnt' = Mapped(inode_dict_lnk_cnt, r.num, r.link_cnt)
  /\ LET bad == UNION {BadBlock(b) : b \in Range(Addresses(r))} IN
     /\ found' = found \cup bad
     /\ is_consistent' = (is_consistent /\ bad = {})
  /\ block_dict' = Referenced(block_dict, Addresses(r))
  /\ UNCHANGED <<superblock, ifree, bfree, inode_dict_ref_lnk_cnt, inode_dict_lr,
                 inode_dict_parents>>

Indirect(r) ==
  /\ r.type = "INDIRECT"
  /\ found' = found \cup BadBlock(r.block)
  /\ is_consistent' = (is_consistent /\ BadBlock(r.block) = {})
  /\ block_dict' = Referenced(block_dict, <<r.block>>)
  /\ UNCHANGED <<superblock, ifree, bfree, inode_dict_lnk_cnt, inode_dict_ref_lnk_cnt,
                 inode_dict_lr, inode_dict_parents>>

Dirent(r) ==
  /\ r.type = "DIRENT"
  /\ LET bad  == r.num < 1 \/ r.num > superblock.ino_cnt
         self == ~bad /\ r.name = "." /\ r.num # r.parent
     IN
     /\ found' = found \cup (IF bad THEN {<<"ENTRY", r.num>>} ELSE {})
                       \cup (IF self THEN {<<"SELF", r.parent>>} ELSE {})
     /\ is_consistent' = (is_consistent /\ ~bad /\ ~self)
     /\ inode_dict_ref_lnk_cnt' = Counted(inode_dict_ref_lnk_cnt, r.num)
     /\ inode_dict_parents' = IF ~bad /\ r.name = ".."
                              THEN Mapped(inode_dict_parents, r.parent, r.num)
                              ELSE inode_dict_parents
     /\ inode_dict_lr' = IF ~bad /\ r.name \notin {".", ".."}
                         THEN Mapped(inode_dict_lr, r.num, r.parent) ELSE inode_dict_lr
  /\ UNCHANGED <<superblock, ifree, bfree, block_dict, inode_dict_lnk_cnt>>

\* Lines of any other type are skipped.
Other(r) ==
  /\ r.type \notin {"SUPERBLOCK", "IFREE", "BFREE", "INODE", "INDIRECT", "DIRENT"}
  /\ UNCHANGED <<dicts, is_consistent, found>>

\* The fields of an INODE line are where int() expects them, and there are fifteen
\* addresses: a comma inside a date moves them, a short symbolic link has none.
Malformed(r) == r.type = "INODE" /\ (r.dates # "plain" \/ Len(r.blk_addrs) < 15)

ReadLine ==
  /\ apc = "read" /\ line < Len(csv_lines)
  /\ LET r == csv_lines[line + 1] IN
     \/ /\ Malformed(r) /\ Raises
     \/ /\ ~Malformed(r)
        /\ Superblock(r) \/ Free(r) \/ Inode(r) \/ Indirect(r) \/ Dirent(r) \/ Other(r)
        /\ line' = line + 1
        /\ UNCHANGED <<csv_lines, apc, astatus>>

LinesDone ==
  /\ apc = "read" /\ line = Len(csv_lines)
  /\ apc' = "links"
  /\ UNCHANGED <<csv_lines, line, dicts, is_consistent, found, astatus>>

-----------------------------------------------------------------------------
\* The scans.  Each prints what it finds and goes on to the next.

Scanned(problems, next) ==
  /\ found' = found \cup problems
  /\ is_consistent' = (is_consistent /\ problems = {})
  /\ apc' = next
  /\ UNCHANGED <<csv_lines, line, dicts, astatus>>

Links(ino) == IF ino \in DOMAIN inode_dict_ref_lnk_cnt
              THEN inode_dict_ref_lnk_cnt[ino] ELSE 0

\* The message about a wrong link count needs the name linkcount, which is not
\* defined: the first wrong count is an exception.
ScanLinks ==
  /\ apc = "links"
  /\ IF \A ino \in DOMAIN inode_dict_lnk_cnt : inode_dict_lnk_cnt[ino] = Links(ino)
     THEN Scanned({}, "blocks") ELSE Raises

\* Mutant of ScanBlocks: a block on the free list is not looked up.
ScanBlocksUnused ==
  /\ apc = "blocks"
  /\ Scanned({<<"UNREFERENCED", b>> : b \in {b \in 1..superblock.blk_cnt :
                b \notin bfree /\ b \notin DOMAIN block_dict /\ b \notin reserved_blocks}},
             "entries")

ScanBlocks ==
  /\ apc = "blocks"
  /\ Scanned({<<"ALLOCATED", b>> : b \in {b \in 1..superblock.blk_cnt :
                b \in bfree /\ b \in DOMAIN block_dict}}
             \cup {<<"UNREFERENCED", b>> : b \in {b \in 1..superblock.blk_cnt :
                b \notin bfree /\ b \notin DOMAIN block_dict /\ b \notin reserved_blocks}},
             "entries")

\* An entry for an inode on the free list is an exception too: x is not defined.
ScanEntries ==
  /\ apc = "entries"
  /\ IF \E ino \in DOMAIN inode_dict_ref_lnk_cnt : ino \in ifree /\ ino \in DOMAIN inode_dict_lr
     THEN Raises ELSE Scanned({}, "inodes")

ScanInodes ==
  /\ apc = "inodes"
  /\ LET all     == 1..superblock.ino_cnt
         missing == {n \in all : /\ n \notin ifree /\ n \notin DOMAIN inode_dict_lnk_cnt
                                 /\ n \notin DOMAIN inode_dict_lr /\ n \notin reserved_inodes}
         used    == {n \in all : n \in DOMAIN inode_dict_lnk_cnt /\ n \in ifree}
     IN  Scanned({<<"NOT FREE", n>> : n \in missing} \cup {<<"FREE", n>> : n \in used},
                 "duplicates")

\* So is a block that is referenced twice: block is not defined.
ScanDuplicates ==
  /\ apc = "duplicates"
  /\ IF \E b \in DOMAIN block_dict : block_dict[b] > 1 THEN Raises ELSE Scanned({}, "parents")

ScanParents ==
  /\ apc = "parents"
  /\ LET wrong(p) == IF p = 2 THEN inode_dict_parents[p] # 2
                     ELSE \/ p \notin DOMAIN inode_dict_lr
                          \/ inode_dict_parents[p] # inode_dict_lr[p]
     IN  Scanned({<<"PARENT", p>> : p \in {p \in DOMAIN inode_dict_parents : wrong(p)}}, "exit")

AuditExit ==
  /\ apc = "exit"
  /\ astatus' = IF is_consistent THEN 0 ELSE 2
  /\ UNCHANGED <<csv_lines, line, dicts, is_consistent, found, apc>>

Audit ==
  /\ astatus = Running
  /\ \/ ReadLine \/ LinesDone \/ ScanLinks \/ ScanBlocks \/ ScanEntries \/ ScanInodes
     \/ ScanDuplicates \/ ScanParents \/ AuditExit

-----------------------------------------------------------------------------
\* What a consistent file system is, said of the lines of its summary.

Lines(t)   == {j \in DOMAIN csv_lines : csv_lines[j].type = t}
BlockCount == superblock.blk_cnt
Inodes     == {csv_lines[j].num : j \in Lines("INODE")}
Entries    == Lines("DIRENT")
FreeBlocks == UNION {csv_lines[j].nums : j \in Lines("BFREE")}
FreeInodes == UNION {csv_lines[j].nums : j \in Lines("IFREE")}

\* The places that hold a block address: an index of an INODE line, or an INDIRECT line.
Refs(b) == {r \in Lines("INODE") \X (1..15) :
              LET addrs == csv_lines[r[1]].blk_addrs IN r[2] \in DOMAIN addrs /\ addrs[r[2]] = b}
           \cup {<<j, 0>> : j \in {j \in Lines("INDIRECT") : csv_lines[j].block = b}}
Used == {b \in (UNION {ToSet(csv_lines[j].blk_addrs) : j \in Lines("INODE")})
             \cup {csv_lines[j].block : j \in Lines("INDIRECT")} : b # 0}

BlocksConsistent ==
  /\ \A b \in Used : 0 < b /\ b < BlockCount /\ b \notin reserved_blocks
  /\ \A b, c \in Used : \A r \in Refs(b), s \in Refs(c) : b = c => r = s
  /\ \A b \in 1..(BlockCount - 1) \ reserved_blocks : b \in FreeBlocks <=> b \notin Used

\* The directories that name directory p; the root is its own parent.
Namers(p) == IF p = 2 THEN {2}
             ELSE {csv_lines[m].parent : m \in {m \in Entries :
                     csv_lines[m].name \notin {".", ".."} /\ csv_lines[m].num = p}}

EntriesConsistent ==
  /\ \A j \in Lines("INODE") :
       csv_lines[j].link_cnt = Cardinality({m \in Entries : csv_lines[m].num = csv_lines[j].num})
  /\ \A j \in Entries : csv_lines[j].num \in 1..superblock.ino_cnt
  /\ \A j \in Entries : csv_lines[j].name = "." => csv_lines[j].num = csv_lines[j].parent
  /\ \A j \in Entries : csv_lines[j].name = ".." =>
       Namers(csv_lines[j].parent) = {csv_lines[j].num}

InodesConsistent ==
  /\ \A n \in 1..superblock.ino_cnt \ reserved_inodes : n \in FreeInodes <=> n \notin Inodes
  /\ FreeInodes \cap Inodes = {}
  /\ \A j \in Entries : csv_lines[j].name \notin {".", ".."} => csv_lines[j].num \notin FreeInodes

Consistent == BlocksConsistent /\ EntriesConsistent /\ InodesConsistent

\* An inode that a directory names, that has no INODE line and is not free: the scan
\* of the inodes leaves it to the scan of the entries, which looks at free ones only.
Phantom == \E j \in Entries : /\ csv_lines[j].name \notin {".", ".."}
                              /\ csv_lines[j].num \in 1..superblock.ino_cnt
                              /\ csv_lines[j].num \notin Inodes \cup FreeInodes

\* A block with the number of the block count, one more than the last, passes for one
\* of the file system; of two directories that name a third only the later is kept.
PastTheEnd == BlockCount \in Used \ reserved_blocks
NamedTwice == \E j, m \in Entries : j < m /\ csv_lines[j].num = csv_lines[m].num
                /\ csv_lines[j].parent # csv_lines[m].parent
                /\ {csv_lines[j].name, csv_lines[m].name} \cap {".", ".."} = {}

\* Exit status 0 is only given to a consistent file system, but for these three: the
\* script's own checks never let another inconsistency pass.
VerdictSound == astatus = 0 => Consistent \/ Phantom \/ PastTheEnd \/ NamedTwice

\* No line is one that ends the script with an exception while it reads.
Readable == \A j \in DOMAIN csv_lines : ~Malformed(csv_lines[j])

\* A consistent file system with the 64 blocks of the course's image, and no short
\* symbolic link, is found consistent: the checks made while reading and the six scans
\* agree on what is in use.
VerdictComplete ==
  astatus # Running /\ BlockCount = 64 /\ Consistent /\ Readable => astatus = 0

\* The same of any number of blocks, as lab3b.py:264 has it: "check for unreferenced
\* and misallocated blocks", of the blocks that there are.
ConsistentPasses == astatus # Running /\ Consistent /\ Readable => astatus = 0
=============================================================================
