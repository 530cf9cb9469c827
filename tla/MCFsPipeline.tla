----------------------------- MODULE MCFsPipeline -----------------------------
(***************************************************************************)
(* FsPipeline for TLC: a root directory with block 8, one file (11), one   *)
(* directory (12), and the lines and bits about them right or wrong.       *)
(***************************************************************************)
EXTENDS FsPipeline

Addrs(f) == [k \in 1..15 |-> IF k \in DOMAIN f THEN f[k] ELSE 0]

InodeRow(n, links, addrs) ==
  [type |-> "INODE", num |-> n, link_cnt |-> links, blk_addrs |-> addrs, dates |-> "plain"]
Entry(p, name, n) == [type |-> "DIRENT", parent |-> p, name |-> name, num |-> n]
Ind(n, b) == [type |-> "INDIRECT", num |-> n, block |-> b]

\* The lines about the file: none, with a good or a bad address, with an indirect
\* block, or a short symbolic link.
FileRows ==
  {<<>>, <<InodeRow(11, 1, <<>>)>>}
  \cup {<<InodeRow(11, l, Addrs(<<b>>))>> : l \in {1, 2}, b \in {9, 8, 5, 10, 65, -1}}
  \cup {<<InodeRow(11, 1, Addrs(9 :> 9 @@ (13 :> 8))), Ind(11, b)>> : b \in {10, 9}}

\* The lines about the directory: none, or with '..' right, to the file, or to itself.
DirRows == {<<>>} \cup {<<InodeRow(12, l, Addrs(<<>>)), Entry(12, ".", 12), Entry(12, "..", p)>> :
                           l \in {1, 2}, p \in {2, 12}}

RootRows(l) == <<InodeRow(2, l, Addrs(<<8>>)), Entry(2, ".", 2)>>

Named == {<<>>, <<Entry(2, "f", 11)>>, <<Entry(2, "f", 13)>>, <<Entry(2, "d", 12)>>,
          <<Entry(2, "f", 11), Entry(2, "d", 12)>>,
          <<Entry(2, "f", 11), Entry(12, "g", 11)>>}

Super(n) == <<[type |-> "SUPERBLOCK", blk_cnt |-> n, ino_cnt |-> 12]>>
Bits(t, s) == <<[type |-> t, nums |-> s]>>

MCSummaries ==
  {Super(64) \o Bits("BFREE", bs) \o Bits("IFREE", is) \o RootRows(l)
     \o <<Entry(2, "..", up)>> \o names \o f \o d :
     bs \in {10..63, 9..63, 11..63}, is \in SUBSET {11, 12}, l \in {2, 3},
     up \in {2, 12}, names \in Named, f \in FileRows, d \in DirRows}
  \cup {Super(10) \o Bits("BFREE", {}) \o Bits("IFREE", {12}) \o RootRows(2)
          \o <<Entry(2, "..", 2)>> \o <<Entry(2, "f", 11)>>
          \o <<InodeRow(11, 1, Addrs(a))>> : a \in {<<9>>, <<9, 10>>}}

-----------------------------------------------------------------------------
Node(mode, links, addrs) ==
  [mode |-> mode, links |-> links, i_block |-> Addrs(addrs), long |-> FALSE]
NoNode == Node("0", 0, <<>>)

\* Twelve blocks and inodes on bitmaps of three bytes; a table without files, and two
\* with a directory and a file with indirect blocks, one with a short link as well;
\* indirect blocks with one pointer, or one of them with two.
Table(link) == [n \in 1..12 |->
                  CASE n = 2  -> Node("d", 2, <<8, 9>>)
                    [] n = 11 -> Node("f", 1, 1 :> 10 @@ (13 :> 3) @@ (14 :> 4) @@ (15 :> 6))
                    [] n = 12 -> link
                    [] OTHER  -> NoNode]
Tables == {[n \in 1..12 |-> NoNode], Table(NoNode), Table(Node("s", 1, 13 :> 77))}

MCImages ==
  {[blocks |-> 12, inodes |-> 12, blocks_pg |-> 12, inodes_pg |-> 12, bzeros |-> bz, bfree_told |-> told, izeros |-> {7, 16},
    ifree_told |-> 1, table |-> t,
    dirs |-> (8 :> <<[inode |-> 2, name |-> "."], [inode |-> 0, name |-> "x"],
                     [inode |-> 2, name |-> ".."]>>) @@ (9 :> <<[inode |-> 11, name |-> "f"]>>),
    inds |-> (3 :> <<9, second>>) @@ (4 :> <<5, 0>>) @@ (5 :> <<10, 0>>) @@ (6 :> <<7, 0>>)
               @@ (7 :> <<1, 0>>) @@ (1 :> <<11, 0>>)] :
     second \in {0, 2}, bz \in {{}, {5, 9}, {12, 13}, {3, 12, 20}}, told \in {0, 1, 2, 3}, t \in Tables}

MCJunk == {<< <<0, 0>>, <<0, 0>>, <<0, 0>> >>, << <<5, 0>>, <<7, 0>>, <<1, 0>> >>,
           << <<0, 8>>, <<0, 0>>, <<0, 3>> >>}
=============================================================================
