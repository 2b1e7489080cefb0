-------------------------------- MODULE Mkfs ---------------------------------
(***************************************************************************)
(* mkfs.c: the first image of the file system.  A byte of a file is the    *)
(* pair (file, offset); a directory entry takes DESIZE bytes of the root   *)
(* directory.  Sizes are scaled: BSIZE bytes are a block.                  *)
(***************************************************************************)
EXTENDS Naturals, Sequences, FiniteSets, FiniteSetsExt, TLC

CONSTANTS
  BSIZE, NDIRECT, NINDIRECT, IPB, BPB, DESIZE, nlog,
  Geometry,    \* pairs: ninodes, and size in blocks
  FileSize,    \* sizes of the files on the command line
  MaxFiles     \* bound: files on the command line

VARIABLES
  sb,          \* the geometry
  inodes,      \* inodes in use: type, size, addrs
  tables,      \* contents of indirect blocks
  sectors,     \* contents of data blocks
  freeblock, usedblocks, freeinode,
  fault,       \* "none", or what has stopped iappend()
  bitmap       \* the blocks marked in the bitmap; {} until it is written

vars == <<sb, inodes, tables, sectors, freeblock, usedblocks, freeinode, fault, bitmap>>

ROOTINO == 1
MAXFILE == NDIRECT + NINDIRECT + NINDIRECT * NINDIRECT
Hole == <<0, 0>>

bitblocks(g) == g.size \div BPB + 1
firstblock(g) == g.ninodes \div IPB + 3 + bitblocks(g)
nblocks(g) == g.size - firstblock(g) - nlog    \* the assertion on the size
i2b(inum) == inum \div IPB + 2

\* Zeroed contents.
NoTable == [i \in 0 .. NINDIRECT - 1 |-> 0]
NoBytes == [i \in 0 .. BSIZE - 1 |-> Hole]

\* Operators on the image m, a record of inodes .. fault.
ialloc(m, type) ==
  [m EXCEPT !.inodes = @ @@ (m.freeinode :> [type |-> type, size |-> 0, addrs |-> [i \in 0 .. NDIRECT |-> 0]]),
            !.freeinode = @ + 1]

\* Faulty variant: usedblocks is not incremented.
Take_uncounted(m) == [m EXCEPT !.freeblock = @ + 1]

Take(m) == [m EXCEPT !.freeblock = @ + 1, !.usedblocks = @ + 1]

\* iappend(): the block of fbn, taken from freeblock if there is none; first the
\* indirect block, then its entry.
Slot(m, inum, i) ==
  IF m.inodes[inum].addrs[i] # 0 THEN m
  ELSE [Take(m) EXCEPT !.inodes[inum].addrs[i] = m.freeblock]

Entry(m, table, i) ==
  LET old == IF table \in DOMAIN m.tables THEN m.tables[table] ELSE NoTable IN
  IF old[i] # 0 THEN m
  ELSE [Take(m) EXCEPT !.tables = (table :> [old EXCEPT ![i] = m.freeblock]) @@ @]

Map(m, inum, fbn) ==
  IF fbn < NDIRECT THEN Slot(m, inum, fbn)
  ELSE LET s == Slot(m, inum, NDIRECT) IN Entry(s, s.inodes[inum].addrs[NDIRECT], fbn - NDIRECT)

Block(m, inum, fbn) ==
  LET addrs == m.inodes[inum].addrs IN
  IF fbn < NDIRECT THEN addrs[fbn]
  ELSE IF addrs[NDIRECT] = 0 THEN 0 ELSE m.tables[addrs[NDIRECT]][fbn - NDIRECT]

\* The assertion on fbn admits the blocks of the double-indirect table, which
\* iappend() does not have: indirect[fbn - NDIRECT] is then outside of the array.
FaultAt(fbn) ==
  IF fbn >= MAXFILE THEN "assertion failed"
  ELSE IF fbn >= NDIRECT + NINDIRECT THEN "indirect overrun"
  ELSE "none"

\* The loop of iappend(), one block of p[k ..] at a time.  It stops at a fault;
\* what an overrun does is undefined.
RECURSIVE iappend(_, _, _)
iappend(m, inum, p) ==
  IF p = <<>> \/ m.fault # "none" THEN m
  ELSE LET off == m.inodes[inum].size
           fbn == off \div BSIZE
           n1 == Min({Len(p), (fbn + 1) * BSIZE - off})
           mapped == Map(m, inum, fbn)
           x == Block(mapped, inum, fbn)
           old == IF x \in DOMAIN m.sectors THEN m.sectors[x] ELSE NoBytes
           at == off - fbn * BSIZE
           new == [i \in DOMAIN old |-> IF i \in at .. at + n1 - 1 THEN p[i - at + 1] ELSE old[i]]
       IN  IF FaultAt(fbn) # "none" THEN [m EXCEPT !.fault = FaultAt(fbn)]
           ELSE iappend([mapped EXCEPT !.sectors = (x :> new) @@ @, !.inodes[inum].size = off + n1],
                        inum, SubSeq(p, n1 + 1, Len(p)))

\* Bytes from..to of a file.
Bytes(inum, from, to) == [i \in 1 .. to - from + 1 |-> <<inum, from + i - 1>>]
De(m) == Bytes(ROOTINO, m.inodes[ROOTINO].size, m.inodes[ROOTINO].size + DESIZE - 1)

\* The contents are appended in pieces of a block.
RECURSIVE Copied(_, _, _, _)
Copied(m, inum, from, sz) ==
  IF from >= sz THEN m
  ELSE LET to == Min({from + BSIZE, sz}) - 1 IN
       Copied(iappend(m, inum, Bytes(inum, from, to)), inum, to + 1, sz)

Image == [inodes |-> inodes, tables |-> tables, sectors |-> sectors,
          freeblock |-> freeblock, usedblocks |-> usedblocks, freeinode |-> freeinode, fault |-> fault]

Set(m) ==
  /\ inodes' = m.inodes /\ tables' = m.tables /\ sectors' = m.sectors
  /\ freeblock' = m.freeblock /\ usedblocks' = m.usedblocks /\ freeinode' = m.freeinode
  /\ fault' = m.fault
-----------------------------------------------------------------------------
\* main(): the super block and the root directory with "." and "..".
Init ==
  /\ sb \in {[ninodes |-> g[1], size |-> g[2]] : g \in Geometry}
  /\ LET empty == [inodes |-> <<>>, tables |-> <<>>, sectors |-> <<>>, freeblock |-> firstblock(sb),
                   usedblocks |-> firstblock(sb), freeinode |-> ROOTINO, fault |-> "none"]
         root == ialloc(empty, "dir")
         dot == iappend(root, ROOTINO, De(root))
         m == iappend(dot, ROOTINO, De(dot))
     IN  /\ inodes = m.inodes /\ tables = m.tables /\ sectors = m.sectors
         /\ freeblock = m.freeblock /\ usedblocks = m.usedblocks /\ freeinode = m.freeinode
         /\ fault = m.fault
  /\ bitmap = {}

\* main(): a file of the command line.
addfile(sz) ==
  /\ bitmap = {} /\ fault = "none" /\ freeinode - ROOTINO <= MaxFiles
  /\ LET new == ialloc(Image, "file")
         named == iappend(new, ROOTINO, De(new)) IN
     Set(Copied(named, freeinode, 0, sz))
  /\ UNCHANGED <<sb, bitmap>>

\* main(): fix the size of the root directory, and write the bitmap.
Rounded(sz) == (sz \div BSIZE + 1) * BSIZE

balloc(used) == 0 .. used - 1

\* The assertion of balloc(): it writes one block of the bitmap.
finish ==
  /\ bitmap = {} /\ fault = "none" /\ usedblocks < BPB
  /\ inodes' = [inodes EXCEPT ![ROOTINO].size = Rounded(@)]
  /\ bitmap' = balloc(usedblocks)
  /\ UNCHANGED <<sb, tables, sectors, freeblock, usedblocks, freeinode, fault>>

Next == (\E sz \in FileSize : addfile(sz)) \/ finish

Spec == Init /\ [][Next]_vars
-----------------------------------------------------------------------------
(***************************************************************************)
(* Properties.                                                             *)
(***************************************************************************)

\* The blocks of a file, its indirect block included; 0 if one is missing.
Blocks(inum) ==
  LET d == inodes[inum]
      n == (d.size + BSIZE - 1) \div BSIZE IN
  {Block(Image, inum, fbn) : fbn \in 0 .. n - 1}
    \cup (IF n > NDIRECT THEN {d.addrs[NDIRECT]} ELSE {})

\* The entries of the root directory fill its last block: rounded up, its size
\* is a block longer than what iappend() gave it.
RootIsFull == (Cardinality(DOMAIN inodes) + 1) * DESIZE % BSIZE = 0

\* mkfs does not compare what it takes with the data blocks there are.
FilesFit == freeblock <= firstblock(sb) + nblocks(sb)

\* The image the kernel mounts, if every file has at most NDIRECT + NINDIRECT
\* blocks (a longer one overruns iappend()'s table, and no image is claimed)
\* and all fit in the data blocks: the bitmap marks the blocks before the data
\* and the blocks of the files, and no others; no block is in two files, and none
\* is in the log; inode blocks, bitmap and data do not overlap, however many
\* inodes and blocks there are; every file reads as what was copied; and no file
\* has a hole, but for the root directory if it is full.
ImageIsConsistent ==
  bitmap # {} /\ FilesFit =>
    LET first == firstblock(sb)
        owned(i) == Blocks(i) \ {0}
        len(i) == IF i = ROOTINO THEN (Cardinality(DOMAIN inodes) + 1) * DESIZE ELSE inodes[i].size
        read(i, off) == sectors[Block(Image, i, off \div BSIZE)][off % BSIZE] IN
    /\ bitmap = (0 .. first - 1) \cup UNION {owned(i) : i \in DOMAIN inodes}
    /\ \A i \in DOMAIN inodes :
         /\ owned(i) \subseteq first .. first + nblocks(sb) - 1
         /\ \A j \in DOMAIN inodes \ {i} : owned(i) \cap owned(j) = {}
         /\ 0 \in Blocks(i) => i = ROOTINO /\ RootIsFull
         /\ \A off \in 0 .. len(i) - 1 : read(i, off) = <<i, off>>
    /\ i2b(sb.ninodes) < sb.ninodes \div IPB + 3
    /\ (sb.size - 1) \div BPB + sb.ninodes \div IPB + 3 < first
=============================================================================
