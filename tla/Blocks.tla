------------------------------- MODULE Blocks -------------------------------
(***************************************************************************)
(* fs.c: block allocation, the direct, indirect and double-indirect block  *)
(* map, truncation, and the tags block, with the inode cache entries that  *)
(* hold an inode while it is in use, and what sys_symlink() (sysfile.c)    *)
(* does to an inode's block map.  These run with the inode locked and      *)
(* inside a transaction, so an operation is one step.                      *)
(***************************************************************************)
EXTENDS Naturals, Sequences, FiniteSets, FiniteSetsExt, Functions

CONSTANTS
  NDIRECT, NINDIRECT,  \* fs.h
  nblocks,             \* sb.nblocks: data blocks 1 .. nblocks
  nlog,                \* sb.nlog: the blocks of the log, up to sb.size
  ninodes,             \* sb.ninodes: inodes 1 .. ninodes
  NINODE,              \* inode cache entries
  Value,               \* what a caller writes into a block
  Key,                 \* tag keys
  TAGS,                \* 40-byte entries in the tags block
  MaxTags,             \* bound: tags_counter
  MaxOpen,             \* bound: inodes in use, links not counted
  MaxGets              \* bound: calls of iget()

ASSUME BlocksAssumption ==
  /\ {NDIRECT, NINDIRECT, nblocks, nlog, ninodes, NINODE, TAGS, MaxTags, MaxOpen, MaxGets} \subseteq Nat
  /\ 0 \notin Key

VARIABLES
  bitmap,    \* allocated blocks; mkfs marks none of the log
  ptr,       \* blocks as tables of block numbers
  val,       \* blocks as file data: file, offset and value written, zeros after bzero
  tag,       \* blocks as tables of tag keys, 0 for an empty entry
  dinode,    \* disk inodes
  inode,     \* icache.inode[]: inum (0 if ref is 0), I_SYMLNK, copy d of the disk inode
  stuck,     \* blocks whose buffer itrunc() has left B_BUSY
  tagblocks, \* history: blocks that fs_ftag() has allocated
  lost,      \* history: blocks whose addresses sys_symlink() has overwritten
  gets,      \* calls of iget() so far
  panic      \* "none" or why the model stops: a panic, or what is undefined after it

vars == <<bitmap, ptr, val, tag, dinode, inode, stuck, tagblocks, lost, gets, panic>>
hist == <<tagblocks, lost>>

DINDIRECT == NINDIRECT * NINDIRECT
MAXFILE == NDIRECT + NINDIRECT + DINDIRECT

Block == 1 .. (nblocks + nlog)    \* up to sb.size
LogBlock == (nblocks + 1) .. (nblocks + nlog)
Inum == 1 .. ninodes
Slot == 1 .. NINODE
Addr == 0 .. (NDIRECT + 1)

Written == [of : Inum, at : 0 .. (MAXFILE - 1), v : Value]
NoAddrs == [a \in Addr |-> 0]
Target == [a \in Addr |-> nblocks + nlog + 1]    \* characters, not block numbers
ZeroPtr == [k \in 0 .. (NINDIRECT - 1) |-> 0]
ZeroVal == [of |-> 0, at |-> 0, v |-> 0]
ZeroTag == [k \in 0 .. (TAGS - 1) |-> 0]

FreeInode == [type |-> 0, size |-> 0, addrs |-> NoAddrs, tags |-> 0, tags_counter |-> 0]

Init ==
  /\ bitmap = {}
  /\ ptr = [b \in Block |-> ZeroPtr]
  /\ val = [b \in Block |-> ZeroVal]
  /\ tag = [b \in Block |-> ZeroTag]
  /\ dinode = [i \in Inum |-> FreeInode]
  /\ inode = [s \in Slot |-> [inum |-> 0, sym |-> FALSE, d |-> FreeInode]]
  /\ stuck = {}
  /\ tagblocks = {} /\ lost = {}
  /\ gets = 0
  /\ panic = "none"
-----------------------------------------------------------------------------
\* The state bmap() works on: ip->addrs, the blocks, the bitmap.
Map(s) == [addrs |-> inode[s].d.addrs, ptr |-> ptr, val |-> val, tag |-> tag, used |-> bitmap]

\* balloc(): the first free block below sb.size, zeroed by bzero().
FirstFree(m) == Min(Block \ m.used)

\* Faulty variant: no bzero().
balloc_dirty(m) == [m EXCEPT !.used = @ \cup {FirstFree(m)}]

balloc(m) ==
  LET b == FirstFree(m) IN
  [m EXCEPT !.used = @ \cup {b}, !.ptr[b] = ZeroPtr, !.val[b] = ZeroVal, !.tag[b] = ZeroTag]

\* The indices bmap() uses for block bn: in ip->addrs, then in each table.
Path(bn) ==
  LET i == bn - NDIRECT
      d == i - NINDIRECT IN
  IF bn < NDIRECT THEN <<bn>>
  ELSE IF i < NINDIRECT THEN <<NDIRECT, i>>
  ELSE <<NDIRECT + 1, d \div NINDIRECT, d % NINDIRECT>>

\* The entry at index k of ip->addrs (of = 0) or of the table in block of.
Entry(m, of, k) == IF of = 0 THEN m.addrs[k] ELSE m.ptr[of][k]

\* "if((addr = a[k]) == 0) a[k] = addr = balloc(ip->dev);"
Fill(m, of, k) ==
  IF Entry(m, of, k) # 0 THEN m
  ELSE IF of = 0 THEN [balloc(m) EXCEPT !.addrs[k] = FirstFree(m)]
  ELSE [balloc(m) EXCEPT !.ptr[of][k] = FirstFree(m)]

\* bmap(ip, bn): the map with every level present, and the block number.
bmap(m, bn) ==
  LET f[k \in 0 .. Len(Path(bn))] ==
        IF k = 0 THEN [map |-> m, addr |-> 0]
        ELSE LET up == f[k - 1]
                 filled == Fill(up.map, up.addr, Path(bn)[k])
             IN  [map |-> filled, addr |-> Entry(filled, up.addr, Path(bn)[k])]
  IN  f[Len(Path(bn))]

\* The blocks on the path to bn, one per level, 0 where there is none yet.
Levels(addrs, bn) ==
  LET path == Path(bn)
      f[k \in 1 .. Len(path)] ==
        IF k = 1 THEN addrs[path[1]]
        ELSE IF f[k - 1] = 0 THEN 0 ELSE ptr[f[k - 1]][path[k]]
  IN  f

\* The data block of bn.
Lookup(addrs, bn) == LET f == Levels(addrs, bn) IN f[Len(f)]

\* The blocks bmap() would have to allocate for bn.
Missing(addrs, bn) ==
  LET f == Levels(addrs, bn) IN Cardinality({k \in DOMAIN f : f[k] = 0})
-----------------------------------------------------------------------------
Running == panic = "none"

Panic(why) == panic' = why /\ UNCHANGED <<bitmap, ptr, val, tag, dinode, inode, stuck, hist, gets>>

\* The blocks that n calls of balloc() hand out, fewer if it panics.
Free == Block \ bitmap
Taken(n) == {b \in Free : Cardinality({c \in Free : c < b}) < n}

\* How n calls of balloc() end.  bzero() sleeps for ever on a buffer that was
\* never released.  Once a block of the log is in use, this and every later
\* commit overwrites it, and a replay reads it: the rest is undefined.
Allocates(n) ==
  IF Taken(n) \cap stuck # {} THEN "asleep in bget"
  ELSE IF Cardinality(Free) < n THEN "balloc: out of blocks"
  ELSE IF Taken(n) \cap LogBlock # {} THEN "log in use"
  ELSE "none"
Fails(n) == Allocates(n) \in {"asleep in bget", "balloc: out of blocks"}

Holds(s, i) == inode[s].inum = i
Cached(i) == \E s \in Slot : Holds(s, i)

\* iget() of an inode that is not cached takes the first unused entry.
Recyclable(s) ==
  /\ inode[s].inum = 0
  /\ \A t \in Slot : t < s => inode[t].inum # 0
  /\ Cardinality({t \in Slot : inode[t].inum # 0 /\ ~inode[t].sym}) < MaxOpen
  /\ gets < MaxGets

\* iget(i); ilock(ip): everything but tags and tags_counter is read from disk.
\* What the entry had there stays.
ilock(s, di) == [di EXCEPT !.tags = inode[s].d.tags, !.tags_counter = inode[s].d.tags_counter]

\* ialloc(): the first free inode, zeroed on disk; then create() calls
\* iget(), ilock() and iupdate().
create(s) ==
  /\ Running
  /\ Recyclable(s)
  /\ LET free == {i \in Inum : dinode[i].type = 0}
         d == ilock(s, [FreeInode EXCEPT !.type = 1]) IN
       IF free = {} THEN Panic("ialloc: no inodes")
       ELSE /\ inode' = [inode EXCEPT ![s] = [inum |-> Min(free), sym |-> FALSE, d |-> d]]
            /\ dinode' = [dinode EXCEPT ![Min(free)] = d]
            /\ gets' = gets + 1
            /\ UNCHANGED <<bitmap, ptr, val, tag, stuck, hist, panic>>

\* iget(); ilock() of a file that is not cached.
open(s, i) ==
  /\ Running
  /\ Recyclable(s) /\ gets' = gets + 1
  /\ dinode[i].type # 0 /\ ~Cached(i)
  /\ inode' = [inode EXCEPT ![s] = [inum |-> i, sym |-> FALSE, d |-> ilock(s, dinode[i])]]
  /\ UNCHANGED <<bitmap, ptr, val, tag, dinode, stuck, hist, panic>>

\* The entry after the last iput(): it may be recycled.
Recycled(s) == [inum |-> 0, sym |-> FALSE, d |-> ilock(s, FreeInode)]

\* An iput() can drop the last reference: sys_symlink() keeps its own for ever.
LastPut(s) == inode[s].inum # 0 /\ ~inode[s].sym

\* The last iput() of a linked file.
close(s) ==
  /\ Running
  /\ LastPut(s)
  /\ inode' = [inode EXCEPT ![s] = Recycled(s)]
  /\ UNCHANGED <<bitmap, ptr, val, tag, dinode, stuck, hist, gets, panic>>

\* writei() of one block at block offset bn, at most the size.  A descriptor
\* from before sys_symlink() makes bmap() take the target for block numbers.
writei(s, bn, v) ==
  /\ Running
  /\ inode[s].inum # 0
  /\ bn <= inode[s].d.size /\ bn < MAXFILE
  /\ IF inode[s].sym THEN Panic("target as block number")
     ELSE IF Fails(Missing(inode[s].d.addrs, bn)) THEN Panic(Allocates(Missing(inode[s].d.addrs, bn)))
     ELSE LET r == bmap(Map(s), bn)
              d == [inode[s].d EXCEPT !.addrs = r.map.addrs,
                                      !.size = IF bn = @ THEN @ + 1 ELSE @] IN
            /\ bitmap' = r.map.used
            /\ ptr' = r.map.ptr
            /\ val' = [r.map.val EXCEPT ![r.addr] = [of |-> inode[s].inum, at |-> bn, v |-> v]]
            /\ tag' = r.map.tag
            /\ inode' = [inode EXCEPT ![s].d = d]
            /\ dinode' = IF d.size # inode[s].d.size
                         THEN [dinode EXCEPT ![inode[s].inum] = d] ELSE dinode
            /\ panic' = Allocates(Missing(inode[s].d.addrs, bn))
            /\ UNCHANGED <<stuck, hist, gets>>

NonZero(S) == S \ {0}
Children(b) == NonZero({ptr[b][k] : k \in DOMAIN ptr[b]})

\* Faulty variant: the second level of the double-indirect block is leaked.
Truncated_single(addrs) ==
  LET top == NonZero(Range(addrs)) IN
  top \cup UNION {Children(b) : b \in NonZero({addrs[NDIRECT], addrs[NDIRECT + 1]})}

\* The blocks itrunc() frees: direct, indirect with its table, and the table
\* of tables with all of them.
Truncated(addrs) ==
  LET direct == NonZero({addrs[a] : a \in 0 .. (NDIRECT - 1)})
      ind == NonZero({addrs[NDIRECT]})
      dind == NonZero({addrs[NDIRECT + 1]})
      mid == UNION {Children(b) : b \in dind} IN
  direct \cup ind \cup UNION {Children(b) : b \in ind}
    \cup dind \cup mid \cup UNION {Children(b) : b \in mid}

\* What itrunc() gives back: nothing for a symbolic link, whose addrs are no
\* block numbers.  (The branch is never reached: see LastPut.)
Freed(s) == IF inode[s].sym THEN {} ELSE Truncated(inode[s].d.addrs)

\* The last iput() of an unlinked file: itrunc(ip), which does not release the
\* buffer of the double-indirect block; ip->type = 0; iupdate(ip).
remove(s) ==
  /\ Running
  /\ LastPut(s)
  /\ bitmap' = bitmap \ Freed(s)
  /\ stuck' = stuck \cup NonZero({inode[s].d.addrs[NDIRECT + 1]})
  /\ dinode' = [dinode EXCEPT ![inode[s].inum] = ilock(s, FreeInode)]
  /\ inode' = [inode EXCEPT ![s] = Recycled(s)]
  /\ UNCHANGED <<ptr, val, tag, hist, gets, panic>>

\* sys_symlink() after create(), which returns an existing file as it is: the
\* target overwrites ip->addrs and the size becomes 0, in memory only.
symlink(s) ==
  /\ Running
  /\ inode[s].inum # 0
  /\ gets < MaxGets /\ gets' = gets + 1
  /\ lost' = lost \cup Freed(s)
  /\ inode' = [inode EXCEPT ![s].sym = TRUE, ![s].d.addrs = Target, ![s].d.size = 0]
  /\ UNCHANGED <<bitmap, ptr, val, tag, dinode, stuck, tagblocks, panic>>
-----------------------------------------------------------------------------
\* Tag entries in use before position j.
Seen(e, j) == Cardinality({k \in 0 .. (j - 1) : e[k] # 0})

\* The scan loop of fs_ftag(), fs_funtag() and fs_gettag() with tags_counter c:
\* where it meets the key, and where it stops otherwise.
KeyAt(e, c, key) == {j \in DOMAIN e : e[j] = key /\ Seen(e, j) < c}
StopAt(e, c) == {j \in 0 .. TAGS : Seen(e, j) >= c}
Overruns(e, c, key) == KeyAt(e, c, key) = {} /\ StopAt(e, c) = {}

\* The new state of the inode after iupdate().
Update(s, d) ==
  /\ inode' = [inode EXCEPT ![s].d = d]
  /\ dinode' = [dinode EXCEPT ![inode[s].inum] = d]

\* fs_ftag(): allocate the tags block, replace the value of a key that is there
\* (the counter goes up as well), or fill the first empty entry.
fs_ftag(s, key) ==
  /\ Running
  /\ inode[s].inum # 0
  /\ inode[s].d.tags_counter < MaxTags
  /\ LET old == inode[s].d
         first == old.tags_counter = 0 /\ old.tags = 0 IN
       IF first /\ Fails(1) THEN Panic(Allocates(1))
       ELSE LET m == IF first THEN balloc(Map(s)) ELSE Map(s)
                b == IF first THEN FirstFree(Map(s)) ELSE old.tags
                e == m.tag[b]
                c == old.tags_counter
                empty == {j \in DOMAIN e : e[j] = 0 /\ Seen(e, j) < c} IN
            IF Overruns(e, c, key)
               \/ (KeyAt(e, c, key) = {} /\ empty = {} /\ Min(StopAt(e, c)) = TAGS)
            THEN Panic("tags overrun")
            ELSE /\ tag' = IF KeyAt(e, c, key) # {} THEN m.tag
                           ELSE [m.tag EXCEPT ![b][Min(IF empty # {} THEN empty ELSE StopAt(e, c))] = key]
                 /\ Update(s, [old EXCEPT !.tags = b, !.tags_counter = c + 1])
                 /\ bitmap' = m.used /\ ptr' = m.ptr /\ val' = m.val
                 /\ tagblocks' = IF first THEN tagblocks \cup {b} ELSE tagblocks
                 /\ panic' = IF first THEN Allocates(1) ELSE panic
                 /\ UNCHANGED <<stuck, lost, gets>>

\* fs_funtag(), fs_gettag(): return -1 at once without tags.
HasTags(s) == inode[s].inum # 0 /\ inode[s].d.tags_counter # 0 /\ inode[s].d.tags # 0

\* fs_funtag(): clear the entry of the key.
fs_funtag(s, key) ==
  /\ Running
  /\ HasTags(s)
  /\ LET d == inode[s].d
         at == KeyAt(tag[d.tags], d.tags_counter, key) IN
       IF Overruns(tag[d.tags], d.tags_counter, key) THEN Panic("tags overrun")
       ELSE /\ at # {}
            /\ tag' = [tag EXCEPT ![d.tags][Min(at)] = 0]
            /\ Update(s, [d EXCEPT !.tags_counter = @ - 1])
            /\ UNCHANGED <<bitmap, ptr, val, stuck, hist, gets, panic>>

\* fs_gettag(): found or not, iupdate() writes the inode back.
fs_gettag(s, key) ==
  /\ Running
  /\ HasTags(s)
  /\ LET d == inode[s].d IN
       IF Overruns(tag[d.tags], d.tags_counter, key) THEN Panic("tags overrun")
       ELSE Update(s, d) /\ UNCHANGED <<bitmap, ptr, val, tag, stuck, hist, gets, panic>>

Next ==
  \E s \in Slot :
    \/ create(s)
    \/ \E i \in Inum : open(s, i)
    \/ close(s)
    \/ \E bn \in 0 .. (MAXFILE - 1), v \in Value : writei(s, bn, v)
    \/ remove(s)
    \/ symlink(s)
    \/ \E key \in Key : fs_ftag(s, key) \/ fs_funtag(s, key) \/ fs_gettag(s, key)

Spec == Init /\ [][Next]_vars
-----------------------------------------------------------------------------
(***************************************************************************)
(* Properties.                                                             *)
(***************************************************************************)

\* Type invariant.
TypeOK ==
  /\ bitmap \subseteq Block
  /\ ptr \in [Block -> [0 .. (NINDIRECT - 1) -> Block \cup {0}]]
  /\ val \in [Block -> Written \cup {ZeroVal}]
  /\ tag \in [Block -> [0 .. (TAGS - 1) -> Key \cup {0}]]
  /\ \A i \in Inum : dinode[i].size \in 0 .. MAXFILE
                     /\ dinode[i].tags_counter \in 0 .. MaxTags
  /\ {stuck, tagblocks, lost} \subseteq SUBSET Block

\* What the code in memory or on disk knows of inode i.
InodeOf(i) == IF Cached(i) THEN inode[CHOOSE s \in Slot : Holds(s, i)].d ELSE dinode[i]

\* A symbolic link has no blocks, though its addrs are not 0.
Links == {inode[s].inum : s \in {t \in Slot : inode[t].sym}}
Owned(i) == IF i \in Links THEN {} ELSE Truncated(InodeOf(i).addrs)

\* Within a file no two positions share a block, and every position below the
\* size has one.
MapIsInjective ==
  \A i \in Inum :
    LET d == InodeOf(i)
        at == {Lookup(d.addrs, bn) : bn \in 0 .. (d.size - 1)} IN
      0 \notin at /\ Cardinality(at) = d.size

LogInUse == bitmap \cap LogBlock # {}

\* As long as no block of the log is handed out, the bitmap is exact: a block is
\* allocated if and only if one file's map reaches it, at any of the three
\* levels, or it is a tags block (itrunc() never frees one), or it was in a file
\* that sys_symlink() turned into a link (nothing frees it before a reboot); no
\* block is two of these or belongs to two files or twice to one.  balloc()
\* hands out a block of the log only when all data blocks are allocated.
BitmapIsExact ==
  LET owned == [i \in Inum |-> Owned(i)]
      all == UNION Range(owned) IN
  /\ TypeOK
  /\ LogInUse => Block \ LogBlock \subseteq bitmap
  /\ ~LogInUse =>
       /\ bitmap = all \cup tagblocks \cup lost
       /\ \A i, k \in Inum : i # k => owned[i] \cap owned[k] = {}
       /\ all \cap (tagblocks \cup lost) = {} /\ tagblocks \cap lost = {}
       /\ MapIsInjective

Contents ==
  [i \in Inum |->
     LET d == InodeOf(i) IN [k \in 1 .. d.size |-> val[Lookup(d.addrs, k - 1)]]]

FC == INSTANCE FileContents WITH file <- Contents, Value <- Written, MaxBlocks <- MAXFILE

\* Reading block bn of a file gives what was written there last, whatever was
\* written to, removed from or tagged on other files, and however blocks are
\* reused: until balloc() hands out a block of the log.  A file that becomes a
\* symbolic link is empty.
FilesKeepContents == FC!Init /\ [][~LogInUse' => UNCHANGED FC!vars \/ FC!Next]_vars

\* fs.c: "ilock() reads the inode from the disk and sets I_VALID": a cached
\* inode has the tags block that the disk inode has.
CachedTagsMatchDisk ==
  \A s \in Slot :
    inode[s].inum # 0 => inode[s].d.tags = dinode[inode[s].inum].tags
=============================================================================
