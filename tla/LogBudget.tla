------------------------------ MODULE LogBudget ------------------------------
(***************************************************************************)
(* What one transaction of filewrite() (file.c) puts into the log: the     *)
(* calls of log_write() that writei(), bmap(), balloc(), bzero() and       *)
(* iupdate() (fs.c) make, in their order.  A file starts empty and is      *)
(* written at any offset up to its size.                                   *)
(***************************************************************************)
EXTENDS Naturals, Sequences, FiniteSets

CONSTANTS
  LOGSIZE, NBUF,
  NDIRECT, NINDIRECT, BSIZE,
  BPB,        \* blocks per block of the bitmap
  MaxBlocks,  \* bound: size of the file
  First       \* the block numbers balloc() may be at when the file is created

VARIABLES
  size,       \* bytes of the file
  have,       \* its blocks that are allocated
  next,       \* the next block balloc() finds free
  panic       \* "too big a transaction", or "bget: no buffers"

vars == <<size, have, next, panic>>

\* Faulty variant: no room for an allocation block beside each data block.
max_whole == (LOGSIZE - 1 - 1 - 2) * BSIZE

\* The most filewrite() writes in a transaction.
max == ((LOGSIZE - 1 - 1 - 2) \div 2) * BSIZE

Data(bn) == <<"data", bn>>
Indirect == <<"indirect", 0>>
Double == <<"double", 0>>
Table(i) == <<"table", i>>
Bitmap(b) == <<"bitmap", b \div BPB>>
Inode == <<"inode", 0>>

Init == size = 0 /\ have = {} /\ next \in First /\ panic = FALSE
-----------------------------------------------------------------------------
\* Progress of a transaction, t: have and next so far, and the calls of
\* log_write(): the block, and the buffers that are held besides it.
log_write(t, b, held) == [t EXCEPT !.out = Append(@, [block |-> b, held |-> held])]

\* balloc(): the bitmap, and the block itself, which bzero() clears.
balloc(t, b, held) ==
  log_write(log_write([t EXCEPT !.have = @ \cup {b}, !.next = @ + 1], Bitmap(t.next), held), b, held)

Need(t, b) == IF b \in t.have THEN t ELSE balloc(t, b, {})

\* A block that is entered in the table in: bmap() holds the table meanwhile, and
\* logs it.
Enter(t, b, in) == IF b \in t.have THEN t ELSE log_write(balloc(t, b, {in}), in, {})

bmap(t, bn) ==
  IF bn < NDIRECT THEN Need(t, Data(bn))
  ELSE IF bn - NDIRECT < NINDIRECT THEN Enter(Need(t, Indirect), Data(bn), Indirect)
  ELSE LET i == (bn - NDIRECT - NINDIRECT) \div NINDIRECT IN
       Enter(Enter(Need(t, Double), Table(i), Double), Data(bn), Table(i))

\* writei(): every block from bn to the last one, then iupdate() if the file grew.
RECURSIVE writes(_, _, _)
writes(t, bn, last) ==
  IF bn > last THEN t ELSE writes(log_write(bmap(t, bn), Data(bn), {}), bn + 1, last)

writei(t, off, n) ==
  LET w == writes(t, off \div BSIZE, (off + n - 1) \div BSIZE) IN
  IF off + n > size THEN log_write(w, Inode, {}) ELSE w

\* log_write() panics on a log that is full, even for a block already in it; and
\* bget() if the logged blocks, which stay in the cache, the one being logged,
\* those that are held and the log's own leave no buffer.
Logged(out, i) == {out[k].block : k \in 1 .. i}
Fits(out) ==
  \A i \in DOMAIN out :
    /\ Cardinality(Logged(out, i - 1)) < LOGSIZE - 1
    /\ Cardinality(Logged(out, i) \cup out[i].held) + 1 <= NBUF

filewrite(off, n) ==
  /\ ~panic /\ off <= size /\ off + n <= MaxBlocks * BSIZE
  /\ LET t == writei([have |-> have, next |-> next, out |-> <<>>], off, n) IN
     IF Fits(t.out)
     THEN /\ have' = t.have /\ next' = t.next
          /\ size' = IF off + n > size THEN off + n ELSE size
          /\ UNCHANGED panic
     ELSE panic' = TRUE /\ UNCHANGED <<size, have, next>>

Next == \E off \in 0 .. size, n \in 1 .. max : filewrite(off, n)

Spec == Init /\ [][Next]_vars
-----------------------------------------------------------------------------
(***************************************************************************)
(* Properties.                                                             *)
(***************************************************************************)

\* No transaction of filewrite() is too big for the log or, if no other process
\* holds a buffer, for the buffer cache.
WriteFitsInLog == ~panic
=============================================================================
