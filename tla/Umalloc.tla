------------------------------- MODULE Umalloc -------------------------------
(***************************************************************************)
(* umalloc.c: the circular, address-ordered free list of malloc() and      *)
(* free().  Addresses and sizes are in units of a header; base is at 0.    *)
(***************************************************************************)
EXTENDS Naturals, FiniteSets, FiniteSetsExt

CONSTANTS
  Top,      \* sbrk() fails beyond this address
  CORE,     \* morecore() asks for at least this much (4096)
  Request   \* nunits of the calls of malloc()

VARIABLES
  hdr,     \* headers: address to ptr and size
  freep,   \* where the next search starts; Null before the first malloc()
  brk,     \* end of the memory the process has
  core,    \* what morecore() has got so far
  busy     \* blocks handed out and not freed

vars == <<hdr, freep, brk, core, busy>>

Addr == 0 .. Top
Null == Top + 1
Header == [ptr : Addr, size : 0 .. Top]

Init ==
  /\ hdr = [a \in Addr |-> [ptr |-> 0, size |-> 0]]
  /\ freep = Null
  /\ brk = 1
  /\ core = {}
  /\ busy = {}
-----------------------------------------------------------------------------
\* Operators on a heap h = [hdr, freep].
ptr(h, a) == h.hdr[a].ptr
size(h, a) == h.hdr[a].size

\* free(): the search loop stops at p: bp lies between p and its successor, or
\* p is the last block and bp lies outside.
Between(h, p, bp) ==
  \/ bp > p /\ bp < ptr(h, p)
  \/ p >= ptr(h, p) /\ (bp > p \/ bp < ptr(h, p))

RECURSIVE Search(_, _, _)
Search(h, p, bp) == IF Between(h, p, bp) THEN p ELSE Search(h, ptr(h, p), bp)

\* Faulty variant: the block is not joined to its upper neighbour.
free_unjoined(h, bp) ==
  LET p == Search(h, h.freep, bp)
      g == [h EXCEPT !.hdr[bp].ptr = ptr(h, p)]
  IN  [hdr |-> IF p + size(g, p) = bp
               THEN [g.hdr EXCEPT ![p] = [ptr |-> ptr(g, bp), size |-> size(g, p) + size(g, bp)]]
               ELSE [g.hdr EXCEPT ![p].ptr = bp],
       freep |-> p]

\* free(): join to the upper neighbour, then to the lower one.
free(h, bp) ==
  LET p == Search(h, h.freep, bp)
      up == ptr(h, p)
      joined == IF bp + size(h, bp) = up
                THEN [ptr |-> ptr(h, up), size |-> size(h, bp) + size(h, up)]
                ELSE [ptr |-> up, size |-> size(h, bp)]
      g == [h EXCEPT !.hdr[bp] = joined]
  IN  [hdr |-> IF p + size(g, p) = bp
               THEN [g.hdr EXCEPT ![p] = [ptr |-> ptr(g, bp), size |-> size(g, p) + size(g, bp)]]
               ELSE [g.hdr EXCEPT ![p].ptr = bp],
       freep |-> p]

\* malloc(): what the block p, after prevp, is used for: all of it, or its tail.
Carve(h, prevp, p, n) ==
  IF size(h, p) = n
  THEN [h |-> [hdr |-> [h.hdr EXCEPT ![prevp].ptr = ptr(h, p)], freep |-> prevp], at |-> p]
  ELSE LET at == p + size(h, p) - n IN
       [h |-> [hdr |-> [h.hdr EXCEPT ![p].size = @ - n, ![at].size = n], freep |-> prevp], at |-> at]

\* malloc(): first fit, once around from the successor of freep; at is Null if
\* the search comes back to freep.
RECURSIVE Fit(_, _, _, _)
Fit(h, prevp, p, n) ==
  IF size(h, p) >= n THEN Carve(h, prevp, p, n)
  ELSE IF p = h.freep THEN [h |-> h, at |-> Null]
  ELSE Fit(h, p, ptr(h, p), n)

\* malloc(): the first call makes a list of base alone.
Heap ==
  IF freep = Null THEN [hdr |-> [hdr EXCEPT ![0] = [ptr |-> 0, size |-> 0]], freep |-> 0]
  ELSE [hdr |-> hdr, freep |-> freep]

\* morecore(): memory from sbrk(), freed into the list.
Units(n) == IF n < CORE THEN CORE ELSE n
morecore(h, n) == free([h EXCEPT !.hdr[brk].size = Units(n)], brk)
-----------------------------------------------------------------------------
\* Headers nobody points to are cleared: they are never read again.
RECURSIVE ListFrom(_, _, _)
ListFrom(h, a, seen) == IF a \in seen THEN seen ELSE ListFrom(h, ptr(h, a), seen \cup {a})

Set(h, held) ==
  LET live == ListFrom(h, 0, {}) IN
  /\ hdr' = [a \in Addr |-> IF a \in live THEN h.hdr[a]
                            ELSE [ptr |-> 0, size |-> IF a \in held THEN size(h, a) ELSE 0]]
  /\ freep' = h.freep
  /\ busy' = held

malloc(n) ==
  LET found == Fit(Heap, Heap.freep, ptr(Heap, Heap.freep), n)
      more == morecore(Heap, n)
      again == Fit(more, more.freep, ptr(more, more.freep), n) IN
  \/ /\ found.at # Null
     /\ Set(found.h, busy \cup {found.at})
     /\ UNCHANGED <<brk, core>>
  \/ /\ found.at = Null /\ brk + Units(n) <= Top
     /\ Set(again.h, busy \cup {again.at})
     /\ brk' = brk + Units(n)
     /\ core' = core \cup (brk .. (brk + Units(n) - 1))
  \/ /\ found.at = Null /\ brk + Units(n) > Top   \* returns 0
     /\ Set(Heap, busy)
     /\ UNCHANGED <<brk, core>>

mfree(bp) ==
  /\ bp \in busy
  /\ Set(free(Heap, bp), busy \ {bp})
  /\ UNCHANGED <<brk, core>>

\* The program calls sbrk() itself.
sbrk(n) ==
  /\ brk + n <= Top
  /\ brk' = brk + n
  /\ UNCHANGED <<hdr, freep, core, busy>>

Next == (\E n \in Request : malloc(n)) \/ (\E bp \in busy : mfree(bp)) \/ sbrk(1)

Spec == Init /\ [][Next]_vars
-----------------------------------------------------------------------------
(***************************************************************************)
(* Properties.                                                             *)
(***************************************************************************)

FreeList == ListFrom(Heap, 0, {})
Block(a) == a .. (a + hdr[a].size - 1)

\* After any sequence of malloc() and free(), the list is one circle through
\* base, in the order of addresses; free and busy blocks together are
\* exactly the memory morecore() got, without overlap; and no two free
\* blocks touch, so that free memory is not cut into pieces.
HeapIsSound ==
  freep # Null =>
    LET blocks == (FreeList \ {0}) \cup busy IN
    /\ freep \in FreeList
    /\ \A a \in FreeList :
         LET above == {b \in FreeList : b > a} IN hdr[a].ptr = IF above = {} THEN 0 ELSE Min(above)
    /\ UNION {Block(a) : a \in blocks} = core
    /\ \A a, b \in blocks : a # b => Block(a) \cap Block(b) = {}
    /\ \A a, b \in FreeList \ {0} : a + hdr[a].size # b
=============================================================================
