--------------------------- MODULE AddressSpaces ---------------------------
(***************************************************************************)
(* What virtual memory promises: every process has a memory of its own, a  *)
(* sequence of pages, that only its own stores and calls change.           *)
(***************************************************************************)
EXTENDS Naturals, Sequences

CONSTANTS
  Slot,     \* process slots
  Stored,   \* what a process can store in a page
  First,    \* the memory of the first process
  Image,    \* the memory exec() gives a process
  Hole      \* stands for a page that is not there

VARIABLE space   \* the pages of each process, <<>> for a slot not in use

vars == space

Init == \E s \in Slot : space = [t \in Slot |-> IF t = s THEN First ELSE <<>>]

Store(old, new) ==
  \E k \in DOMAIN old, v \in Stored : old[k] # Hole /\ new = [old EXCEPT ![k] = v]

\* What was there stays, what is new is zero.
Grow(old, new) ==
  /\ Len(new) > Len(old)
  /\ SubSeq(new, 1, Len(old)) = old
  /\ \A k \in (Len(old) + 1) .. Len(new) : new[k] \in {0, Hole}

Shrink(old, new) ==
  \/ Len(new) < Len(old) /\ new = SubSeq(old, 1, Len(new))
  \/ new = [k \in DOMAIN old |-> Hole]

\* One process changes, or a new one starts with a copy of another.
Next ==
  LET old == space
      new == space' IN
  \E s \in Slot :
    /\ new = [old EXCEPT ![s] = new[s]]
    /\ \/ /\ old[s] = <<>>
          /\ \E t \in Slot : new[s] = old[t]
       \/ /\ old[s] # <<>>
          /\ \/ Store(old[s], new[s]) \/ Grow(old[s], new[s]) \/ Shrink(old[s], new[s])
             \/ new[s] \in {Image, <<>>}

Spec == Init /\ [][Next]_vars
=============================================================================
