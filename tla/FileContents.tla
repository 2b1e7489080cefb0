---------------------------- MODULE FileContents ----------------------------
(***************************************************************************)
(* What the block layer of fs.c promises: every file is a sequence of      *)
(* blocks that nothing but its own writes and its removal changes.         *)
(***************************************************************************)
EXTENDS Naturals, Sequences, FiniteSets

CONSTANTS Inum, Value, MaxBlocks

VARIABLE file   \* the contents of each inode

vars == file

Init == file = [i \in Inum |-> <<>>]

\* One block of old is replaced, or one is added at the end.
Write(old, new) ==
  /\ Len(new) \in {Len(old), Len(old) + 1} /\ Len(new) <= MaxBlocks
  /\ \E k \in DOMAIN new :
       /\ Len(new) > Len(old) => k = Len(new)
       /\ new[k] \in Value
       /\ \A m \in DOMAIN old \ {k} : new[m] = old[m]

Remove(new) == new = <<>>

\* One file is written or removed, the others are left alone.
Next ==
  LET old == file
      new == file' IN
  \E i \in Inum :
    /\ Write(old[i], new[i]) \/ Remove(new[i])
    /\ new = [old EXCEPT ![i] = new[i]]

Spec == Init /\ [][Next]_vars
=============================================================================
