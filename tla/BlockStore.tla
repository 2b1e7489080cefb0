------------------------------ MODULE BlockStore ------------------------------
(***************************************************************************)
(* What bio.c promises: one copy of every block, used by one process at a  *)
(* time.  bread() of a block returns what the last holder left in it,      *)
(* whether the copy is in memory or on disk.                               *)
(***************************************************************************)
CONSTANTS Proc, Sector, Data, None

VARIABLES
  mem,      \* the contents of each block
  holder    \* the process between bread() and brelse() of a block, or None

vars == <<mem, holder>>

Init ==
  /\ mem \in [Sector -> Data]
  /\ holder = [s \in Sector |-> None]

Get(p, s) ==
  /\ holder[s] = None
  /\ holder' = [holder EXCEPT ![s] = p]
  /\ UNCHANGED mem

Put(p, s, d) ==
  /\ holder[s] = p
  /\ mem' = [mem EXCEPT ![s] = d]
  /\ UNCHANGED holder

Release(p, s) ==
  /\ holder[s] = p
  /\ holder' = [holder EXCEPT ![s] = None]
  /\ UNCHANGED mem

Next ==
  \E p \in Proc, s \in Sector :
    \/ Get(p, s)
    \/ \E d \in Data : Put(p, s, d)
    \/ Release(p, s)

Spec == Init /\ [][Next]_vars
=============================================================================
