------------------------------ MODULE TransDisk ------------------------------
(***************************************************************************)
(* What log.c promises to the rest of the file system: between            *)
(* begin_trans() and commit_trans() a system call changes blocks in        *)
(* memory; commit makes all of the changes durable in one step; a crash    *)
(* brings back exactly the durable image, whenever it happens.             *)
(***************************************************************************)
CONSTANTS
  Sector,   \* block numbers of the image
  Data      \* block contents

VARIABLES
  view,     \* what bread() of a sector shows to the running system
  durable,  \* what the image holds after a crash and a recovery
  phase     \* "none", "open" (inside a transaction) or "committed"

vars == <<view, durable, phase>>

Init ==
  /\ durable \in [Sector -> Data]
  /\ view = durable
  /\ phase = "none"

Begin ==
  /\ phase = "none"
  /\ phase' = "open"
  /\ UNCHANGED <<view, durable>>

Write(s, d) ==
  /\ phase = "open"
  /\ view' = [view EXCEPT ![s] = d]
  /\ UNCHANGED <<durable, phase>>

Commit ==
  /\ phase = "open"
  /\ phase' = "committed"
  /\ durable' = view
  /\ UNCHANGED view

End ==
  /\ phase = "committed"
  /\ phase' = "none"
  /\ UNCHANGED <<view, durable>>

Crash ==
  /\ view' = durable
  /\ phase' = "none"
  /\ UNCHANGED durable

Next ==
  \/ Begin
  \/ \E s \in Sector, d \in Data : Write(s, d)
  \/ Commit
  \/ End
  \/ Crash

Spec == Init /\ [][Next]_vars
=============================================================================
