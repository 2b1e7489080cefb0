----------------------------- MODULE ByteStream -----------------------------
(***************************************************************************)
(* What a pipe promises: a bounded first-in first-out stream of bytes.     *)
(***************************************************************************)
EXTENDS Naturals, Sequences

CONSTANTS Byte, Capacity, None

VARIABLES
  queue,   \* bytes written and not yet read, oldest first
  got      \* the byte read last

vars == <<queue, got>>

Init == queue = <<>> /\ got = None

Put(x) ==
  /\ Len(queue) < Capacity
  /\ queue' = Append(queue, x)
  /\ UNCHANGED got

Get ==
  /\ queue # <<>>
  /\ got' = Head(queue)
  /\ queue' = Tail(queue)

Next == Get \/ \E x \in Byte : Put(x)

Spec == Init /\ [][Next]_vars
=============================================================================
