---------------------------- MODULE MCBufferCache ----------------------------
(* TLC instances of BufferCache: processes, buffers, sectors and contents    *)
(* are interchangeable; the initial list is in any order.                     *)
EXTENDS BufferCache, TLC

Symmetry ==
  Permutations(Proc) \cup Permutations(Buf) \cup Permutations(Sector) \cup Permutations(Data)
=============================================================================
