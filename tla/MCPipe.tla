------------------------------- MODULE MCPipe -------------------------------
(* TLC instances of Pipe: readers, writers and bytes are interchangeable.  *)
EXTENDS Pipe, TLC

Symmetry ==
  Permutations(Reader) \cup Permutations(Writer) \cup Permutations(Byte)
=============================================================================
