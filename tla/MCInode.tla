------------------------------- MODULE MCInode -------------------------------
(* TLC instances of Inode.                                                 *)
EXTENDS Inode, TLC

\* Processes and names are interchangeable.
Symmetry == Permutations(Proc) \cup Permutations(Name)
=============================================================================
