----------------------------- MODULE MCResources -----------------------------
(***************************************************************************)
(* What is handed out and given back: the blocks of the disk (Blocks), the *)
(* structures of open files (FileTable) and the pages of memory (Vm).  The *)
(* three share no state, so a behaviour is one of one of them: part says   *)
(* which, and the others stay as they were initially.                      *)
(***************************************************************************)
EXTENDS Blocks

CONSTANTS
  Proc, First, NFILE, NOFILE, Inode, MaxPipes, MaxFileCalls,                \* FileTable
  NPROC, NPAGES, PGSIZE, NPTENTRIES, UPDE, KPDE, Touched, MaxMemoryCalls    \* Vm

VARIABLES
  part,
  file, ofile, pipe, iref, busy, pc, l, wrote, fcalls, fpanic,              \* FileTable
  freelist, data, tab, proc, mcalls, exhausted, mpanic                      \* Vm

files == <<file, ofile, pipe, iref, busy, pc, l, wrote, fcalls, fpanic>>
memory == <<freelist, data, tab, proc, mcalls, exhausted, mpanic>>

F == INSTANCE FileTable WITH MaxCalls <- MaxFileCalls, calls <- fcalls, panic <- fpanic
V == INSTANCE Vm WITH MaxCalls <- MaxMemoryCalls, calls <- mcalls, panic <- mpanic

MCInit ==
  /\ part \in {"blocks", "files", "memory"}
  /\ Init
  /\ F!Init
  /\ V!Init

MCNext ==
  /\ \/ part = "blocks" /\ Next /\ UNCHANGED <<files, memory>>
     \/ part = "files" /\ F!Next /\ UNCHANGED <<vars, memory>>
     \/ part = "memory" /\ V!Next /\ UNCHANGED <<vars, files>>
  /\ UNCHANGED part

MCSpec == MCInit /\ [][MCNext]_<<part, vars, files, memory>>
-----------------------------------------------------------------------------
\* The properties of the parts; their modules explain them.

\* The bitmap marks the blocks in use, each with one owner and at one place, and
\* the log's blocks come last (balloc, bmap, itrunc, symlink).
BlocksHaveOneOwner == part = "blocks" => BitmapIsExact

\* f->ref is the number of descriptors that name f (fork, dup, close, exit).
RefsCountDescriptors == part = "files" => F!RefsCountDescriptors

\* Pipe ends and inode references are held as long as an open file needs them.
ResourcesFollowFiles == part = "files" => F!ResourcesFollowFiles

\* Transfers through a shared open file use each offset once (fileread, filewrite).
OffsetsTile == part = "files" => F!OffsetsTile

\* A page is free or has one owner (kalloc, copyuvm, freevm, exec).
PagesHaveOneOwner == part = "memory" => V!PagesHaveOneOwner

\* Pages get lost only in a call that finds the free list empty.
LostOnlyWhenExhausted == [][part = "memory" => V!LosesOnlyWhenExhausted]_memory

\* Every process sees a memory of its own (fork, exec, sbrk).
PrivateMemory == V!AS!Init /\ [][part = "memory" => UNCHANGED V!AS!vars \/ V!AS!Next]_memory

\* A file reads as it was written until balloc() hands out a block of the log
\* (bmap, writei, itrunc).
FilesReadBack == FC!Init /\ [][part = "blocks" /\ ~LogInUse' => UNCHANGED FC!vars \/ FC!Next]_vars
=============================================================================
