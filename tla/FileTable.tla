------------------------------ MODULE FileTable ------------------------------
(***************************************************************************)
(* file.c, the descriptor calls of sysfile.c, pipealloc() of pipe.c, and   *)
(* what fork() and exit() do to descriptors: reference counts of the       *)
(* system-wide file table under concurrent processes, the pipe ends and    *)
(* inodes that open files stand for, and the shared file offset.           *)
(*                                                                         *)
(* A step ends where the code releases ftable.lock or can sleep.  A        *)
(* process uses its own ofile[] without a lock.                            *)
(***************************************************************************)
EXTENDS Naturals, Sequences, FiniteSets, FiniteSetsExt

CONSTANTS
  Proc,      \* process slots
  First,     \* the process that runs at the beginning
  NFILE,     \* file structures
  NOFILE,    \* descriptors per process
  Inode,     \* inodes that are opened
  MaxPipes,  \* bound: pipes allocated
  MaxCalls   \* bound: system calls made

VARIABLES
  file,    \* ftable.file[]
  ofile,   \* proc->ofile[]: a file, or 0
  pipe,    \* the ends that are open, of every pipe allocated so far
  iref,    \* references that calls and files hold to each inode
  busy,    \* inodes that are locked
  pc,      \* where each process is; "unused", "embryo" and "zombie" for the slot
  l,       \* its locals
  wrote,   \* per file: the offsets read or written through it since it was opened
  calls,   \* system calls made so far
  panic    \* the panic() reached, or "none"

vars == <<file, ofile, pipe, iref, busy, pc, l, wrote, calls, panic>>

File == 1 .. NFILE
Fd == 0 .. (NOFILE - 1)
End == {"r", "w"}

\* of: ip, or the pipe and the end (readable, writable); off counts transfers.
NoFile == [ref |-> 0, type |-> "FD_NONE", of |-> <<>>, off |-> 0]

\* f: the file at hand; hold: references the call must give up; at: offset read;
\* fds: descriptors still to do; child: of fork(); ip: an inode reference the
\* call must give up; then: where to go after hold is empty.
NoLocals == [f |-> 0, hold |-> <<>>, ff |-> NoFile, at |-> 0, fds |-> {}, child |-> {}, ip |-> {},
             then |-> "idle"]

Init ==
  /\ file = [f \in File |-> NoFile]
  /\ ofile = [p \in Proc |-> [fd \in Fd |-> 0]]
  /\ pipe = <<>>
  /\ iref = [i \in Inode |-> 0]
  /\ busy = {}
  /\ pc = [p \in Proc |-> IF p = First THEN "idle" ELSE "unused"]
  /\ l = [p \in Proc |-> NoLocals]
  /\ wrote = [f \in File |-> {}]
  /\ calls = 0
  /\ panic = "none"
-----------------------------------------------------------------------------
At(p, label) == panic = "none" /\ pc[p] = label

Goto(p, label) == pc' = [pc EXCEPT ![p] = label]

\* Back in user space the locals are gone.
Return(p) == Goto(p, "idle") /\ l' = [l EXCEPT ![p] = NoLocals]

\* A system call begins at label.
Call(p, locals, label) ==
  /\ At(p, "idle")
  /\ calls < MaxCalls /\ calls' = calls + 1
  /\ l' = [l EXCEPT ![p] = locals]
  /\ Goto(p, label)

Panic(why) == panic' = why /\ UNCHANGED <<file, ofile, pipe, iref, busy, pc, l, wrote, calls>>

\* The references in hold are given up, then control goes to then.
Resume(p, locals) ==
  LET label == IF locals.hold = <<>> THEN locals.then ELSE "fileclose" IN
  /\ l' = [l EXCEPT ![p] = IF label = "idle" THEN NoLocals ELSE locals]
  /\ Goto(p, label)

GiveUp(p, hold, then) == Resume(p, [l[p] EXCEPT !.hold = hold, !.then = then])

\* filealloc(): the first free structure, if any.
Unused == {f \in File : file[f].ref = 0}
filealloc == [file EXCEPT ![Min(Unused)].ref = 1]

\* fdalloc(): the lowest free descriptors.
FreeFds(p) == {fd \in Fd : ofile[p][fd] = 0}

\* Faulty variant: f->ref is not incremented.
filedup_lost(f) == file

filedup(f) == [file EXCEPT ![f].ref = @ + 1]
-----------------------------------------------------------------------------
\* sys_dup(): fdalloc() first, filedup() after.
dup(p, fd) ==
  /\ ofile[p][fd] # 0 /\ FreeFds(p) # {}
  /\ Call(p, [NoLocals EXCEPT !.f = ofile[p][fd]], "dup")
  /\ ofile' = [ofile EXCEPT ![p][Min(FreeFds(p))] = ofile[p][fd]]
  /\ UNCHANGED <<file, pipe, iref, busy, wrote, panic>>

dup_ref(p) ==
  /\ At(p, "dup")
  /\ IF file[l[p].f].ref < 1 THEN Panic("filedup")
     ELSE /\ file' = filedup(l[p].f)
          /\ Return(p)
          /\ UNCHANGED <<ofile, pipe, iref, busy, wrote, calls, panic>>

\* sys_close().
close(p, fd) ==
  /\ ofile[p][fd] # 0
  /\ Call(p, [NoLocals EXCEPT !.hold = <<ofile[p][fd]>>], "fileclose")
  /\ ofile' = [ofile EXCEPT ![p][fd] = 0]
  /\ UNCHANGED <<file, pipe, iref, busy, wrote, panic>>

\* fileclose(): the last reference frees the structure; ff is a copy of it.
fileclose(p) ==
  /\ At(p, "fileclose")
  /\ LET f == Head(l[p].hold)
         last == file[f].ref = 1
         locals == [l[p] EXCEPT !.hold = Tail(@), !.ff = IF last THEN file[f] ELSE NoFile] IN
       IF file[f].ref < 1 THEN Panic("fileclose")
       ELSE /\ file' = [file EXCEPT ![f] = IF last THEN NoFile ELSE [@ EXCEPT !.ref = @ - 1]]
            /\ wrote' = IF last THEN [wrote EXCEPT ![f] = {}] ELSE wrote
            /\ IF last THEN l' = [l EXCEPT ![p] = locals] /\ Goto(p, "release")
               ELSE Resume(p, locals)
            /\ UNCHANGED <<ofile, pipe, iref, busy, calls, panic>>

\* Faulty variant: no iput() for an inode.
release_noput(p) ==
  /\ At(p, "release")
  /\ LET ff == l[p].ff IN
       pipe' = IF ff.type = "FD_PIPE" THEN [pipe EXCEPT ![ff.of[1]] = @ \ {ff.of[2]}] ELSE pipe
  /\ Resume(p, [l[p] EXCEPT !.ff = NoFile])
  /\ UNCHANGED <<file, ofile, iref, busy, wrote, calls, panic>>

\* fileclose(), after the lock is released: pipeclose() or iput().
release(p) ==
  /\ At(p, "release")
  /\ LET ff == l[p].ff IN
       /\ pipe' = IF ff.type = "FD_PIPE" THEN [pipe EXCEPT ![ff.of[1]] = @ \ {ff.of[2]}] ELSE pipe
       /\ iref' = IF ff.type = "FD_INODE" THEN [iref EXCEPT ![ff.of[1]] = @ - 1] ELSE iref
  /\ Resume(p, [l[p] EXCEPT !.ff = NoFile])
  /\ UNCHANGED <<file, ofile, busy, wrote, calls, panic>>
-----------------------------------------------------------------------------
\* sys_open(), sys_symlink(): namei() or create() gives a reference to an inode.
open(p, i, label) ==
  /\ Call(p, [NoLocals EXCEPT !.ip = {i}], label)
  /\ iref' = [iref EXCEPT ![i] = @ + 1]
  /\ UNCHANGED <<file, ofile, pipe, busy, wrote, panic>>

\* sys_open(): filealloc() and fdalloc(); if one fails, fileclose() and iput().
open_file(p) ==
  /\ At(p, "open")
  /\ IF Unused = {} THEN GiveUp(p, <<>>, "iput") /\ UNCHANGED <<file, ofile>>
     ELSE LET f == Min(Unused) IN
          IF FreeFds(p) = {} THEN GiveUp(p, <<f>>, "iput") /\ file' = filealloc /\ UNCHANGED ofile
          ELSE /\ file' = [filealloc EXCEPT ![f].type = "FD_INODE",
                                            ![f].of = <<CHOOSE i \in Inode : i \in l[p].ip>>]
               /\ ofile' = [ofile EXCEPT ![p][Min(FreeFds(p))] = f]
               /\ Return(p)
  /\ UNCHANGED <<pipe, iref, busy, wrote, calls, panic>>

\* sys_symlink(): the structure keeps its reference, but has no descriptor.
symlink(p) ==
  /\ At(p, "symlink")
  /\ IF Unused = {} THEN GiveUp(p, <<>>, "iput") /\ UNCHANGED file
     ELSE /\ file' = [filealloc EXCEPT ![Min(Unused)].type = "FD_SYMLNK",
                                       ![Min(Unused)].of = <<CHOOSE i \in Inode : i \in l[p].ip>>]
          /\ Return(p)
  /\ UNCHANGED <<ofile, pipe, iref, busy, wrote, calls, panic>>

\* iunlockput(ip) after a failure.
iput(p) ==
  /\ At(p, "iput")
  /\ iref' = [i \in Inode |-> IF i \in l[p].ip THEN iref[i] - 1 ELSE iref[i]]
  /\ Return(p)
  /\ UNCHANGED <<file, ofile, pipe, busy, wrote, calls, panic>>

\* sys_pipe() -> pipealloc(): two filealloc(), both given back if one fails.
pipealloc(p) ==
  /\ At(p, "pipe")
  /\ IF Unused = {} THEN GiveUp(p, l[p].hold, "idle") /\ UNCHANGED file
     ELSE /\ file' = filealloc
          /\ l' = [l EXCEPT ![p].hold = Append(@, Min(Unused))]
          /\ Goto(p, IF l[p].hold = <<>> THEN "pipe" ELSE "kalloc")
  /\ UNCHANGED <<ofile, pipe, iref, busy, wrote, calls, panic>>

\* sys_pipe(): kalloc() finds no page.
pipe_nomem(p) ==
  /\ At(p, "kalloc")
  /\ GiveUp(p, l[p].hold, "idle")
  /\ UNCHANGED <<file, ofile, pipe, iref, busy, wrote, calls, panic>>

\* sys_pipe(): the pipe exists; two fdalloc(), both taken back if one fails.
pipe_install(p) ==
  /\ At(p, "kalloc") /\ Len(pipe) < MaxPipes
  /\ LET rf == l[p].hold[1]
         wf == l[p].hold[2]
         n == Len(pipe) + 1
         fd0 == Min(FreeFds(p)) IN
       /\ pipe' = Append(pipe, End)
       /\ file' = [file EXCEPT ![rf].type = "FD_PIPE", ![rf].of = <<n, "r">>,
                               ![wf].type = "FD_PIPE", ![wf].of = <<n, "w">>]
       /\ IF Cardinality(FreeFds(p)) < 2 THEN GiveUp(p, l[p].hold, "idle") /\ UNCHANGED ofile
          ELSE /\ ofile' = [ofile EXCEPT ![p][fd0] = rf, ![p][Min(FreeFds(p) \ {fd0})] = wf]
               /\ Return(p)
  /\ UNCHANGED <<iref, busy, wrote, calls, panic>>
-----------------------------------------------------------------------------
\* fork(): the slot q is taken; then one filedup() per descriptor.
fork(p, q) ==
  /\ pc[q] = "unused"
  /\ At(p, "idle")
  /\ calls < MaxCalls /\ calls' = calls + 1
  /\ l' = [l EXCEPT ![p] = [NoLocals EXCEPT !.child = {q}, !.fds = Fd \ FreeFds(p)]]
  /\ pc' = [pc EXCEPT ![p] = "fork", ![q] = "embryo"]
  /\ UNCHANGED <<file, ofile, pipe, iref, busy, wrote, panic>>

fork_dup(p) ==
  /\ At(p, "fork") /\ l[p].fds # {}
  /\ LET fd == Min(l[p].fds)
         f == ofile[p][fd] IN
       IF file[f].ref < 1 THEN Panic("filedup")
       ELSE /\ file' = filedup(f)
            /\ ofile' = [q \in Proc |-> IF q \in l[p].child THEN [ofile[q] EXCEPT ![fd] = f] ELSE ofile[q]]
            /\ l' = [l EXCEPT ![p].fds = @ \ {fd}]
            /\ UNCHANGED <<pipe, iref, busy, pc, wrote, calls, panic>>

fork_done(p) ==
  /\ At(p, "fork") /\ l[p].fds = {}
  /\ pc' = [q \in Proc |-> IF q = p \/ q \in l[p].child THEN "idle" ELSE pc[q]]
  /\ l' = [l EXCEPT ![p] = NoLocals]
  /\ UNCHANGED <<file, ofile, pipe, iref, busy, wrote, calls, panic>>

\* exit(): fileclose() of every descriptor, in order; init does not exit.
\* ofile is p's own, so clearing an entry before or after its fileclose() is one.
exit(p) ==
  /\ p # First
  /\ Call(p, NoLocals, "exit")
  /\ UNCHANGED <<file, ofile, pipe, iref, busy, wrote, panic>>

exit_next(p) ==
  /\ At(p, "exit")
  /\ LET left == Fd \ FreeFds(p) IN
       IF left = {} THEN Goto(p, "zombie") /\ UNCHANGED <<ofile, l>>
       ELSE /\ GiveUp(p, <<ofile[p][Min(left)]>>, "exit")
            /\ ofile' = [ofile EXCEPT ![p][Min(left)] = 0]
  /\ UNCHANGED <<file, pipe, iref, busy, wrote, calls, panic>>

\* wait() of the parent frees the slot.
reap(p) ==
  /\ At(p, "zombie")
  /\ pc' = [pc EXCEPT ![p] = "unused"]
  /\ l' = [l EXCEPT ![p] = NoLocals]
  /\ UNCHANGED <<file, ofile, pipe, iref, busy, wrote, calls, panic>>
-----------------------------------------------------------------------------
\* sys_read(), sys_write() of an inode: fileread(), and one turn of filewrite().
io(p, fd) ==
  /\ ofile[p][fd] # 0 /\ file[ofile[p][fd]].type # "FD_PIPE"
  /\ Call(p, [NoLocals EXCEPT !.f = ofile[p][fd]], "io")
  /\ UNCHANGED <<file, ofile, pipe, iref, busy, wrote, panic>>

\* Faulty variant: f->off is read without ilock().
io_lock_unlocked(p) ==
  /\ At(p, "io")
  /\ LET f == file[l[p].f] IN
       IF f.type # "FD_INODE" THEN Panic("fileread, filewrite")
       ELSE /\ l' = [l EXCEPT ![p].at = f.off]
            /\ Goto(p, "io_off")
            /\ UNCHANGED <<file, ofile, pipe, iref, busy, wrote, calls, panic>>

\* ilock(f->ip); readi() or writei() at f->off.
io_lock(p) ==
  /\ At(p, "io")
  /\ LET f == file[l[p].f] IN
       IF f.type # "FD_INODE" THEN Panic("fileread, filewrite")
       ELSE /\ f.of[1] \notin busy
            /\ busy' = busy \cup {f.of[1]}
            /\ l' = [l EXCEPT ![p].at = f.off]
            /\ Goto(p, "io_off")
            /\ UNCHANGED <<file, ofile, pipe, iref, wrote, calls, panic>>

\* Something was transferred: f->off += r; iunlock(f->ip).
io_done(p) ==
  /\ At(p, "io_off")
  /\ file' = [file EXCEPT ![l[p].f].off = @ + 1]
  /\ wrote' = [wrote EXCEPT ![l[p].f] = @ \cup {l[p].at}]
  /\ busy' = busy \ {file[l[p].f].of[1]}
  /\ Return(p)
  /\ UNCHANGED <<ofile, pipe, iref, calls, panic>>

\* Nothing was transferred: the end of the file, or an error.
io_none(p) ==
  /\ At(p, "io_off")
  /\ busy' = busy \ {file[l[p].f].of[1]}
  /\ Return(p)
  /\ UNCHANGED <<file, ofile, pipe, iref, wrote, calls, panic>>

Start(p) ==
  \/ \E fd \in Fd : dup(p, fd) \/ close(p, fd) \/ io(p, fd)
  \/ \E i \in Inode : open(p, i, "open") \/ open(p, i, "symlink")
  \/ Call(p, NoLocals, "pipe") /\ UNCHANGED <<file, ofile, pipe, iref, busy, wrote, panic>>
  \/ \E q \in Proc : fork(p, q)
  \/ exit(p)

Step(p) ==
  \/ dup_ref(p) \/ fileclose(p) \/ release(p) \/ open_file(p) \/ symlink(p) \/ iput(p)
  \/ pipealloc(p) \/ pipe_nomem(p) \/ pipe_install(p) \/ fork_dup(p) \/ fork_done(p)
  \/ exit_next(p) \/ reap(p) \/ io_lock(p) \/ io_done(p) \/ io_none(p)

Next == \E p \in Proc : Start(p) \/ Step(p)

Spec == Init /\ [][Next]_vars
-----------------------------------------------------------------------------
(***************************************************************************)
(* Properties.                                                             *)
(***************************************************************************)

\* Type invariant.
TypeOK ==
  /\ \A f \in File : file[f].ref \in Nat /\ file[f].type \in {"FD_NONE", "FD_PIPE", "FD_INODE", "FD_SYMLNK"}
  /\ ofile \in [Proc -> [Fd -> File \cup {0}]]
  /\ pipe \in Seq(SUBSET End)
  /\ iref \in [Inode -> Nat]
  /\ busy \subseteq Inode

Count(S) == Cardinality(S)

\* Descriptors that name f, and references that calls hold or have not yet taken.
Descriptors(f) == {pfd \in Proc \X Fd : ofile[pfd[1]][pfd[2]] = f}
Held(f) == {pk \in Proc \X (1 .. 2) : pk[2] <= Len(l[pk[1]].hold) /\ l[pk[1]].hold[pk[2]] = f}
Late(f) == {p \in Proc : pc[p] = "dup" /\ l[p].f = f}

\* f->ref is the number of descriptors that name f, whatever processes dup(),
\* fork(), close() and exit() at the same time and whatever call fails half-way;
\* a structure that sys_symlink() took has one reference more and no descriptor.
RefsCountDescriptors ==
  /\ \A f \in File :
       file[f].ref + Count(Late(f)) =
         Count(Descriptors(f)) + Count(Held(f)) + (IF file[f].type = "FD_SYMLNK" THEN 1 ELSE 0)
  /\ panic = "none"

Files(of) == {f \in File : file[f].ref > 0 /\ file[f].of = of}
Closing(of) == {p \in Proc : l[p].ff.of = of}

\* What a file stands for lives exactly as long as the file: an end of a pipe
\* is open while a file, or a fileclose() about to close it, has it; and an
\* inode has one reference per file and per call that still has one to give up.
ResourcesFollowFiles ==
  /\ \A n \in DOMAIN pipe, e \in End :
       /\ e \in pipe[n] <=> Files(<<n, e>>) \cup Closing(<<n, e>>) # {}
       /\ Count(Files(<<n, e>>)) + Count(Closing(<<n, e>>)) <= 1
  /\ \A i \in Inode :
       iref[i] = Count(Files(<<i>>)) + Count(Closing(<<i>>)) + Count({p \in Proc : i \in l[p].ip})

\* Processes that share a file through dup() or fork() never transfer at the
\* same offset, and leave no gap: each read() or write() continues where the
\* last one ended.
OffsetsTile == \A f \in File : wrote[f] = 0 .. (file[f].off - 1)
=============================================================================
