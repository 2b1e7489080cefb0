-------------------------------- MODULE ShRun --------------------------------
(***************************************************************************)
(* runcmd() and main() of sh.c: the processes a command line becomes, and  *)
(* their descriptors.  Process 0 is the shell.  Pid, pipe and descriptor   *)
(* numbers are the lowest free ones.                                       *)
(***************************************************************************)
EXTENDS Naturals, Sequences, FiniteSets, FiniteSetsExt, TLC

CONSTANTS
  MaxPid, NOFILE,
  Command,    \* the commands parsecmd() builds from the lines that are typed
  MaxLines    \* bound: lines that are typed

VARIABLES
  proc,     \* the processes there are
  lines,    \* lines typed so far
  lost      \* a fork() has failed

vars == <<proc, lines, lost>>

Fd == 0 .. NOFILE - 1
Closed == <<"closed", 0>>
Cons == <<"console", 0>>
FileFd(name) == <<"file", name>>
ReadEnd(k) == <<"read", k>>
WriteEnd(k) == <<"write", k>>
NoCmd == [type |-> "NONE"]

\* A process: the command it runs, what it does next, its descriptors, the
\* pipe's descriptors p[0] and p[1], its parent, and, for the properties only,
\* whether it is in the background and the standard streams it should have.
Shell == [cmd |-> NoCmd, pc |-> "prompt", fd |-> [f \in Fd |-> IF f < 3 THEN Cons ELSE Closed],
          p |-> <<0, 0>>, parent |-> 0, reads |-> FALSE,
          back |-> FALSE, want |-> <<Cons, Cons>>]

Init == proc = (0 :> Shell) /\ lines = 0 /\ lost = FALSE

Pid == DOMAIN proc
Children(p) == {q \in Pid \ {0} : proc[q].parent = p}
Holds(q, end) == \E f \in Fd : proc[q].fd[f] = end
Held(end) == \E q \in Pid : Holds(q, end)
Lowest(fd) == Min({f \in Fd : fd[f] = Closed})
NewPid == Min((1 .. MaxPid) \ Pid)
NewPipe == Min({k \in 1 .. MaxPid : ~Held(ReadEnd(k)) /\ ~Held(WriteEnd(k))})

At(p, pc) == p \in Pid /\ proc[p].pc = pc
Runs(p, type) == At(p, "run") /\ proc[p].cmd.type = type

\* exit(): the descriptors are closed, the children go to init, which reaps
\* them; the parent has to wait() for the process, unless it is init (0: the
\* shell itself never exits here).
Exited(p) ==
  [q \in {r \in Pid : ~(r \in Children(p) /\ proc[r].pc = "zombie")} |->
     IF q = p THEN [proc[p] EXCEPT !.pc = "zombie", !.cmd = NoCmd, !.fd = [f \in Fd |-> Closed],
                                   !.want = <<Cons, Cons>>, !.p = <<0, 0>>]
     ELSE IF q \in Children(p) THEN [proc[q] EXCEPT !.parent = MaxPid + 1]
     ELSE proc[q]]

\* init reaps the zombies it inherits or already has.
Exits(p) ==
  LET left == Exited(p) IN
  proc' = [q \in {r \in DOMAIN left : ~(left[r].pc = "zombie" /\ left[r].parent = MaxPid + 1)} |-> left[q]]

\* fork1(): p goes on as parent, a copy of its descriptors starts as child; or
\* fork() fails and the process panics.
Forks(p, parent, child) ==
  \/ /\ proc' = [q \in Pid \cup {NewPid} |->
                   IF q = p THEN parent
                   ELSE IF q = NewPid THEN [child EXCEPT !.parent = p, !.fd = proc[p].fd]
                   ELSE proc[q]]
     /\ UNCHANGED <<lines, lost>>
  \/ p # 0 /\ Exits(p) /\ lost' = TRUE /\ UNCHANGED lines

Becomes(p, rec) == proc' = [proc EXCEPT ![p] = rec] /\ UNCHANGED <<lines, lost>>
-----------------------------------------------------------------------------
\* main(): getcmd(), fork1() and wait().  The line of a cd starts no process.
main(cmd) ==
  /\ At(0, "prompt") /\ lines < MaxLines
  /\ lines' = lines + 1
  /\ proc' = (0 :> [Shell EXCEPT !.pc = "wait"])
              @@ (NewPid :> [Shell EXCEPT !.cmd = cmd, !.pc = "run"]) @@ proc
  /\ UNCHANGED lost

\* main(): fork() fails, or the input ends: the shell exits, its children go to
\* init, and init starts another shell.
main_exit ==
  /\ At(0, "prompt") /\ lines < MaxLines
  /\ lines' = lines + 1
  /\ proc' = [q \in {r \in Pid : r \notin Children(0) \/ proc[r].pc # "zombie"} |->
                IF q = 0 THEN Shell ELSE IF q \in Children(0) THEN [proc[q] EXCEPT !.parent = MaxPid + 1]
                ELSE proc[q]]
  /\ lost' = TRUE

\* A command that is not there (a syntax error panics in parsecmd()), an EXEC
\* without arguments, exec() of a program that does not exist, and what follows
\* a PIPE or a BACK: exit().
runcmd_exit(p) ==
  /\ \/ Runs(p, "PANIC")
     \/ Runs(p, "EXEC")
     \/ At(p, "done")
  /\ Exits(p)
  /\ UNCHANGED <<lines, lost>>

\* exec() succeeds: the program may read its input to the end or not at all.
runcmd_exec(p, reads) ==
  /\ Runs(p, "EXEC") /\ proc[p].cmd.argv # <<>>
  /\ Becomes(p, [proc[p] EXCEPT !.pc = "program", !.reads = reads, !.cmd = NoCmd])

\* close(rcmd->fd), then open(), which takes the lowest descriptor.
runcmd_redir(p) ==
  /\ Runs(p, "REDIR")
  /\ Becomes(p, [proc[p] EXCEPT !.fd[proc[p].cmd.fd] = Closed, !.pc = "open"])

redir_open(p) ==
  /\ At(p, "open")
  /\ LET cmd == proc[p].cmd IN
     \/ Becomes(p, [proc[p] EXCEPT !.fd[Lowest(proc[p].fd)] = FileFd(cmd.file),
                                   !.want[cmd.fd + 1] = FileFd(cmd.file),
                                   !.cmd = cmd.cmd, !.pc = "run"])
     \/ Exits(p) /\ UNCHANGED <<lines, lost>>     \* open() fails

runcmd_list(p) ==
  /\ Runs(p, "LIST")
  /\ Forks(p, [proc[p] EXCEPT !.pc = "listwait"], [proc[p] EXCEPT !.cmd = @.left])

runcmd_back(p) ==
  /\ Runs(p, "BACK")
  /\ Forks(p, [proc[p] EXCEPT !.pc = "done"], [proc[p] EXCEPT !.cmd = @.cmd, !.back = TRUE])

\* pipe(p)
runcmd_pipe(p) ==
  /\ Runs(p, "PIPE")
  /\ LET r == Lowest(proc[p].fd)
         k == NewPipe
         fd == [proc[p].fd EXCEPT ![r] = ReadEnd(k)]
         w == Lowest(fd) IN
     \/ Becomes(p, [proc[p] EXCEPT !.fd = [fd EXCEPT ![w] = WriteEnd(k)], !.p = <<r, w>>, !.pc = "left"])
     \/ Exits(p) /\ UNCHANGED <<lines, lost>>     \* pipe() fails

fork_left(p) ==
  /\ At(p, "left")
  /\ Forks(p, [proc[p] EXCEPT !.pc = "right"],
           [proc[p] EXCEPT !.cmd = @.left, !.pc = "close1", !.want[2] = proc[p].fd[proc[p].p[2]]])

fork_right(p) ==
  /\ At(p, "right")
  /\ Forks(p, [proc[p] EXCEPT !.pc = "close"],
           [proc[p] EXCEPT !.cmd = @.right, !.pc = "close0", !.want[1] = proc[p].fd[proc[p].p[1]]])

\* The children: close(1) and dup(p[1]), or close(0) and dup(p[0]).
close_std(p) ==
  \/ At(p, "close1") /\ Becomes(p, [proc[p] EXCEPT !.fd[1] = Closed, !.pc = "dup1"])
  \/ At(p, "close0") /\ Becomes(p, [proc[p] EXCEPT !.fd[0] = Closed, !.pc = "dup0"])

Dup(p, end) == Becomes(p, [proc[p] EXCEPT !.fd[Lowest(proc[p].fd)] = proc[p].fd[end], !.pc = "shut"])

dup_end(p) ==
  \/ At(p, "dup1") /\ Dup(p, proc[p].p[2])
  \/ At(p, "dup0") /\ Dup(p, proc[p].p[1])

\* close(p[0]): a child, or the parent.
close_read(p) ==
  /\ proc[p].pc \in {"shut", "close"}
  /\ Becomes(p, [proc[p] EXCEPT !.fd[proc[p].p[1]] = Closed,
                                !.pc = IF @ = "shut" THEN "shutw" ELSE "closew"])

AfterClose(p) == [proc[p] EXCEPT !.p = <<0, 0>>, !.pc = IF @ = "shutw" THEN "run" ELSE "wait2"]

\* Faulty variants: the parent, or a child, does not close p[1].
close_write_child(p) ==
  /\ proc[p].pc \in {"shutw", "closew"}
  /\ Becomes(p, [AfterClose(p) EXCEPT !.fd[proc[p].p[2]] = IF proc[p].pc = "closew" THEN @ ELSE Closed])
close_write_parent(p) ==
  /\ proc[p].pc \in {"shutw", "closew"}
  /\ Becomes(p, [AfterClose(p) EXCEPT !.fd[proc[p].p[2]] = IF proc[p].pc = "shutw" THEN @ ELSE Closed])

\* close(p[1]); a child runs its command, the parent waits for both.
close_write(p) ==
  /\ proc[p].pc \in {"shutw", "closew"}
  /\ Becomes(p, [AfterClose(p) EXCEPT !.fd[proc[p].p[2]] = Closed])

\* wait(): a dead child is reaped, or there are none.
After(p) ==
  CASE proc[p].pc = "wait" -> [proc[p] EXCEPT !.pc = "prompt"]
    [] proc[p].pc = "listwait" -> [proc[p] EXCEPT !.pc = "run", !.cmd = @.right]
    [] proc[p].pc = "wait2" -> [proc[p] EXCEPT !.pc = "wait1"]
    [] proc[p].pc = "wait1" -> [proc[p] EXCEPT !.pc = "done"]

wait(p) ==
  /\ proc[p].pc \in {"wait", "listwait", "wait2", "wait1"}
  /\ \/ \E q \in Children(p) :
          /\ proc[q].pc = "zombie"
          /\ proc' = [r \in Pid \ {q} |-> IF r = p THEN After(p) ELSE proc[r]]
     \/ Children(p) = {} /\ proc' = [proc EXCEPT ![p] = After(p)]
  /\ UNCHANGED <<lines, lost>>

\* The program ends: at the end of its input, if it reads that from a pipe; and
\* with its output written, if that is a pipe: a program reads it, or nobody can.
AtEnd(p) ==
  \A k \in 1 .. MaxPid : proc[p].reads /\ proc[p].fd[0] = ReadEnd(k) => ~Held(WriteEnd(k))
Written(p) ==
  \A k \in 1 .. MaxPid : proc[p].fd[1] = WriteEnd(k) =>
    \/ ~Held(ReadEnd(k))
    \/ \E q \in Pid : At(q, "program") /\ proc[q].reads /\ proc[q].fd[0] = ReadEnd(k)

program_exit(p) ==
  /\ At(p, "program") /\ AtEnd(p) /\ Written(p)
  /\ Exits(p)
  /\ UNCHANGED <<lines, lost>>

Step(p) ==
  \/ runcmd_exit(p)
  \/ \E reads \in BOOLEAN : runcmd_exec(p, reads)
  \/ runcmd_redir(p) \/ redir_open(p) \/ runcmd_list(p) \/ runcmd_back(p) \/ runcmd_pipe(p)
  \/ fork_left(p) \/ fork_right(p) \/ close_std(p) \/ dup_end(p) \/ close_read(p) \/ close_write(p)
  \/ wait(p) \/ program_exit(p)

Next == (\E cmd \in Command : main(cmd)) \/ main_exit \/ (\E p \in Pid : Step(p))

\* Every process gets to run; a line to read is up to the user.
Fairness == WF_vars(wait(0)) /\ \A p \in 1 .. MaxPid : WF_vars(p \in Pid /\ Step(p))
Spec == Init /\ [][Next]_vars /\ Fairness
-----------------------------------------------------------------------------
(***************************************************************************)
(* Properties.                                                             *)
(***************************************************************************)

\* A program starts with the input and output its place in the line says, with
\* errors on the console, and with no other descriptor: no pipe end that would
\* keep a reader from its end of file is left open in it.
ProgramsGetTheirStreams ==
  \A p \in Pid : At(p, "program") =>
    /\ proc[p].fd[0] = proc[p].want[1] /\ proc[p].fd[1] = proc[p].want[2] /\ proc[p].fd[2] = Cons
    /\ \A f \in Fd \ {0, 1, 2} : proc[p].fd[f] = Closed

\* When the shell prompts again, what is still running was started with "&"
\* (unless a fork() failed half-way).
ForegroundIsDone ==
  At(0, "prompt") /\ ~lost => \A p \in Pid \ {0} : proc[p].back

\* Every line that is typed leads to another prompt: every reader of a pipe gets
\* to its end, and every wait() is for a child that dies.
PromptReturns == At(0, "wait") ~> At(0, "prompt")
=============================================================================
