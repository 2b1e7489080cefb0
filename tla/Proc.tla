-------------------------------- MODULE Proc --------------------------------
(***************************************************************************)
(* proc.c: the life cycle of processes: fork, exit, wait and kill over the *)
(* process table.  A step is a critical section of ptable.lock, or one of  *)
(* the writes that fork() and allocproc() make to their EMBRYO without the *)
(* lock.  RUNNABLE stands for RUNNABLE and RUNNING: which of the runnable  *)
(* processes has a CPU is the subject of Sched.                            *)
(***************************************************************************)
EXTENDS Naturals, FiniteSets, FiniteSetsExt

CONSTANTS
  NPROC,     \* size of the process table
  MaxPid,    \* bound: pids handed out
  initproc,  \* slot of the first process
  None       \* null struct proc pointer

ASSUME ProcAssumption ==
  /\ NPROC \in Nat \ {0}
  /\ MaxPid \in Nat \ {0}
  /\ initproc = 0
  /\ None \notin 0 .. (NPROC - 1)

VARIABLES
  state,     \* p->state
  pid,       \* p->pid
  parent,    \* p->parent
  killed,    \* p->killed
  nextpid,   \* the next pid
  pc,        \* "user", "fork", "exit" (closing its files), "wait"
  np,        \* fork()'s local np
  panic      \* "init exiting"

vars == <<state, pid, parent, killed, nextpid, pc, np, panic>>

Slot == 0 .. (NPROC - 1)

procstate == {"UNUSED", "EMBRYO", "SLEEPING", "RUNNABLE", "ZOMBIE"}

\* p->parent == q
Child(p, q) == parent[p] = q

\* The loops over ptable.proc[] stop at the first slot that satisfies P.
Lowest(S) == Min(S)
-----------------------------------------------------------------------------
\* userinit(): the first process is in slot 0, with pid 1 and no parent.
Init ==
  /\ state = [s \in Slot |-> IF s = initproc THEN "RUNNABLE" ELSE "UNUSED"]
  /\ pid = [s \in Slot |-> IF s = initproc THEN 1 ELSE 0]
  /\ parent = [s \in Slot |-> None]
  /\ killed = [s \in Slot |-> FALSE]
  /\ nextpid = 2
  /\ pc = [s \in Slot |-> "user"]
  /\ np = [s \in Slot |-> None]
  /\ panic = FALSE
-----------------------------------------------------------------------------
\* A process in user space enters a system call; trap() sends a killed
\* process to exit() instead.
Calls(p) == ~panic /\ state[p] = "RUNNABLE" /\ pc[p] = "user" /\ ~killed[p]

Unused == {s \in Slot : state[s] = "UNUSED"}

\* fork() -> allocproc(): reserve a slot under ptable.lock.
allocproc(p) ==
  /\ Calls(p)
  /\ nextpid <= MaxPid
  /\ Unused # {}
  /\ LET s == Lowest(Unused) IN
       /\ state' = [state EXCEPT ![s] = "EMBRYO"]
       /\ pid' = [pid EXCEPT ![s] = nextpid]
       /\ np' = [np EXCEPT ![p] = s]
  /\ nextpid' = nextpid + 1
  /\ pc' = [pc EXCEPT ![p] = "fork"]
  /\ UNCHANGED <<parent, killed, panic>>

\* kalloc() or copyuvm() fails: the slot becomes UNUSED again, pid and all.
fork_fail(p) ==
  /\ ~panic /\ pc[p] = "fork" /\ state[p] = "RUNNABLE"
  /\ state' = [state EXCEPT ![np[p]] = "UNUSED"]
  /\ np' = [np EXCEPT ![p] = None]
  /\ pc' = [pc EXCEPT ![p] = "user"]
  /\ UNCHANGED <<pid, parent, killed, nextpid, panic>>

\* fork() completes the child and makes it RUNNABLE.
fork(p) ==
  /\ ~panic /\ pc[p] = "fork" /\ state[p] = "RUNNABLE"
  /\ parent' = [parent EXCEPT ![np[p]] = p]
  /\ state' = [state EXCEPT ![np[p]] = "RUNNABLE"]
  /\ pc' = [pc EXCEPT ![p] = "user", ![np[p]] = "user"]
  /\ np' = [np EXCEPT ![p] = None]
  /\ UNCHANGED <<pid, killed, nextpid, panic>>

\* exit(), called by the process or by trap(): starts to close its files.
exit_files(p) ==
  /\ ~panic /\ state[p] = "RUNNABLE" /\ pc[p] = "user"
  /\ IF p = initproc THEN panic' = TRUE /\ UNCHANGED pc
     ELSE pc' = [pc EXCEPT ![p] = "exit"] /\ UNCHANGED panic
  /\ UNCHANGED <<state, pid, parent, killed, nextpid, np>>

\* wakeup1(q): wait() sleeps on the process's own table entry.
Wakeup1(st, q) ==
  IF q # None /\ st[q] = "SLEEPING" /\ pc[q] = "wait"
  THEN [st EXCEPT ![q] = "RUNNABLE"] ELSE st

\* Faulty variant: the children are not passed to init.
exit_keeps_children(p) ==
  /\ ~panic /\ state[p] = "RUNNABLE" /\ pc[p] = "exit"
  /\ state' = [Wakeup1(state, parent[p]) EXCEPT ![p] = "ZOMBIE"]
  /\ UNCHANGED <<pid, parent, killed, nextpid, pc, np, panic>>

\* Faulty variant: init is not woken for a zombie it inherits.
exit_silent(p) ==
  /\ ~panic /\ state[p] = "RUNNABLE" /\ pc[p] = "exit"
  /\ state' = [Wakeup1(state, parent[p]) EXCEPT ![p] = "ZOMBIE"]
  /\ parent' = [c \in Slot |-> IF Child(c, p) THEN initproc ELSE parent[c]]
  /\ UNCHANGED <<pid, killed, nextpid, pc, np, panic>>

\* exit(), under ptable.lock: wake the parent, pass the children to init,
\* become a ZOMBIE.
exit(p) ==
  /\ ~panic /\ state[p] = "RUNNABLE" /\ pc[p] = "exit"
  /\ LET woken == Wakeup1(state, parent[p])
         zombies == \E c \in Slot : Child(c, p) /\ state[c] = "ZOMBIE" IN
       state' = [(IF zombies THEN Wakeup1(woken, initproc) ELSE woken)
                   EXCEPT ![p] = "ZOMBIE"]
  /\ parent' = [c \in Slot |-> IF Child(c, p) THEN initproc ELSE parent[c]]
  /\ UNCHANGED <<pid, killed, nextpid, pc, np, panic>>

\* wait() has ptable.lock: on entry, or after sleep().
Scans(p) == Calls(p) \/ (~panic /\ pc[p] = "wait" /\ state[p] = "RUNNABLE")

Kids(p) == {c \in Slot : Child(c, p)}
DeadKids(p) == {c \in Kids(p) : state[c] = "ZOMBIE"}

\* wait() finds a zombie child and frees its slot.
wait_reap(p) ==
  /\ Scans(p)
  /\ DeadKids(p) # {}
  /\ LET c == Lowest(DeadKids(p)) IN
       /\ state' = [state EXCEPT ![c] = "UNUSED"]
       /\ pid' = [pid EXCEPT ![c] = 0]
       /\ parent' = [parent EXCEPT ![c] = None]
       /\ killed' = [killed EXCEPT ![c] = FALSE]
       /\ pc' = [pc EXCEPT ![p] = "user", ![c] = "user"]
  /\ UNCHANGED <<nextpid, np, panic>>

\* wait() has nothing to wait for, or has been killed: returns -1.
wait_none(p) ==
  /\ Scans(p)
  /\ DeadKids(p) = {}
  /\ Kids(p) = {} \/ killed[p]
  /\ pc' = [pc EXCEPT ![p] = "user"]
  /\ UNCHANGED <<state, pid, parent, killed, nextpid, np, panic>>

\* wait(): sleep(proc, &ptable.lock).
wait_sleep(p) ==
  /\ Scans(p)
  /\ DeadKids(p) = {} /\ Kids(p) # {} /\ ~killed[p]
  /\ state' = [state EXCEPT ![p] = "SLEEPING"]
  /\ pc' = [pc EXCEPT ![p] = "wait"]
  /\ UNCHANGED <<pid, parent, killed, nextpid, np, panic>>

\* Faulty variant: a sleeping process is not woken.
kill_silent(p, n) ==
  /\ Calls(p)
  /\ \E s \in Slot : pid[s] = n
  /\ killed' = [killed EXCEPT ![Lowest({s \in Slot : pid[s] = n})] = TRUE]
  /\ UNCHANGED <<state, pid, parent, nextpid, pc, np, panic>>

\* kill(n): the first slot with that pid, whatever its state.
kill(p, n) ==
  /\ Calls(p)
  /\ LET matches == {s \in Slot : pid[s] = n} IN
       IF matches = {} THEN UNCHANGED <<killed, state>>
       ELSE LET s == Lowest(matches) IN
              /\ killed' = [killed EXCEPT ![s] = TRUE]
              /\ state' = [state EXCEPT ![s] = IF @ = "SLEEPING" THEN "RUNNABLE" ELSE @]
  /\ UNCHANGED <<pid, parent, nextpid, pc, np, panic>>

Step(p) ==
  \/ allocproc(p) \/ fork_fail(p) \/ fork(p)
  \/ exit_files(p) \/ exit(p)
  \/ wait_reap(p) \/ wait_none(p) \/ wait_sleep(p)
  \/ \E n \in 0 .. MaxPid : kill(p, n)

Next == \E p \in Slot : Step(p)

Spec == Init /\ [][Next]_vars

\* A runnable process in the kernel gets on (Sched), a killed process reaches
\* exit(), and init keeps calling wait() (init.c).
FairSpec ==
  /\ Spec
  /\ \A p \in Slot :
       /\ WF_vars(fork_fail(p) \/ fork(p))
       /\ WF_vars(killed[p] /\ exit_files(p))
       /\ WF_vars(exit(p))
       /\ WF_vars(pc[p] = "wait" /\ (wait_reap(p) \/ wait_none(p) \/ wait_sleep(p)))
  /\ SF_vars(wait_reap(initproc))
-----------------------------------------------------------------------------
(***************************************************************************)
(* Properties.                                                             *)
(***************************************************************************)

\* Type invariant.
TypeOK ==
  /\ state \in [Slot -> procstate]
  /\ pid \in [Slot -> 0 .. MaxPid]
  /\ parent \in [Slot -> Slot \cup {None}]
  /\ killed \in [Slot -> BOOLEAN]
  /\ nextpid \in 1 .. (MaxPid + 1)
  /\ pc \in [Slot -> {"user", "fork", "exit", "wait"}]
  /\ np \in [Slot -> Slot \cup {None}]
  /\ panic \in BOOLEAN

Live == {s \in Slot : state[s] \in {"SLEEPING", "RUNNABLE"}}

\* allocproc() gives every process a pid of its own, although failed forks
\* leave theirs in UNUSED slots and slots are reused.
PidsUnique ==
  \A s, t \in Slot :
    state[s] # "UNUSED" /\ state[t] # "UNUSED" /\ s # t => pid[s] # pid[t] /\ pid[s] # 0

Exists == Live \cup {s \in Slot : state[s] = "ZOMBIE"}

\* Every process and ZOMBIE but init has a parent that is alive and can reap
\* it, and following parent pointers leads to init, because no set of other
\* processes holds all of its parents: exit() hands its children over before it
\* becomes a ZOMBIE, creates no cycle and cuts no subtree off.
AncestryReachesInit ==
  /\ \A s \in Exists \ {initproc} : parent[s] \in Live
  /\ \A S \in SUBSET (Exists \ {initproc}) : S # {} => \E s \in S : parent[s] \notin S

\* wait() loses no wakeup: a process sleeps in wait() only while it has
\* children and none of them is a ZOMBIE, also when a child arrives by
\* re-parenting.
NoZombieBehindSleeper ==
  \A p \in Slot : state[p] = "SLEEPING" => Kids(p) # {} /\ DeadKids(p) = {}

\* An EMBRYO belongs to exactly one fork() in progress, so no two forks fill
\* the same slot and none leaks.
EmbryoHasOneForker ==
  /\ \A s \in Slot : state[s] = "EMBRYO" =>
       \E p \in Live : pc[p] = "fork" /\ np[p] = s
  /\ \A p, q \in Live : pc[p] = "fork" /\ pc[q] = "fork" /\ np[p] = np[q] => p = q

\* Where a process is in the code fits its state; pids in the table, stale ones
\* included, have been handed out; and init neither exits nor has a parent.
PhasesFitStates ==
  /\ \A s \in Slot :
       /\ state[s] \in {"UNUSED", "EMBRYO"} => pc[s] = "user" /\ parent[s] = None
       /\ state[s] = "ZOMBIE" => pc[s] = "exit"
       /\ state[s] = "SLEEPING" => pc[s] = "wait"
       /\ pc[s] = "fork" => np[s] \in Slot /\ state[np[s]] = "EMBRYO"
       /\ pid[s] < nextpid
       /\ state[s] # "UNUSED" => pid[s] # 0
  /\ initproc \in Live /\ pc[initproc] # "exit" /\ parent[initproc] = None

\* Whatever fork(), exit(), wait() and kill() do at the same time, the table
\* stays a tree of processes with distinct pids, rooted at init, in which no
\* slot leaks, no ZOMBIE is out of reach and no parent sleeps beside one.
TableIsConsistent ==
  /\ TypeOK /\ PidsUnique /\ AncestryReachesInit /\ NoZombieBehindSleeper /\ EmbryoHasOneForker
  /\ PhasesFitStates

\* A ZOMBIE that init inherited is reaped, unless init itself dies.
OrphansReaped ==
  \A s \in Slot :
    state[s] = "ZOMBIE" /\ parent[s] = initproc ~> state[s] = "UNUSED" \/ panic

\* A killed process becomes a ZOMBIE, wherever kill() met it, wait() and fork()
\* included; killing init stops the machine.
KilledDies ==
  \A s \in Slot :
    state[s] \in {"SLEEPING", "RUNNABLE"} /\ killed[s]
      ~> state[s] \in {"ZOMBIE", "UNUSED"} \/ panic
=============================================================================
