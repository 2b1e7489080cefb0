-------------------------------- MODULE Sched --------------------------------
(***************************************************************************)
(* spinlock.c and the context switching of proc.c: acquire/release with    *)
(* pushcli/popcli, scheduler, sched, yield, sleep and wakeup, on several   *)
(* CPUs, with timer and device interrupts.                                 *)
(*                                                                         *)
(* Processes make two system calls, the two sides of every sleep/wakeup    *)
(* pair of the kernel: "consume" waits under a lock lk until a condition   *)
(* holds, "produce" makes it hold under lk and calls wakeup().  A device   *)
(* interrupt runs "produce" on top of whatever its CPU was doing.          *)
(* A step is one acquire attempt, one release, or the code between two.    *)
(***************************************************************************)
EXTENDS Integers, Sequences, FiniteSets

CONSTANTS
  CPU,       \* processors
  NPROC,     \* processes 0 .. NPROC-1, in table order
  None

ASSUME SchedAssumption ==
  /\ NPROC \in Nat
  /\ CPU \cap (0 .. (NPROC - 1)) = {}
  /\ None \notin CPU \cup (0 .. (NPROC - 1))

VARIABLES
  lock,      \* holder of ptable.lock and of lk, or None
  cond,      \* the condition consumers wait for, protected by lk
  state,     \* p->state
  cpus,      \* struct cpu, FL_IF and the thread in control, per CPU
  pc,        \* where each thread is: processes, and a scheduler per CPU
  stack,     \* per thread: labels to return to from traps
  saved,     \* sched()'s local intena, per process; None before its first sched()
  panic      \* a panic() was reached

vars == <<lock, cond, state, cpus, pc, stack, saved, panic>>

Proc == 0 .. (NPROC - 1)
Thread == Proc \cup CPU

struct_cpu == [thread : Thread, ncli : 0 .. 2, intena : BOOLEAN, IF_ : BOOLEAN,
               spin : {"ptable", "lk", "none"}, next : 0 .. NPROC]

Label == {"user", "yield", "yield1", "yield2", "iret",
          "consume", "test", "sleep", "sleep1", "sleep2", "sleep3", "unlock",
          "produce", "wakeup", "wakeup1", "wakeup2",
          "idle", "lock", "scan"}

\* After userinit() and some fork()s: every process is about to return from
\* forkret(), and every CPU enters scheduler() with interrupts off.
Init ==
  /\ lock = [l \in {"ptable", "lk"} |-> None]
  /\ cond = FALSE
  /\ state = [p \in Proc |-> "RUNNABLE"]
  /\ cpus = [c \in CPU |-> [thread |-> c, ncli |-> 0, intena |-> FALSE, IF_ |-> FALSE,
                            spin |-> "none", next |-> 0]]
  /\ pc = [t \in Thread |-> IF t \in CPU THEN "idle" ELSE "yield2"]
  /\ stack = [t \in Thread |-> IF t \in CPU THEN <<>> ELSE <<"user">>]
  /\ saved = [p \in Proc |-> None]
  /\ panic = FALSE
-----------------------------------------------------------------------------
\* Thread t has control of CPU c at label from.
At(c, t, from) == ~panic /\ cpus[c].thread = t /\ pc[t] = from

Goto(t, to) == pc' = [pc EXCEPT ![t] = to]

\* Faulty variant: interrupts stay on.
pushcli_sti(r) ==
  [r EXCEPT !.ncli = @ + 1, !.intena = IF r.ncli = 0 THEN r.IF_ ELSE @]

pushcli(r) ==
  [r EXCEPT !.ncli = @ + 1, !.IF_ = FALSE, !.intena = IF r.ncli = 0 THEN r.IF_ ELSE @]

\* Faulty variant: interrupts come back on before ncli is 0.
popcli_sti(r) == [r EXCEPT !.ncli = @ - 1, !.IF_ = r.intena]

popcli(r) ==
  [r EXCEPT !.ncli = @ - 1, !.IF_ = (r.ncli = 1 /\ r.intena)]

\* acquire(l): pushcli, then xchg until it succeeds.
Acquire(c, t, l, to) ==
  \/ /\ cpus[c].spin = "none"
     /\ IF lock[l] = c THEN panic' = TRUE /\ UNCHANGED cpus
        ELSE /\ cpus' = [cpus EXCEPT ![c] = [pushcli(@) EXCEPT !.spin = l]]
             /\ UNCHANGED panic
     /\ UNCHANGED <<lock, pc>>
  \/ /\ cpus[c].spin = l
     /\ lock[l] = None
     /\ lock' = [lock EXCEPT ![l] = c]
     /\ cpus' = [cpus EXCEPT ![c].spin = "none"]
     /\ Goto(t, to)
     /\ UNCHANGED panic

\* release(l), with the panics of release() and popcli().
Release(c, t, l, to) ==
  IF lock[l] # c \/ cpus[c].IF_ \/ cpus[c].ncli < 1
  THEN panic' = TRUE /\ UNCHANGED <<lock, cpus, pc>>
  ELSE /\ lock' = [lock EXCEPT ![l] = None]
       /\ cpus' = [cpus EXCEPT ![c] = popcli(@)]
       /\ Goto(t, to)
       /\ UNCHANGED panic

\* sched() by p, whose state is now new: the CPU goes back to its scheduler().
sched(c, p, new, resume) ==
  IF lock["ptable"] # c \/ cpus[c].ncli # 1 \/ cpus[c].IF_
  THEN panic' = TRUE /\ UNCHANGED <<state, cpus, pc, saved>>
  ELSE /\ state' = [state EXCEPT ![p] = new]
       /\ saved' = [saved EXCEPT ![p] = cpus[c].intena]
       /\ cpus' = [cpus EXCEPT ![c].thread = c]
       /\ Goto(p, resume)
       /\ UNCHANGED panic
-----------------------------------------------------------------------------
\* A system call (trap gate: interrupts stay on).
syscall(c, p, call) ==
  /\ At(c, p, "user")
  /\ Goto(p, call)
  /\ stack' = [stack EXCEPT ![p] = <<"user">> \o @]
  /\ UNCHANGED <<lock, cond, state, cpus, saved, panic>>

\* An interrupt of thread t (interrupt gate: FL_IF is cleared).
interrupt(c, t, handler) ==
  /\ ~panic /\ cpus[c].thread = t /\ cpus[c].IF_
  /\ Goto(t, handler)
  /\ stack' = [stack EXCEPT ![t] = <<pc[t]>> \o @]
  /\ cpus' = [cpus EXCEPT ![c].IF_ = FALSE]
  /\ UNCHANGED <<lock, cond, state, saved, panic>>

\* Return from a trap: the interrupted code had interrupts on.
iret(c, t) ==
  /\ At(c, t, "iret")
  /\ Goto(t, Head(stack[t]))
  /\ stack' = [stack EXCEPT ![t] = Tail(@)]
  /\ cpus' = [cpus EXCEPT ![c].IF_ = TRUE]
  /\ UNCHANGED <<lock, cond, state, saved, panic>>

\* yield()
yield_lock(c, p) ==
  /\ At(c, p, "yield") /\ Acquire(c, p, "ptable", "yield1")
  /\ UNCHANGED <<cond, state, stack, saved>>

yield_sched(c, p) ==
  /\ At(c, p, "yield1") /\ sched(c, p, "RUNNABLE", "yield2")
  /\ UNCHANGED <<lock, cond, stack>>

\* Also forkret(): "Still holding ptable.lock from scheduler."
yield_unlock(c, p) ==
  /\ At(c, p, "yield2") /\ Release(c, p, "ptable", "iret")
  /\ UNCHANGED <<cond, state, stack, saved>>

\* A consumer: acquire(lk); while(!cond) sleep(chan, lk); release(lk).
consume_lock(c, p) ==
  /\ At(c, p, "consume") /\ Acquire(c, p, "lk", "test")
  /\ UNCHANGED <<cond, state, stack, saved>>

consume_test(c, p) ==
  /\ At(c, p, "test")
  /\ Goto(p, IF cond THEN "unlock" ELSE "sleep")
  /\ cond' = FALSE
  /\ UNCHANGED <<lock, state, cpus, stack, saved, panic>>

\* sleep(): ptable.lock first, then give lk up.
sleep_lock(c, p) ==
  /\ At(c, p, "sleep") /\ Acquire(c, p, "ptable", "sleep1")
  /\ UNCHANGED <<cond, state, stack, saved>>

sleep_release(c, p) ==
  /\ At(c, p, "sleep1") /\ Release(c, p, "lk", "sleep2")
  /\ UNCHANGED <<cond, state, stack, saved>>

sleep_sched(c, p) ==
  /\ At(c, p, "sleep2") /\ sched(c, p, "SLEEPING", "sleep3")
  /\ UNCHANGED <<lock, cond, stack>>

\* sleep() returns: release(&ptable.lock); acquire(lk).
sleep_unlock(c, p) ==
  /\ At(c, p, "sleep3") /\ Release(c, p, "ptable", "consume")
  /\ UNCHANGED <<cond, state, stack, saved>>

unlock(c, t) ==
  /\ At(c, t, "unlock") /\ Release(c, t, "lk", "iret")
  /\ UNCHANGED <<cond, state, stack, saved>>

\* A producer: acquire(lk); cond = 1; wakeup(chan); release(lk).
produce_lock(c, t) ==
  /\ At(c, t, "produce") /\ Acquire(c, t, "lk", "wakeup")
  /\ cond' = (cond \/ pc'[t] = "wakeup")
  /\ UNCHANGED <<state, stack, saved>>

wakeup_lock(c, t) ==
  /\ At(c, t, "wakeup") /\ Acquire(c, t, "ptable", "wakeup1")
  /\ UNCHANGED <<cond, state, stack, saved>>

\* Faulty variant: only one sleeper is woken.
wakeup1_first(c, t) ==
  /\ At(c, t, "wakeup1")
  /\ state' = [p \in Proc |->
                 IF state[p] = "SLEEPING" /\ \A q \in Proc : q < p => state[q] # "SLEEPING"
                 THEN "RUNNABLE" ELSE state[p]]
  /\ Goto(t, "wakeup2")
  /\ UNCHANGED <<lock, cond, cpus, stack, saved, panic>>

wakeup1(c, t) ==
  /\ At(c, t, "wakeup1")
  /\ state' = [p \in Proc |-> IF state[p] = "SLEEPING" THEN "RUNNABLE" ELSE state[p]]
  /\ Goto(t, "wakeup2")
  /\ UNCHANGED <<lock, cond, cpus, stack, saved, panic>>

wakeup_unlock(c, t) ==
  /\ At(c, t, "wakeup2") /\ Release(c, t, "ptable", "unlock")
  /\ UNCHANGED <<cond, state, stack, saved>>
-----------------------------------------------------------------------------
\* scheduler(): sti().
scheduler_sti(c) ==
  /\ At(c, c, "idle")
  /\ Goto(c, "lock")
  /\ cpus' = [cpus EXCEPT ![c].IF_ = TRUE, ![c].next = 0]
  /\ UNCHANGED <<lock, cond, state, stack, saved, panic>>

scheduler_lock(c) ==
  /\ At(c, c, "lock") /\ Acquire(c, c, "ptable", "scan")
  /\ UNCHANGED <<cond, state, stack, saved>>

Candidates(c) == {p \in Proc : p >= cpus[c].next /\ state[p] = "RUNNABLE"}

\* Faulty variant: the process stays RUNNABLE.
scheduler_switch_runnable(c) ==
  /\ At(c, c, "scan")
  /\ \E p \in Candidates(c) :
       /\ \A q \in Candidates(c) : p <= q
       /\ cpus' = [cpus EXCEPT ![c].thread = p, ![c].next = p + 1,
                               ![c].intena = IF saved[p] = None THEN @ ELSE saved[p]]
  /\ UNCHANGED <<lock, cond, state, pc, stack, saved, panic>>

\* scheduler(): the next RUNNABLE process of the table; ptable.lock goes along.
\* p resumes in sched(), which restores its intena, or in forkret().
scheduler_switch(c) ==
  /\ At(c, c, "scan")
  /\ \E p \in Candidates(c) :
       /\ \A q \in Candidates(c) : p <= q
       /\ state' = [state EXCEPT ![p] = "RUNNING"]
       /\ cpus' = [cpus EXCEPT ![c].thread = p, ![c].next = p + 1,
                               ![c].intena = IF saved[p] = None THEN @ ELSE saved[p]]
  /\ UNCHANGED <<lock, cond, pc, stack, saved, panic>>

\* scheduler(): the end of the table; release(&ptable.lock).
scheduler_unlock(c) ==
  /\ At(c, c, "scan")
  /\ Candidates(c) = {}
  /\ Release(c, c, "ptable", "idle")
  /\ UNCHANGED <<cond, state, stack, saved>>

ThreadStep(c, t) ==
  \/ iret(c, t)
  \/ produce_lock(c, t) \/ wakeup_lock(c, t) \/ wakeup1(c, t) \/ wakeup_unlock(c, t)
  \/ unlock(c, t)

ProcStep(c, p) ==
  \/ yield_lock(c, p) \/ yield_sched(c, p) \/ yield_unlock(c, p)
  \/ consume_lock(c, p) \/ consume_test(c, p)
  \/ sleep_lock(c, p) \/ sleep_release(c, p) \/ sleep_sched(c, p) \/ sleep_unlock(c, p)

SchedulerStep(c) ==
  \/ scheduler_sti(c) \/ scheduler_lock(c) \/ scheduler_switch(c) \/ scheduler_unlock(c)

Run(c) ==
  \/ SchedulerStep(c)
  \/ \E p \in Proc : ProcStep(c, p)
  \/ \E t \in Thread : ThreadStep(c, t)

timer(c) == \E p \in Proc : interrupt(c, p, "yield")

Next ==
  \E c \in CPU :
    \/ Run(c)
    \/ timer(c)
    \/ \E t \in Thread : interrupt(c, t, "produce")
    \/ \E p \in Proc : syscall(c, p, "consume") \/ syscall(c, p, "produce")

Spec == Init /\ [][Next]_vars

\* Type invariant.
TypeOK ==
  /\ lock \in [{"ptable", "lk"} -> CPU \cup {None}]
  /\ cond \in BOOLEAN
  /\ state \in [Proc -> {"SLEEPING", "RUNNABLE", "RUNNING"}]
  /\ cpus \in [CPU -> struct_cpu]
  /\ pc \in [Thread -> Label]
  /\ stack \in [Thread -> Seq(Label)]
  /\ saved \in [Proc -> BOOLEAN \cup {None}]
  /\ panic \in BOOLEAN

\* The code a thread runs when no trap has interrupted it.
Base(t) == IF t \in CPU THEN {"idle", "lock", "scan"} ELSE {"user"}

\* Traps nest: a thread is in its base code exactly when its stack holds no
\* return label, and the label at the bottom of the stack, and no other, is
\* one of its base code.  A return from a trap therefore finds a label.
TrapsNest ==
  \A t \in Thread :
    /\ stack[t] = <<>> <=> pc[t] \in Base(t)
    /\ \A i \in DOMAIN stack[t] : stack[t][i] \in Base(t) <=> i = Len(stack[t])

\* No assertion of acquire(), release(), popcli() or sched() ever fails: locks
\* are not re-acquired by an interrupt handler on the same CPU, sched() is
\* entered with ptable.lock only and interrupts off.  Nor does a trap return
\* to nowhere.
NoPanic == TypeOK /\ TrapsNest /\ ~panic

\* A thread without a CPU is inside swtch(): a scheduler() in its scan, a
\* process in sched() or at the start of forkret().
OffCpuInSwtch ==
  \A t \in Thread :
    (\A c \in CPU : cpus[c].thread # t) =>
      pc[t] \in IF t \in CPU THEN {"scan"} ELSE {"yield2", "sleep3"}

\* A process never runs on two CPUs, not even in the window between its state
\* change and swtch(): the RUNNING processes are exactly those in control of a
\* CPU, or on the way out with ptable.lock held.  No CPU runs the scheduler()
\* of another, and whatever has no CPU left it through swtch().
OneCpuPerProcess ==
  /\ \A c, d \in CPU : cpus[c].thread = cpus[d].thread => c = d
  /\ \A p \in Proc : state[p] = "RUNNING" <=> \E c \in CPU : cpus[c].thread = p
  /\ \A c \in CPU : cpus[c].thread \in Proc \cup {c}
  /\ OffCpuInSwtch

\* Where a thread holds each lock, and where it waits for one.
HoldsAt == [ptable |-> {"yield1", "yield2", "sleep1", "sleep2", "sleep3", "wakeup1", "wakeup2", "scan"},
            lk |-> {"test", "sleep", "sleep1", "wakeup", "wakeup1", "wakeup2", "unlock"}]
SpinsAt == [ptable |-> {"yield", "sleep", "wakeup", "lock"}, lk |-> {"consume", "produce"}]

\* A lock belongs to a CPU exactly while the thread in control of that CPU is
\* between the acquire() and the release(), although ptable.lock changes
\* threads in swtch(); code an interrupt suspends holds no lock.
LocksFollowThreads ==
  /\ \A c \in CPU, l \in {"ptable", "lk"} :
       /\ lock[l] = c <=> pc[cpus[c].thread] \in HoldsAt[l]
       /\ cpus[c].spin = l => pc[cpus[c].thread] \in SpinsAt[l]
  /\ \A t \in Thread : \A i \in DOMAIN stack[t], l \in {"ptable", "lk"} :
       stack[t][i] \notin HoldsAt[l]

\* cpu->ncli counts the locks its CPU holds or spins for, across context
\* switches that hand ptable.lock from one thread to another.
NcliCountsLocks ==
  \A c \in CPU :
    cpus[c].ncli = Cardinality({l \in {"ptable", "lk"} : lock[l] = c})
                   + (IF cpus[c].spin # "none" THEN 1 ELSE 0)

\* Interrupts are off on a CPU that holds or waits for a spinlock, and on in
\* user mode, whatever CPU the process comes back on.
InterruptFlag ==
  \A c \in CPU :
    /\ cpus[c].ncli > 0 => ~cpus[c].IF_
    /\ cpus[c].thread \in Proc /\ pc[cpus[c].thread] = "user" => cpus[c].IF_

\* What pushcli() and popcli() keep per CPU stays right although threads that
\* hold a lock move between CPUs.
CpuAccounting == LocksFollowThreads /\ NcliCountsLocks /\ InterruptFlag

\* No missed wakeup: while the condition holds and a process sleeps, or has
\* given lk up and is about to, some thread is between setting the condition
\* and its wakeup1().  Until it gives lk up, the condition it found false
\* stays false; and only a process inside sleep() is SLEEPING.
NoMissedWakeup ==
  \A p \in Proc :
    /\ (state[p] = "SLEEPING" \/ pc[p] = "sleep2") /\ cond =>
         \E t \in Thread : pc[t] \in {"wakeup", "wakeup1"}
    /\ pc[p] \in {"sleep", "sleep1"} => ~cond
    /\ state[p] = "SLEEPING" => pc[p] = "sleep3"
=============================================================================
