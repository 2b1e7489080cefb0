----------------------------- MODULE SchedProofs -----------------------------
(***************************************************************************)
(* Sched: spinlock.c and the context switches of proc.c never reach one of *)
(* their panics, keep every process on one CPU and every CPU's account of  *)
(* its locks right, and miss no wakeup, for every number of CPUs and of    *)
(* processes.                                                              *)
(***************************************************************************)
EXTENDS Sched, FiniteSetTheorems, SequenceTheorems, TLAPS

USE SchedAssumption, ZenonT(60)

Locks == {"ptable", "lk"}

\* The locks CPU c holds, counted one by one.
HeldCount(c) ==
  (IF lock["ptable"] = c THEN 1 ELSE 0) + (IF lock["lk"] = c THEN 1 ELSE 0)

LEMMA CountOfTwo ==
  ASSUME NEW A \in BOOLEAN, NEW B \in BOOLEAN
  PROVE  Cardinality({l \in {"ptable", "lk"} : (l = "ptable" /\ A) \/ (l = "lk" /\ B)})
           = (IF A THEN 1 ELSE 0) + (IF B THEN 1 ELSE 0)
<1> DEFINE S == {l \in {"ptable", "lk"} : (l = "ptable" /\ A) \/ (l = "lk" /\ B)}
<1> SUFFICES Cardinality(S) = (IF A THEN 1 ELSE 0) + (IF B THEN 1 ELSE 0)
  BY SMTT(60)
<1>1. CASE A /\ B
  <2>1. S = {"ptable"} \cup {"lk"}
    BY <1>1, SMTT(60)
  <2>2. IsFiniteSet({"ptable"}) /\ Cardinality({"ptable"}) = 1 /\ "lk" \notin {"ptable"}
    BY FS_Singleton
  <2>3. Cardinality({"ptable"} \cup {"lk"}) = 2
    BY <2>2, FS_AddElement, SMTT(60)
  <2> HIDE DEF S
  <2> QED BY <1>1, <2>1, <2>3, SMTT(60)
<1>2. CASE A /\ ~B
  <2>1. S = {"ptable"}
    BY <1>2
  <2>2. Cardinality({"ptable"}) = 1
    BY FS_Singleton
  <2> HIDE DEF S
  <2> QED BY <1>2, <2>1, <2>2, SMTT(60)
<1>3. CASE ~A /\ B
  <2>1. S = {"lk"}
    BY <1>3
  <2>2. Cardinality({"lk"}) = 1
    BY FS_Singleton
  <2> HIDE DEF S
  <2> QED BY <1>3, <2>1, <2>2, SMTT(60)
<1>4. CASE ~A /\ ~B
  <2>1. S = {}
    BY <1>4
  <2> QED BY <1>4, <2>1, FS_EmptySet, SMTT(60)
<1> QED BY <1>1, <1>2, <1>3, <1>4

\* The counting of NcliCountsLocks, one lock at a time.
LEMMA CountIsSum ==
  ASSUME NEW c
  PROVE  Cardinality({l \in {"ptable", "lk"} : lock[l] = c}) = HeldCount(c)
<1>1. {l \in {"ptable", "lk"} : lock[l] = c}
        = {l \in {"ptable", "lk"} : (l = "ptable" /\ lock["ptable"] = c) \/ (l = "lk" /\ lock["lk"] = c)}
  OBVIOUS
<1> QED BY <1>1, CountOfTwo DEF HeldCount

\* What is true of a CPU and the thread in control of it.
CpuOk(c) ==
  /\ cpus[c].thread \in Proc \cup {c}
  /\ \A l \in Locks : lock[l] = c <=> pc[cpus[c].thread] \in HoldsAt[l]
  /\ \A l \in Locks : cpus[c].spin = l => pc[cpus[c].thread] \in SpinsAt[l]
  /\ cpus[c].ncli = HeldCount(c) + (IF cpus[c].spin # "none" THEN 1 ELSE 0)
  /\ cpus[c].ncli > 0 => ~cpus[c].IF_
  /\ cpus[c].thread \in Proc /\ pc[cpus[c].thread] = "user" => cpus[c].IF_

\* What is true of a thread's stack.
StackOk(t) ==
  /\ stack[t] = <<>> <=> pc[t] \in Base(t)
  /\ \A i \in DOMAIN stack[t] : stack[t][i] \in Base(t) <=> i = Len(stack[t])
  /\ \A i \in DOMAIN stack[t], l \in Locks : stack[t][i] \notin HoldsAt[l]

\* Who runs where.
Placement ==
  /\ \A c, d \in CPU : cpus[c].thread = cpus[d].thread => c = d
  /\ \A p \in Proc : state[p] = "RUNNING" <=> \E c \in CPU : cpus[c].thread = p
  /\ OffCpuInSwtch

\* The inductive invariant: the properties of the model, together.
SchedInv == NoPanic /\ OneCpuPerProcess /\ CpuAccounting /\ NoMissedWakeup

\* The same, by CPU and by thread.
Inv ==
  /\ TypeOK /\ ~panic
  /\ \A c \in CPU : CpuOk(c)
  /\ \A t \in Thread : StackOk(t)
  /\ Placement
  /\ NoMissedWakeup

LEMMA InvIsSchedInv == Inv <=> SchedInv
<1>1. NcliCountsLocks <=> \A c \in CPU : cpus[c].ncli = HeldCount(c) + (IF cpus[c].spin # "none" THEN 1 ELSE 0)
  BY CountIsSum DEF NcliCountsLocks
<1>2. NoPanic <=> TypeOK /\ ~panic /\ TrapsNest
  BY DEF NoPanic
<1>3. (\A t \in Thread : StackOk(t)) <=>
        /\ TrapsNest
        /\ \A t \in Thread : \A i \in DOMAIN stack[t], l \in {"ptable", "lk"} : stack[t][i] \notin HoldsAt[l]
  BY DEF StackOk, TrapsNest, Locks
<1>4. OneCpuPerProcess <=> Placement /\ \A c \in CPU : cpus[c].thread \in Proc \cup {c}
  BY DEF OneCpuPerProcess, Placement
<1>5. (\A c \in CPU : CpuOk(c)) <=>
        /\ \A c \in CPU : cpus[c].thread \in Proc \cup {c}
        /\ \A c \in CPU, l \in {"ptable", "lk"} :
             /\ lock[l] = c <=> pc[cpus[c].thread] \in HoldsAt[l]
             /\ cpus[c].spin = l => pc[cpus[c].thread] \in SpinsAt[l]
        /\ NcliCountsLocks /\ InterruptFlag
  BY <1>1, SMTT(60) DEF CpuOk, InterruptFlag, Locks
<1> QED BY <1>2, <1>3, <1>4, <1>5 DEF Inv, SchedInv, CpuAccounting, LocksFollowThreads

LEMMA InvInit == Init => Inv
<1> SUFFICES ASSUME Init PROVE Inv
  OBVIOUS
<1>0. Thread = Proc \cup CPU /\ Proc \cap CPU = {} /\ None \notin Thread
  BY DEF Thread, Proc
<1>1. TypeOK
  <2>1. cpus \in [CPU -> struct_cpu]
    BY <1>0, SMTT(60) DEF Init, struct_cpu
  <2>2. stack \in [Thread -> Seq(Label)]
    <3>1. <<>> \in Seq(Label) /\ <<"user">> \in Seq(Label)
      BY SMTT(60) DEF Label
    <3> QED BY <3>1 DEF Init
  <2>3. pc \in [Thread -> Label]
    BY DEF Init, Label
  <2> QED BY <2>1, <2>2, <2>3 DEF TypeOK, Init
<1>2. ASSUME NEW c \in CPU PROVE CpuOk(c)
  <2>1. /\ cpus[c].thread = c /\ cpus[c].ncli = 0 /\ cpus[c].spin = "none"
        /\ lock["ptable"] # c /\ lock["lk"] # c /\ pc[c] = "idle" /\ c \notin Proc
    BY <1>0 DEF Init
  <2>2. HeldCount(c) = 0
    BY <2>1, SMTT(60) DEF HeldCount
  <2> QED BY <2>1, <2>2, SMTT(60) DEF CpuOk, HoldsAt, Locks
<1>3. ASSUME NEW t \in Thread PROVE StackOk(t)
  <2>1. CASE t \in CPU
    BY <1>0, <2>1, SMTT(60) DEF Init, StackOk, Base
  <2>2. CASE t \notin CPU
    <3>1. stack[t] = <<"user">> /\ pc[t] = "yield2" /\ Base(t) = {"user"}
      BY <1>0, <2>2 DEF Init, Base
    <3> QED BY <3>1, SMTT(60) DEF StackOk, HoldsAt, Locks
  <2> QED BY <2>1, <2>2
<1>4. Placement
  <2>1. \A c \in CPU : cpus[c].thread = c
    BY DEF Init
  <2> QED BY <1>0, <2>1 DEF Init, Placement, OffCpuInSwtch
<1>5. NoMissedWakeup
  BY <1>0 DEF Init, NoMissedWakeup
<1> QED BY <1>1, <1>2, <1>3, <1>4, <1>5 DEF Inv, Init

-----------------------------------------------------------------------------
\* Everything but NoMissedWakeup, which is about the condition.
Core ==
  /\ TypeOK /\ ~panic
  /\ \A c \in CPU : CpuOk(c)
  /\ \A t \in Thread : StackOk(t)
  /\ Placement

\* A step of the thread in control of c that keeps control.
LocalStep(c, t) ==
  /\ cpus[c].thread = t /\ cpus'[c].thread = t
  /\ \A d \in CPU \ {c} : cpus'[d] = cpus[d]
  /\ \A u \in Thread \ {t} : pc'[u] = pc[u] /\ stack'[u] = stack[u]
  /\ \A l \in Locks : lock'[l] = lock[l] \/ {lock[l], lock'[l]} = {c, None}
  /\ \A p \in Proc : state'[p] = "RUNNING" <=> state[p] = "RUNNING"

\* Such a step is right if it is right for its CPU and its stack.
LEMMA LocalStepKeeps ==
  ASSUME Core, NEW c \in CPU, NEW t \in Thread, LocalStep(c, t),
         TypeOK', ~panic', CpuOk(c)', StackOk(t)'
  PROVE  Core'
<1>1. ASSUME NEW d \in CPU \ {c} PROVE CpuOk(d)'
  <2>1. cpus'[d] = cpus[d] /\ cpus[d].thread # t
    BY SMTT(60) DEF LocalStep, Core, Placement
  <2>2. cpus[d].thread \in Thread /\ pc'[cpus[d].thread] = pc[cpus[d].thread]
    BY <2>1 DEF LocalStep, Core, TypeOK, struct_cpu
  <2>3. \A l \in Locks : lock'[l] = d <=> lock[l] = d
    <3>1. d # c /\ d # None
      BY DEF Core
    <3> QED BY <3>1, SMTT(60) DEF LocalStep
  <2>4. HeldCount(d)' = HeldCount(d)
    BY <2>3 DEF HeldCount, Locks
  <2> QED BY <2>1, <2>2, <2>3, <2>4, SMTT(60) DEF CpuOk, Core
<1>2. ASSUME NEW u \in Thread \ {t} PROVE StackOk(u)'
  BY SMTT(60) DEF LocalStep, Core, StackOk, Base
<1>3. Placement'
  <2>1. \A d \in CPU : cpus'[d].thread = cpus[d].thread
    BY DEF LocalStep
  <2>2. OffCpuInSwtch'
    BY <2>1, SMTT(60) DEF LocalStep, Core, Placement, OffCpuInSwtch
  <2> QED BY <2>1, <2>2, SMTT(60) DEF LocalStep, Core, Placement
<1> QED BY <1>1, <1>2, <1>3 DEF Core

\* Values of the fields of the CPU that moves.
CpuIs(c, thread, ncli, IF_, spin) ==
  /\ cpus'[c].thread = thread /\ cpus'[c].ncli = ncli
  /\ cpus'[c].IF_ = IF_ /\ cpus'[c].spin = spin
  /\ \A d \in CPU \ {c} : cpus'[d] = cpus[d]

\* pushcli() and popcli() keep the types of struct cpu.
LEMMA FourFields ==
  ASSUME NEW r \in struct_cpu, NEW n \in 0 .. 2, NEW i \in BOOLEAN, NEW j \in BOOLEAN, NEW l \in Locks
  PROVE  [[r EXCEPT !.ncli = n, !.IF_ = i, !.intena = j] EXCEPT !.spin = l] \in struct_cpu
BY DEF struct_cpu, Locks

LEMMA PushcliType ==
  ASSUME NEW r \in struct_cpu, r.ncli \in 0 .. 1, NEW l \in Locks
  PROVE  [pushcli(r) EXCEPT !.spin = l] \in struct_cpu
<1>1. r.ncli + 1 \in 0 .. 2
  BY SMTT(60)
<1>2. PICK i \in BOOLEAN : i = IF r.ncli = 0 THEN r.IF_ ELSE r.intena
  BY DEF struct_cpu
<1>3. pushcli(r) = [r EXCEPT !.ncli = r.ncli + 1, !.IF_ = FALSE, !.intena = i]
  BY <1>2 DEF pushcli
<1>4. [[r EXCEPT !.ncli = r.ncli + 1, !.IF_ = FALSE, !.intena = i] EXCEPT !.spin = l] \in struct_cpu
  BY <1>1, FourFields
<1> QED BY <1>3, <1>4

LEMMA TwoFields ==
  ASSUME NEW r \in struct_cpu, NEW n \in 0 .. 2, NEW i \in BOOLEAN
  PROVE  [r EXCEPT !.ncli = n, !.IF_ = i] \in struct_cpu
BY DEF struct_cpu

LEMMA PopcliType ==
  ASSUME NEW r \in struct_cpu, r.ncli \in 1 .. 2
  PROVE  popcli(r) \in struct_cpu
<1>1. r.ncli - 1 \in 0 .. 2
  BY SMTT(60)
<1>2. PICK i \in BOOLEAN : i = (r.ncli = 1 /\ r.intena)
  OBVIOUS
<1>3. popcli(r) = [r EXCEPT !.ncli = r.ncli - 1, !.IF_ = i]
  BY <1>2 DEF popcli
<1>4. [r EXCEPT !.ncli = r.ncli - 1, !.IF_ = i] \in struct_cpu
  BY <1>1, TwoFields
<1> QED BY <1>3, <1>4

\* acquire(), between a label that may wait for l and one that holds it.
AcquireOk(t, l, from, to) ==
  /\ from \in SpinsAt[l] /\ from \notin HoldsAt[l] /\ from # "user"
  /\ to \in HoldsAt[l] /\ to \in Label /\ to # "user"
  /\ \A k \in Locks \ {l} : to \in HoldsAt[k] <=> from \in HoldsAt[k]
  /\ to \in Base(t) <=> from \in Base(t)

LEMMA AcquireKeeps ==
  ASSUME Core, NEW c \in CPU, NEW t \in Thread, NEW l \in Locks, NEW from, NEW to,
         AcquireOk(t, l, from, to), At(c, t, from), Acquire(c, t, l, to),
         stack' = stack, state' = state, saved' = saved, cond' \in BOOLEAN
  PROVE  Core' /\ (pc' = pc \/ (lock[l] = None /\ pc' = [pc EXCEPT ![t] = to]))
<1>0. /\ cpus \in [CPU -> struct_cpu] /\ cpus[c].thread = t /\ pc[t] = from /\ pc \in [Thread -> Label]
      /\ lock[l] # c /\ c # None /\ lock \in [Locks -> CPU \cup {None}] /\ CpuOk(c) /\ StackOk(t)
  BY SMTT(60) DEF At, AcquireOk, Core, CpuOk, TypeOK, Locks
<1>1. CASE cpus[c].spin = "none"
  <2>1. cpus' = [cpus EXCEPT ![c] = [pushcli(@) EXCEPT !.spin = l]] /\ UNCHANGED <<panic, lock, pc>>
    BY <1>0, <1>1 DEF Acquire, Locks
  <2>2. CpuIs(c, t, cpus[c].ncli + 1, FALSE, l) /\ cpus'[c].intena \in BOOLEAN /\ cpus'[c].next = cpus[c].next
    BY <1>0, <2>1, SMTT(60) DEF CpuIs, pushcli, struct_cpu
  <2>3. cpus[c].ncli = HeldCount(c) /\ HeldCount(c) \in 0 .. 1
    BY <1>0, <1>1, SMTT(60) DEF CpuOk, HeldCount, Locks
  <2>4. TypeOK'
    <3>1. cpus' \in [CPU -> struct_cpu]
      <4>1. cpus'[c] \in struct_cpu
        BY <1>0, <2>1, <2>3, PushcliType
      <4> QED BY <1>0, <2>1, <4>1
    <3> QED BY <2>1, <3>1 DEF Core, TypeOK
  <2>5. HeldCount(c)' = HeldCount(c)
    BY <2>1 DEF HeldCount
  <2>6. CpuOk(c)'
    <3>1. l # "none" /\ \A k \in Locks : k = l => pc'[t] \in SpinsAt[k]
      BY <1>0, <2>1 DEF AcquireOk, Locks
    <3> QED BY <1>0, <2>1, <2>2, <2>3, <2>5, <3>1 DEF CpuIs, CpuOk, AcquireOk
  <2>7. StackOk(t)'
    BY <1>0, <2>1 DEF StackOk, Base
  <2>8. LocalStep(c, t)
    BY <1>0, <2>1, <2>2 DEF LocalStep, CpuIs
  <2>9. ~panic'
    BY <2>1 DEF Core
  <2> QED BY <2>1, <2>4, <2>6, <2>7, <2>8, <2>9, LocalStepKeeps
<1>2. CASE cpus[c].spin # "none"
  <2>1. /\ cpus[c].spin = l /\ lock[l] = None /\ lock' = [lock EXCEPT ![l] = c]
        /\ cpus' = [cpus EXCEPT ![c].spin = "none"] /\ pc' = [pc EXCEPT ![t] = to] /\ UNCHANGED panic
    BY <1>2 DEF Acquire, Goto
  <2>2. CpuIs(c, t, cpus[c].ncli, cpus[c].IF_, "none")
    BY <1>0, <2>1, SMTT(60) DEF CpuIs, struct_cpu
  <2>3. lock'[l] = c /\ (\A k \in Locks \ {l} : lock'[k] = lock[k]) /\ pc'[t] = to
    BY <1>0, <2>1
  <2>4. TypeOK'
    <3>1. cpus' \in [CPU -> struct_cpu]
      BY <1>0, <2>1, SMTT(60) DEF struct_cpu
    <3>2. lock' \in [Locks -> CPU \cup {None}] /\ pc' \in [Thread -> Label]
      BY <1>0, <2>1 DEF AcquireOk
    <3> QED BY <2>1, <3>1, <3>2 DEF Core, TypeOK, Locks
  <2>5. HeldCount(c)' = HeldCount(c) + 1
    BY <1>0, <2>3, SMTT(60) DEF HeldCount, Locks
  <2>6. CpuOk(c)'
    <3>1. cpus[c].ncli = HeldCount(c) + 1 /\ HeldCount(c) \in Nat
      BY <1>0, <1>2, SMTT(60) DEF CpuOk, HeldCount
    <3>2. \A k \in Locks : lock'[k] = c <=> to \in HoldsAt[k]
      BY <1>0, <2>3, SMTT(60) DEF AcquireOk, CpuOk
    <3>3. cpus'[c].ncli = HeldCount(c)' + 0
      BY <2>2, <2>5, <3>1, SMTT(60) DEF CpuIs
    <3>4. \A k \in Locks : k # "none"
      BY DEF Locks
    <3> QED BY <1>0, <2>2, <2>3, <3>2, <3>3, <3>4, SMTT(60) DEF CpuIs, CpuOk, AcquireOk
  <2>7. StackOk(t)'
    BY <1>0, <2>3 DEF StackOk, Base, AcquireOk
  <2>8. LocalStep(c, t)
    BY <1>0, <2>1, <2>2, <2>3, SMTT(60) DEF LocalStep, CpuIs
  <2>9. ~panic'
    BY <2>1 DEF Core
  <2> QED BY <2>1, <2>4, <2>6, <2>7, <2>8, <2>9, LocalStepKeeps
<1> QED BY <1>1, <1>2

\* release(), between a label that holds l and one that does not.
ReleaseOk(t, l, from, to) ==
  /\ from \in HoldsAt[l] /\ \A k \in Locks : from \notin SpinsAt[k]
  /\ to \notin HoldsAt[l] /\ to \in Label /\ to # "user"
  /\ \A k \in Locks \ {l} : to \in HoldsAt[k] <=> from \in HoldsAt[k]
  /\ to \in Base(t) <=> from \in Base(t)

LEMMA ReleaseKeeps ==
  ASSUME Core, NEW c \in CPU, NEW t \in Thread, NEW l \in Locks, NEW from, NEW to,
         ReleaseOk(t, l, from, to), At(c, t, from), Release(c, t, l, to),
         stack' = stack, state' = state, saved' = saved, cond' \in BOOLEAN
  PROVE  Core' /\ pc' = [pc EXCEPT ![t] = to]
<1>0. /\ cpus \in [CPU -> struct_cpu] /\ cpus[c].thread = t /\ pc[t] = from /\ pc \in [Thread -> Label]
      /\ lock[l] = c /\ c # None /\ lock \in [Locks -> CPU \cup {None}] /\ CpuOk(c) /\ StackOk(t)
  BY SMTT(60) DEF At, ReleaseOk, Core, CpuOk, TypeOK, Locks
<1>1. cpus[c].spin = "none"
  BY <1>0 DEF CpuOk, ReleaseOk, struct_cpu, Locks
<1>2. cpus[c].ncli = HeldCount(c) /\ HeldCount(c) \in 1 .. 2 /\ ~cpus[c].IF_
  BY <1>0, <1>1, SMTT(60) DEF CpuOk, HeldCount, Locks
<1>3. /\ lock' = [lock EXCEPT ![l] = None] /\ cpus' = [cpus EXCEPT ![c] = popcli(@)]
      /\ pc' = [pc EXCEPT ![t] = to] /\ UNCHANGED panic
  BY <1>0, <1>2, SMTT(60) DEF Release, Goto
<1>4. CpuIs(c, t, cpus[c].ncli - 1, cpus[c].ncli = 1 /\ cpus[c].intena, "none")
  BY <1>0, <1>1, <1>3, SMTT(60) DEF CpuIs, popcli, struct_cpu
<1>5. lock'[l] = None /\ (\A k \in Locks \ {l} : lock'[k] = lock[k]) /\ pc'[t] = to
  BY <1>0, <1>3
<1>6. TypeOK'
  <2>1. cpus' \in [CPU -> struct_cpu]
    <3>1. cpus'[c] \in struct_cpu
      BY <1>0, <1>2, <1>3, PopcliType
    <3> QED BY <1>0, <1>3, <3>1
  <2>2. lock' \in [Locks -> CPU \cup {None}] /\ pc' \in [Thread -> Label]
    BY <1>0, <1>3 DEF ReleaseOk
  <2> QED BY <1>3, <2>1, <2>2 DEF Core, TypeOK, Locks
<1>7. HeldCount(c)' = HeldCount(c) - 1
  BY <1>0, <1>5, SMTT(60) DEF HeldCount, Locks
<1>8. CpuOk(c)'
  <2>1. \A k \in Locks : lock'[k] = c <=> to \in HoldsAt[k]
    BY <1>0, <1>5, SMTT(60) DEF ReleaseOk, CpuOk
  <2>2. cpus'[c].ncli = HeldCount(c)' + 0
    BY <1>2, <1>4, <1>7, SMTT(60) DEF CpuIs
  <2>3. \A k \in Locks : k # "none"
    BY DEF Locks
  <2>4. cpus'[c].ncli > 0 => ~cpus'[c].IF_
    <3>1. cpus'[c].ncli = cpus[c].ncli - 1 /\ cpus'[c].IF_ = (cpus[c].ncli = 1 /\ cpus[c].intena)
      BY <1>4 DEF CpuIs
    <3>2. CASE cpus[c].ncli = 1
      BY <3>1, <3>2, SMTT(60)
    <3>3. CASE cpus[c].ncli # 1
      BY <3>1, <3>3
    <3> QED BY <3>2, <3>3
  <2>5. cpus'[c].thread = t /\ cpus'[c].spin = "none" /\ cpus[c].thread \in Proc \cup {c}
    BY <1>0, <1>4 DEF CpuIs, CpuOk
  <2> QED BY <1>0, <1>5, <2>1, <2>2, <2>3, <2>4, <2>5, SMTT(60) DEF CpuOk, ReleaseOk
<1>9. StackOk(t)'
  BY <1>0, <1>5, SMTT(60) DEF StackOk, Base, ReleaseOk
<1>10. LocalStep(c, t)
  BY <1>0, <1>3, <1>4, <1>5 DEF LocalStep, CpuIs
<1>11. ~panic'
  BY <1>3 DEF Core
<1> QED BY <1>3, <1>6, <1>8, <1>9, <1>10, <1>11, LocalStepKeeps

\* sched(): control goes from p back to the scheduler() of its CPU, which waits
\* in its scan, and ptable.lock goes along.
LEMMA SchedKeeps ==
  ASSUME Core, NEW c \in CPU, NEW p \in Proc, NEW from \in {"yield1", "sleep2"}, NEW resume \in {"yield2", "sleep3"},
         NEW new \in {"RUNNABLE", "SLEEPING"}, At(c, p, from), sched(c, p, new, resume),
         UNCHANGED <<lock, cond, stack>>
  PROVE  /\ Core' /\ pc' = [pc EXCEPT ![p] = resume] /\ state' = [state EXCEPT ![p] = new]
<1>0. /\ cpus \in [CPU -> struct_cpu] /\ cpus[c].thread = p /\ pc[p] = from /\ pc \in [Thread -> Label]
      /\ c # None /\ CpuOk(c) /\ p \in Thread /\ p \notin CPU /\ c \in Thread /\ c \notin Proc
  BY DEF At, Core, TypeOK, Thread, Proc
<1>1. lock["ptable"] = c /\ lock["lk"] # c /\ cpus[c].spin = "none"
  BY <1>0 DEF CpuOk, HoldsAt, SpinsAt, Locks, struct_cpu
<1>2. cpus[c].ncli = 1 /\ ~cpus[c].IF_
  BY <1>0, <1>1, SMTT(60) DEF CpuOk, HeldCount
<1>3. /\ state' = [state EXCEPT ![p] = new] /\ saved' = [saved EXCEPT ![p] = cpus[c].intena]
      /\ cpus' = [cpus EXCEPT ![c].thread = c] /\ pc' = [pc EXCEPT ![p] = resume] /\ UNCHANGED panic
  BY <1>1, <1>2 DEF sched, Goto
<1>4. /\ CpuIs(c, c, 1, cpus[c].IF_, "none")
  BY <1>0, <1>1, <1>2, <1>3, SMTT(60) DEF CpuIs, struct_cpu
<1>5. \A d \in CPU : cpus[d].thread # c
  BY <1>0, SMTT(60) DEF Core, CpuOk
<1>6. pc[c] = "scan" /\ pc'[c] = "scan" /\ pc'[p] = resume /\ \A u \in Thread \ {p} : pc'[u] = pc[u]
  BY <1>0, <1>3, <1>5, SMTT(60) DEF Core, Placement, OffCpuInSwtch
<1>7. TypeOK'
  <2>1. cpus' \in [CPU -> struct_cpu]
    BY <1>0, <1>3, SMTT(60) DEF struct_cpu
  <2>2. pc' \in [Thread -> Label]
    BY <1>0, <1>3 DEF Label
  <2>3. cpus[c].intena \in BOOLEAN
    BY <1>0 DEF struct_cpu
  <2>4. state' \in [Proc -> {"SLEEPING", "RUNNABLE", "RUNNING"}] /\ saved' \in [Proc -> BOOLEAN \cup {None}]
    BY <1>3, <2>3 DEF Core, TypeOK
  <2> QED BY <1>3, <2>1, <2>2, <2>4 DEF Core, TypeOK
<1>8. ASSUME NEW d \in CPU PROVE CpuOk(d)'
  <2>1. HeldCount(d)' = HeldCount(d)
    BY DEF HeldCount
  <2>2. CASE d = c
    <3>1. HeldCount(c) = 1
      BY <1>1, SMTT(60) DEF HeldCount
    <3> QED BY <1>0, <1>1, <1>2, <1>4, <1>6, <2>1, <2>2, <3>1, SMTT(60) DEF CpuIs, CpuOk, HoldsAt, Locks
  <2>3. CASE d # c
    <3>1. cpus'[d] = cpus[d] /\ cpus[d].thread # p
      BY <1>0, <1>4, <2>3, SMTT(60) DEF CpuIs, Core, Placement
    <3>2. cpus[d].thread \in Thread /\ pc'[cpus[d].thread] = pc[cpus[d].thread]
      BY <1>0, <1>6, <3>1 DEF struct_cpu
    <3> QED BY <2>1, <3>1, <3>2, SMTT(60) DEF Core, CpuOk
  <2> QED BY <2>2, <2>3
<1>9. ASSUME NEW u \in Thread PROVE StackOk(u)'
  <2>1. pc'[u] \in Base(u) <=> pc[u] \in Base(u)
    BY <1>0, <1>6 DEF Base
  <2> QED BY <2>1, SMTT(60) DEF Core, StackOk, Base
<1>10. Placement'
  <2>1. \A d \in CPU \ {c} : cpus'[d].thread = cpus[d].thread /\ cpus[d].thread # p
    BY <1>0, <1>4, SMTT(60) DEF CpuIs, Core, Placement
  <2>2. cpus'[c].thread = c
    BY <1>4 DEF CpuIs
  <2>3. \A d, e \in CPU : cpus'[d].thread = cpus'[e].thread => d = e
    BY <1>5, <2>1, <2>2, SMTT(60) DEF Core, Placement
  <2>4. ASSUME NEW q \in Proc PROVE state'[q] = "RUNNING" <=> \E d \in CPU : cpus'[d].thread = q
    <3>1. CASE q = p
      BY <1>0, <1>3, <2>1, <2>2, <3>1, SMTT(60) DEF Core, TypeOK
    <3>2. CASE q # p
      <4>1. state'[q] = state[q]
        BY <1>3, <3>2 DEF Core, TypeOK
      <4>2. (\E d \in CPU : cpus'[d].thread = q) <=> (\E d \in CPU : cpus[d].thread = q)
        BY <1>0, <2>1, <2>2, <3>2, SMTT(60)
      <4> QED BY <4>1, <4>2, SMTT(60) DEF Core, Placement
    <3> QED BY <3>1, <3>2
  <2>5. OffCpuInSwtch'
    <3> SUFFICES ASSUME NEW u \in Thread, \A d \in CPU : cpus'[d].thread # u
                 PROVE  pc'[u] \in IF u \in CPU THEN {"scan"} ELSE {"yield2", "sleep3"}
      BY DEF OffCpuInSwtch
    <3>1. CASE u = p
      BY <1>0, <1>6, <3>1
    <3>2. CASE u # p
      <4>1. \A d \in CPU : cpus[d].thread # u
        BY <1>0, <2>1, <3>2
      <4> QED BY <1>6, <3>2, <4>1, SMTT(60) DEF Core, Placement, OffCpuInSwtch
    <3> QED BY <3>1, <3>2
  <2> QED BY <2>3, <2>4, <2>5 DEF Placement
<1>11. ~panic'
  BY <1>3 DEF Core
<1> QED BY <1>3, <1>7, <1>8, <1>9, <1>10, <1>11 DEF Core

\* scheduler() gives its CPU, and ptable.lock, to a RUNNABLE process.
LEMMA SwitchKeeps ==
  ASSUME Core, NEW c \in CPU, scheduler_switch(c)
  PROVE  Core' /\ pc' = pc /\ \A p \in Proc : state'[p] = "SLEEPING" => state[p] = "SLEEPING"
<1>1. PICK p \in Proc :
        /\ state[p] = "RUNNABLE" /\ state' = [state EXCEPT ![p] = "RUNNING"]
        /\ cpus' = [cpus EXCEPT ![c].thread = p, ![c].next = p + 1,
                                ![c].intena = IF saved[p] = None THEN @ ELSE saved[p]]
  BY DEF scheduler_switch, Candidates
<1>2. UNCHANGED <<lock, cond, pc, stack, saved, panic>> /\ cpus[c].thread = c /\ pc[c] = "scan"
  BY DEF scheduler_switch, At
<1>0. /\ cpus \in [CPU -> struct_cpu] /\ pc \in [Thread -> Label]
      /\ c # None /\ CpuOk(c) /\ p \in Thread /\ p \notin CPU /\ c \in Thread /\ c \notin Proc
  BY DEF Core, TypeOK, Thread, Proc
<1>3. PICK i \in BOOLEAN : i = IF saved[p] = None THEN cpus[c].intena ELSE saved[p]
  BY <1>0 DEF Core, TypeOK, struct_cpu
<1>4. cpus' = [cpus EXCEPT ![c] = [@ EXCEPT !.thread = p, !.next = p + 1, !.intena = i]]
  BY <1>1, <1>3
<1>5. lock["ptable"] = c /\ lock["lk"] # c /\ cpus[c].spin = "none"
  BY <1>0, <1>2 DEF CpuOk, HoldsAt, SpinsAt, Locks, struct_cpu
<1>6. cpus[c].ncli = 1 /\ ~cpus[c].IF_ /\ HeldCount(c) = 1
  BY <1>0, <1>5, SMTT(60) DEF CpuOk, HeldCount
<1>7. CpuIs(c, p, 1, cpus[c].IF_, "none")
  BY <1>0, <1>4, <1>5, <1>6, SMTT(60) DEF CpuIs, struct_cpu
<1>8. \A d \in CPU : cpus[d].thread # p
  BY <1>1 DEF Core, Placement
<1>9. pc[p] \in {"yield2", "sleep3"}
  BY <1>0, <1>8 DEF Core, Placement, OffCpuInSwtch
<1>10. TypeOK'
  <2>1. cpus' \in [CPU -> struct_cpu]
    <3>1. p + 1 \in 0 .. NPROC
      BY SMTT(60) DEF Proc
    <3>2. [cpus[c] EXCEPT !.thread = p, !.next = p + 1, !.intena = i] \in struct_cpu
      BY <1>0, <3>1 DEF struct_cpu
    <3> QED BY <1>0, <1>4, <3>2
  <2>2. state' \in [Proc -> {"SLEEPING", "RUNNABLE", "RUNNING"}]
    BY <1>1 DEF Core, TypeOK
  <2> QED BY <1>2, <2>1, <2>2 DEF Core, TypeOK
<1>11. ASSUME NEW d \in CPU PROVE CpuOk(d)'
  <2>1. HeldCount(d)' = HeldCount(d)
    BY <1>2 DEF HeldCount
  <2>2. CASE d = c
    BY <1>0, <1>2, <1>5, <1>6, <1>7, <1>9, <2>1, <2>2, SMTT(60) DEF CpuIs, CpuOk, HoldsAt, Locks
  <2>3. CASE d # c
    BY <1>2, <1>7, <2>1, <2>3, SMTT(60) DEF CpuIs, Core, CpuOk
  <2> QED BY <2>2, <2>3
<1>12. ASSUME NEW u \in Thread PROVE StackOk(u)'
  BY <1>2 DEF Core, StackOk, Base
<1>13. Placement'
  <2>1. \A d \in CPU \ {c} : cpus'[d].thread = cpus[d].thread /\ cpus[d].thread # c
    BY <1>0, <1>2, <1>7, SMTT(60) DEF CpuIs, Core, Placement
  <2>2. cpus'[c].thread = p
    BY <1>7 DEF CpuIs
  <2>3. \A d, e \in CPU : cpus'[d].thread = cpus'[e].thread => d = e
    BY <1>8, <2>1, <2>2, SMTT(60) DEF Core, Placement
  <2>4. ASSUME NEW q \in Proc PROVE state'[q] = "RUNNING" <=> \E d \in CPU : cpus'[d].thread = q
    <3>1. CASE q = p
      BY <1>1, <2>2, <3>1 DEF Core, TypeOK
    <3>2. CASE q # p
      <4>1. state'[q] = state[q]
        BY <1>1, <3>2 DEF Core, TypeOK
      <4>2. (\E d \in CPU : cpus'[d].thread = q) <=> (\E d \in CPU : cpus[d].thread = q)
        BY <1>0, <1>2, <2>1, <2>2, <3>2
      <4> QED BY <4>1, <4>2 DEF Core, Placement
    <3> QED BY <3>1, <3>2
  <2>5. OffCpuInSwtch'
    <3> SUFFICES ASSUME NEW u \in Thread, \A d \in CPU : cpus'[d].thread # u
                 PROVE  pc'[u] \in IF u \in CPU THEN {"scan"} ELSE {"yield2", "sleep3"}
      BY DEF OffCpuInSwtch
    <3>1. CASE u = c
      BY <1>2, <3>1
    <3>2. CASE u # c
      <4>1. \A d \in CPU : cpus[d].thread # u
        BY <1>2, <2>1, <3>2, SMTT(60)
      <4> QED BY <1>2, <4>1 DEF Core, Placement, OffCpuInSwtch
    <3> QED BY <3>1, <3>2
  <2> QED BY <2>3, <2>4, <2>5 DEF Placement
<1>14. \A q \in Proc : state'[q] = "SLEEPING" => state[q] = "SLEEPING"
  BY <1>1 DEF Core, TypeOK
<1>15. ~panic'
  BY <1>2 DEF Core
<1> QED BY <1>2, <1>10, <1>11, <1>12, <1>13, <1>14, <1>15 DEF Core

-----------------------------------------------------------------------------
\* A trap pushes the interrupted label, the return pops it.
Push(x, s) == <<x>> \o s

LEMMA PushProperties ==
  ASSUME NEW s \in Seq(Label), NEW x \in Label
  PROVE  /\ Push(x, s) \in Seq(Label) /\ Push(x, s) # <<>>
         /\ Len(Push(x, s)) = Len(s) + 1 /\ DOMAIN Push(x, s) = 1 .. (Len(s) + 1)
         /\ \A i \in 1 .. (Len(s) + 1) : Push(x, s)[i] = IF i = 1 THEN x ELSE s[i - 1]
<1>1. <<x>> \in Seq(Label) /\ Len(<<x>>) = 1 /\ <<x>>[1] = x
  BY SMTT(60)
<1>2. Push(x, s) \in Seq(Label) /\ Len(Push(x, s)) = Len(s) + 1
  BY <1>1, ConcatProperties, SMTT(60) DEF Push
<1>3. \A i \in 1 .. (Len(s) + 1) : Push(x, s)[i] = IF i = 1 THEN x ELSE s[i - 1]
  BY <1>1, ConcatProperties, SMTT(60) DEF Push
<1> QED BY <1>2, <1>3, SMTT(60)

\* A trap of thread t to label to keeps the stack right.
LEMMA PushKeeps ==
  ASSUME Core, NEW t \in Thread, NEW to \in {"yield", "produce", "consume"},
         \A l \in Locks : pc[t] \notin HoldsAt[l],
         pc' = [pc EXCEPT ![t] = to], stack' = [stack EXCEPT ![t] = <<pc[t]>> \o @]
  PROVE  StackOk(t)' /\ stack' \in [Thread -> Seq(Label)] /\ pc' \in [Thread -> Label]
<1>1. stack \in [Thread -> Seq(Label)] /\ pc \in [Thread -> Label] /\ to \in Label /\ StackOk(t)
  BY DEF Core, TypeOK, Label
<1>2. stack'[t] = Push(pc[t], stack[t]) /\ pc'[t] = to
  BY <1>1 DEF Push
<1>3. /\ Push(pc[t], stack[t]) \in Seq(Label) /\ Push(pc[t], stack[t]) # <<>>
      /\ Len(Push(pc[t], stack[t])) = Len(stack[t]) + 1
      /\ DOMAIN Push(pc[t], stack[t]) = 1 .. (Len(stack[t]) + 1)
      /\ \A i \in 1 .. (Len(stack[t]) + 1) :
           Push(pc[t], stack[t])[i] = IF i = 1 THEN pc[t] ELSE stack[t][i - 1]
  BY <1>1, PushProperties
<1>4. stack' \in [Thread -> Seq(Label)] /\ pc' \in [Thread -> Label]
  <2>1. <<pc[t]>> \o stack[t] \in Seq(Label)
    BY <1>3 DEF Push
  <2> QED BY <1>1, <2>1
<1>5. to \notin Base(t)
  BY DEF Base
<1>6. Len(stack[t]) \in Nat /\ DOMAIN stack[t] = 1 .. Len(stack[t]) /\ (stack[t] = <<>> <=> Len(stack[t]) = 0)
  BY <1>1, SMTT(60)
<1>7. ASSUME NEW i \in 1 .. (Len(stack[t]) + 1)
      PROVE  /\ stack'[t][i] \in Base(t) <=> i = Len(stack[t]) + 1
             /\ \A l \in Locks : stack'[t][i] \notin HoldsAt[l]
  <2>1. CASE i = 1
    <3>1. stack'[t][i] = pc[t]
      BY <1>2, <1>3, <2>1
    <3>2. pc[t] \in Base(t) <=> Len(stack[t]) = 0
      BY <1>1, <1>6 DEF StackOk
    <3> QED BY <1>6, <2>1, <3>1, <3>2, SMTT(60)
  <2>2. CASE i # 1
    <3>1. stack'[t][i] = stack[t][i - 1] /\ i - 1 \in DOMAIN stack[t]
      BY <1>2, <1>3, <1>6, <2>2, SMTT(60)
    <3>2. stack[t][i - 1] \in Base(t) <=> i - 1 = Len(stack[t])
      BY <1>1, <3>1 DEF StackOk
    <3>3. \A l \in Locks : stack[t][i - 1] \notin HoldsAt[l]
      BY <1>1, <3>1 DEF StackOk
    <3> QED BY <1>6, <3>1, <3>2, <3>3, SMTT(60)
  <2> QED BY <2>1, <2>2
<1>8. StackOk(t)'
  BY <1>2, <1>3, <1>5, <1>7 DEF StackOk, Base
<1> QED BY <1>4, <1>8

\* The return finds the label of code without locks below the trap.
LEMMA PopKeeps ==
  ASSUME Core, NEW t \in Thread, pc[t] = "iret",
         pc' = [pc EXCEPT ![t] = Head(stack[t])], stack' = [stack EXCEPT ![t] = Tail(@)]
  PROVE  /\ StackOk(t)' /\ stack' \in [Thread -> Seq(Label)] /\ pc' \in [Thread -> Label]
         /\ \A l \in Locks : pc'[t] \notin HoldsAt[l]
<1>1. stack \in [Thread -> Seq(Label)] /\ pc \in [Thread -> Label] /\ StackOk(t) /\ pc[t] \notin Base(t)
  BY DEF Core, TypeOK, Base
<1>2. stack[t] # <<>> /\ stack[t] \in Seq(Label)
  BY <1>1, SMTT(60) DEF StackOk
<1>3. /\ Head(stack[t]) = stack[t][1] /\ stack[t][1] \in Label /\ 1 \in DOMAIN stack[t]
      /\ Tail(stack[t]) \in Seq(Label) /\ Len(Tail(stack[t])) = Len(stack[t]) - 1
      /\ \A i \in 1 .. Len(Tail(stack[t])) : Tail(stack[t])[i] = stack[t][i + 1]
  BY <1>2, HeadTailProperties, SMTT(60)
<1>4. pc'[t] = stack[t][1] /\ stack'[t] = Tail(stack[t])
  BY <1>1, <1>3
<1>5. stack' \in [Thread -> Seq(Label)] /\ pc' \in [Thread -> Label]
  BY <1>1, <1>3
<1>6. \A l \in Locks : pc'[t] \notin HoldsAt[l]
  BY <1>1, <1>3, <1>4 DEF StackOk
<1>7. Len(stack[t]) \in Nat \ {0} /\ DOMAIN stack[t] = 1 .. Len(stack[t])
  BY <1>2, SMTT(60)
<1> DEFINE tl == stack'[t]
<1>11. /\ tl \in Seq(Label) /\ Len(tl) = Len(stack[t]) - 1
       /\ \A i \in 1 .. Len(tl) : tl[i] = stack[t][i + 1]
  BY <1>3, <1>4
<1> HIDE DEF tl
<1>12. DOMAIN tl = 1 .. Len(tl) /\ (tl = <<>> <=> Len(tl) = 0)
  <2>1. DOMAIN tl = 1 .. Len(tl)
    BY <1>11, LenProperties
  <2>2. tl = <<>> <=> Len(tl) = 0
    BY <1>11, EmptySeq
  <2> QED BY <2>1, <2>2
<1>8. tl = <<>> <=> pc'[t] \in Base(t)
  <2>1. tl = <<>> <=> Len(stack[t]) = 1
    BY <1>7, <1>11, <1>12, SMTT(60)
  <2>2. stack[t][1] \in Base(t) <=> 1 = Len(stack[t])
    BY <1>1, <1>3 DEF StackOk
  <2> QED BY <1>4, <2>1, <2>2
<1>9. ASSUME NEW i \in DOMAIN tl
      PROVE  /\ tl[i] \in Base(t) <=> i = Len(tl)
             /\ \A l \in Locks : tl[i] \notin HoldsAt[l]
  <2>1. tl[i] = stack[t][i + 1] /\ i + 1 \in DOMAIN stack[t]
    BY <1>7, <1>11, <1>12, SMTT(60)
  <2>2. stack[t][i + 1] \in Base(t) <=> i + 1 = Len(stack[t])
    BY <1>1, <2>1 DEF StackOk
  <2>3. \A l \in Locks : stack[t][i + 1] \notin HoldsAt[l]
    BY <1>1, <2>1 DEF StackOk
  <2>4. i = Len(tl) <=> i + 1 = Len(stack[t])
    BY <1>7, <1>11, <1>12, <2>1, SMTT(60)
  <2> QED BY <2>1, <2>2, <2>3, <2>4
<1>10. StackOk(t)'
  BY <1>8, <1>9 DEF StackOk, Base, tl
<1> QED BY <1>5, <1>6, <1>10

\* Where a CPU accepts interrupts it holds and waits for no lock.
LEMMA OpenCpu ==
  ASSUME Core, NEW c \in CPU, cpus[c].IF_
  PROVE  cpus[c].ncli = 0 /\ cpus[c].spin = "none" /\ \A l \in Locks : lock[l] # c
<1>1. CpuOk(c) /\ cpus[c].ncli \in 0 .. 2
  BY DEF Core, TypeOK, struct_cpu
<1>2. cpus[c].ncli = 0 /\ HeldCount(c) \in 0 .. 2
  BY <1>1, SMTT(60) DEF CpuOk, HeldCount
<1>3. HeldCount(c) = 0 /\ cpus[c].spin = "none"
  BY <1>1, <1>2, SMTT(60) DEF CpuOk
<1> QED BY <1>2, <1>3, SMTT(60) DEF HeldCount, Locks

LEMMA InterruptKeeps ==
  ASSUME Core, NEW c \in CPU, NEW t \in Thread, NEW handler \in {"yield", "produce"},
         interrupt(c, t, handler)
  PROVE  Core' /\ (\A l \in Locks : pc[t] \notin HoldsAt[l]) /\ pc' = [pc EXCEPT ![t] = handler]
<1>1. /\ cpus[c].thread = t /\ cpus[c].IF_ /\ pc' = [pc EXCEPT ![t] = handler]
      /\ stack' = [stack EXCEPT ![t] = <<pc[t]>> \o @] /\ cpus' = [cpus EXCEPT ![c].IF_ = FALSE]
      /\ UNCHANGED <<lock, cond, state, saved, panic>>
  BY DEF interrupt, Goto
<1>2. cpus[c].ncli = 0 /\ cpus[c].spin = "none" /\ (\A l \in Locks : lock[l] # c) /\ CpuOk(c)
  BY <1>1, OpenCpu DEF Core
<1>3. \A l \in Locks : pc[t] \notin HoldsAt[l]
  BY <1>1, <1>2 DEF CpuOk
<1>4. StackOk(t)' /\ stack' \in [Thread -> Seq(Label)] /\ pc' \in [Thread -> Label]
  BY <1>1, <1>3, PushKeeps
<1>5. cpus \in [CPU -> struct_cpu] /\ pc \in [Thread -> Label] /\ stack \in [Thread -> Seq(Label)]
  BY DEF Core, TypeOK
<1>6. cpus' \in [CPU -> struct_cpu] /\ CpuIs(c, t, 0, FALSE, "none")
  <2>1. cpus' \in [CPU -> struct_cpu]
    <3>1. [cpus[c] EXCEPT !.IF_ = FALSE] \in struct_cpu
      BY <1>5 DEF struct_cpu
    <3> QED BY <1>1, <1>5, <3>1
  <2>2. CpuIs(c, t, 0, FALSE, "none")
    BY <1>1, <1>2, <1>5, SMTT(60) DEF struct_cpu, CpuIs
  <2> QED BY <2>1, <2>2
<1>7. TypeOK'
  BY <1>1, <1>4, <1>6 DEF Core, TypeOK
<1>8. HeldCount(c)' = 0
  BY <1>1, <1>2, SMTT(60) DEF HeldCount, Locks
<1>9. pc'[t] = handler /\ \A u \in Thread \ {t} : pc'[u] = pc[u] /\ stack'[u] = stack[u]
  BY <1>1, <1>5
<1>10. CpuOk(c)'
  <2>1. \A l \in Locks : handler \notin HoldsAt[l] /\ l # "none"
    BY SMTT(60) DEF HoldsAt, Locks
  <2> QED BY <1>1, <1>2, <1>6, <1>8, <1>9, <2>1, SMTT(60) DEF CpuIs, CpuOk
<1>11. LocalStep(c, t)
  BY <1>1, <1>6, <1>9 DEF CpuIs, LocalStep
<1> QED BY <1>1, <1>3, <1>4, <1>7, <1>10, <1>11, LocalStepKeeps DEF Core

LEMMA IretKeeps ==
  ASSUME Core, NEW c \in CPU, NEW t \in Thread, iret(c, t)
  PROVE  /\ Core' /\ (\A l \in Locks : pc'[t] \notin HoldsAt[l])
         /\ \A u \in Thread \ {t} : pc'[u] = pc[u]
<1>1. /\ cpus[c].thread = t /\ pc[t] = "iret" /\ pc' = [pc EXCEPT ![t] = Head(stack[t])]
      /\ stack' = [stack EXCEPT ![t] = Tail(@)] /\ cpus' = [cpus EXCEPT ![c].IF_ = TRUE]
      /\ UNCHANGED <<lock, cond, state, saved, panic>>
  BY DEF iret, Goto, At
<1>2. cpus \in [CPU -> struct_cpu] /\ pc \in [Thread -> Label] /\ stack \in [Thread -> Seq(Label)] /\ CpuOk(c)
  BY DEF Core, TypeOK
<1>3. cpus[c].spin = "none" /\ \A l \in Locks : lock[l] # c
  BY <1>1, <1>2 DEF CpuOk, HoldsAt, SpinsAt, Locks, struct_cpu
<1>4. cpus[c].ncli = 0 /\ HeldCount(c) = 0
  BY <1>2, <1>3, SMTT(60) DEF CpuOk, HeldCount, Locks
<1>5. /\ StackOk(t)' /\ stack' \in [Thread -> Seq(Label)] /\ pc' \in [Thread -> Label]
      /\ \A l \in Locks : pc'[t] \notin HoldsAt[l]
  BY <1>1, PopKeeps
<1>6. cpus' \in [CPU -> struct_cpu] /\ CpuIs(c, t, 0, TRUE, "none")
  BY <1>1, <1>2, <1>3, <1>4 DEF struct_cpu, CpuIs
<1>7. TypeOK'
  BY <1>1, <1>5, <1>6 DEF Core, TypeOK
<1>8. HeldCount(c)' = 0
  BY <1>1, <1>4 DEF HeldCount
<1>9. \A u \in Thread \ {t} : pc'[u] = pc[u] /\ stack'[u] = stack[u]
  BY <1>1, <1>2
<1>10. CpuOk(c)'
  <2>1. \A l \in Locks : l # "none" /\ lock'[l] # c
    BY <1>1, <1>3 DEF Locks
  <2> QED BY <1>1, <1>2, <1>5, <1>6, <1>8, <2>1, SMTT(60) DEF CpuIs, CpuOk
<1>11. LocalStep(c, t)
  BY <1>1, <1>6, <1>9 DEF CpuIs, LocalStep
<1> QED BY <1>1, <1>5, <1>7, <1>9, <1>10, <1>11, LocalStepKeeps, SMTT(60) DEF Core

\* A system call, from user mode.
LEMMA SyscallKeeps ==
  ASSUME Core, NEW c \in CPU, NEW p \in Proc, NEW call \in {"consume", "produce"}, syscall(c, p, call)
  PROVE  Core' /\ pc[p] = "user" /\ pc' = [pc EXCEPT ![p] = call]
<1>1. /\ cpus[c].thread = p /\ pc[p] = "user" /\ pc' = [pc EXCEPT ![p] = call]
      /\ stack' = [stack EXCEPT ![p] = <<pc[p]>> \o @]
      /\ UNCHANGED <<lock, cond, state, cpus, saved, panic>>
  BY DEF syscall, Goto, At
<1>2. p \in Thread /\ pc \in [Thread -> Label] /\ stack \in [Thread -> Seq(Label)] /\ CpuOk(c)
  BY DEF Core, TypeOK, Thread
<1>3. \A l \in Locks : pc[p] \notin HoldsAt[l] /\ pc[p] \notin SpinsAt[l] /\ call \notin HoldsAt[l]
  BY <1>1, SMTT(60) DEF HoldsAt, SpinsAt, Locks
<1>4. StackOk(p)' /\ stack' \in [Thread -> Seq(Label)] /\ pc' \in [Thread -> Label]
  BY <1>1, <1>2, <1>3, PushKeeps
<1>5. TypeOK'
  BY <1>1, <1>4 DEF Core, TypeOK
<1>6. pc'[p] = call /\ \A u \in Thread \ {p} : pc'[u] = pc[u] /\ stack'[u] = stack[u]
  BY <1>1, <1>2
<1>7. CpuOk(c)'
  <2>1. HeldCount(c)' = HeldCount(c)
    BY <1>1 DEF HeldCount
  <2> QED BY <1>1, <1>2, <1>3, <1>6, <2>1, SMTT(60) DEF CpuOk
<1>8. LocalStep(c, p)
  BY <1>1, <1>6 DEF LocalStep
<1> QED BY <1>1, <1>2, <1>4, <1>5, <1>7, <1>8, LocalStepKeeps DEF Core

\* A step inside one piece of code, between labels with the same locks.
MoveOk(t, from, to) ==
  /\ to \in Label /\ to # "user" /\ \A l \in Locks : from \notin SpinsAt[l]
  /\ \A l \in Locks : to \in HoldsAt[l] <=> from \in HoldsAt[l]
  /\ to \in Base(t) <=> from \in Base(t)

LEMMA MoveKeeps ==
  ASSUME Core, NEW c \in CPU, NEW t \in Thread, NEW from, NEW to, MoveOk(t, from, to),
         At(c, t, from), pc' = [pc EXCEPT ![t] = to], UNCHANGED <<lock, cpus, stack, saved, panic>>,
         cond' \in BOOLEAN, state' \in [Proc -> {"SLEEPING", "RUNNABLE", "RUNNING"}],
         \A p \in Proc : state'[p] = "RUNNING" <=> state[p] = "RUNNING"
  PROVE  Core'
<1>1. cpus[c].thread = t /\ pc[t] = from /\ pc \in [Thread -> Label] /\ CpuOk(c) /\ StackOk(t)
  BY DEF At, Core, TypeOK
<1>2. pc'[t] = to /\ \A u \in Thread \ {t} : pc'[u] = pc[u]
  BY <1>1
<1>3. TypeOK'
  <2>1. pc' \in [Thread -> Label]
    BY <1>1 DEF MoveOk
  <2> QED BY <2>1 DEF Core, TypeOK
<1>4. CpuOk(c)'
  <2>1. HeldCount(c)' = HeldCount(c)
    BY DEF HeldCount
  <2> QED BY <1>1, <1>2, <2>1 DEF CpuOk, MoveOk
<1>5. StackOk(t)'
  BY <1>1, <1>2 DEF StackOk, Base, MoveOk
<1>6. LocalStep(c, t)
  BY <1>1, <1>2 DEF LocalStep
<1> QED BY <1>3, <1>4, <1>5, <1>6, LocalStepKeeps DEF Core

LEMMA IfAndNext ==
  ASSUME NEW r \in struct_cpu, NEW i \in BOOLEAN, NEW n \in 0 .. NPROC
  PROVE  [r EXCEPT !.IF_ = i, !.next = n] \in struct_cpu
BY DEF struct_cpu

\* scheduler() enables interrupts, holding no lock.
LEMMA StiKeeps ==
  ASSUME Core, NEW c \in CPU, scheduler_sti(c)
  PROVE  Core' /\ pc[c] = "idle" /\ pc' = [pc EXCEPT ![c] = "lock"]
<1>1. /\ cpus[c].thread = c /\ pc[c] = "idle" /\ pc' = [pc EXCEPT ![c] = "lock"]
      /\ cpus' = [cpus EXCEPT ![c].IF_ = TRUE, ![c].next = 0]
      /\ UNCHANGED <<lock, cond, state, stack, saved, panic>>
  BY DEF scheduler_sti, Goto, At
<1>2. /\ cpus \in [CPU -> struct_cpu] /\ pc \in [Thread -> Label] /\ CpuOk(c) /\ c \in Thread /\ StackOk(c)
      /\ c \notin Proc
  BY DEF Core, TypeOK, Thread, Proc
<1>3. cpus[c].spin = "none" /\ \A l \in Locks : lock[l] # c
  BY <1>1, <1>2 DEF CpuOk, HoldsAt, SpinsAt, Locks, struct_cpu
<1>4. cpus[c].ncli = 0 /\ HeldCount(c) = 0
  BY <1>2, <1>3, SMTT(60) DEF CpuOk, HeldCount, Locks
<1>5. cpus' \in [CPU -> struct_cpu] /\ CpuIs(c, c, 0, TRUE, "none")
  <2>1. cpus' \in [CPU -> struct_cpu]
    <3>1. [cpus[c] EXCEPT !.IF_ = TRUE, !.next = 0] \in struct_cpu
      <4>1. 0 \in 0 .. NPROC /\ TRUE \in BOOLEAN /\ cpus[c] \in struct_cpu
        BY <1>2, SMTT(60)
      <4> QED BY <4>1, IfAndNext
    <3>2. cpus' = [cpus EXCEPT ![c] = [@ EXCEPT !.IF_ = TRUE, !.next = 0]]
      BY <1>1
    <3> QED BY <1>2, <3>1, <3>2
  <2>2. CpuIs(c, c, 0, TRUE, "none")
    BY <1>1, <1>2, <1>3, <1>4, SMTT(60) DEF struct_cpu, CpuIs
  <2> QED BY <2>1, <2>2
<1>6. TypeOK'
  <2>1. pc' \in [Thread -> Label]
    BY <1>1, <1>2 DEF Label
  <2> QED BY <1>1, <1>5, <2>1 DEF Core, TypeOK
<1>7. pc'[c] = "lock" /\ \A u \in Thread \ {c} : pc'[u] = pc[u]
  BY <1>1, <1>2
<1>8. CpuOk(c)'
  <2>1. HeldCount(c)' = 0
    BY <1>1, <1>4 DEF HeldCount
  <2>2. \A l \in Locks : l # "none" /\ lock'[l] # c /\ "lock" \notin HoldsAt[l]
    BY <1>1, <1>3, SMTT(60) DEF Locks, HoldsAt
  <2> QED BY <1>2, <1>5, <1>7, <2>1, <2>2, SMTT(60) DEF CpuOk, CpuIs
<1>9. StackOk(c)'
  BY <1>1, <1>2, <1>7 DEF StackOk, Base
<1>10. LocalStep(c, c)
  BY <1>1, <1>5, <1>7 DEF LocalStep, CpuIs
<1> QED BY <1>1, <1>2, <1>6, <1>8, <1>9, <1>10, LocalStepKeeps DEF Core

\* A thread in control is not SLEEPING.
LEMMA InControlRuns ==
  ASSUME Core, NEW c \in CPU, NEW p \in Proc, cpus[c].thread = p
  PROVE  state[p] = "RUNNING"
BY DEF Core, Placement

\* Steps that have nothing to do with the condition.
LEMMA QuietKeeps ==
  ASSUME NoMissedWakeup, NEW t \in Thread, cond' = cond,
         \A p \in Proc : state'[p] = "SLEEPING" => state[p] = "SLEEPING",
         \A u \in Thread \ {t} : pc'[u] = pc[u],
         \/ pc'[t] = pc[t]
         \/ /\ pc[t] \notin {"wakeup", "wakeup1"} /\ pc'[t] \notin {"sleep", "sleep1", "sleep2"}
            /\ t \in Proc => state[t] # "SLEEPING"
  PROVE  NoMissedWakeup'
<1>1. (\E u \in Thread : pc[u] \in {"wakeup", "wakeup1"}) => \E u \in Thread : pc'[u] \in {"wakeup", "wakeup1"}
  OBVIOUS
<1>2. ASSUME NEW p \in Proc PROVE p \in Thread
  BY DEF Thread
<1>3. ASSUME NEW p \in Proc
      PROVE  /\ pc'[p] \in {"sleep", "sleep1"} => pc[p] \in {"sleep", "sleep1"}
             /\ pc'[p] = "sleep2" => pc[p] = "sleep2"
             /\ state'[p] = "SLEEPING" => pc'[p] = pc[p]
  BY <1>2
<1> QED BY <1>1, <1>3, SMTT(60) DEF NoMissedWakeup

-----------------------------------------------------------------------------
\* acquire() and release() away from sleep() and wakeup().
LEMMA AcquireQuiet ==
  ASSUME Inv, NEW c \in CPU, NEW t \in Thread, NEW l \in Locks, NEW from, NEW to,
         AcquireOk(t, l, from, to), At(c, t, from), Acquire(c, t, l, to),
         UNCHANGED <<cond, state, stack, saved>>,
         from \notin {"wakeup", "wakeup1"}, to \notin {"sleep", "sleep1", "sleep2"}
  PROVE  Inv'
<1>1. Core /\ NoMissedWakeup /\ cond' \in BOOLEAN /\ cpus[c].thread = t /\ pc[t] = from /\ pc \in [Thread -> Label]
  BY DEF Inv, Core, TypeOK, At
<1>2. Core' /\ (pc' = pc \/ (lock[l] = None /\ pc' = [pc EXCEPT ![t] = to]))
  BY <1>1, AcquireKeeps, SMTT(60)
<1>3. t \in Proc => state[t] # "SLEEPING"
  BY <1>1, InControlRuns
<1>4. NoMissedWakeup'
  BY <1>1, <1>2, <1>3, QuietKeeps
<1> QED BY <1>2, <1>4 DEF Inv, Core

LEMMA ReleaseQuiet ==
  ASSUME Inv, NEW c \in CPU, NEW t \in Thread, NEW l \in Locks, NEW from, NEW to,
         ReleaseOk(t, l, from, to), At(c, t, from), Release(c, t, l, to),
         UNCHANGED <<cond, state, stack, saved>>,
         from \notin {"wakeup", "wakeup1"}, to \notin {"sleep", "sleep1", "sleep2"}
  PROVE  Inv'
<1>1. Core /\ NoMissedWakeup /\ cond' \in BOOLEAN /\ cpus[c].thread = t /\ pc[t] = from /\ pc \in [Thread -> Label]
  BY DEF Inv, Core, TypeOK, At
<1>2. Core' /\ pc' = [pc EXCEPT ![t] = to]
  BY <1>1, ReleaseKeeps
<1>3. t \in Proc => state[t] # "SLEEPING"
  BY <1>1, InControlRuns
<1>4. NoMissedWakeup'
  BY <1>1, <1>2, <1>3, QuietKeeps
<1> QED BY <1>2, <1>4 DEF Inv, Core

\* Two threads that hold the same lock are one.
LEMMA OneHolder ==
  ASSUME Core, NEW t \in Thread, NEW u \in Thread, NEW l \in Locks,
         pc[t] \in HoldsAt[l] \ {"scan", "yield2", "sleep3"}, pc[u] \in HoldsAt[l] \ {"scan", "yield2", "sleep3"}
  PROVE  t = u
<1>1. PICK c \in CPU : cpus[c].thread = t
  BY SMTT(60) DEF Core, Placement, OffCpuInSwtch
<1>2. PICK d \in CPU : cpus[d].thread = u
  BY SMTT(60) DEF Core, Placement, OffCpuInSwtch
<1>3. lock[l] = c /\ lock[l] = d
  BY <1>1, <1>2 DEF Core, CpuOk
<1> QED BY <1>1, <1>2, <1>3

\* sleep() takes ptable.lock while lk keeps the condition false.
LEMMA SleepLockKeeps ==
  ASSUME Inv, NEW c \in CPU, NEW p \in Proc, sleep_lock(c, p)
  PROVE  Inv'
<1>1. /\ Core /\ NoMissedWakeup /\ cond' \in BOOLEAN /\ cpus[c].thread = p /\ pc[p] = "sleep"
      /\ pc \in [Thread -> Label] /\ p \in Thread /\ UNCHANGED <<cond, state, stack, saved>> /\ p \notin CPU
  BY DEF Inv, Core, TypeOK, At, Thread, sleep_lock, Proc
<1>2. AcquireOk(p, "ptable", "sleep", "sleep1") /\ "ptable" \in Locks
  BY <1>1, SMTT(60) DEF AcquireOk, HoldsAt, SpinsAt, Locks, Base, Label
<1>3. Core' /\ (pc' = pc \/ pc' = [pc EXCEPT ![p] = "sleep1"])
  BY <1>1, <1>2, AcquireKeeps, SMTT(60) DEF sleep_lock
<1>4. NoMissedWakeup'
  <2>1. \A u \in Thread : pc'[u] # pc[u] => pc[u] = "sleep" /\ pc'[u] = "sleep1"
    BY <1>1, <1>3
  <2>2. \A q \in Proc : q \in Thread
    BY DEF Thread
  <2>3. (\E u \in Thread : pc[u] \in {"wakeup", "wakeup1"}) => \E u \in Thread : pc'[u] \in {"wakeup", "wakeup1"}
    BY <2>1
  <2> QED BY <1>1, <2>1, <2>2, <2>3 DEF NoMissedWakeup
<1> QED BY <1>3, <1>4 DEF Inv, Core

\* sleep() gives lk up: the condition is still false.
LEMMA SleepReleaseKeeps ==
  ASSUME Inv, NEW c \in CPU, NEW p \in Proc, sleep_release(c, p)
  PROVE  Inv'
<1>1. /\ Core /\ NoMissedWakeup /\ cond' \in BOOLEAN /\ cpus[c].thread = p /\ pc[p] = "sleep1"
      /\ pc \in [Thread -> Label] /\ p \in Thread /\ UNCHANGED <<cond, state, stack, saved>> /\ p \notin CPU
  BY DEF Inv, Core, TypeOK, At, Thread, sleep_release, Proc
<1>2. ReleaseOk(p, "lk", "sleep1", "sleep2") /\ "lk" \in Locks
  BY <1>1, SMTT(60) DEF ReleaseOk, HoldsAt, SpinsAt, Locks, Base, Label
<1>3. Core' /\ pc' = [pc EXCEPT ![p] = "sleep2"]
  BY <1>1, <1>2, ReleaseKeeps, SMTT(60) DEF sleep_release
<1>4. NoMissedWakeup'
  <2>1. ~cond
    BY <1>1 DEF NoMissedWakeup
  <2>2. \A q \in Proc : state[q] = "SLEEPING" => pc'[q] = "sleep3"
    BY <1>1, <1>3 DEF NoMissedWakeup, Thread
  <2> QED BY <1>1, <2>1, <2>2 DEF NoMissedWakeup
<1> QED BY <1>3, <1>4 DEF Inv, Core

\* sleep() sleeps: whoever made the condition true since then still waits for
\* ptable.lock.
LEMMA SleepSchedKeeps ==
  ASSUME Inv, NEW c \in CPU, NEW p \in Proc, sleep_sched(c, p)
  PROVE  Inv'
<1>1. /\ Core /\ NoMissedWakeup /\ cpus[c].thread = p /\ pc[p] = "sleep2"
      /\ pc \in [Thread -> Label] /\ p \in Thread /\ UNCHANGED <<lock, cond, stack>>
      /\ state \in [Proc -> {"SLEEPING", "RUNNABLE", "RUNNING"}]
  BY DEF Inv, Core, TypeOK, At, Thread, sleep_sched
<1>2. Core' /\ pc' = [pc EXCEPT ![p] = "sleep3"] /\ state' = [state EXCEPT ![p] = "SLEEPING"]
  <2>1. sched(c, p, "SLEEPING", "sleep3") /\ At(c, p, "sleep2")
    BY DEF sleep_sched
  <2> QED BY <1>1, <2>1, SchedKeeps
<1>3. NoMissedWakeup'
  <2>1. pc'[p] = "sleep3" /\ \A u \in Thread \ {p} : pc'[u] = pc[u]
    BY <1>1, <1>2
  <2>2. state'[p] = "SLEEPING" /\ \A q \in Proc \ {p} : state'[q] = state[q]
    BY <1>1, <1>2
  <2>3. (\E u \in Thread : pc[u] \in {"wakeup", "wakeup1"}) => \E u \in Thread : pc'[u] \in {"wakeup", "wakeup1"}
    BY <1>1, <2>1
  <2>4. \A q \in Proc : q \in Thread
    BY DEF Thread
  <2>5. ASSUME cond, NEW q \in Proc, state'[q] = "SLEEPING" \/ pc'[q] = "sleep2"
        PROVE  \E r \in Proc : state[r] = "SLEEPING" \/ pc[r] = "sleep2"
    BY <1>1
  <2> QED BY <1>1, <2>1, <2>2, <2>3, <2>4, <2>5, SMTT(60) DEF NoMissedWakeup
<1> QED BY <1>2, <1>3 DEF Inv, Core

\* A producer sets the condition: nobody else has lk.
LEMMA ProduceLockKeeps ==
  ASSUME Inv, NEW c \in CPU, NEW t \in Thread, produce_lock(c, t)
  PROVE  Inv'
<1>1. /\ Core /\ NoMissedWakeup /\ cond \in BOOLEAN /\ cpus[c].thread = t /\ pc[t] = "produce"
      /\ pc \in [Thread -> Label] /\ cond' = (cond \/ pc'[t] = "wakeup") /\ UNCHANGED <<state, stack, saved>>
  BY DEF Inv, Core, TypeOK, At, produce_lock
<1>2. AcquireOk(t, "lk", "produce", "wakeup") /\ "lk" \in Locks
  BY SMTT(60) DEF AcquireOk, HoldsAt, SpinsAt, Locks, Base, Label
<1>3. cond' \in BOOLEAN
  BY <1>1
<1>4. Core' /\ (pc' = pc \/ (lock["lk"] = None /\ pc' = [pc EXCEPT ![t] = "wakeup"]))
  BY <1>1, <1>2, <1>3, AcquireKeeps, SMTT(60) DEF produce_lock
<1>5. NoMissedWakeup'
  <2>1. CASE pc' = pc
    <3>1. cond' <=> cond
      BY <1>1, <2>1
    <3> QED BY <1>1, <2>1, <3>1 DEF NoMissedWakeup
  <2>2. CASE lock["lk"] = None /\ pc' = [pc EXCEPT ![t] = "wakeup"]
    <3>1. pc'[t] = "wakeup" /\ \A u \in Thread \ {t} : pc'[u] = pc[u]
      BY <1>1, <2>2
    <3>2. ASSUME NEW q \in Proc, pc'[q] \in {"sleep", "sleep1"} PROVE FALSE
      <4>1. q \in Thread /\ pc[q] \in {"sleep", "sleep1"} /\ q \notin CPU
        BY <3>1, <3>2 DEF Thread, Proc
      <4>2. PICK d \in CPU : cpus[d].thread = q
        BY <4>1, SMTT(60) DEF Core, Placement, OffCpuInSwtch, Inv
      <4>3. lock["lk"] = d
        BY <1>1, <4>1, <4>2 DEF Core, CpuOk, HoldsAt, Locks
      <4> QED BY <2>2, <4>3
    <3>3. \A q \in Proc : state[q] = "SLEEPING" => pc'[q] = "sleep3"
      BY <1>1, <3>1 DEF NoMissedWakeup, Thread
    <3> QED BY <1>1, <3>1, <3>2, <3>3 DEF NoMissedWakeup
  <2> QED BY <1>4, <2>1, <2>2
<1> QED BY <1>4, <1>5 DEF Inv, Core

\* The producer gets ptable.lock for its wakeup().
LEMMA WakeupLockKeeps ==
  ASSUME Inv, NEW c \in CPU, NEW t \in Thread, wakeup_lock(c, t)
  PROVE  Inv'
<1>1. /\ Core /\ NoMissedWakeup /\ cond' \in BOOLEAN /\ cpus[c].thread = t /\ pc[t] = "wakeup"
      /\ pc \in [Thread -> Label] /\ UNCHANGED <<cond, state, stack, saved>>
  BY DEF Inv, Core, TypeOK, At, wakeup_lock
<1>2. AcquireOk(t, "ptable", "wakeup", "wakeup1") /\ "ptable" \in Locks
  BY SMTT(60) DEF AcquireOk, HoldsAt, SpinsAt, Locks, Base, Label
<1>3. Core' /\ (pc' = pc \/ pc' = [pc EXCEPT ![t] = "wakeup1"])
  BY <1>1, <1>2, AcquireKeeps, SMTT(60) DEF wakeup_lock
<1>4. NoMissedWakeup'
  <2>1. \A u \in Thread : pc'[u] # pc[u] => pc[u] = "wakeup" /\ pc'[u] = "wakeup1"
    BY <1>1, <1>3
  <2>2. \A q \in Proc : q \in Thread
    BY DEF Thread
  <2>3. (\E u \in Thread : pc[u] \in {"wakeup", "wakeup1"}) => \E u \in Thread : pc'[u] \in {"wakeup", "wakeup1"}
    BY <2>1
  <2> QED BY <1>1, <2>1, <2>2, <2>3 DEF NoMissedWakeup
<1> QED BY <1>3, <1>4 DEF Inv, Core

\* wakeup1() wakes every sleeper; nobody is about to sleep, as that needs
\* ptable.lock.
LEMMA Wakeup1Keeps ==
  ASSUME Inv, NEW c \in CPU, NEW t \in Thread, wakeup1(c, t)
  PROVE  Inv'
<1>1. /\ Core /\ NoMissedWakeup /\ cond \in BOOLEAN /\ cpus[c].thread = t /\ pc[t] = "wakeup1"
      /\ pc \in [Thread -> Label] /\ UNCHANGED <<lock, cond, cpus, stack, saved, panic>>
      /\ state' = [p \in Proc |-> IF state[p] = "SLEEPING" THEN "RUNNABLE" ELSE state[p]]
      /\ state \in [Proc -> {"SLEEPING", "RUNNABLE", "RUNNING"}]
      /\ pc' = [pc EXCEPT ![t] = "wakeup2"] /\ At(c, t, "wakeup1")
  BY DEF Inv, Core, TypeOK, At, wakeup1, Goto
<1>2. MoveOk(t, "wakeup1", "wakeup2")
  BY SMTT(60) DEF MoveOk, HoldsAt, SpinsAt, Locks, Base, Label
<1>3. /\ state' \in [Proc -> {"SLEEPING", "RUNNABLE", "RUNNING"}]
      /\ \A p \in Proc : (state'[p] = "RUNNING" <=> state[p] = "RUNNING") /\ state'[p] # "SLEEPING"
  BY <1>1
<1>4. Core'
  BY <1>1, <1>2, <1>3, MoveKeeps
<1>5. NoMissedWakeup'
  <2>1. \A u \in Thread \ {t} : pc[u] # "sleep2"
    BY <1>1, OneHolder DEF HoldsAt, Locks
  <2>2. pc'[t] = "wakeup2" /\ \A u \in Thread \ {t} : pc'[u] = pc[u]
    BY <1>1
  <2>3. \A q \in Proc : q \in Thread
    BY DEF Thread
  <2> QED BY <1>1, <1>3, <2>1, <2>2, <2>3, SMTT(60) DEF NoMissedWakeup
<1> QED BY <1>4, <1>5 DEF Inv, Core

\* The consumer tests the condition under lk.
LEMMA ConsumeTestKeeps ==
  ASSUME Inv, NEW c \in CPU, NEW p \in Proc, consume_test(c, p)
  PROVE  Inv'
<1> DEFINE to == IF cond THEN "unlock" ELSE "sleep"
<1>1. /\ Core /\ NoMissedWakeup /\ cpus[c].thread = p /\ pc[p] = "test" /\ p \in Thread /\ p \notin CPU
      /\ pc \in [Thread -> Label] /\ UNCHANGED <<lock, state, cpus, stack, saved, panic>> /\ cond' = FALSE
      /\ state \in [Proc -> {"SLEEPING", "RUNNABLE", "RUNNING"}]
      /\ pc' = [pc EXCEPT ![p] = to] /\ At(c, p, "test")
  BY DEF Inv, Core, TypeOK, At, consume_test, Goto, Thread, Proc
<1>2. MoveOk(p, "test", to)
  BY <1>1, SMTT(60) DEF MoveOk, HoldsAt, SpinsAt, Locks, Base, Label
<1>3. Core'
  BY <1>1, <1>2, MoveKeeps
<1>4. NoMissedWakeup'
  <2>1. \A q \in Proc : state[q] = "SLEEPING" => pc'[q] = "sleep3"
    BY <1>1 DEF NoMissedWakeup, Thread
  <2> QED BY <1>1, <2>1 DEF NoMissedWakeup
<1> QED BY <1>3, <1>4 DEF Inv, Core

\* One step per action.
LEMMA InvNext == Inv /\ [Next]_vars => Inv'
<1> SUFFICES ASSUME Inv, [Next]_vars PROVE Inv'
  OBVIOUS
<1>0. /\ Core /\ NoMissedWakeup /\ pc \in [Thread -> Label]
      /\ \A p \in Proc : p \in Thread /\ p \notin CPU
      /\ \A c \in CPU : c \in Thread /\ c \notin Proc
      /\ "ptable" \in Locks /\ "lk" \in Locks
  BY DEF Inv, Core, TypeOK, Thread, Proc, Locks
<1>1. ASSUME NEW c \in CPU, NEW p \in Proc, yield_lock(c, p) PROVE Inv'
  <2>1. AcquireOk(p, "ptable", "yield", "yield1")
    BY <1>0, SMTT(60) DEF AcquireOk, HoldsAt, SpinsAt, Locks, Base, Label
  <2> QED BY <1>0, <1>1, <2>1, AcquireQuiet DEF yield_lock
<1>2. ASSUME NEW c \in CPU, NEW p \in Proc, yield_sched(c, p) PROVE Inv'
  <2>1. /\ sched(c, p, "RUNNABLE", "yield2") /\ At(c, p, "yield1") /\ UNCHANGED <<lock, cond, stack>>
        /\ pc[p] = "yield1" /\ cpus[c].thread = p
    BY <1>2 DEF yield_sched, At
  <2>2. Core' /\ pc' = [pc EXCEPT ![p] = "yield2"] /\ state' = [state EXCEPT ![p] = "RUNNABLE"]
    BY <1>0, <2>1, SchedKeeps
  <2>3. \A q \in Proc : state'[q] = "SLEEPING" => state[q] = "SLEEPING"
    BY <2>2 DEF Inv, TypeOK
  <2>4. state[p] # "SLEEPING"
    BY <1>0, <2>1, InControlRuns
  <2>5. NoMissedWakeup'
    BY <1>0, <2>1, <2>2, <2>3, <2>4, QuietKeeps, SMTT(60)
  <2> QED BY <2>2, <2>5 DEF Inv, Core
<1>3. ASSUME NEW c \in CPU, NEW p \in Proc, yield_unlock(c, p) PROVE Inv'
  <2>1. ReleaseOk(p, "ptable", "yield2", "iret")
    BY <1>0, SMTT(60) DEF ReleaseOk, HoldsAt, SpinsAt, Locks, Base, Label
  <2> QED BY <1>0, <1>3, <2>1, ReleaseQuiet DEF yield_unlock
<1>4. ASSUME NEW c \in CPU, NEW p \in Proc, consume_lock(c, p) PROVE Inv'
  <2>1. AcquireOk(p, "lk", "consume", "test")
    BY <1>0, SMTT(60) DEF AcquireOk, HoldsAt, SpinsAt, Locks, Base, Label
  <2> QED BY <1>0, <1>4, <2>1, AcquireQuiet DEF consume_lock
<1>5. ASSUME NEW c \in CPU, NEW p \in Proc, sleep_unlock(c, p) PROVE Inv'
  <2>1. ReleaseOk(p, "ptable", "sleep3", "consume")
    BY <1>0, SMTT(60) DEF ReleaseOk, HoldsAt, SpinsAt, Locks, Base, Label
  <2> QED BY <1>0, <1>5, <2>1, ReleaseQuiet DEF sleep_unlock
<1>6. ASSUME NEW c \in CPU, NEW t \in Thread, unlock(c, t) PROVE Inv'
  <2>1. ReleaseOk(t, "lk", "unlock", "iret")
    BY SMTT(60) DEF ReleaseOk, HoldsAt, SpinsAt, Locks, Base, Label
  <2> QED BY <1>0, <1>6, <2>1, ReleaseQuiet DEF unlock
<1>7. ASSUME NEW c \in CPU, NEW t \in Thread, wakeup_unlock(c, t) PROVE Inv'
  <2>1. ReleaseOk(t, "ptable", "wakeup2", "unlock")
    BY SMTT(60) DEF ReleaseOk, HoldsAt, SpinsAt, Locks, Base, Label
  <2> QED BY <1>0, <1>7, <2>1, ReleaseQuiet DEF wakeup_unlock
<1>8. ASSUME NEW c \in CPU, scheduler_lock(c) PROVE Inv'
  <2>1. AcquireOk(c, "ptable", "lock", "scan")
    BY <1>0, SMTT(60) DEF AcquireOk, HoldsAt, SpinsAt, Locks, Base, Label
  <2> QED BY <1>0, <1>8, <2>1, AcquireQuiet DEF scheduler_lock
<1>9. ASSUME NEW c \in CPU, scheduler_unlock(c) PROVE Inv'
  <2>1. ReleaseOk(c, "ptable", "scan", "idle")
    BY <1>0, SMTT(60) DEF ReleaseOk, HoldsAt, SpinsAt, Locks, Base, Label
  <2> QED BY <1>0, <1>9, <2>1, ReleaseQuiet DEF scheduler_unlock
<1>10. ASSUME NEW c \in CPU, scheduler_switch(c) PROVE Inv'
  <2>1. Core' /\ pc' = pc /\ (\A p \in Proc : state'[p] = "SLEEPING" => state[p] = "SLEEPING") /\ cond' = cond
    BY <1>0, <1>10, SwitchKeeps DEF scheduler_switch
  <2>2. NoMissedWakeup'
    BY <1>0, <2>1, QuietKeeps
  <2> QED BY <2>1, <2>2 DEF Inv, Core
<1>11. ASSUME NEW c \in CPU, scheduler_sti(c) PROVE Inv'
  <2>1. Core' /\ pc[c] = "idle" /\ pc' = [pc EXCEPT ![c] = "lock"] /\ cond' = cond /\ state' = state
    BY <1>0, <1>11, StiKeeps DEF scheduler_sti
  <2>2. NoMissedWakeup'
    BY <1>0, <2>1, QuietKeeps
  <2> QED BY <2>1, <2>2 DEF Inv, Core
<1>12. ASSUME NEW c \in CPU, NEW t \in Thread, NEW handler \in {"yield", "produce"}, interrupt(c, t, handler)
       PROVE  Inv'
  <2>1. /\ Core' /\ (\A l \in Locks : pc[t] \notin HoldsAt[l]) /\ pc' = [pc EXCEPT ![t] = handler]
        /\ cond' = cond /\ state' = state /\ cpus[c].thread = t
    <3>1. Core' /\ (\A l \in Locks : pc[t] \notin HoldsAt[l]) /\ pc' = [pc EXCEPT ![t] = handler]
      BY <1>0, <1>12, InterruptKeeps, SMTT(60)
    <3> QED BY <1>12, <3>1 DEF interrupt
  <2>2. pc[t] \notin {"wakeup", "wakeup1"}
    BY <2>1 DEF HoldsAt, Locks
  <2>3. t \in Proc => state[t] # "SLEEPING"
    BY <1>0, <2>1, InControlRuns
  <2>4. NoMissedWakeup'
    BY <1>0, <2>1, <2>2, <2>3, QuietKeeps
  <2> QED BY <2>1, <2>4 DEF Inv, Core
<1>13. ASSUME NEW c \in CPU, NEW t \in Thread, iret(c, t) PROVE Inv'
  <2>1. /\ Core' /\ (\A l \in Locks : pc'[t] \notin HoldsAt[l]) /\ (\A u \in Thread \ {t} : pc'[u] = pc[u])
        /\ cond' = cond /\ state' = state /\ cpus[c].thread = t /\ pc[t] = "iret"
    BY <1>0, <1>13, IretKeeps DEF iret, At
  <2>2. pc'[t] \notin {"sleep", "sleep1", "sleep2"}
    BY <2>1 DEF HoldsAt, Locks
  <2>3. t \in Proc => state[t] # "SLEEPING"
    BY <1>0, <2>1, InControlRuns
  <2>4. NoMissedWakeup'
    BY <1>0, <2>1, <2>2, <2>3, QuietKeeps
  <2> QED BY <2>1, <2>4 DEF Inv, Core
<1>14. ASSUME NEW c \in CPU, NEW p \in Proc, NEW call \in {"consume", "produce"}, syscall(c, p, call)
       PROVE  Inv'
  <2>1. /\ Core' /\ pc[p] = "user" /\ pc' = [pc EXCEPT ![p] = call]
        /\ cond' = cond /\ state' = state /\ cpus[c].thread = p
    <3>1. Core' /\ pc[p] = "user" /\ pc' = [pc EXCEPT ![p] = call]
      BY <1>0, <1>14, SyscallKeeps, SMTT(60)
    <3> QED BY <1>14, <3>1 DEF syscall, At
  <2>2. state[p] # "SLEEPING"
    BY <1>0, <2>1, InControlRuns
  <2>3. NoMissedWakeup'
    BY <1>0, <2>1, <2>2, QuietKeeps, SMTT(60)
  <2> QED BY <2>1, <2>3 DEF Inv, Core
<1>15. ASSUME NEW c \in CPU, Run(c) PROVE Inv'
  <2>1. CASE SchedulerStep(c)
    BY <1>8, <1>9, <1>10, <1>11, <2>1 DEF SchedulerStep
  <2>2. ASSUME NEW p \in Proc, ProcStep(c, p) PROVE Inv'
    BY <1>1, <1>2, <1>3, <1>4, <1>5, <2>2, ConsumeTestKeeps, SleepLockKeeps, SleepReleaseKeeps, SleepSchedKeeps
       DEF ProcStep
  <2>3. ASSUME NEW t \in Thread, ThreadStep(c, t) PROVE Inv'
    BY <1>6, <1>7, <1>13, <2>3, ProduceLockKeeps, WakeupLockKeeps, Wakeup1Keeps DEF ThreadStep
  <2> QED BY <1>15, <2>1, <2>2, <2>3 DEF Run
<1>16. ASSUME NEW c \in CPU, timer(c) PROVE Inv'
  BY <1>0, <1>12, <1>16 DEF timer
<1>17. CASE UNCHANGED vars
  <2>1. TypeOK' /\ ~panic' /\ NoMissedWakeup'
    BY <1>17 DEF Inv, TypeOK, NoMissedWakeup, vars
  <2>2. (\A c \in CPU : CpuOk(c)') /\ (\A t \in Thread : StackOk(t)')
    BY <1>17, SMTT(60) DEF Inv, CpuOk, StackOk, HeldCount, Base, vars
  <2>3. Placement'
    BY <1>17, SMTT(60) DEF Inv, Placement, OffCpuInSwtch, vars
  <2> QED BY <2>1, <2>2, <2>3 DEF Inv
<1> QED BY <1>12, <1>14, <1>15, <1>16, <1>17 DEF Next

LEMMA SchedInvHolds == Spec => []SchedInv
<1>1. Spec => []Inv
  BY InvInit, InvNext, PTL DEF Spec
<1> QED BY <1>1, InvIsSchedInv, PTL

\* No assertion of spinlock.c and sched() fails, on any number of CPUs.
THEOREM NoPanicHolds == Spec => []NoPanic
BY SchedInvHolds, PTL DEF SchedInv

\* A process has one CPU at most, and is RUNNING exactly while it has one.
THEOREM OneCpuPerProcessHolds == Spec => []OneCpuPerProcess
BY SchedInvHolds, PTL DEF SchedInv

\* ncli, FL_IF and the lock words agree with where the threads are.
THEOREM CpuAccountingHolds == Spec => []CpuAccounting
BY SchedInvHolds, PTL DEF SchedInv

\* sleep() and wakeup() lose no wakeup.
THEOREM NoMissedWakeupHolds == Spec => []NoMissedWakeup
BY SchedInvHolds, PTL DEF SchedInv
=============================================================================
