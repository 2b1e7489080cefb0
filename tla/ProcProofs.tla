----------------------------- MODULE ProcProofs -----------------------------
(***************************************************************************)
(* Proofs about proc.c for a process table of any size and any number of   *)
(* forks: TableIsConsistent is inductive.                                  *)
(***************************************************************************)
EXTENDS Proc, TLAPS, WellFoundedInduction

USE ProcAssumption

\* A loop over ptable.proc[] that finds a slot stops at one it looks for.
LEMMA LowestIn ==
  ASSUME NEW S \in SUBSET Slot, S # {}
  PROVE  Lowest(S) \in S
<1> DEFINE R == {xy \in Nat \X Nat : xy[1] < xy[2]}
<1>1. OpToRel(<, Nat) = R
  BY DEF OpToRel
<1>2. \E x \in S : \A y \in S : ~(<<y, x>> \in OpToRel(<, Nat))
  <2>1. S \subseteq Nat
    BY DEF Slot
  <2> QED BY <2>1, NatLessThanWellFounded, WFMin
<1>3. \E x \in S : \A y \in S : <<y, x>> \notin R
  <2> HIDE DEF R
  <2> QED BY <1>1, <1>2, Zenon
<1>4. PICK x \in S : \A y \in S : <<y, x>> \notin R
  BY <1>3
<1>5. ASSUME NEW y \in S PROVE x =< y
  <2>1. x \in Nat /\ y \in Nat
    BY DEF Slot
  <2>2. ~(y < x)
    BY <1>4, <2>1
  <2> QED BY <2>1, <2>2
<1> QED BY <1>5 DEF Lowest, Min

\* init's slot exists, and no slot is the null pointer.
LEMMA SlotFacts == initproc \in Slot /\ None \notin Slot
BY DEF Slot

\* userinit() leaves a consistent table.
LEMMA InitConsistent == Init => TableIsConsistent
<1> SUFFICES ASSUME Init PROVE TableIsConsistent
  OBVIOUS
<1> USE SlotFacts
<1>1. TypeOK
  <2>1. 1 \in 0 .. MaxPid /\ 2 \in 1 .. (MaxPid + 1)
    OBVIOUS
  <2>2. pid \in [Slot -> 0 .. MaxPid] /\ nextpid \in 1 .. (MaxPid + 1)
    BY <2>1 DEF Init
  <2> QED BY <2>2 DEF Init, TypeOK, procstate
<1>2. PidsUnique /\ NoZombieBehindSleeper /\ EmbryoHasOneForker
  BY DEF Init, PidsUnique, NoZombieBehindSleeper, EmbryoHasOneForker, Live
<1>3. AncestryReachesInit
  <2>1. Exists \subseteq {initproc}
    BY DEF Init, Exists, Live
  <2> QED BY <2>1 DEF AncestryReachesInit
<1>4. PhasesFitStates
  BY DEF Init, PhasesFitStates, Live
<1> QED BY <1>1, <1>2, <1>3, <1>4 DEF TableIsConsistent

\* allocproc() reserves a slot under a pid nobody has.
LEMMA AllocConsistent ==
  ASSUME TableIsConsistent, NEW p \in Slot, allocproc(p)
  PROVE  TableIsConsistent'
<1> USE SlotFacts DEF TableIsConsistent
<1> DEFINE s == Lowest(Unused)
<1>1. s \in Slot /\ state[s] = "UNUSED"
  BY LowestIn DEF Unused, allocproc
<1> HIDE DEF s
<1>2. /\ Calls(p) /\ nextpid <= MaxPid
      /\ state' = [state EXCEPT ![s] = "EMBRYO"]
      /\ pid' = [pid EXCEPT ![s] = nextpid]
      /\ np' = [np EXCEPT ![p] = s]
      /\ nextpid' = nextpid + 1
      /\ pc' = [pc EXCEPT ![p] = "fork"]
      /\ UNCHANGED <<parent, killed, panic>>
  BY DEF allocproc, s
<1>3. TypeOK'
  BY <1>1, <1>2 DEF TypeOK, procstate
<1>4. Live' = Live /\ Exists' = Exists
  BY <1>1, <1>2 DEF TypeOK, Live, Exists
<1>5. PidsUnique'
  BY <1>1, <1>2 DEF TypeOK, PidsUnique, PhasesFitStates
<1>6. AncestryReachesInit'
  BY <1>2, <1>4 DEF AncestryReachesInit
<1>7. NoZombieBehindSleeper'
  BY <1>1, <1>2 DEF TypeOK, NoZombieBehindSleeper, Kids, DeadKids, Child
<1>8. EmbryoHasOneForker'
  BY <1>1, <1>2, <1>4 DEF TypeOK, EmbryoHasOneForker, PhasesFitStates, Calls, Live
<1>9. PhasesFitStates'
  BY <1>1, <1>2, <1>4 DEF TypeOK, PhasesFitStates, Calls, Live
<1> QED BY <1>3, <1>5, <1>6, <1>7, <1>8, <1>9

\* Two processes in fork() fill two slots.
LEMMA ForkersDiffer ==
  ASSUME TableIsConsistent, NEW p \in Slot, pc[p] = "fork", NEW q \in Slot \ {p}, pc[q] = "fork"
  PROVE  np[q] # np[p]
<1>1. p \in Live /\ q \in Live
  BY DEF TableIsConsistent, TypeOK, procstate, PhasesFitStates, Live
<1> QED BY <1>1 DEF TableIsConsistent, EmbryoHasOneForker

\* A fork() that fails gives its slot back.
LEMMA ForkFailConsistent ==
  ASSUME TableIsConsistent, NEW p \in Slot, fork_fail(p)
  PROVE  TableIsConsistent'
<1> USE SlotFacts DEF TableIsConsistent, fork_fail
<1>1. np[p] \in Slot /\ state[np[p]] = "EMBRYO"
  BY DEF PhasesFitStates
<1>2. TypeOK'
  BY <1>1 DEF TypeOK, procstate
<1>3. Live' = Live /\ Exists' = Exists
  BY <1>1 DEF TypeOK, Live, Exists
<1>4. PidsUnique'
  BY <1>1 DEF TypeOK, PidsUnique
<1>5. AncestryReachesInit'
  BY <1>3 DEF AncestryReachesInit
<1>6. NoZombieBehindSleeper'
  BY <1>1 DEF TypeOK, NoZombieBehindSleeper, Kids, DeadKids, Child
<1>7. EmbryoHasOneForker'
  BY <1>1, <1>3 DEF TypeOK, EmbryoHasOneForker, Live
<1>8. PhasesFitStates'
  <2>1. \A q \in Slot \ {p} : pc[q] = "fork" => np[q] # np[p]
    BY ForkersDiffer
  <2> QED BY <1>1, <1>3, <2>1 DEF TypeOK, PhasesFitStates
<1> QED BY <1>2, <1>4, <1>5, <1>6, <1>7, <1>8

\* A fork() that succeeds adds a leaf to the tree.
LEMMA ForkConsistent ==
  ASSUME TableIsConsistent, NEW p \in Slot, fork(p)
  PROVE  TableIsConsistent'
<1> USE SlotFacts DEF TableIsConsistent, fork
<1> DEFINE c == np[p]
<1>1. c \in Slot /\ state[c] = "EMBRYO" /\ c # p /\ p \in Live
  BY DEF PhasesFitStates, Live
<1>2. TypeOK'
  BY <1>1 DEF TypeOK, procstate
<1>3. Live' = Live \cup {c} /\ Exists' = Exists \cup {c} /\ c \notin Exists
  BY <1>1 DEF TypeOK, Live, Exists
<1>4. PidsUnique'
  BY <1>1 DEF TypeOK, PidsUnique
<1>5. parent'[c] = p /\ \A t \in Slot \ {c} : parent'[t] = parent[t]
  BY <1>1 DEF TypeOK
<1>6. AncestryReachesInit'
  <2>1. \A t \in (Exists \ {initproc})' : parent'[t] \in Live'
    BY <1>1, <1>3, <1>5 DEF AncestryReachesInit, Exists, Live
  <2>2. ASSUME NEW S \in SUBSET (Exists \ {initproc})', S # {}
        PROVE  \E t \in S : parent'[t] \notin S
    <3> DEFINE T == S \ {c}
    <3>1. CASE T = {}
      BY <1>1, <1>5, <2>2, <3>1
    <3>2. CASE T # {}
      <4>1. T \in SUBSET (Exists \ {initproc})
        BY <1>3
      <4>2. PICK t \in T : parent[t] \notin T
        BY <4>1, <3>2 DEF AncestryReachesInit
      <4>3. parent[t] \in Live /\ t \in Slot
        BY <4>1 DEF AncestryReachesInit, Exists, Live
      <4>4. parent[t] # c
        BY <4>3, <1>1 DEF Live
      <4> QED BY <4>2, <4>3, <4>4, <1>5
    <3> QED BY <3>1, <3>2
  <2> QED BY <2>1, <2>2 DEF AncestryReachesInit
<1>7. NoZombieBehindSleeper'
  <2> SUFFICES ASSUME NEW q \in Slot, state'[q] = "SLEEPING"
               PROVE  Kids(q)' # {} /\ DeadKids(q)' = {}
    BY DEF NoZombieBehindSleeper
  <2>1. q # c /\ q # p /\ state[q] = "SLEEPING"
    BY <1>1 DEF TypeOK
  <2>2. parent[c] # q
    <3>1. parent[c] = None
      BY <1>1, Zenon DEF PhasesFitStates
    <3> QED BY <3>1
  <2>3. Kids(q)' = Kids(q)
    BY <1>5, <2>1, <2>2 DEF Kids, Child
  <2>4. DeadKids(q)' \subseteq DeadKids(q)
    BY <1>1, <2>3 DEF TypeOK, DeadKids
  <2> QED BY <2>1, <2>3, <2>4 DEF NoZombieBehindSleeper
<1>8. EmbryoHasOneForker'
  BY <1>1, <1>3 DEF TypeOK, EmbryoHasOneForker, PhasesFitStates, Live
<1>9. PhasesFitStates'
  <2>1. \A q \in Slot \ {p} : pc[q] = "fork" => np[q] # c
    BY ForkersDiffer
  <2>2. c # initproc
    BY <1>1 DEF PhasesFitStates, Live
  <2> QED BY <1>1, <1>3, <2>1, <2>2 DEF TypeOK, PhasesFitStates
<1> QED BY <1>2, <1>4, <1>6, <1>7, <1>8, <1>9

\* Entering exit() changes nothing in the table; init panics instead.
LEMMA ExitFilesConsistent ==
  ASSUME TableIsConsistent, NEW p \in Slot, exit_files(p)
  PROVE  TableIsConsistent'
<1> USE SlotFacts DEF TableIsConsistent, exit_files
<1>1. TypeOK'
  BY DEF TypeOK
<1>2. Live' = Live /\ Exists' = Exists
  BY DEF Live, Exists
<1>3. PidsUnique' /\ AncestryReachesInit'
  BY <1>2 DEF PidsUnique, AncestryReachesInit
<1>4. NoZombieBehindSleeper'
  BY DEF NoZombieBehindSleeper, Kids, DeadKids, Child
<1>5. EmbryoHasOneForker'
  BY <1>2 DEF TypeOK, EmbryoHasOneForker, Live
<1>6. PhasesFitStates'
  BY <1>2 DEF TypeOK, PhasesFitStates
<1> QED BY <1>1, <1>3, <1>4, <1>5, <1>6

\* exit() wakes the parent, and init if it inherits a ZOMBIE, and cuts nothing
\* off the tree.
LEMMA ExitConsistent ==
  ASSUME TableIsConsistent, NEW p \in Slot, exit(p)
  PROVE  TableIsConsistent'
<1> USE SlotFacts DEF TableIsConsistent
<1> DEFINE q == parent[p]
           zombies == \E c \in Slot : parent[c] = p /\ state[c] = "ZOMBIE"
<1>1. /\ state[p] = "RUNNABLE" /\ pc[p] = "exit" /\ p # initproc
      /\ p \in Live /\ p \in Exists
  BY DEF exit, PhasesFitStates, Live, Exists
<1>2. q \in Live /\ q # p /\ q \in Slot
  <2>1. q \in Live
    BY <1>1 DEF AncestryReachesInit
  <2>2. {p} \in SUBSET (Exists \ {initproc})
    BY <1>1
  <2>3. \E t \in {p} : parent[t] \notin {p}
    BY <2>2 DEF AncestryReachesInit
  <2> QED BY <2>1, <2>3 DEF Live
<1>3. /\ parent' = [c \in Slot |-> IF parent[c] = p THEN initproc ELSE parent[c]]
      /\ UNCHANGED <<pid, killed, nextpid, pc, np, panic>>
  BY DEF exit, Child
<1>4. /\ state' \in [Slot -> procstate]
      /\ state'[p] = "ZOMBIE"
      /\ \A s \in Slot \ {p} : state'[s] = IF state[s] = "SLEEPING" /\ (s = q \/ (s = initproc /\ zombies))
                                           THEN "RUNNABLE" ELSE state[s]
  <2>1. \A s \in Slot : state[s] = "SLEEPING" => pc[s] = "wait"
    BY DEF PhasesFitStates
  <2> QED BY <1>1, <1>2, <2>1 DEF exit, Wakeup1, Child, TypeOK, procstate
<1> HIDE DEF zombies
<1>5. TypeOK'
  BY <1>3, <1>4 DEF TypeOK
<1>6. Live' = Live \ {p} /\ Exists' = Exists
  <2>1. \A s \in Slot \ {p} : \/ state'[s] = state[s]
                              \/ state[s] = "SLEEPING" /\ state'[s] = "RUNNABLE"
    BY <1>4
  <2> QED BY <1>1, <1>4, <2>1 DEF Live, Exists
<1>7. PidsUnique'
  BY <1>1, <1>3, <1>4 DEF TypeOK, PidsUnique
<1>8. AncestryReachesInit'
  <2>1. \A s \in (Exists \ {initproc})' : parent'[s] \in Live'
    BY <1>1, <1>3, <1>6 DEF AncestryReachesInit, PhasesFitStates, Exists, Live
  <2>2. ASSUME NEW S \in SUBSET (Exists \ {initproc})', S # {}
        PROVE  \E s \in S : parent'[s] \notin S
    <3>1. S \in SUBSET (Exists \ {initproc}) /\ S \subseteq Slot
      BY <1>6 DEF Exists, Live
    <3>2. CASE \E s \in S : parent[s] = p
      BY <1>3, <3>1, <3>2
    <3>3. CASE \A s \in S : parent[s] # p
      <4>1. \E s \in S : parent[s] \notin S
        BY <2>2, <3>1 DEF AncestryReachesInit
      <4> QED BY <1>3, <3>1, <3>3, <4>1
    <3> QED BY <3>2, <3>3
  <2> QED BY <2>1, <2>2 DEF AncestryReachesInit
<1>9. NoZombieBehindSleeper'
  <2> SUFFICES ASSUME NEW s \in Slot, state'[s] = "SLEEPING"
               PROVE  Kids(s)' # {} /\ DeadKids(s)' = {}
    BY DEF NoZombieBehindSleeper
  <2>1. s # p /\ s # q /\ state[s] = "SLEEPING" /\ (s = initproc => ~zombies)
    BY <1>4
  <2>2. Kids(s) # {} /\ DeadKids(s) = {}
    BY <2>1 DEF NoZombieBehindSleeper
  <2>3. Kids(s)' # {}
    BY <1>3, <2>1, <2>2 DEF Kids, Child
  <2>4. ASSUME NEW c \in Slot, parent'[c] = s, state'[c] = "ZOMBIE" PROVE FALSE
    <3>1. c # p
      BY <1>2, <1>3, <2>1, <2>4
    <3>2. state[c] = "ZOMBIE"
      BY <1>4, <2>4, <3>1
    <3>3. CASE parent[c] = p
      BY <1>3, <2>1, <2>4, <3>2, <3>3 DEF zombies
    <3>4. CASE parent[c] # p
      BY <1>3, <2>2, <2>4, <3>2, <3>4 DEF DeadKids, Kids, Child
    <3> QED BY <3>3, <3>4
  <2> QED BY <2>3, <2>4 DEF DeadKids, Kids, Child
<1>10. EmbryoHasOneForker'
  BY <1>1, <1>3, <1>4, <1>6 DEF TypeOK, EmbryoHasOneForker
<1>11. PhasesFitStates'
  <2>1. \A s \in Slot : /\ state'[s] \in {"UNUSED", "EMBRYO", "SLEEPING"} => state'[s] = state[s]
                        /\ state'[s] = "ZOMBIE" => s = p \/ state[s] = "ZOMBIE"
                        /\ state[s] = "EMBRYO" => state'[s] = "EMBRYO"
                        /\ state[s] = "UNUSED" => state'[s] = "UNUSED"
    BY <1>1, <1>4
  <2>2. \A s \in Slot : parent[s] = None => parent'[s] = None
    BY <1>3
  <2>3. initproc \in Live'
    BY <1>1, <1>6 DEF PhasesFitStates
  <2>4. ASSUME NEW s \in Slot, pc[s] = "fork" PROVE np[s] \in Slot /\ state'[np[s]] = "EMBRYO"
    <3>1. np[s] \in Slot /\ state[np[s]] = "EMBRYO"
      BY <2>4 DEF PhasesFitStates
    <3> QED BY <2>1, <3>1
  <2>5. \A s \in Slot : /\ state'[s] \in {"UNUSED", "EMBRYO"} => pc[s] = "user" /\ parent'[s] = None
                        /\ state'[s] = "ZOMBIE" => pc[s] = "exit"
                        /\ state'[s] = "SLEEPING" => pc[s] = "wait"
                        /\ pid[s] < nextpid
                        /\ state'[s] # "UNUSED" => pid[s] # 0
    BY <1>1, <2>1, <2>2 DEF PhasesFitStates
  <2>6. pc[initproc] # "exit" /\ parent'[initproc] = None
    BY <2>2 DEF PhasesFitStates
  <2>7. pc' = pc /\ np' = np /\ pid' = pid /\ nextpid' = nextpid
    BY <1>3
  <2> QED BY <2>3, <2>4, <2>5, <2>6, <2>7 DEF PhasesFitStates
<1> QED BY <1>5, <1>7, <1>8, <1>9, <1>10, <1>11

\* wait() frees the slot of a ZOMBIE, which is a leaf of the tree.
LEMMA ReapConsistent ==
  ASSUME TableIsConsistent, NEW p \in Slot, wait_reap(p)
  PROVE  TableIsConsistent'
<1> USE SlotFacts DEF TableIsConsistent
<1> DEFINE c == Lowest(DeadKids(p))
<1>1. c \in Slot /\ parent[c] = p /\ state[c] = "ZOMBIE"
  BY LowestIn DEF wait_reap, DeadKids, Kids, Child
<1> HIDE DEF c
<1>2. /\ state' = [state EXCEPT ![c] = "UNUSED"]
      /\ pid' = [pid EXCEPT ![c] = 0]
      /\ parent' = [parent EXCEPT ![c] = None]
      /\ killed' = [killed EXCEPT ![c] = FALSE]
      /\ pc' = [pc EXCEPT ![p] = "user", ![c] = "user"]
      /\ UNCHANGED <<nextpid, np, panic>>
  BY DEF wait_reap, c
<1>3. state[p] = "RUNNABLE" /\ pc[p] \in {"user", "wait"}
  BY DEF wait_reap, Scans, Calls
<1>4. TypeOK'
  BY <1>1, <1>2 DEF TypeOK, procstate
<1>5. Live' = Live /\ Exists' = Exists \ {c} /\ c # initproc
  BY <1>1, <1>2 DEF TypeOK, Live, Exists, PhasesFitStates
<1>6. PidsUnique'
  BY <1>1, <1>2 DEF TypeOK, PidsUnique
<1>7. \A s \in Slot \ {c} : parent'[s] = parent[s]
  BY <1>2 DEF TypeOK
<1>8. AncestryReachesInit'
  <2>1. \A s \in (Exists \ {initproc})' : parent'[s] \in Live'
    BY <1>5, <1>7 DEF AncestryReachesInit, Exists, Live
  <2>2. ASSUME NEW S \in SUBSET (Exists \ {initproc})', S # {}
        PROVE  \E s \in S : parent'[s] \notin S
    <3>1. S \in SUBSET (Exists \ {initproc}) /\ S \subseteq Slot \ {c}
      BY <1>5 DEF Exists, Live
    <3>2. \E s \in S : parent[s] \notin S
      BY <2>2, <3>1 DEF AncestryReachesInit
    <3> QED BY <1>7, <3>1, <3>2
  <2> QED BY <2>1, <2>2 DEF AncestryReachesInit
<1>9. NoZombieBehindSleeper'
  <2> SUFFICES ASSUME NEW s \in Slot, state'[s] = "SLEEPING"
               PROVE  Kids(s)' # {} /\ DeadKids(s)' = {}
    BY DEF NoZombieBehindSleeper
  <2>1. s # p /\ state[s] = "SLEEPING"
    BY <1>1, <1>2, <1>3 DEF TypeOK
  <2>2. Kids(s)' = Kids(s)
    BY <1>1, <1>2, <1>7, <2>1 DEF TypeOK, Kids, Child
  <2>3. DeadKids(s)' \subseteq DeadKids(s)
    BY <1>1, <1>2, <2>2 DEF TypeOK, DeadKids
  <2> QED BY <2>1, <2>2, <2>3 DEF NoZombieBehindSleeper
<1>10. EmbryoHasOneForker'
  BY <1>1, <1>2, <1>3, <1>5 DEF TypeOK, EmbryoHasOneForker, Live
<1>11. PhasesFitStates'
  BY <1>1, <1>2, <1>3, <1>5 DEF TypeOK, PhasesFitStates
<1> QED BY <1>4, <1>6, <1>8, <1>9, <1>10, <1>11

\* wait() returns without a child, or sleeps with live children only.
LEMMA WaitConsistent ==
  ASSUME TableIsConsistent, NEW p \in Slot, wait_none(p) \/ wait_sleep(p)
  PROVE  TableIsConsistent'
<1> USE SlotFacts DEF TableIsConsistent
<1>1. /\ state[p] = "RUNNABLE" /\ pc[p] \in {"user", "wait"}
      /\ UNCHANGED <<pid, parent, killed, nextpid, np, panic>>
      /\ \/ pc' = [pc EXCEPT ![p] = "user"] /\ state' = state
         \/ /\ pc' = [pc EXCEPT ![p] = "wait"] /\ state' = [state EXCEPT ![p] = "SLEEPING"]
            /\ Kids(p) # {} /\ DeadKids(p) = {}
  BY DEF wait_none, wait_sleep, Scans, Calls
<1>2. TypeOK'
  BY <1>1 DEF TypeOK, procstate
<1>3. \A s \in Slot : \/ state'[s] = state[s]
                      \/ s = p /\ state'[s] = "SLEEPING" /\ pc'[s] = "wait" /\ Kids(s) # {} /\ DeadKids(s) = {}
  BY <1>1 DEF TypeOK
<1>4. Live' = Live /\ Exists' = Exists
  BY <1>1, <1>3 DEF Live, Exists
<1>5. PidsUnique' /\ AncestryReachesInit'
  BY <1>1, <1>3, <1>4 DEF PidsUnique, AncestryReachesInit
<1>6. NoZombieBehindSleeper'
  <2> SUFFICES ASSUME NEW s \in Slot, state'[s] = "SLEEPING"
               PROVE  Kids(s)' # {} /\ DeadKids(s)' = {}
    BY DEF NoZombieBehindSleeper
  <2>1. Kids(s) # {} /\ DeadKids(s) = {}
    BY <1>3 DEF NoZombieBehindSleeper
  <2>2. Kids(s)' = Kids(s)
    BY <1>1 DEF Kids, Child
  <2>3. DeadKids(s)' \subseteq DeadKids(s)
    BY <1>3, <2>2 DEF DeadKids, Kids
  <2> QED BY <2>1, <2>2, <2>3
<1>7. \A s \in Slot : pc'[s] = pc[s] \/ (s = p /\ pc'[s] \in {"user", "wait"})
  BY <1>1 DEF TypeOK
<1>8. EmbryoHasOneForker'
  BY <1>1, <1>3, <1>4, <1>7 DEF EmbryoHasOneForker, Live
<1>9. PhasesFitStates'
  <2>1. \A s \in Slot : pc'[s] = "fork" => pc[s] = "fork" /\ state'[np[s]] = "EMBRYO"
    BY <1>1, <1>3, <1>7 DEF PhasesFitStates
  <2> QED BY <1>1, <1>3, <1>4, <1>7, <2>1 DEF PhasesFitStates
<1> QED BY <1>2, <1>5, <1>6, <1>8, <1>9

\* kill() at most wakes a process.
LEMMA KillConsistent ==
  ASSUME TableIsConsistent, NEW p \in Slot, NEW n \in 0 .. MaxPid, kill(p, n)
  PROVE  TableIsConsistent'
<1> USE SlotFacts DEF TableIsConsistent
<1>1. /\ UNCHANGED <<pid, parent, nextpid, pc, np, panic>>
      /\ \/ UNCHANGED <<killed, state>>
         \/ \E s \in Slot :
              /\ killed' = [killed EXCEPT ![s] = TRUE]
              /\ state' = [state EXCEPT ![s] = IF @ = "SLEEPING" THEN "RUNNABLE" ELSE @]
  <2> DEFINE matches == {s \in Slot : pid[s] = n}
  <2>1. matches # {} => Lowest(matches) \in Slot
    BY LowestIn
  <2> QED BY <2>1, Zenon DEF kill
<1>2. TypeOK'
  BY <1>1 DEF TypeOK, procstate
<1>3. \A s \in Slot : state'[s] = state[s] \/ (state[s] = "SLEEPING" /\ state'[s] = "RUNNABLE")
  BY <1>1 DEF TypeOK
<1>4. Live' = Live /\ Exists' = Exists
  BY <1>3 DEF Live, Exists
<1>5. PidsUnique' /\ AncestryReachesInit'
  BY <1>1, <1>3, <1>4 DEF PidsUnique, AncestryReachesInit
<1>6. NoZombieBehindSleeper'
  <2> SUFFICES ASSUME NEW s \in Slot, state'[s] = "SLEEPING"
               PROVE  Kids(s)' # {} /\ DeadKids(s)' = {}
    BY DEF NoZombieBehindSleeper
  <2>1. Kids(s) # {} /\ DeadKids(s) = {}
    BY <1>3 DEF NoZombieBehindSleeper
  <2>2. Kids(s)' = Kids(s)
    BY <1>1 DEF Kids, Child
  <2>3. DeadKids(s)' \subseteq DeadKids(s)
    BY <1>3, <2>2 DEF DeadKids, Kids
  <2> QED BY <2>1, <2>2, <2>3
<1>7. EmbryoHasOneForker'
  BY <1>1, <1>3, <1>4 DEF EmbryoHasOneForker, Live
<1>8. PhasesFitStates'
  <2>1. \A s \in Slot : pc[s] = "fork" => np[s] \in Slot /\ state'[np[s]] = "EMBRYO"
    BY <1>3 DEF PhasesFitStates
  <2> QED BY <1>1, <1>3, <1>4, <2>1 DEF PhasesFitStates
<1> QED BY <1>2, <1>5, <1>6, <1>7, <1>8

\* For a table of any size and any number of forks: pids are distinct, an
\* EMBRYO has one fork(), every process descends from init through parents that
\* are alive, and nobody sleeps in wait() beside a ZOMBIE of theirs.
THEOREM TableIsConsistentHolds == Spec => []TableIsConsistent
<1>1. TableIsConsistent /\ [Next]_vars => TableIsConsistent'
  <2> SUFFICES ASSUME TableIsConsistent, [Next]_vars PROVE TableIsConsistent'
    OBVIOUS
  <2>1. ASSUME NEW p \in Slot, Step(p) PROVE TableIsConsistent'
    <3>1. CASE allocproc(p)
      BY <3>1, AllocConsistent
    <3>2. CASE fork_fail(p)
      BY <3>2, ForkFailConsistent
    <3>3. CASE fork(p)
      BY <3>3, ForkConsistent
    <3>4. CASE exit_files(p)
      BY <3>4, ExitFilesConsistent
    <3>5. CASE exit(p)
      BY <3>5, ExitConsistent
    <3>6. CASE wait_reap(p)
      BY <3>6, ReapConsistent
    <3>7. CASE wait_none(p) \/ wait_sleep(p)
      BY <3>7, WaitConsistent
    <3>8. CASE \E n \in 0 .. MaxPid : kill(p, n)
      BY <3>8, KillConsistent
    <3> QED BY <2>1, <3>1, <3>2, <3>3, <3>4, <3>5, <3>6, <3>7, <3>8 DEF Step
  <2>2. CASE UNCHANGED vars
    BY <2>2 DEF vars, TableIsConsistent, TypeOK, PidsUnique, AncestryReachesInit, Exists, Live,
                NoZombieBehindSleeper, Kids, DeadKids, Child, EmbryoHasOneForker, PhasesFitStates
  <2> QED BY <2>1, <2>2 DEF Next
<1> QED BY InitConsistent, <1>1, PTL DEF Spec
=============================================================================
