-------------------------- MODULE BufferCacheProofs --------------------------
(***************************************************************************)
(* Theorems about bio.c and ide.c, for any processes, buffers, sectors and *)
(* contents: no wakeup is lost, what bread() returns, and that the cache   *)
(* is one copy of every block.                                             *)
(***************************************************************************)
EXTENDS BufferCacheLemmas

USE CacheAssumption, ZenonT(60)

\* bwrite() and log_write(): the holder's change makes the buffer dirty.
LEMMA DirtyCoherent ==
  ASSUME Coherent, NEW p \in Proc, NEW d \in Data, bwrite(p, d) \/ pin(p, d)
  PROVE  Coherent' /\ BufIs(cur[p], buf[cur[p]].sector, buf[cur[p]].flags \cup {"B_DIRTY"}, d)
<1> USE DEF Coherent, CacheStructure
<1> DEFINE b == cur[p]
           fl == buf[b].flags \cup {"B_DIRTY"}
<1>1. /\ b \in Buf /\ ~Free(b) /\ "B_VALID" \in buf[b].flags /\ buf[b].sector # None
      /\ \A q \in Proc \ {p} : pc[q] \in Holding => cur[q] # b
  BY DEF bwrite, pin, BusyExcludes, HolderHasBuffer, OneHolder, Holding, FlagsFitPhases, FlagsFitHolder
<1>2. /\ pc[p] = "hold" /\ pc'[p] \in {"hold", "iderw"} /\ pc' \in [Proc -> Label]
      /\ \A q \in Proc \ {p} : pc'[q] = pc[q]
      /\ cur' = cur /\ lru' = lru /\ idequeue' = idequeue /\ cmd' = cmd
      /\ disk' = disk /\ want' = want /\ panic' = panic
  BY DEF bwrite, pin, TypeOK, Label
<1>3. BufIs(b, buf[b].sector, fl, d)
  <2>1. SetData(b, d, fl)
    BY <1>1 DEF bwrite, pin, TypeOK, SetData
  <2>2. buf \in [Buf -> Struct] /\ fl \in SUBSET Flag
    BY <1>1 DEF TypeOK, Struct, Flag
  <2> QED BY <1>1, <2>1, <2>2, AfterSetData
<1>4. /\ buf' \in [Buf -> Struct]
      /\ buf'[b].sector = buf[b].sector /\ buf'[b].flags = fl
      /\ \A a \in Buf \ {b} : buf'[a] = buf[a]
  BY <1>3 DEF BufIs
<1>5. TypeOK'
  BY <1>2, <1>4 DEF TypeOK, Struct
<1>6. LruListsBuffers' /\ OneBufferPerSector'
  BY <1>1, <1>2, <1>4, SMTT(60) DEF LruListsBuffers, OneBufferPerSector
<1>7. \A q \in Proc : pc'[q] \in Holding <=> pc[q] \in Holding
  BY <1>2 DEF Holding
<1>8. BusyExcludes'
  <2>1. \A a \in Buf : Free(a)' <=> Free(a)
    BY <1>1, <1>4 DEF Free
  <2>2. \A q \in Proc : HolderHasBuffer(q)'
    BY <1>1, <1>2, <1>4, <1>7 DEF BusyExcludes, HolderHasBuffer, Free
  <2>3. \A q, r \in Proc : OneHolder(q, r)'
    BY <1>2, <1>7, SMTT(60) DEF BusyExcludes, OneHolder
  <2>4. \A a \in Buf : BusyIsHeld(a)'
    BY <1>2, <1>7, <2>1 DEF BusyExcludes, BusyIsHeld
  <2> QED BY <2>2, <2>3, <2>4 DEF BusyExcludes
<1>9. FlagsFitPhases'
  <2>1. \A a \in Buf : FlagsFitBuffer(a)'
    BY <1>1, <1>4, SMTT(60) DEF FlagsFitPhases, FlagsFitBuffer, Free
  <2>2. ASSUME NEW q \in Proc PROVE FlagsFitHolder(q)'
    <3>1. CASE q = p
      BY <1>1, <1>2, <1>4, <3>1 DEF FlagsFitHolder, Synced
    <3>2. CASE q # p /\ pc[q] \in Holding
      <4>1. cur[q] \in Buf \ {b} /\ pc'[q] = pc[q]
        BY <1>1, <1>2, <3>2 DEF BusyExcludes, HolderHasBuffer
      <4>2. buf'[cur'[q]] = buf[cur[q]]
        BY <1>2, <1>4, <4>1
      <4>3. FlagsFitHolder(q)
        BY DEF FlagsFitPhases
      <4> QED BY <4>1, <4>2, <4>3 DEF FlagsFitHolder, Synced
    <3>3. CASE pc[q] \notin Holding
      BY <1>7, <3>3 DEF Holding, FlagsFitHolder
    <3> QED BY <3>1, <3>2, <3>3
  <2> QED BY <2>1, <2>2 DEF FlagsFitPhases
<1>10. SleepersHaveAWaker'
  <2>1. \A q \in Proc : pc'[q] = "rwsleep" <=> pc[q] = "rwsleep"
    BY <1>2
  <2>2. \A q \in Proc : pc'[q] = "bgetsleep" <=> pc[q] = "bgetsleep"
    BY <1>2
  <2>3. idequeue # <<>> => buf'[Head(idequeue)] = buf[Head(idequeue)]
    <3> SUFFICES ASSUME idequeue # <<>> PROVE buf'[Head(idequeue)] = buf[Head(idequeue)]
      OBVIOUS
    <3>1. 1 \in DOMAIN idequeue /\ Head(idequeue) = idequeue[1] /\ idequeue[1] \in Buf
      BY SMTT(60) DEF TypeOK
    <3>2. idequeue[1] # b
      BY <1>1, <1>2, <3>1, SMTT(60) DEF SleepersHaveAWaker, RequestsAwaited, Holding
    <3> QED BY <1>4, <3>1, <3>2
  <2>4. \A q \in Proc : DriverWakes(q)'
    BY <1>2, <1>7, <2>1, SMTT(60) DEF SleepersHaveAWaker, DriverWakes
  <2>5. \A q \in Proc : HolderWakes(q)'
    BY <1>2, <1>7, <2>2, SMTT(60) DEF SleepersHaveAWaker, HolderWakes
  <2>6. RequestsAwaited'
    BY <1>2, <2>1, SMTT(60) DEF SleepersHaveAWaker, RequestsAwaited
  <2>7. DriveServesHead' /\ IsInjective(idequeue')
    BY <1>2, <2>3 DEF SleepersHaveAWaker, DriveServesHead
  <2> QED BY <2>4, <2>5, <2>6, <2>7 DEF SleepersHaveAWaker
<1> QED BY <1>3, <1>5, <1>6, <1>8, <1>9, <1>10

\* brelse(): nobody sleeps on the buffer any more.
LEMMA BrelseCoherent ==
  ASSUME Coherent, NEW p \in Proc, brelse(p)
  PROVE  Coherent' /\ BufIs(cur[p], buf[cur[p]].sector, buf[cur[p]].flags \ {"B_BUSY"}, buf[cur[p]].data)
<1> USE DEF Coherent, CacheStructure
<1> DEFINE b == cur[p]
           fl == buf[b].flags \ {"B_BUSY"}
<1>1. /\ b \in Buf /\ ~Free(b) /\ "B_VALID" \in buf[b].flags /\ buf[b].sector # None
      /\ \A q \in Proc \ {p} : pc[q] \in Holding => cur[q] # b
  BY DEF brelse, BusyExcludes, HolderHasBuffer, OneHolder, Holding, FlagsFitPhases, FlagsFitHolder
<1>2. /\ pc[p] = "hold" /\ pc'[p] = "idle" /\ pc' \in [Proc -> Label]
      /\ \A q \in Proc \ {p} : pc'[q] = IF cur[q] # b THEN pc[q]
                                        ELSE IF pc[q] = "bgetsleep" THEN "bget"
                                        ELSE IF pc[q] = "rwsleep" THEN "rwtest" ELSE pc[q]
      /\ cur'[p] = None /\ cur' \in [Proc -> Buf \cup {None}]
      /\ \A q \in Proc \ {p} : cur'[q] = cur[q]
      /\ idequeue' = idequeue /\ cmd' = cmd
      /\ disk' = disk /\ want' = want /\ panic' = panic
  BY DEF brelse, TypeOK, Label, Woken
<1>3. BufIs(b, buf[b].sector, fl, buf[b].data)
  <2>1. SetFlags(b, fl)
    BY <1>1 DEF brelse, TypeOK, SetFlags
  <2>2. buf \in [Buf -> Struct] /\ fl \in SUBSET Flag
    BY <1>1 DEF TypeOK, Struct, Flag
  <2> QED BY <1>1, <2>1, <2>2, AfterSetFlags
<1>4. /\ buf' \in [Buf -> Struct]
      /\ buf'[b].sector = buf[b].sector /\ buf'[b].flags = fl
      /\ \A a \in Buf \ {b} : buf'[a] = buf[a]
  BY <1>3 DEF BufIs
<1>5. lru' \in Seq(Buf) /\ LruListsBuffers'
  BY <1>1, ToFrontKeepsList DEF brelse, TypeOK
<1>6. TypeOK'
  BY <1>2, <1>4, <1>5 DEF TypeOK, Struct
<1>7. OneBufferPerSector'
  BY <1>1, <1>4, SMTT(60) DEF OneBufferPerSector
<1>8. /\ pc'[p] \notin Holding
      /\ \A q \in Proc \ {p} : /\ pc'[q] \in Holding <=> pc[q] \in Holding
                               /\ pc[q] \in Holding => pc'[q] = pc[q] /\ cur[q] \in Buf \ {b}
                               /\ pc'[q] = "rwsleep" <=> pc[q] = "rwsleep"
  BY <1>1, <1>2 DEF Holding, BusyExcludes, HolderHasBuffer
<1>9. BusyExcludes'
  <2>1. ASSUME NEW q \in Proc PROVE HolderHasBuffer(q)'
    <3>1. CASE pc'[q] \in Holding
      <4>1. pc[q] \in Holding /\ cur'[q] = cur[q] /\ buf'[cur[q]] = buf[cur[q]]
        BY <1>2, <1>4, <1>8, <3>1
      <4>2. HolderHasBuffer(q)
        BY DEF BusyExcludes
      <4> QED BY <4>1, <4>2 DEF HolderHasBuffer, Free
    <3>2. CASE pc'[q] \notin Holding
      BY <3>2 DEF HolderHasBuffer
    <3> QED BY <3>1, <3>2
  <2>2. \A q, r \in Proc : OneHolder(q, r)'
    BY <1>2, <1>8, SMTT(60) DEF BusyExcludes, OneHolder
  <2>3. ASSUME NEW a \in Buf PROVE BusyIsHeld(a)'
    <3> SUFFICES ASSUME "B_BUSY" \in buf'[a].flags
                 PROVE  \E q \in Proc : pc'[q] \in Holding /\ cur'[q] = a
      BY DEF BusyIsHeld, Free
    <3>1. a # b /\ ~Free(a)
      BY <1>1, <1>4 DEF Free
    <3>2. PICK q \in Proc : pc[q] \in Holding /\ cur[q] = a
      BY <3>1 DEF BusyExcludes, BusyIsHeld
    <3> QED BY <1>2, <1>8, <3>1, <3>2
  <2> QED BY <2>1, <2>2, <2>3 DEF BusyExcludes
<1>10. FlagsFitPhases'
  <2>1. \A a \in Buf : FlagsFitBuffer(a)'
    BY <1>1, <1>4 DEF FlagsFitPhases, FlagsFitBuffer, Free
  <2>2. ASSUME NEW q \in Proc PROVE FlagsFitHolder(q)'
    <3>1. CASE q = p
      BY <1>2, <3>1 DEF FlagsFitHolder
    <3>2. CASE q # p /\ pc[q] \in Holding
      <4>1. pc'[q] = pc[q] /\ buf'[cur'[q]] = buf[cur[q]]
        BY <1>2, <1>4, <1>8, <3>2, SMTT(60)
      <4>2. FlagsFitHolder(q)
        BY DEF FlagsFitPhases
      <4> QED BY <4>1, <4>2 DEF FlagsFitHolder, Synced
    <3>3. CASE q # p /\ pc[q] \notin Holding
      BY <1>8, <3>3 DEF Holding, FlagsFitHolder
    <3> QED BY <3>1, <3>2, <3>3
  <2> QED BY <2>1, <2>2 DEF FlagsFitPhases
<1>11. SleepersHaveAWaker'
  <2>1. \A i \in DOMAIN idequeue : idequeue[i] \in Buf \ {b}
    BY <1>1, <1>2, SMTT(60) DEF SleepersHaveAWaker, RequestsAwaited, Holding, TypeOK
  <2>2. \A q \in Proc : DriverWakes(q)'
    BY <1>2, <1>8, SMTT(60) DEF SleepersHaveAWaker, DriverWakes
  <2>3. ASSUME NEW q \in Proc PROVE HolderWakes(q)'
    <3> SUFFICES ASSUME pc'[q] = "bgetsleep"
                 PROVE  \E h \in Proc : pc'[h] \in Holding /\ cur'[h] = cur'[q]
      BY DEF HolderWakes
    <3>1. q # p /\ pc[q] = "bgetsleep" /\ cur[q] # b
      BY <1>2
    <3>2. PICK h \in Proc : pc[h] \in Holding /\ cur[h] = cur[q]
      BY <3>1 DEF SleepersHaveAWaker, HolderWakes
    <3> QED BY <1>2, <1>8, <3>1, <3>2, SMTT(60)
  <2>4. RequestsAwaited'
    BY <1>2, <1>8, SMTT(60) DEF SleepersHaveAWaker, RequestsAwaited
  <2>5. idequeue # <<>> => buf'[Head(idequeue)] = buf[Head(idequeue)]
    BY <1>4, <2>1, SMTT(60) DEF TypeOK
  <2>6. DriveServesHead' /\ IsInjective(idequeue')
    BY <1>2, <2>5 DEF SleepersHaveAWaker, DriveServesHead
  <2> QED BY <2>2, <2>3, <2>4, <2>6 DEF SleepersHaveAWaker
<1> QED BY <1>3, <1>5, <1>6, <1>7, <1>9, <1>10, <1>11

LEMMA NextCoherent == Coherent /\ [Next]_vars => Coherent'
<1> SUFFICES ASSUME Coherent, [Next]_vars PROVE Coherent'
  OBVIOUS
<1>1. CASE UNCHANGED vars
  <2>1. TypeOK' /\ LruListsBuffers' /\ OneBufferPerSector'
    BY <1>1 DEF vars, Coherent, CacheStructure, TypeOK, LruListsBuffers, OneBufferPerSector
  <2>2. BusyExcludes'
    BY <1>1 DEF vars, Coherent, CacheStructure, BusyExcludes, HolderHasBuffer, OneHolder, BusyIsHeld, Free
  <2>3. FlagsFitPhases'
    BY <1>1 DEF vars, Coherent, CacheStructure, FlagsFitPhases, FlagsFitBuffer, FlagsFitHolder, Free, Synced
  <2>4. SleepersHaveAWaker'
    BY <1>1, SMTT(60) DEF vars, Coherent, SleepersHaveAWaker, DriverWakes, HolderWakes, RequestsAwaited, DriveServesHead
  <2> QED BY <2>1, <2>2, <2>3, <2>4 DEF Coherent, CacheStructure
<1>2. CASE ideintr
  BY <1>2, IntrCoherent, SMTT(60)
<1>3. ASSUME NEW p \in Proc, Step(p) PROVE Coherent'
  <2>1. ASSUME NEW s \in Sector, bget_hit(p, s) \/ bget_wait(p, s) \/ bget_recycle(p, s) \/ bget_panic(p, s)
        PROVE  Coherent'
    BY <2>1, HitCoherent, WaitCoherent, RecycleCoherent, PanicCoherent
  <2>2. ASSUME NEW d \in Data, bwrite(p, d) \/ pin(p, d) PROVE Coherent'
    BY <2>2, DirtyCoherent
  <2> QED BY <1>3, <2>1, <2>2, IderwCoherent, IderwTestCoherent, BrelseCoherent DEF Step
<1> QED BY <1>1, <1>2, <1>3 DEF Next

LEMMA CoherentHolds == Spec => []Coherent
BY InitCoherent, NextCoherent, PTL DEF Spec

\* No wakeup is lost on a buffer's channel, for any number of processes and
\* buffers, whether or not reads fail.
THEOREM SleepersHaveAWakerHolds == Spec => []SleepersHaveAWaker
<1>1. Coherent => SleepersHaveAWaker
  BY SMTT(60) DEF Coherent
<1> QED BY <1>1, CoherentHolds, PTL

-----------------------------------------------------------------------------
(***************************************************************************)
(* The contents, while no read fails.                                      *)
(***************************************************************************)

\* The interrupt leaves the first buffer in step with its sector.
LEMMA IntrCurrent ==
  ASSUME Coherent, CleanIsCurrent, ~ReadErrors, ideintr
  PROVE  /\ CleanIsCurrent'
         /\ LET b == Head(idequeue) IN
              /\ b \in Buf /\ buf[b].sector \in Sector
              /\ BufIs(b, buf[b].sector, (buf[b].flags \cup {"B_VALID"}) \ {"B_DIRTY"},
                       IF "B_DIRTY" \in buf[b].flags THEN buf[b].data ELSE disk[buf[b].sector])
              /\ disk' \in [Sector -> Data]
              /\ disk'[buf[b].sector] = buf'[b].data
              /\ \A s \in Sector \ {buf[b].sector} : disk'[s] = disk[s]
<1> USE DEF Coherent, CacheStructure
<1> DEFINE b == Head(idequeue)
           fl == (buf[b].flags \cup {"B_VALID"}) \ {"B_DIRTY"}
           d == IF "B_DIRTY" \in buf[b].flags THEN buf[b].data ELSE disk[buf[b].sector]
<1>1. idequeue # <<>> /\ b \in Buf /\ 1 \in DOMAIN idequeue /\ b = idequeue[1]
  BY SMTT(60) DEF ideintr, TypeOK
<1>2. PICK h \in Proc : pc[h] = "rwsleep" /\ cur[h] = b
  BY <1>1, SMTT(60) DEF SleepersHaveAWaker, RequestsAwaited, DriveServesHead
<1>3. buf[b].sector \in Sector /\ buf[b].sector # None
  BY <1>1, <1>2, SMTT(60) DEF BusyExcludes, HolderHasBuffer, OneHolder, Holding, TypeOK
<1>4. /\ cmd.sector = buf[b].sector
      /\ cmd.op = "write" <=> "B_DIRTY" \in buf[b].flags
      /\ cmd.op = "write" => cmd.data = buf[b].data
  BY <1>1 DEF SleepersHaveAWaker, RequestsAwaited, DriveServesHead
<1>5. BufIs(b, buf[b].sector, fl, d)
  <2>1. PICK ok \in {TRUE} \cup {~ReadErrors} :
          buf' = [buf EXCEPT
                    ![b].data  = IF "B_DIRTY" \notin buf[b].flags /\ ok THEN disk[cmd.sector] ELSE @,
                    ![b].flags = (@ \cup {"B_VALID"}) \ {"B_DIRTY"}]
    BY DEF ideintr
  <2>2. ok = TRUE
    OBVIOUS
  <2>3. d \in Data
    BY <1>1, <1>3 DEF TypeOK
  <2>4. SetData(b, d, fl)
    BY <1>1, <1>4, <2>1, <2>2 DEF TypeOK, SetData
  <2>5. buf \in [Buf -> Struct] /\ fl \in SUBSET Flag
    BY <1>1 DEF TypeOK, Struct, Flag
  <2> QED BY <1>1, <2>3, <2>4, <2>5, AfterSetData
<1>6. /\ buf'[b].sector = buf[b].sector /\ buf'[b].data = d
      /\ \A a \in Buf \ {b} : buf'[a] = buf[a]
  BY <1>5 DEF BufIs
<1>7. /\ disk' \in [Sector -> Data] /\ disk'[buf[b].sector] = d
      /\ \A s \in Sector \ {buf[b].sector} : disk'[s] = disk[s]
  <2>1. buf[b].data \in Data
    BY <1>1 DEF TypeOK
  <2>2. CASE "B_DIRTY" \in buf[b].flags
    BY <1>3, <1>4, <2>1, <2>2 DEF ideintr, TypeOK
  <2>3. CASE "B_DIRTY" \notin buf[b].flags
    BY <1>3, <1>4, <2>1, <2>3 DEF ideintr, TypeOK
  <2> QED BY <2>2, <2>3
<1>8. CleanIsCurrent'
  <2> SUFFICES ASSUME NEW a \in Buf, Synced(a)', buf'[a].sector # None
               PROVE  buf'[a].data = disk'[buf'[a].sector]
    BY DEF CleanIsCurrent
  <2>1. CASE a = b
    BY <1>6, <1>7, <2>1
  <2>2. CASE a # b
    <3>1. buf'[a] = buf[a] /\ buf[a].sector \in Sector \ {buf[b].sector}
      BY <1>1, <1>3, <1>6, <2>2, SMTT(60) DEF OneBufferPerSector, TypeOK
    <3> QED BY <1>7, <3>1 DEF CleanIsCurrent, Synced
  <2> QED BY <2>1, <2>2
<1> QED BY <1>1, <1>3, <1>5, <1>6, <1>7, <1>8

\* bget() gives a buffer away as it is, or empties it.
LEMMA TakeCurrent ==
  ASSUME Coherent, CleanIsCurrent, NEW p \in Proc, NEW b \in Buf, NEW s \in Sector, NEW flags \in SUBSET Flag,
         Take(p, b, s, flags), flags = {} \/ (flags = buf[b].flags /\ buf[b].sector = s)
  PROVE  CleanIsCurrent' /\ BufIs(b, s, flags \cup {"B_BUSY"}, buf[b].data)
<1>1. BufIs(b, s, flags \cup {"B_BUSY"}, buf[b].data)
  <2>1. SetSector(b, s, flags \cup {"B_BUSY"})
    BY DEF Take, SetSector
  <2>2. buf \in [Buf -> Struct] /\ flags \cup {"B_BUSY"} \in SUBSET Flag
    BY DEF Coherent, CacheStructure, TypeOK, Struct, Flag
  <2> QED BY <2>1, <2>2, AfterSetSector
<1>2. /\ disk' = disk /\ buf'[b].sector = s /\ buf'[b].flags = flags \cup {"B_BUSY"}
      /\ buf'[b].data = buf[b].data /\ \A a \in Buf \ {b} : buf'[a] = buf[a]
  BY <1>1 DEF BufIs, Take
<1>3. ASSUME NEW a \in Buf, Synced(a)', buf'[a].sector # None
      PROVE  buf'[a].data = disk'[buf'[a].sector]
  <2>1. CASE a = b
    <3>1. flags = buf[b].flags /\ buf[b].sector = s
      BY <1>2, <1>3, <2>1 DEF Synced
    <3> QED BY <1>2, <1>3, <2>1, <3>1, SMTT(60) DEF Synced, CleanIsCurrent
  <2>2. CASE a # b
    BY <1>2, <1>3, <2>2, SMTT(60) DEF Synced, CleanIsCurrent
  <2> QED BY <2>1, <2>2
<1> QED BY <1>1, <1>3 DEF CleanIsCurrent

LEMMA NextCurrent == Coherent /\ CleanIsCurrent /\ ~ReadErrors /\ [Next]_vars => CleanIsCurrent'
<1> SUFFICES ASSUME Coherent, CleanIsCurrent, ~ReadErrors, [Next]_vars PROVE CleanIsCurrent'
  OBVIOUS
<1>1. CASE UNCHANGED <<buf, disk>>
  BY <1>1 DEF CleanIsCurrent, Synced
<1>2. CASE ideintr
  BY <1>2, IntrCurrent
<1>3. ASSUME NEW p \in Proc, NEW s \in Sector, bget_hit(p, s) PROVE CleanIsCurrent'
  <2>1. PICK b \in Buf : Caches(b, s) /\ Take(p, b, s, buf[b].flags)
    BY <1>3 DEF bget_hit
  <2>2. buf[b].flags \in SUBSET Flag /\ buf[b].sector = s
    BY <2>1 DEF Coherent, CacheStructure, TypeOK, Caches
  <2> QED BY <2>1, <2>2, TakeCurrent
<1>4. ASSUME NEW p \in Proc, NEW s \in Sector, bget_recycle(p, s) PROVE CleanIsCurrent'
  <2>1. PICK i \in DOMAIN lru : Take(p, lru[i], s, {})
    BY <1>4 DEF bget_recycle
  <2>2. lru[i] \in Buf /\ {} \in SUBSET Flag
    BY SMTT(60) DEF Coherent, CacheStructure, TypeOK
  <2> DEFINE none == {}
  <2>3. Take(p, lru[i], s, none) /\ none \in SUBSET Flag /\ none = {}
    BY <2>1, <2>2
  <2> HIDE DEF none
  <2> QED BY <2>2, <2>3, TakeCurrent
<1>5. ASSUME NEW p \in Proc, NEW d \in Data, bwrite(p, d) \/ pin(p, d) PROVE CleanIsCurrent'
  <2>1. disk' = disk /\ BufIs(cur[p], buf[cur[p]].sector, buf[cur[p]].flags \cup {"B_DIRTY"}, d)
    BY <1>5, DirtyCoherent DEF bwrite, pin
  <2> QED BY <2>1 DEF BufIs, CleanIsCurrent, Synced
<1>6. ASSUME NEW p \in Proc, brelse(p) PROVE CleanIsCurrent'
  <2>1. disk' = disk /\ BufIs(cur[p], buf[cur[p]].sector, buf[cur[p]].flags \ {"B_BUSY"}, buf[cur[p]].data)
    BY <1>6, BrelseCoherent DEF brelse
  <2> QED BY <2>1, SMTT(60) DEF BufIs, CleanIsCurrent, Synced
<1>7. \/ UNCHANGED <<buf, disk>> \/ ideintr
      \/ \E p \in Proc : \/ \E s \in Sector : bget_hit(p, s) \/ bget_recycle(p, s)
                         \/ \E d \in Data : bwrite(p, d) \/ pin(p, d)
                         \/ brelse(p)
  BY SMTT(60) DEF Next, Step, vars, bget_wait, bget_panic, iderw, iderw_test
<1> QED BY <1>1, <1>2, <1>3, <1>4, <1>5, <1>6, <1>7

LEMMA CurrentHolds == ~ReadErrors => (Spec => [](Coherent /\ CleanIsCurrent))
<1> SUFFICES ASSUME ~ReadErrors PROVE Spec => [](Coherent /\ CleanIsCurrent)
  BY SMTT(60)
<1>1. Init => CleanIsCurrent
  BY SMTT(60) DEF Init, CleanIsCurrent, Synced
<1>2. Coherent /\ CleanIsCurrent /\ [Next]_vars => (Coherent /\ CleanIsCurrent)'
  BY NextCoherent, NextCurrent
<1> QED BY <1>1, <1>2, InitCoherent, PTL DEF Spec

\* With a drive that reports no read error, bread() returns the sector's
\* contents to one process at a time, for any number of processes and buffers.
THEOREM CacheIsSoundHolds == ~ReadErrors => (Spec => []CacheIsSound)
<1>1. Coherent /\ CleanIsCurrent => CacheIsSound
  <2> SUFFICES ASSUME Coherent, CleanIsCurrent PROVE BreadReturnsContents
    BY SMTT(60) DEF Coherent, CacheIsSound
  <2> QED BY DEF Coherent, CacheStructure, BreadReturnsContents, BusyExcludes, HolderHasBuffer, OneHolder, Holding, FlagsFitPhases, FlagsFitBuffer, FlagsFitHolder,
                 CleanIsCurrent, Synced
<1> QED BY <1>1, CurrentHolds, PTL

-----------------------------------------------------------------------------
(***************************************************************************)
(* The refinement of BlockStore.                                           *)
(***************************************************************************)
Holds(p, s) == pc[p] \in Holding /\ buf[cur[p]].sector = s

\* What the refinement mapping says of a sector, without its CHOOSEs.
MemFacts ==
  /\ Mem \in [Sector -> Data]
  /\ \A s \in Sector :
       /\ \A b \in Buf : buf[b].sector = s /\ "B_VALID" \in buf[b].flags => Mem[s] = buf[b].data
       /\ (\A b \in Buf : buf[b].sector = s => "B_VALID" \notin buf[b].flags) => Mem[s] = disk[s]

HolderFacts ==
  /\ HolderOf \in [Sector -> Proc \cup {None}]
  /\ \A s \in Sector :
       /\ \A p \in Proc : Holds(p, s) => HolderOf[s] = p
       /\ (\A p \in Proc : ~Holds(p, s)) => HolderOf[s] = None

LEMMA MappingFacts == Coherent => MemFacts /\ HolderFacts
<1> SUFFICES ASSUME Coherent PROVE MemFacts /\ HolderFacts
  BY SMTT(60)
<1> USE DEF Coherent, CacheStructure
<1>1. \A s \in Sector : CachedAt(s) = {b \in Buf : buf[b].sector = s /\ "B_VALID" \in buf[b].flags}
  BY DEF CachedAt, FlagsFitPhases, FlagsFitBuffer, FlagsFitHolder
<1>2. ASSUME NEW s \in Sector, NEW b \in CachedAt(s) PROVE Mem[s] = buf[b].data
  <2>1. \A c \in CachedAt(s) : c = b
    BY <1>1, SMTT(60) DEF OneBufferPerSector
  <2>2. (CHOOSE c \in CachedAt(s) : TRUE) = b
    BY <2>1, SMTT(60)
  <2> QED BY <2>2 DEF Mem
<1>3. ASSUME NEW s \in Sector, CachedAt(s) = {} PROVE Mem[s] = disk[s]
  BY <1>3 DEF Mem
<1>4. ASSUME NEW s \in Sector PROVE Mem[s] \in Data
  BY <1>1, <1>2, <1>3, SMTT(60) DEF TypeOK
<1>5. Mem \in [Sector -> Data]
  <2>1. Mem = [s \in Sector |-> Mem[s]]
    BY SMTT(60) DEF Mem
  <2> QED BY <1>4, <2>1, SMTT(60)
<1>6. MemFacts
  BY <1>1, <1>2, <1>3, <1>5 DEF MemFacts
<1>7. ASSUME NEW s \in Sector, NEW p \in Proc, Holds(p, s) PROVE HolderOf[s] = p
  <2>1. \A q \in Proc : Holds(q, s) => q = p
    BY <1>7, SMTT(60) DEF Holds, BusyExcludes, HolderHasBuffer, OneHolder, OneBufferPerSector
  <2>2. HolderOf[s] = CHOOSE q \in Proc : Holds(q, s)
    BY <1>7 DEF HolderOf, Holds
  <2> QED BY <1>7, <2>1, <2>2
<1>8. ASSUME NEW s \in Sector, \A p \in Proc : ~Holds(p, s) PROVE HolderOf[s] = None
  BY <1>8 DEF HolderOf, Holds
<1>9. HolderOf \in [Sector -> Proc \cup {None}]
  <2>1. HolderOf = [s \in Sector |-> HolderOf[s]]
    BY DEF HolderOf
  <2>2. \A s \in Sector : HolderOf[s] \in Proc \cup {None}
    BY <1>7, <1>8
  <2> QED BY <2>1, <2>2
<1> QED BY <1>6, <1>7, <1>8, <1>9 DEF HolderFacts

LEMMA MappingFactsNext == Coherent' => MemFacts' /\ HolderFacts'
BY MappingFacts, PTL

\* Both are functions on the sectors.
LEMMA SameMem ==
  ASSUME MemFacts, MemFacts', \A s \in Sector : Mem'[s] = Mem[s]
  PROVE  Mem' = Mem
BY SMTT(60) DEF MemFacts

LEMMA SameHolder ==
  ASSUME HolderFacts, HolderFacts', \A s \in Sector : HolderOf'[s] = HolderOf[s]
  PROVE  HolderOf' = HolderOf
BY SMTT(60) DEF HolderFacts

\* The holder of a sector is determined by who holds it.
LEMMA HolderSame ==
  ASSUME HolderFacts, HolderFacts', NEW s \in Sector, \A p \in Proc : Holds(p, s)' <=> Holds(p, s)
  PROVE  HolderOf'[s] = HolderOf[s]
BY DEF HolderFacts

\* What a step needs to know of the state it starts and ends in.
Good == Coherent /\ CleanIsCurrent /\ MemFacts /\ HolderFacts

\* bget() and the first half of bread(): the block gets a user.
LEMMA TakeRefines ==
  ASSUME Good, Good', NEW p \in Proc, NEW b \in Buf, NEW s \in Sector, NEW flags \in SUBSET Flag,
         pc[p] \in {"idle", "bget"}, Free(b), Take(p, b, s, flags),
         \A a \in Buf \ {b} : buf[a].sector # s,
         \/ flags = {} /\ buf[b].sector # s /\ "B_DIRTY" \notin buf[b].flags
         \/ flags = buf[b].flags /\ buf[b].sector = s
  PROVE  BS!Get(p, s)
<1> USE DEF Good, Coherent, CacheStructure
<1>1. /\ disk' = disk /\ buf'[b].sector = s /\ buf'[b].flags = flags \cup {"B_BUSY"}
      /\ buf'[b].data = buf[b].data /\ \A a \in Buf \ {b} : buf'[a] = buf[a]
  <2>1. BufIs(b, s, flags \cup {"B_BUSY"}, buf[b].data)
    BY TakeCurrent
  <2> QED BY <2>1 DEF BufIs, Take
<1>2. /\ pc'[p] \in Holding /\ cur'[p] = b /\ pc[p] \notin Holding
      /\ \A q \in Proc \ {p} : pc'[q] = pc[q] /\ cur'[q] = cur[q]
  BY SMTT(60) DEF TypeOK, Take, Holding
<1>3. \A q \in Proc : pc[q] \in Holding => cur[q] \in Buf \ {b}
  BY SMTT(60) DEF BusyExcludes, HolderHasBuffer, OneHolder
<1>4. ASSUME NEW q \in Proc \ {p}, NEW u \in Sector PROVE Holds(q, u)' <=> Holds(q, u)
  BY <1>1, <1>2, <1>3, SMTT(60) DEF Holds
<1>5. Holds(p, s)' /\ \A u \in Sector \ {s} : ~Holds(p, u)'
  BY <1>1, <1>2 DEF Holds
<1>6. \A q \in Proc : ~Holds(q, s)
  BY <1>3 DEF Holds
<1>7. \A u \in Sector : ~Holds(p, u)
  BY <1>2 DEF Holds
<1>8. HolderOf[s] = None
  BY <1>6 DEF HolderFacts
<1>9. HolderOf' = [HolderOf EXCEPT ![s] = p]
  <2>1. HolderOf'[s] = p
    BY <1>5 DEF HolderFacts
  <2>2. ASSUME NEW u \in Sector \ {s} PROVE HolderOf'[u] = HolderOf[u]
    BY <1>4, <1>5, <1>7, HolderSame
  <2> QED BY <2>1, <2>2 DEF HolderFacts
<1>10. ASSUME NEW u \in Sector PROVE Mem'[u] = Mem[u]
  <2>1. CASE flags = buf[b].flags /\ buf[b].sector = s
    <3>1. \A a \in Buf : /\ buf'[a].sector = buf[a].sector /\ buf'[a].data = buf[a].data
                         /\ "B_VALID" \in buf'[a].flags <=> "B_VALID" \in buf[a].flags
      BY <1>1, <2>1, SMTT(60)
    <3> QED BY <1>1, <3>1, SMTT(60) DEF MemFacts
  <2>2. CASE flags = {} /\ buf[b].sector # s /\ "B_DIRTY" \notin buf[b].flags
    <3>1. CASE u = s
      <4>1. Mem[s] = disk[s]
        BY <2>2 DEF MemFacts
      <4>2. Mem'[s] = disk[s]
        BY <1>1, <2>2, SMTT(60) DEF MemFacts
      <4> QED BY <3>1, <4>1, <4>2
    <3>2. CASE u = buf[b].sector
      <4>1. Synced(b) /\ buf[b].sector # None
        BY <2>2, <3>2 DEF FlagsFitPhases, FlagsFitBuffer, FlagsFitHolder, Synced
      <4>2. Mem[u] = buf[b].data /\ buf[b].data = disk[u]
        BY <3>2, <4>1 DEF MemFacts, CleanIsCurrent, Synced
      <4>3. \A a \in Buf : buf'[a].sector # u
        BY <1>1, <2>2, <3>2, <4>1, SMTT(60) DEF OneBufferPerSector
      <4>4. Mem'[u] = disk[u]
        BY <1>1, <4>3 DEF MemFacts
      <4> QED BY <4>2, <4>4
    <3>3. CASE u # s /\ u # buf[b].sector
      <4>1. CASE \E a \in Buf : buf[a].sector = u /\ "B_VALID" \in buf[a].flags
        BY <1>1, <3>3, <4>1, SMTT(60) DEF MemFacts
      <4>2. CASE \A a \in Buf : buf[a].sector = u => "B_VALID" \notin buf[a].flags
        <5>1. \A a \in Buf : buf'[a].sector = u => "B_VALID" \notin buf'[a].flags
          BY <1>1, <3>3, <4>2
        <5> QED BY <1>1, <4>2, <5>1 DEF MemFacts
      <4> QED BY <4>1, <4>2
    <3> QED BY <3>1, <3>2, <3>3
  <2> QED BY <2>1, <2>2
<1> QED BY <1>8, <1>9, <1>10, SameMem DEF BS!Get

\* A change by the holder.
LEMMA DirtyRefines ==
  ASSUME Good, Good', NEW p \in Proc, NEW d \in Data, bwrite(p, d) \/ pin(p, d)
  PROVE  BS!Put(p, buf[cur[p]].sector, d) /\ buf[cur[p]].sector \in Sector
<1> USE DEF Good, Coherent, CacheStructure
<1> DEFINE b == cur[p]
           s == buf[b].sector
<1>1. b \in Buf /\ s \in Sector /\ "B_VALID" \in buf[b].flags /\ Holds(p, s)
  <2>1. pc[p] = "hold"
    BY DEF bwrite, pin
  <2>2. b \in Buf /\ s # None
    BY <2>1 DEF BusyExcludes, HolderHasBuffer, Holding
  <2>3. "B_VALID" \in buf[b].flags
    BY <2>1 DEF FlagsFitPhases, FlagsFitHolder
  <2>4. s \in Sector
    BY <2>2, SMTT(60) DEF TypeOK
  <2> QED BY <2>1, <2>2, <2>3, <2>4 DEF Holds, Holding
<1>2. /\ disk' = disk /\ cur' = cur /\ \A q \in Proc : pc'[q] \in Holding <=> pc[q] \in Holding
  BY DEF bwrite, pin, TypeOK, Holding
<1>3. /\ buf'[b].sector = s /\ buf'[b].flags = buf[b].flags \cup {"B_DIRTY"}
      /\ buf'[b].data = d /\ \A a \in Buf \ {b} : buf'[a] = buf[a]
  BY DirtyCoherent DEF BufIs
<1>4. HolderOf' = HolderOf
  <2>1. \A q \in Proc, u \in Sector : Holds(q, u)' <=> Holds(q, u)
    BY <1>1, <1>2, <1>3 DEF Holds, BusyExcludes, HolderHasBuffer, OneHolder
  <2> QED BY <2>1, HolderSame, SameHolder
<1>5. Mem' = [Mem EXCEPT ![s] = d]
  <2>1. Mem'[s] = d
    BY <1>1, <1>3, SMTT(60) DEF MemFacts
  <2>2. ASSUME NEW u \in Sector \ {s} PROVE Mem'[u] = Mem[u]
    <3>1. \A a \in Buf : buf[a].sector = u => buf'[a] = buf[a]
      BY <1>3
    <3>2. \A a \in Buf : buf'[a].sector = u => buf'[a] = buf[a]
      BY <1>3
    <3> QED BY <1>2, <3>1, <3>2, SMTT(60) DEF MemFacts
  <2> QED BY <1>1, <2>1, <2>2 DEF MemFacts
<1>6. HolderOf[s] = p
  BY <1>1 DEF HolderFacts
<1> QED BY <1>1, <1>4, <1>5, <1>6 DEF BS!Put

\* brelse(): the block has no user.
LEMMA BrelseRefines ==
  ASSUME Good, Good', NEW p \in Proc, brelse(p)
  PROVE  BS!Release(p, buf[cur[p]].sector) /\ buf[cur[p]].sector \in Sector
<1> USE DEF Good, Coherent, CacheStructure
<1> DEFINE b == cur[p]
           s == buf[b].sector
<1>1. b \in Buf /\ s \in Sector /\ Holds(p, s)
  BY DEF brelse, BusyExcludes, HolderHasBuffer, OneHolder, Holding, TypeOK, Holds
<1>2. /\ disk' = disk /\ pc'[p] \notin Holding
      /\ \A q \in Proc \ {p} : cur'[q] = cur[q] /\ (pc'[q] \in Holding <=> pc[q] \in Holding)
  BY DEF brelse, Woken, TypeOK, Holding
<1>3. /\ buf'[b].sector = s /\ buf'[b].flags = buf[b].flags \ {"B_BUSY"}
      /\ buf'[b].data = buf[b].data /\ \A a \in Buf \ {b} : buf'[a] = buf[a]
  BY BrelseCoherent DEF BufIs
<1>4. HolderOf' = [HolderOf EXCEPT ![s] = None]
  <2>1. \A q \in Proc \ {p}, u \in Sector : Holds(q, u)' <=> Holds(q, u)
    BY <1>1, <1>2, <1>3, SMTT(60) DEF Holds, BusyExcludes, HolderHasBuffer, OneHolder
  <2>2. \A u \in Sector : ~Holds(p, u)'
    BY <1>2 DEF Holds
  <2>3. \A q \in Proc \ {p} : ~Holds(q, s)
    BY <1>1, SMTT(60) DEF Holds, BusyExcludes, HolderHasBuffer, OneHolder, OneBufferPerSector
  <2>4. HolderOf'[s] = None
    BY <1>1, <2>1, <2>2, <2>3, SMTT(60) DEF HolderFacts
  <2>5. ASSUME NEW u \in Sector \ {s} PROVE HolderOf'[u] = HolderOf[u]
    <3>1. ~Holds(p, u)
      BY DEF Holds
    <3> QED BY <2>1, <2>2, <3>1, HolderSame
  <2> QED BY <1>1, <2>4, <2>5, SMTT(60) DEF HolderFacts
<1>5. \A u \in Sector : Mem'[u] = Mem[u]
  <2>1. \A a \in Buf : /\ buf'[a].sector = buf[a].sector /\ buf'[a].data = buf[a].data
                       /\ "B_VALID" \in buf'[a].flags <=> "B_VALID" \in buf[a].flags
    BY <1>1, <1>3
  <2> QED BY <1>2, <2>1, SMTT(60) DEF MemFacts
<1>6. HolderOf[s] = p
  BY <1>1 DEF HolderFacts
<1> QED BY <1>1, <1>4, <1>5, <1>6, SameMem DEF BS!Release

\* Reading a block into memory or writing it out changes no block.
LEMMA IntrRefines ==
  ASSUME Good, Good', ~ReadErrors, ideintr
  PROVE  UNCHANGED BS!vars
<1> USE DEF Good, Coherent, CacheStructure
<1> DEFINE b == Head(idequeue)
           s == buf[b].sector
<1>1. /\ b \in Buf /\ s \in Sector
      /\ buf'[b].sector = s /\ buf'[b].flags = (buf[b].flags \cup {"B_VALID"}) \ {"B_DIRTY"}
      /\ buf'[b].data = IF "B_DIRTY" \in buf[b].flags THEN buf[b].data ELSE disk[s]
      /\ \A a \in Buf \ {b} : buf'[a] = buf[a]
      /\ \A u \in Sector \ {s} : disk'[u] = disk[u]
  BY IntrCurrent DEF BufIs
<1>2. cur' = cur /\ \A q \in Proc : pc'[q] \in Holding <=> pc[q] \in Holding
  BY DEF ideintr, Woken, TypeOK, Holding
<1>3. \A q \in Proc, u \in Sector : Holds(q, u)' <=> Holds(q, u)
  BY <1>1, <1>2 DEF Holds, BusyExcludes, HolderHasBuffer, OneHolder
<1>4. HolderOf' = HolderOf
  BY <1>3, HolderSame, SameHolder
<1>5. "B_DIRTY" \in buf[b].flags \/ "B_VALID" \notin buf[b].flags
  <2>a. idequeue \in Seq(Buf) /\ idequeue # <<>>
    BY DEF ideintr, TypeOK
  <2>1. 1 \in DOMAIN idequeue /\ idequeue[1] = b
    BY <2>a, SMTT(60)
  <2>2. PICK h \in Proc : pc[h] = "rwsleep" /\ cur[h] = b
    BY <2>1 DEF SleepersHaveAWaker, RequestsAwaited
  <2> QED BY <2>2 DEF FlagsFitPhases, FlagsFitBuffer, FlagsFitHolder, Synced
<1>6. Mem'[s] = Mem[s]
  <2>1. Mem'[s] = buf'[b].data
    BY <1>1 DEF MemFacts
  <2>2. CASE "B_DIRTY" \in buf[b].flags
    <3>1. "B_VALID" \in buf[b].flags
      BY <1>1, <2>2 DEF FlagsFitPhases, FlagsFitBuffer
    <3> QED BY <1>1, <2>1, <2>2, <3>1 DEF MemFacts
  <2>3. CASE "B_DIRTY" \notin buf[b].flags
    <3>1. \A a \in Buf : buf[a].sector = s => "B_VALID" \notin buf[a].flags
      BY <1>1, <1>5, <2>3 DEF OneBufferPerSector
    <3> QED BY <1>1, <2>1, <2>3, <3>1 DEF MemFacts
  <2> QED BY <2>2, <2>3
<1>7. ASSUME NEW u \in Sector \ {s} PROVE Mem'[u] = Mem[u]
  <2>1. \A a \in Buf : buf[a].sector = u => buf'[a] = buf[a]
    BY <1>1
  <2>2. \A a \in Buf : buf'[a].sector = u => buf'[a] = buf[a]
    BY <1>1
  <2> QED BY <1>1, <2>1, <2>2, SMTT(60) DEF MemFacts
<1> QED BY <1>4, <1>6, <1>7, SameMem DEF BS!vars

\* Waiting, queueing and waking are invisible.
LEMMA WaitRefines ==
  ASSUME Good, Good', NEW p \in Proc,
         \/ \E s \in Sector : bget_wait(p, s) \/ bget_panic(p, s)
         \/ iderw(p) \/ iderw_test(p)
  PROVE  UNCHANGED BS!vars
<1> USE DEF Good, Coherent, CacheStructure
<1>1. buf' = buf /\ disk' = disk
  BY DEF bget_wait, bget_panic, iderw, iderw_test
<1>2. \A q \in Proc : /\ pc'[q] \in Holding <=> pc[q] \in Holding
                      /\ pc[q] \in Holding => cur'[q] = cur[q]
  <2>1. pc \in [Proc -> Label] /\ cur \in [Proc -> Buf \cup {None}]
    BY DEF TypeOK
  <2> QED BY <2>1, SMTT(60) DEF bget_wait, bget_panic, iderw, iderw_test, Holding, Wants
<1>3. \A q \in Proc, u \in Sector : Holds(q, u)' <=> Holds(q, u)
  BY <1>1, <1>2 DEF Holds
<1>4. HolderOf' = HolderOf
  BY <1>3, HolderSame, SameHolder
<1>5. Mem' = Mem
  <2>1. ASSUME NEW u \in Sector PROVE Mem'[u] = Mem[u]
    <3>1. CASE \E b \in Buf : buf[b].sector = u /\ "B_VALID" \in buf[b].flags
      <4>1. PICK b \in Buf : buf[b].sector = u /\ "B_VALID" \in buf[b].flags
        BY <3>1, SMTT(60)
      <4>2. buf'[b].sector = u /\ "B_VALID" \in buf'[b].flags /\ buf'[b].data = buf[b].data
        BY <1>1, <4>1, SMTT(60)
      <4>3. Mem[u] = buf[b].data
        BY <4>1 DEF MemFacts
      <4>4. Mem'[u] = buf'[b].data
        BY <4>2 DEF MemFacts
      <4> QED BY <4>2, <4>3, <4>4, SMTT(60)
    <3>2. CASE \A b \in Buf : buf[b].sector = u => "B_VALID" \notin buf[b].flags
      <4>1. \A b \in Buf : buf'[b].sector = u => "B_VALID" \notin buf'[b].flags
        BY <1>1, <3>2, SMTT(60)
      <4>2. Mem[u] = disk[u]
        BY <3>2 DEF MemFacts
      <4>3. Mem'[u] = disk'[u]
        BY <4>1 DEF MemFacts
      <4> QED BY <1>1, <4>2, <4>3, SMTT(60)
    <3> QED BY <3>1, <3>2
  <2> QED BY <2>1, SameMem
<1> QED BY <1>4, <1>5 DEF BS!vars

\* With a drive that reports no read error, bio.c over ide.c keeps one copy of
\* every block and gives it to one process at a time: it implements BlockStore.
THEOREM CacheIsOneCopy == ~ReadErrors => (Spec => OneCopy)
<1> SUFFICES ASSUME ~ReadErrors PROVE Spec => OneCopy
  BY SMTT(60)
<1>1. Init => BS!Init
  <2> SUFFICES ASSUME Init PROVE BS!Init
    BY SMTT(60)
  <2>1. MemFacts /\ HolderFacts
    BY InitCoherent, MappingFacts, SMTT(60)
  <2>2. \A p \in Proc, s \in Sector : ~Holds(p, s)
    BY DEF Init, Holds, Holding
  <2>3. HolderOf = [s \in Sector |-> None]
    BY <2>1, <2>2 DEF HolderFacts
  <2> QED BY <2>1, <2>3 DEF BS!Init, MemFacts
<1>2. Good /\ Good' /\ [Next]_vars => [BS!Next]_(BS!vars)
  <2> SUFFICES ASSUME Good, Good', [Next]_vars PROVE [BS!Next]_(BS!vars)
    BY SMTT(60)
  <2>1. ASSUME NEW p \in Proc, NEW s \in Sector, bget_hit(p, s) PROVE BS!Get(p, s)
    <3>1. PICK b \in Buf : Caches(b, s) /\ Free(b) /\ Take(p, b, s, buf[b].flags)
      BY <2>1 DEF bget_hit
    <3>2. /\ \A a \in Buf \ {b} : buf[a].sector # s
          /\ buf[b].flags \in SUBSET Flag /\ buf[b].sector = s /\ pc[p] \in {"idle", "bget"}
      BY <2>1, <3>1 DEF Good, Coherent, CacheStructure, OneBufferPerSector, Caches, TypeOK, bget_hit, Wants
    <3> QED BY <3>1, <3>2, TakeRefines
  <2>2. ASSUME NEW p \in Proc, NEW s \in Sector, bget_recycle(p, s) PROVE BS!Get(p, s)
    <3>1. PICK i \in DOMAIN lru : Recyclable(lru[i]) /\ Take(p, lru[i], s, {})
      BY <2>2 DEF bget_recycle
    <3>2. /\ lru[i] \in Buf /\ Free(lru[i]) /\ "B_DIRTY" \notin buf[lru[i]].flags
          /\ \A a \in Buf : buf[a].sector # s
          /\ pc[p] \in {"idle", "bget"}
      <4>1. lru \in Seq(Buf)
        BY DEF Good, Coherent, CacheStructure, TypeOK
      <4>2. lru[i] \in Buf
        BY <4>1, SMTT(60)
      <4>3. Free(lru[i]) /\ "B_DIRTY" \notin buf[lru[i]].flags
        BY <3>1 DEF Recyclable
      <4> QED BY <2>2, <4>2, <4>3 DEF bget_recycle, Caches, Wants
    <3> DEFINE none == {}
    <3>3. Take(p, lru[i], s, none) /\ none \in SUBSET Flag /\ none = {}
      BY <3>1, SMTT(60)
    <3> HIDE DEF none
    <3> QED BY <3>2, <3>3, TakeRefines
  <2>3. CASE ideintr
    BY <2>3, IntrRefines, SMTT(60)
  <2>4. ASSUME NEW p \in Proc, Step(p) PROVE [BS!Next]_(BS!vars)
    BY <2>1, <2>2, <2>4, DirtyRefines, BrelseRefines, WaitRefines DEF Step, BS!Next
  <2>5. CASE UNCHANGED vars
    BY <2>5, SMTT(60) DEF vars, BS!vars, Mem, CachedAt, HolderOf
  <2> QED BY <2>3, <2>4, <2>5 DEF Next
<1>3. Spec => []Good
  <2>1. Coherent /\ CleanIsCurrent => Good
    BY MappingFacts, SMTT(60) DEF Good
  <2> QED BY <2>1, CurrentHolds, PTL
<1> QED BY <1>1, <1>2, <1>3, PTL DEF Spec, OneCopy, BS!Spec
=============================================================================
