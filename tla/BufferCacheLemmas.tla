-------------------------- MODULE BufferCacheLemmas --------------------------
(***************************************************************************)
(* Proofs about bio.c and ide.c, for any processes, buffers, sectors and   *)
(* contents.                                                               *)
(***************************************************************************)
EXTENDS BufferCache, TLAPS

USE CacheAssumption, ZenonT(60)

-----------------------------------------------------------------------------
(***************************************************************************)
(* The list of buffers.                                                    *)
(***************************************************************************)

\* binit() lists every buffer once.
LEMMA InitialList ==
  ASSUME lru \in Bijection(1 .. Cardinality(Buf), Buf)
  PROVE  lru \in Seq(Buf) /\ LruListsBuffers
<1>1. lru \in [1 .. Cardinality(Buf) -> Buf] /\ Cardinality(Buf) \in Nat
  BY DEF Bijection, Injection
<1>2. IsInjective(lru)
  BY DEF Bijection, Injection
<1>3. \A b \in Buf : \E i \in 1 .. Cardinality(Buf) : lru[i] = b
  BY DEF Bijection, Surjection
<1>4. lru \in Seq(Buf) /\ DOMAIN lru = 1 .. Cardinality(Buf)
  BY <1>1, SMTT(60)
<1> QED BY <1>2, <1>3, <1>4 DEF LruListsBuffers

\* Two lists one after the other.
LEMMA Concat ==
  ASSUME NEW S, NEW s \in Seq(S), NEW t \in Seq(S)
  PROVE  /\ s \o t \in Seq(S) /\ Len(s \o t) = Len(s) + Len(t)
         /\ \A i \in 1 .. (Len(s) + Len(t)) :
              (s \o t)[i] = IF i <= Len(s) THEN s[i] ELSE t[i - Len(s)]
BY SMTT(60)

\* brelse() keeps the list complete.
LEMMA ToFrontKeepsList ==
  ASSUME lru \in Seq(Buf), LruListsBuffers, NEW b \in Buf, lru' = ToFront(b)
  PROVE  lru' \in Seq(Buf) /\ LruListsBuffers'
<1> DEFINE k == CHOOSE i \in DOMAIN lru : lru[i] = b
           n == Len(lru)
<1>1. k \in 1 .. n /\ lru[k] = b /\ n \in Nat
  BY SMTT(60) DEF LruListsBuffers
<1> HIDE DEF k
<1>2. lru' = <<b>> \o (SubSeq(lru, 1, k - 1) \o SubSeq(lru, k + 1, n))
  BY DEF ToFront, k
<1> DEFINE A == SubSeq(lru, 1, k - 1)
           B == SubSeq(lru, k + 1, n)
<1>3. /\ A \in Seq(Buf) /\ Len(A) = k - 1
      /\ \A i \in 1 .. (k - 1) : A[i] = lru[i]
  BY <1>1, SMTT(60)
<1>4. /\ B \in Seq(Buf) /\ Len(B) = n - k
      /\ \A i \in 1 .. (n - k) : B[i] = lru[i + k]
  BY <1>1, SMTT(60)
<1> HIDE DEF A, B
<1>5. /\ A \o B \in Seq(Buf) /\ Len(A \o B) = n - 1
      /\ \A i \in 1 .. (k - 1) : (A \o B)[i] = lru[i]
      /\ \A i \in k .. (n - 1) : (A \o B)[i] = lru[i + 1]
  <2>1. A \o B \in Seq(Buf) /\ Len(A \o B) = n - 1
    BY <1>1, <1>3, <1>4, Concat, SMTT(60)
  <2>2. \A i \in 1 .. (k - 1) : (A \o B)[i] = lru[i]
    BY <1>1, <1>3, <1>4, Concat, SMTT(60)
  <2>3. ASSUME NEW i \in k .. (n - 1) PROVE (A \o B)[i] = lru[i + 1]
    <3>1. (A \o B)[i] = B[i - (k - 1)]
      BY <1>1, <1>3, <1>4, Concat, SMTT(60)
    <3>2. i - (k - 1) \in 1 .. (n - k) /\ i - (k - 1) + k = i + 1
      BY <1>1, SMTT(60)
    <3> QED BY <3>1, <3>2, <1>4
  <2> QED BY <2>1, <2>2, <2>3
<1> DEFINE C == A \o B
<1> HIDE DEF C
<1>6. /\ lru' \in Seq(Buf) /\ Len(lru') = n /\ lru'[1] = b
      /\ \A i \in 2 .. n : lru'[i] = IF i - 1 < k THEN lru[i - 1] ELSE lru[i]
  <2>1. /\ <<b>> \in Seq(Buf) /\ Len(<<b>>) = 1 /\ <<b>>[1] = b
        /\ C \in Seq(Buf) /\ Len(C) = n - 1
        /\ lru' = <<b>> \o C
    <3>1. <<b>> \in Seq(Buf) /\ Len(<<b>>) = 1 /\ <<b>>[1] = b
      BY SMTT(60)
    <3>2. C \in Seq(Buf) /\ Len(C) = n - 1
      BY <1>5 DEF C
    <3>3. lru' = <<b>> \o C
      BY <1>2 DEF A, B, C
    <3> QED BY <3>1, <3>2, <3>3, SMTT(60)
  <2>2. lru' \in Seq(Buf) /\ Len(lru') = n /\ lru'[1] = b
    BY <1>1, <2>1, Concat, SMTT(60)
  <2>3. ASSUME NEW i \in 2 .. n PROVE lru'[i] = C[i - 1]
    BY <1>1, <2>1, Concat, SMTT(60)
  <2>4. ASSUME NEW i \in 2 .. n PROVE lru'[i] = IF i - 1 < k THEN lru[i - 1] ELSE lru[i]
    <3>1. CASE i - 1 < k
      <4>1. i - 1 \in 1 .. (k - 1)
        BY <1>1, <3>1, SMTT(60)
      <4> QED BY <3>1, <4>1, <2>3, <1>5 DEF C
    <3>2. CASE ~(i - 1 < k)
      <4>1. i - 1 \in k .. (n - 1) /\ i - 1 + 1 = i
        BY <1>1, <3>2, SMTT(60)
      <4> QED BY <3>2, <4>1, <2>3, <1>5 DEF C
    <3> QED BY <3>1, <3>2
  <2> QED BY <2>2, <2>4
<1>7. IsInjective(lru')
  <2> SUFFICES ASSUME NEW i \in 1 .. n, NEW j \in 1 .. n, lru'[i] = lru'[j], i < j
               PROVE  FALSE
    BY <1>1, <1>6, SMTT(60) DEF IsInjective
  <2>1. \A x, y \in 1 .. n : lru[x] = lru[y] => x = y
    BY SMTT(60) DEF LruListsBuffers, IsInjective
  <2>2. lru'[j] = IF j - 1 < k THEN lru[j - 1] ELSE lru[j]
    BY <1>6, SMTT(60)
  <2>3. CASE i = 1
    BY <1>1, <1>6, <2>1, <2>2, <2>3, SMTT(60)
  <2>4. CASE i # 1
    <3>1. lru'[i] = IF i - 1 < k THEN lru[i - 1] ELSE lru[i]
      BY <1>6, <2>4, SMTT(60)
    <3> QED BY <1>1, <2>1, <2>2, <2>4, <3>1, SMTT(60)
  <2> QED BY <2>3, <2>4
<1>8. ASSUME NEW c \in Buf PROVE \E i \in 1 .. n : lru'[i] = c
  <2>1. PICK j \in 1 .. n : lru[j] = c
    BY SMTT(60) DEF LruListsBuffers
  <2>2. CASE j = k
    BY <1>1, <1>6, <2>1, <2>2, SMTT(60)
  <2>3. CASE j < k
    <3>1. j + 1 \in 1 .. n /\ lru'[j + 1] = lru[j]
      BY <1>1, <1>6, <2>3, SMTT(60)
    <3> QED BY <2>1, <3>1
  <2>4. CASE j > k
    <3>1. lru'[j] = lru[j]
      BY <1>1, <1>6, <2>4, SMTT(60)
    <3> QED BY <2>1, <3>1
  <2> QED BY <1>1, <2>2, <2>3, <2>4, SMTT(60)
<1> QED
  <2>1. DOMAIN lru' = 1 .. n
    BY <1>1, <1>6, SMTT(60)
  <2> QED BY <1>6, <1>7, <1>8, <2>1 DEF LruListsBuffers

-----------------------------------------------------------------------------
(***************************************************************************)
(* The invariant that does not depend on reads succeeding.                 *)
(***************************************************************************)
Coherent == CacheStructure /\ SleepersHaveAWaker

LEMMA InitCoherent == Init => Coherent
<1> SUFFICES ASSUME Init PROVE Coherent
  BY SMTT(60)
<1>1. lru \in Seq(Buf) /\ LruListsBuffers
  BY InitialList DEF Init
<1>2. TypeOK
  <2>1. buf \in [Buf -> [sector : Sector \cup {None}, flags : SUBSET Flag, data : Data]]
    BY SMTT(60) DEF Init
  <2>2. cmd \in [op : {"none", "read", "write"}, sector : Sector \cup {None}, data : Data \cup {None}]
    BY DEF Init, NoCmd
  <2>3. disk \in [Sector -> Data] /\ panic \in BOOLEAN
    BY DEF Init
  <2>4. idequeue \in Seq(Buf)
    BY SMTT(60) DEF Init
  <2>5. pc \in [Proc -> Label]
    BY DEF Init, Label
  <2>6. cur \in [Proc -> Buf \cup {None}] /\ want \in [Proc -> Sector \cup {None}]
    BY DEF Init
  <2> QED BY <1>1, <2>1, <2>2, <2>3, <2>4, <2>5, <2>6 DEF TypeOK
<1>3. OneBufferPerSector
  BY SMTT(60) DEF Init, OneBufferPerSector
<1>4. BusyExcludes
  BY SMTT(60) DEF Init, BusyExcludes, HolderHasBuffer, OneHolder, BusyIsHeld, Holding, Free
<1>5. FlagsFitPhases
  BY SMTT(60) DEF Init, FlagsFitPhases, FlagsFitBuffer, FlagsFitHolder
<1>6. SleepersHaveAWaker
  BY SMTT(60) DEF Init, SleepersHaveAWaker, DriverWakes, HolderWakes, RequestsAwaited, DriveServesHead,
         IsInjective, NoCmd
<1> QED BY <1>1, <1>2, <1>3, <1>4, <1>5, <1>6 DEF Coherent, CacheStructure

\* struct buf.
Struct == [sector : Sector \cup {None}, flags : SUBSET Flag, data : Data]

\* The three forms of an assignment to a struct buf, and what each leaves.
SetSector(b, s, fl) == buf' = [buf EXCEPT ![b].sector = s, ![b].flags = fl]
SetData(b, d, fl) == buf' = [buf EXCEPT ![b].data = d, ![b].flags = fl]
SetFlags(b, fl) == buf' = [buf EXCEPT ![b].flags = fl]

BufIs(b, s, fl, d) ==
  /\ buf' \in [Buf -> Struct]
  /\ buf'[b].sector = s /\ buf'[b].flags = fl /\ buf'[b].data = d
  /\ \A a \in Buf \ {b} : buf'[a] = buf[a]

\* bget() takes a buffer.
LEMMA AfterSetSector ==
  ASSUME buf \in [Buf -> Struct], NEW b \in Buf, NEW s \in Sector, NEW fl \in SUBSET Flag,
         SetSector(b, s, fl)
  PROVE  BufIs(b, s, fl, buf[b].data)
<1> USE DEF SetSector
<1>1. \A a \in Buf \ {b} : buf'[a] = buf[a]
  OBVIOUS
<1>2. buf'[b].sector = s
  BY DEF Struct
<1>3. buf'[b].flags = fl
  BY DEF Struct
<1>4. buf'[b].data = buf[b].data
  BY DEF Struct
<1>5. buf'[b] \in Struct
  BY DEF Struct
<1>6. DOMAIN buf' = Buf /\ buf' = [x \in Buf |-> buf'[x]]
  OBVIOUS
<1>7. buf' \in [Buf -> Struct]
  BY <1>1, <1>5, <1>6
<1> QED BY <1>1, <1>2, <1>3, <1>4, <1>7 DEF BufIs

\* The driver reads into a buffer, or its holder changes it.
LEMMA AfterSetData ==
  ASSUME buf \in [Buf -> Struct], NEW b \in Buf, NEW d \in Data, NEW fl \in SUBSET Flag,
         SetData(b, d, fl)
  PROVE  BufIs(b, buf[b].sector, fl, d)
<1> USE DEF SetData
<1>1. \A a \in Buf \ {b} : buf'[a] = buf[a]
  OBVIOUS
<1>2. buf'[b].sector = buf[b].sector
  BY DEF Struct
<1>3. buf'[b].flags = fl
  BY DEF Struct
<1>4. buf'[b].data = d
  BY DEF Struct
<1>5. buf'[b] \in Struct
  BY DEF Struct
<1>6. DOMAIN buf' = Buf /\ buf' = [x \in Buf |-> buf'[x]]
  OBVIOUS
<1>7. buf' \in [Buf -> Struct]
  BY <1>1, <1>5, <1>6
<1> QED BY <1>1, <1>2, <1>3, <1>4, <1>7 DEF BufIs

\* brelse() clears B_BUSY.
LEMMA AfterSetFlags ==
  ASSUME buf \in [Buf -> Struct], NEW b \in Buf, NEW fl \in SUBSET Flag,
         SetFlags(b, fl)
  PROVE  BufIs(b, buf[b].sector, fl, buf[b].data)
<1> USE DEF SetFlags
<1>1. \A a \in Buf \ {b} : buf'[a] = buf[a]
  OBVIOUS
<1>2. buf'[b].sector = buf[b].sector
  BY DEF Struct
<1>3. buf'[b].flags = fl
  BY DEF Struct
<1>4. buf'[b].data = buf[b].data
  BY DEF Struct
<1>5. buf'[b] \in Struct
  BY DEF Struct
<1>6. DOMAIN buf' = Buf /\ buf' = [x \in Buf |-> buf'[x]]
  OBVIOUS
<1>7. buf' \in [Buf -> Struct]
  BY <1>1, <1>5, <1>6
<1> QED BY <1>1, <1>2, <1>3, <1>4, <1>7 DEF BufIs

\* bget() returns a buffer that nobody holds.
LEMMA TakeCoherent ==
  ASSUME Coherent, NEW p \in Proc, NEW b \in Buf, NEW s \in Sector, NEW flags \in SUBSET Flag,
         pc[p] \in {"idle", "bget"}, Free(b), Take(p, b, s, flags),
         \A a \in Buf \ {b} : buf[a].sector # s,
         "B_DIRTY" \in flags => "B_VALID" \in flags
  PROVE  Coherent'
<1> USE DEF Coherent, CacheStructure
<1>1. BufIs(b, s, flags \cup {"B_BUSY"}, buf[b].data)
  <2>1. SetSector(b, s, flags \cup {"B_BUSY"})
    BY DEF Take, SetSector
  <2>2. buf \in [Buf -> Struct] /\ flags \cup {"B_BUSY"} \in SUBSET Flag
    BY DEF TypeOK, Struct, Flag
  <2> QED BY <2>1, <2>2, AfterSetSector
<1> USE DEF BufIs
<1>2. /\ pc'[p] = IF "B_VALID" \in flags THEN "hold" ELSE "iderw"
      /\ cur'[p] = b
      /\ \A q \in Proc \ {p} : pc'[q] = pc[q] /\ cur'[q] = cur[q]
  BY DEF TypeOK, Take
<1>3. \A q \in Proc : pc[q] \in Holding => cur[q] \in Buf \ {b}
  BY DEF BusyExcludes, HolderHasBuffer
<1>4. TypeOK'
  <2>1. pc' \in [Proc -> Label]
    BY DEF TypeOK, Label, Take
  <2> QED BY <1>1, <2>1 DEF TypeOK, Take, Struct
<1>5. LruListsBuffers'
  BY DEF LruListsBuffers, Take
<1>6. OneBufferPerSector'
  BY <1>1, SMTT(60) DEF OneBufferPerSector
<1>7. BusyExcludes'
  <2>1. \A q \in Proc : HolderHasBuffer(q)'
    BY <1>1, <1>2, <1>3, SMTT(60) DEF BusyExcludes, HolderHasBuffer, Free
  <2>2. \A q, r \in Proc : OneHolder(q, r)'
    BY <1>2, <1>3, SMTT(60) DEF BusyExcludes, OneHolder
  <2>3. \A a \in Buf : BusyIsHeld(a)'
    BY <1>1, <1>2, SMTT(60) DEF BusyExcludes, BusyIsHeld, Free, Holding
  <2> QED BY <2>1, <2>2, <2>3 DEF BusyExcludes
<1>8. FlagsFitPhases'
  <2>1. \A a \in Buf : FlagsFitBuffer(a)'
    BY <1>1, SMTT(60) DEF FlagsFitPhases, FlagsFitBuffer, Free
  <2>2. \A q \in Proc : FlagsFitHolder(q)'
    BY <1>1, <1>2, <1>3, SMTT(60) DEF FlagsFitPhases, FlagsFitHolder, Synced, Holding
  <2> QED BY <2>1, <2>2 DEF FlagsFitPhases
<1>9. SleepersHaveAWaker'
  <2>1. \A i \in DOMAIN idequeue : idequeue[i] \in Buf \ {b}
    BY <1>3 DEF SleepersHaveAWaker, RequestsAwaited, Holding
  <2>2. idequeue' = idequeue /\ cmd' = cmd
    BY DEF Take
  <2>3. \A q \in Proc : DriverWakes(q)'
    BY <1>2, <2>1, <2>2 DEF SleepersHaveAWaker, DriverWakes, Holding
  <2>4. \A q \in Proc : HolderWakes(q)'
    BY <1>2, SMTT(60) DEF SleepersHaveAWaker, HolderWakes, Holding
  <2>5. RequestsAwaited'
    BY <1>2, <2>2, SMTT(60) DEF SleepersHaveAWaker, RequestsAwaited
  <2>6. idequeue # <<>> => buf'[Head(idequeue)] = buf[Head(idequeue)]
    BY <1>1, <2>1, SMTT(60) DEF TypeOK
  <2>7. DriveServesHead'
    BY <2>2, <2>6 DEF SleepersHaveAWaker, DriveServesHead
  <2> QED BY <2>2, <2>3, <2>4, <2>5, <2>7 DEF SleepersHaveAWaker
<1> QED BY <1>4, <1>5, <1>6, <1>7, <1>8, <1>9

LEMMA HitCoherent ==
  ASSUME Coherent, NEW p \in Proc, NEW s \in Sector, bget_hit(p, s)
  PROVE  Coherent'
<1>1. PICK b \in Buf : Caches(b, s) /\ Free(b) /\ Take(p, b, s, buf[b].flags)
  BY DEF bget_hit
<1>2. \A a \in Buf \ {b} : buf[a].sector # s
  BY <1>1 DEF Coherent, CacheStructure, OneBufferPerSector, Caches
<1>3. buf[b].flags \in SUBSET Flag /\ ("B_DIRTY" \in buf[b].flags => "B_VALID" \in buf[b].flags)
  BY DEF Coherent, CacheStructure, TypeOK, FlagsFitPhases, FlagsFitBuffer
<1>4. pc[p] \in {"idle", "bget"}
  BY DEF bget_hit, Wants
<1> QED BY <1>1, <1>2, <1>3, <1>4, TakeCoherent

LEMMA RecycleCoherent ==
  ASSUME Coherent, NEW p \in Proc, NEW s \in Sector, bget_recycle(p, s)
  PROVE  Coherent'
<1>1. PICK i \in DOMAIN lru : Recyclable(lru[i]) /\ Take(p, lru[i], s, {})
  BY DEF bget_recycle
<1>2. lru[i] \in Buf
  BY SMTT(60) DEF Coherent, CacheStructure, TypeOK
<1>3. \A a \in Buf : buf[a].sector # s
  BY DEF bget_recycle, Caches
<1>4. pc[p] \in {"idle", "bget"}
  BY DEF bget_recycle, Wants
<1> QED BY <1>1, <1>2, <1>3, <1>4, TakeCoherent, SMTT(60) DEF Recyclable

LEMMA WaitCoherent ==
  ASSUME Coherent, NEW p \in Proc, NEW s \in Sector, bget_wait(p, s)
  PROVE  Coherent'
<1> USE DEF Coherent, CacheStructure, bget_wait
<1>1. PICK b \in Buf : ~Free(b) /\ cur' = [cur EXCEPT ![p] = b]
  OBVIOUS
<1>2. /\ pc[p] \in {"idle", "bget"} /\ pc'[p] = "bgetsleep" /\ cur'[p] = b
      /\ \A q \in Proc \ {p} : pc'[q] = pc[q] /\ cur'[q] = cur[q]
  BY <1>1 DEF TypeOK, Wants
<1>3. PICK h \in Proc : pc[h] \in Holding /\ cur[h] = b
  BY <1>1 DEF BusyExcludes, BusyIsHeld
<1>4. TypeOK'
  BY <1>1 DEF TypeOK, Label
<1>5. LruListsBuffers' /\ OneBufferPerSector'
  BY DEF LruListsBuffers, OneBufferPerSector
<1>6. BusyExcludes'
  BY <1>2, SMTT(60) DEF BusyExcludes, HolderHasBuffer, OneHolder, BusyIsHeld, Holding, Free
<1>7. FlagsFitPhases'
  BY <1>2, SMTT(60) DEF FlagsFitPhases, FlagsFitBuffer, FlagsFitHolder, Free, Synced
<1>8. SleepersHaveAWaker'
  <2>1. \A q \in Proc : DriverWakes(q)'
    BY <1>2, SMTT(60) DEF SleepersHaveAWaker, DriverWakes, Holding
  <2>2. \A q \in Proc : HolderWakes(q)'
    BY <1>2, <1>3, SMTT(60) DEF SleepersHaveAWaker, HolderWakes, Holding
  <2>3. RequestsAwaited'
    BY <1>2, SMTT(60) DEF SleepersHaveAWaker, RequestsAwaited
  <2>4. DriveServesHead' /\ IsInjective(idequeue')
    BY DEF SleepersHaveAWaker, DriveServesHead
  <2> QED BY <2>1, <2>2, <2>3, <2>4 DEF SleepersHaveAWaker
<1> QED BY <1>4, <1>5, <1>6, <1>7, <1>8

LEMMA PanicCoherent ==
  ASSUME Coherent, NEW p \in Proc, NEW s \in Sector, bget_panic(p, s)
  PROVE  Coherent'
<1> USE DEF Coherent, CacheStructure, bget_panic
<1>1. TypeOK'
  BY DEF TypeOK
<1>2. LruListsBuffers' /\ OneBufferPerSector'
  BY DEF LruListsBuffers, OneBufferPerSector
<1>3. BusyExcludes'
  BY DEF BusyExcludes, HolderHasBuffer, OneHolder, BusyIsHeld, Free
<1>4. FlagsFitPhases'
  BY DEF FlagsFitPhases, FlagsFitBuffer, FlagsFitHolder, Free, Synced
<1>5. SleepersHaveAWaker'
  BY DEF SleepersHaveAWaker, DriverWakes, HolderWakes, RequestsAwaited, DriveServesHead
<1> QED BY <1>1, <1>2, <1>3, <1>4, <1>5

\* iderw(): the request joins the queue.
LEMMA IderwCoherent ==
  ASSUME Coherent, NEW p \in Proc, iderw(p)
  PROVE  Coherent'
<1> USE DEF Coherent, CacheStructure
<1> DEFINE b == cur[p]
           n == Len(idequeue)
<1>1. /\ b \in Buf /\ ~Free(b) /\ ~Synced(b) /\ buf[b].sector \in Sector
      /\ \A q \in Proc \ {p} : pc[q] \in Holding => cur[q] # b
  BY DEF iderw, BusyExcludes, HolderHasBuffer, OneHolder, Holding, FlagsFitPhases, FlagsFitHolder, TypeOK
<1>2. /\ pc[p] = "iderw" /\ pc'[p] = "rwsleep"
      /\ \A q \in Proc \ {p} : pc'[q] = pc[q]
      /\ buf' = buf /\ cur' = cur /\ lru' = lru
  BY DEF iderw, TypeOK
<1>3. /\ n \in Nat /\ DOMAIN idequeue = 1 .. n
      /\ idequeue' \in Seq(Buf) /\ Len(idequeue') = n + 1 /\ DOMAIN idequeue' = 1 .. (n + 1)
      /\ idequeue'[n + 1] = b /\ \A i \in 1 .. n : idequeue'[i] = idequeue[i]
  BY <1>1, SMTT(60) DEF iderw, TypeOK
<1>4. \A i \in 1 .. n : idequeue[i] # b
  BY <1>1, <1>2, <1>3, SMTT(60) DEF SleepersHaveAWaker, RequestsAwaited, Holding
<1>5. /\ cmd' \in [op : {"none", "read", "write"}, sector : Sector \cup {None}, data : Data \cup {None}]
      /\ DriveServesHead'
  <2>1. CASE idequeue = <<>>
    <3>1. Head(idequeue') = b
      BY <2>1, <1>3, SMTT(60) DEF iderw
    <3>2. cmd' = [op     |-> IF "B_DIRTY" \in buf[b].flags THEN "write" ELSE "read",
                  sector |-> buf[b].sector,
                  data   |-> IF "B_DIRTY" \in buf[b].flags THEN buf[b].data ELSE None]
      BY <2>1 DEF iderw, idestart
    <3>3. idequeue' # <<>>
      BY <1>3, SMTT(60)
    <3> QED BY <1>1, <1>2, <3>1, <3>2, <3>3 DEF TypeOK, DriveServesHead
  <2>2. CASE idequeue # <<>>
    <3>a. cmd' = cmd
      BY <2>2 DEF iderw
    <3>b. 1 \in 1 .. n /\ idequeue' # <<>>
      BY <1>3, <2>2, SMTT(60) DEF TypeOK
    <3>c. Head(idequeue) = idequeue[1] /\ Head(idequeue') = idequeue'[1]
      BY <1>3, <2>2, <3>b, SMTT(60)
    <3>1. Head(idequeue') = Head(idequeue) /\ cmd' = cmd /\ idequeue' # <<>>
      BY <1>3, <3>a, <3>b, <3>c, SMTT(60)
    <3> QED BY <1>2, <2>2, <3>1 DEF SleepersHaveAWaker, DriveServesHead, TypeOK
  <2> QED BY <2>1, <2>2
<1>6. TypeOK'
  <2>1. pc' \in [Proc -> Label]
    BY DEF iderw, TypeOK, Label
  <2> QED BY <1>3, <1>5, <2>1 DEF TypeOK, iderw
<1>7. LruListsBuffers' /\ OneBufferPerSector'
  BY <1>2 DEF LruListsBuffers, OneBufferPerSector
<1>8. BusyExcludes'
  BY <1>2, SMTT(60) DEF BusyExcludes, HolderHasBuffer, OneHolder, BusyIsHeld, Holding, Free
<1>9. FlagsFitPhases'
  <2>1. \A a \in Buf : FlagsFitBuffer(a)'
    BY <1>2 DEF FlagsFitPhases, FlagsFitBuffer, Free
  <2>2. \A q \in Proc : FlagsFitHolder(q)'
    BY <1>1, <1>2 DEF FlagsFitPhases, FlagsFitHolder, Synced
  <2> QED BY <2>1, <2>2 DEF FlagsFitPhases
<1>10. SleepersHaveAWaker'
  <2>1. ASSUME NEW q \in Proc PROVE DriverWakes(q)'
    <3> SUFFICES pc'[q] = "rwsleep" <=>
                   \E i \in 1 .. (n + 1) : idequeue'[i] = cur[q] /\ pc'[q] \in Holding
      BY <1>2, <1>3 DEF DriverWakes
    <3>1. CASE q = p
      BY <1>2, <1>3, <3>1, SMTT(60) DEF Holding
    <3>2. CASE q # p
      <4>1. pc'[q] \in Holding => cur[q] # b
        BY <1>1, <1>2, <3>2
      <4>2. (\E i \in 1 .. (n + 1) : idequeue'[i] = cur[q] /\ pc'[q] \in Holding)
              <=> \E i \in 1 .. n : idequeue[i] = cur[q] /\ pc'[q] \in Holding
        BY <1>3, <4>1, SMTT(60)
      <4>3. pc[q] = "rwsleep" <=> \E i \in 1 .. n : idequeue[i] = cur[q] /\ pc[q] \in Holding
        BY <1>3 DEF SleepersHaveAWaker, DriverWakes
      <4> QED BY <1>2, <3>2, <4>2, <4>3
    <3> QED BY <3>1, <3>2
  <2>2. \A q \in Proc : HolderWakes(q)'
    BY <1>2 DEF SleepersHaveAWaker, HolderWakes, Holding
  <2>3. RequestsAwaited'
    <3>1. \A i \in 1 .. n : \E q \in Proc : pc[q] = "rwsleep" /\ cur[q] = idequeue[i]
      BY <1>3 DEF SleepersHaveAWaker, RequestsAwaited
    <3>2. \A i \in 1 .. n : \E q \in Proc : pc'[q] = "rwsleep" /\ cur'[q] = idequeue'[i]
      BY <1>2, <1>3, <3>1, SMTT(60)
    <3>3. pc'[p] = "rwsleep" /\ cur'[p] = idequeue'[n + 1]
      BY <1>2, <1>3
    <3> QED BY <1>3, <3>2, <3>3, SMTT(60) DEF RequestsAwaited
  <2>4. IsInjective(idequeue')
    <3>1. \A i, j \in 1 .. n : idequeue[i] = idequeue[j] => i = j
      BY <1>3 DEF SleepersHaveAWaker, IsInjective
    <3>2. \A i, j \in 1 .. (n + 1) : idequeue'[i] = idequeue'[j] => i = j
      BY <1>3, <1>4, <3>1, SMTT(60)
    <3> QED BY <1>3, <3>2 DEF IsInjective
  <2> QED BY <1>5, <2>1, <2>2, <2>3, <2>4 DEF SleepersHaveAWaker
<1> QED BY <1>6, <1>7, <1>8, <1>9, <1>10

\* iderw(): what the woken process waited for is done.
LEMMA IderwTestCoherent ==
  ASSUME Coherent, NEW p \in Proc, iderw_test(p)
  PROVE  Coherent'
<1> USE DEF Coherent, CacheStructure
<1>1. pc[p] = "rwtest" /\ pc' = [pc EXCEPT ![p] = "hold"]
  BY DEF iderw_test, FlagsFitPhases, FlagsFitHolder
<1>2. /\ pc'[p] = "hold" /\ \A q \in Proc \ {p} : pc'[q] = pc[q]
      /\ buf' = buf /\ cur' = cur /\ lru' = lru /\ idequeue' = idequeue /\ cmd' = cmd
  BY <1>1 DEF iderw_test, TypeOK
<1>3. TypeOK'
  BY <1>1 DEF iderw_test, TypeOK, Label
<1>4. LruListsBuffers' /\ OneBufferPerSector'
  BY <1>2 DEF LruListsBuffers, OneBufferPerSector
<1>5. BusyExcludes'
  BY <1>1, <1>2, SMTT(60) DEF BusyExcludes, HolderHasBuffer, OneHolder, BusyIsHeld, Holding, Free
<1>6. FlagsFitPhases'
  <2>1. \A a \in Buf : FlagsFitBuffer(a)'
    BY <1>2 DEF FlagsFitPhases, FlagsFitBuffer, Free
  <2>2. \A q \in Proc : FlagsFitHolder(q)'
    BY <1>1, <1>2 DEF FlagsFitPhases, FlagsFitHolder, Synced
  <2> QED BY <2>1, <2>2 DEF FlagsFitPhases
<1>7. SleepersHaveAWaker'
  <2>1. \A q \in Proc : DriverWakes(q)'
    BY <1>1, <1>2 DEF SleepersHaveAWaker, DriverWakes, Holding
  <2>2. \A q \in Proc : HolderWakes(q)'
    BY <1>1, <1>2 DEF SleepersHaveAWaker, HolderWakes, Holding
  <2>3. RequestsAwaited'
    BY <1>1, <1>2, SMTT(60) DEF SleepersHaveAWaker, RequestsAwaited
  <2>4. DriveServesHead' /\ IsInjective(idequeue')
    BY <1>2 DEF SleepersHaveAWaker, DriveServesHead
  <2> QED BY <2>1, <2>2, <2>3, <2>4 DEF SleepersHaveAWaker
<1> QED BY <1>3, <1>4, <1>5, <1>6, <1>7

\* ideintr(): the first request is done, its holder is woken, the next one starts.
LEMMA IntrCoherent ==
  ASSUME Coherent, ideintr
  PROVE  Coherent'
<1> USE DEF Coherent, CacheStructure
<1> DEFINE b == Head(idequeue)
           n == Len(idequeue)
           fl == (buf[b].flags \cup {"B_VALID"}) \ {"B_DIRTY"}
<1>1. /\ n \in Nat \ {0} /\ DOMAIN idequeue = 1 .. n /\ b = idequeue[1] /\ b \in Buf
      /\ idequeue' \in Seq(Buf) /\ Len(idequeue') = n - 1 /\ DOMAIN idequeue' = 1 .. (n - 1)
      /\ \A i \in 1 .. (n - 1) : idequeue'[i] = idequeue[i + 1]
  BY SMTT(60) DEF ideintr, TypeOK
<1>a. \A i, j \in 1 .. n : idequeue[i] = idequeue[j] => i = j
  BY <1>1 DEF SleepersHaveAWaker, IsInjective
<1>2. PICK h \in Proc : pc[h] = "rwsleep" /\ cur[h] = b
  <2>1. 1 \in 1 .. n
    BY <1>1, SMTT(60)
  <2> QED BY <1>1, <2>1 DEF SleepersHaveAWaker, RequestsAwaited
<1>3. /\ "B_BUSY" \in buf[b].flags /\ buf[b].sector \in Sector
      /\ cmd.sector = buf[b].sector
      /\ cmd.op = "write" => cmd.data = buf[b].data
  <2>1. "B_BUSY" \in buf[b].flags /\ buf[b].sector \in Sector
    BY <1>1, <1>2 DEF BusyExcludes, HolderHasBuffer, Holding, Free, TypeOK
  <2>2. idequeue # <<>>
    BY <1>1, SMTT(60)
  <2> QED BY <2>1, <2>2 DEF SleepersHaveAWaker, DriveServesHead
<1>4. PICK d \in Data : BufIs(b, buf[b].sector, fl, d)
  <2>1. PICK ok \in {TRUE} \cup {~ReadErrors} :
          buf' = [buf EXCEPT
                    ![b].data  = IF "B_DIRTY" \notin buf[b].flags /\ ok THEN disk[cmd.sector] ELSE @,
                    ![b].flags = (@ \cup {"B_VALID"}) \ {"B_DIRTY"}]
    BY DEF ideintr
  <2> DEFINE d == IF "B_DIRTY" \notin buf[b].flags /\ ok THEN disk[cmd.sector] ELSE buf[b].data
  <2>2. d \in Data
    BY <1>1, <1>3 DEF TypeOK
  <2>3. SetData(b, d, fl)
    BY <1>1, <2>1 DEF TypeOK, SetData
  <2>4. buf \in [Buf -> Struct] /\ fl \in SUBSET Flag
    BY <1>1 DEF TypeOK, Struct, Flag
  <2>5. BufIs(b, buf[b].sector, fl, d)
    BY <1>1, <2>2, <2>3, <2>4, AfterSetData
  <2> QED BY <2>2, <2>5
<1>5. /\ buf' \in [Buf -> Struct]
      /\ buf'[b].sector = buf[b].sector /\ buf'[b].flags = fl
      /\ \A a \in Buf \ {b} : buf'[a] = buf[a]
  BY <1>4 DEF BufIs
<1>6. /\ \A q \in Proc : pc'[q] = IF cur[q] # b THEN pc[q]
                                  ELSE IF pc[q] = "bgetsleep" THEN "bget"
                                  ELSE IF pc[q] = "rwsleep" THEN "rwtest" ELSE pc[q]
      /\ pc' \in [Proc -> Label]
      /\ cur' = cur /\ lru' = lru /\ want' = want /\ panic' = panic
  BY DEF ideintr, Woken, TypeOK, Label
<1>7. \A q \in Proc \ {h} : pc[q] \in Holding => cur[q] # b
  BY <1>2 DEF BusyExcludes, OneHolder, Holding
<1>8. \A q \in Proc : pc'[q] \in Holding <=> pc[q] \in Holding
  BY <1>6 DEF Holding
<1>9. /\ cmd' \in [op : {"none", "read", "write"}, sector : Sector \cup {None}, data : Data \cup {None}]
      /\ DriveServesHead'
  <2>1. CASE n > 1
    <3> DEFINE c == idequeue[2]
    <3>1. c \in Buf \ {b} /\ Head(idequeue') = c /\ idequeue' # <<>>
      <4>1. 2 \in 1 .. n /\ 1 \in 1 .. (n - 1)
        BY <1>1, <2>1, SMTT(60)
      <4>2. c # b
        BY <1>1, <1>a, <4>1, SMTT(60)
      <4>3. c \in Buf /\ idequeue'[1] = c
        BY <1>1, <4>1, SMTT(60) DEF TypeOK
      <4> QED BY <1>1, <2>1, <4>2, <4>3, SMTT(60)
    <3>2. cmd' = [op     |-> IF "B_DIRTY" \in buf[c].flags THEN "write" ELSE "read",
                  sector |-> buf[c].sector,
                  data   |-> IF "B_DIRTY" \in buf[c].flags THEN buf[c].data ELSE None]
      BY <2>1 DEF ideintr, idestart
    <3>3. buf'[c] = buf[c] /\ buf[c].sector \in Sector \cup {None} /\ buf[c].data \in Data
      BY <3>1, <1>5 DEF TypeOK
    <3> QED BY <3>1, <3>2, <3>3 DEF DriveServesHead
  <2>2. CASE n = 1
    <3>1. cmd' = NoCmd /\ idequeue' = <<>>
      BY <1>1, <2>2, SMTT(60) DEF ideintr
    <3> QED BY <3>1 DEF NoCmd, DriveServesHead
  <2> QED BY <1>1, <2>1, <2>2, SMTT(60)
<1>10. TypeOK'
  <2>1. disk' \in [Sector -> Data]
    BY <1>3, <1>1 DEF ideintr, TypeOK
  <2> QED BY <1>1, <1>5, <1>6, <1>9, <2>1 DEF TypeOK, Struct
<1>11. LruListsBuffers' /\ OneBufferPerSector'
  BY <1>1, <1>5, <1>6, SMTT(60) DEF LruListsBuffers, OneBufferPerSector
<1>12. BusyExcludes'
  <2>1. \A a \in Buf : Free(a)' <=> Free(a)
    BY <1>1, <1>5, SMTT(60) DEF Free
  <2>2. \A q \in Proc : HolderHasBuffer(q)'
    BY <1>1, <1>5, <1>6, <1>8, SMTT(60) DEF BusyExcludes, HolderHasBuffer, Free
  <2>3. \A q, r \in Proc : OneHolder(q, r)'
    BY <1>6, <1>8 DEF BusyExcludes, OneHolder
  <2>4. \A a \in Buf : BusyIsHeld(a)'
    BY <1>6, <1>8, <2>1 DEF BusyExcludes, BusyIsHeld
  <2> QED BY <2>2, <2>3, <2>4 DEF BusyExcludes
<1>13. FlagsFitPhases'
  <2>1. \A a \in Buf : FlagsFitBuffer(a)'
    BY <1>1, <1>3, <1>5, SMTT(60) DEF FlagsFitPhases, FlagsFitBuffer, Free
  <2>2. ASSUME NEW q \in Proc PROVE FlagsFitHolder(q)'
    <3>1. CASE q = h
      BY <1>2, <1>5, <1>6, <3>1 DEF FlagsFitHolder, Synced
    <3>2. CASE q # h /\ pc[q] \in Holding
      <4>1. cur[q] \in Buf \ {b} /\ pc'[q] = pc[q]
        BY <1>6, <1>7, <3>2 DEF BusyExcludes, HolderHasBuffer
      <4>2. buf'[cur'[q]] = buf[cur[q]]
        BY <1>5, <1>6, <4>1
      <4>3. FlagsFitHolder(q)
        BY DEF FlagsFitPhases
      <4> QED BY <4>1, <4>2, <4>3 DEF FlagsFitHolder, Synced
    <3>3. CASE pc[q] \notin Holding
      BY <1>8, <3>3 DEF Holding, FlagsFitHolder
    <3> QED BY <3>1, <3>2, <3>3
  <2> QED BY <2>1, <2>2 DEF FlagsFitPhases
<1>14. SleepersHaveAWaker'
  <2>1. ASSUME NEW q \in Proc PROVE DriverWakes(q)'
    <3> SUFFICES pc'[q] = "rwsleep" <=>
                   \E i \in 1 .. (n - 1) : idequeue'[i] = cur[q] /\ pc'[q] \in Holding
      BY <1>1, <1>6 DEF DriverWakes
    <3>a. pc'[q] \in Holding <=> pc[q] \in Holding
      BY <1>8
    <3>b. (\E i \in 1 .. (n - 1) : idequeue'[i] = cur[q]) <=> \E i \in 1 .. (n - 1) : idequeue[i + 1] = cur[q]
      BY <1>1
    <3>1. CASE cur[q] = b
      <4>1. pc'[q] # "rwsleep"
        BY <1>6, <3>1
      <4>2. ASSUME NEW i \in 1 .. (n - 1) PROVE idequeue[i + 1] # b
        <5>1. i + 1 \in 1 .. n /\ 1 \in 1 .. n /\ i + 1 # 1
          BY <1>1, SMTT(60)
        <5> QED BY <1>1, <1>a, <5>1
      <4> QED BY <3>1, <3>b, <4>1, <4>2
    <3>2. CASE cur[q] # b
      <4>1. pc[q] = "rwsleep" <=> \E i \in 1 .. n : idequeue[i] = cur[q] /\ pc[q] \in Holding
        BY <1>1 DEF SleepersHaveAWaker, DriverWakes
      <4>2. (\E i \in 1 .. n : idequeue[i] = cur[q]) <=> \E i \in 1 .. (n - 1) : idequeue[i + 1] = cur[q]
        <5>1. ASSUME NEW i \in 1 .. n, idequeue[i] = cur[q]
              PROVE  \E j \in 1 .. (n - 1) : idequeue[j + 1] = cur[q]
          <6>1. i # 1 /\ i - 1 \in 1 .. (n - 1) /\ i - 1 + 1 = i
            BY <1>1, <3>2, <5>1, SMTT(60)
          <6> QED BY <5>1, <6>1
        <5>2. ASSUME NEW j \in 1 .. (n - 1), idequeue[j + 1] = cur[q]
              PROVE  \E i \in 1 .. n : idequeue[i] = cur[q]
          <6>1. j + 1 \in 1 .. n
            BY <1>1, SMTT(60)
          <6> QED BY <5>2, <6>1
        <5> QED BY <5>1, <5>2
      <4> QED BY <1>6, <3>2, <3>a, <3>b, <4>1, <4>2
    <3> QED BY <3>1, <3>2
  <2>2. \A q \in Proc : HolderWakes(q)'
    BY <1>6, <1>8 DEF SleepersHaveAWaker, HolderWakes
  <2>3. RequestsAwaited'
    <3> SUFFICES ASSUME NEW i \in 1 .. (n - 1)
                 PROVE  \E q \in Proc : pc'[q] = "rwsleep" /\ cur[q] = idequeue[i + 1]
      BY <1>1, <1>6, SMTT(60) DEF RequestsAwaited
    <3>1. i + 1 \in 1 .. n /\ idequeue[i + 1] # b
      BY <1>1, <1>a, SMTT(60)
    <3>2. PICK q \in Proc : pc[q] = "rwsleep" /\ cur[q] = idequeue[i + 1]
      BY <1>1, <3>1 DEF SleepersHaveAWaker, RequestsAwaited
    <3> QED BY <1>6, <3>1, <3>2
  <2>4. IsInjective(idequeue')
    <3>1. \A i, j \in 1 .. (n - 1) : idequeue'[i] = idequeue'[j] => i = j
      BY <1>1, <1>a, SMTT(60)
    <3> QED BY <1>1, <3>1 DEF IsInjective
  <2> QED BY <1>9, <2>1, <2>2, <2>3, <2>4 DEF SleepersHaveAWaker
<1> QED BY <1>10, <1>11, <1>12, <1>13, <1>14

=============================================================================
