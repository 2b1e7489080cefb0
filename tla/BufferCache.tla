----------------------------- MODULE BufferCache -----------------------------
(***************************************************************************)
(* bio.c and ide.c: the buffer cache over the IDE driver.  Processes bread *)
(* a sector, change it, bwrite it or leave it dirty for the log, and       *)
(* brelse it; the driver serves its queue one request at a time and an     *)
(* interrupt completes each.  A step is a critical section of bcache.lock  *)
(* or idelock.                                                             *)
(***************************************************************************)
EXTENDS Naturals, Sequences, FiniteSets, Functions

CONSTANTS
  Proc,        \* processes
  Buf,         \* bcache.buf[NBUF]
  Sector,      \* sectors of the disk
  Data,        \* contents of a sector
  None,        \* dev == -1, no process, no buffer
  ReadErrors   \* TRUE if the drive may report an error on a read

ASSUME CacheAssumption ==
  /\ IsFiniteSet(Buf) /\ Cardinality(Buf) \in Nat
  /\ ReadErrors \in BOOLEAN
  /\ None \notin Sector \cup Proc \cup Buf

VARIABLES
  disk,        \* contents of the drive
  buf,         \* struct buf: sector, flags, data
  lru,         \* bcache.head list, most recently used first
  idequeue,    \* requests, the active one first
  cmd,         \* the command the drive is executing
  pc,          \* where each process is
  cur,         \* the buffer each process holds or sleeps on
  want,        \* the sector argument of bget
  panic        \* "bget: no buffers" has stopped the machine

vars == <<disk, buf, lru, idequeue, cmd, pc, cur, want, panic>>

\* "bget": about to (re)scan; "bgetsleep", "rwsleep": sleep(b) in bget, iderw;
\* "iderw": about to call iderw; "rwtest": woken inside iderw; "hold": has b.
Label == {"idle", "bget", "bgetsleep", "iderw", "rwsleep", "rwtest", "hold"}

Flag == {"B_BUSY", "B_VALID", "B_DIRTY"}

NoCmd == [op |-> "none", sector |-> None, data |-> None]

Synced(b) == "B_VALID" \in buf[b].flags /\ "B_DIRTY" \notin buf[b].flags

Free(b) == "B_BUSY" \notin buf[b].flags

Caches(b, s) == buf[b].sector = s
-----------------------------------------------------------------------------
Init ==
  /\ disk \in [Sector -> Data]
  /\ \E d \in Data : buf = [b \in Buf |-> [sector |-> None, flags |-> {}, data |-> d]]
  /\ lru \in Bijection(1 .. Cardinality(Buf), Buf)
  /\ idequeue = <<>>
  /\ cmd = NoCmd
  /\ pc = [p \in Proc |-> "idle"]
  /\ cur = [p \in Proc |-> None]
  /\ want = [p \in Proc |-> None]
  /\ panic = FALSE
-----------------------------------------------------------------------------
\* A process calls bread(s), or rescans at "loop:" after sleep().
Wants(p, s) == pc[p] = "idle" \/ (pc[p] = "bget" /\ want[p] = s)

\* bget() returns b to p; bread() then reads it unless it is valid.
Take(p, b, s, flags) ==
  /\ buf' = [buf EXCEPT ![b].sector = s, ![b].flags = flags \cup {"B_BUSY"}]
  /\ cur' = [cur EXCEPT ![p] = b]
  /\ want' = [want EXCEPT ![p] = None]
  /\ pc' = [pc EXCEPT ![p] = IF "B_VALID" \in flags THEN "hold" ELSE "iderw"]
  /\ UNCHANGED <<disk, lru, idequeue, cmd, panic>>

\* bget(): the sector is cached and nobody uses it.
bget_hit(p, s) ==
  /\ Wants(p, s)
  /\ \E b \in Buf : Caches(b, s) /\ Free(b) /\ Take(p, b, s, buf[b].flags)

\* bget(): the sector is cached but busy: sleep(b, &bcache.lock).
bget_wait(p, s) ==
  /\ Wants(p, s)
  /\ \E b \in Buf :
       /\ Caches(b, s)
       /\ ~Free(b)
       /\ cur' = [cur EXCEPT ![p] = b]
  /\ want' = [want EXCEPT ![p] = s]
  /\ pc' = [pc EXCEPT ![p] = "bgetsleep"]
  /\ UNCHANGED <<disk, buf, lru, idequeue, cmd, panic>>

\* Faulty variant: dirty buffers are recycled.
Recyclable_dirty(b) == Free(b)

Recyclable(b) == Free(b) /\ "B_DIRTY" \notin buf[b].flags

\* Faulty variant: recycles without looking for a cached copy.
bget_recycle_blind(p, s) ==
  /\ Wants(p, s)
  /\ \E i \in DOMAIN lru :
       /\ Recyclable(lru[i])
       /\ \A j \in DOMAIN lru : j > i => ~Recyclable(lru[j])
       /\ Take(p, lru[i], s, {})

\* bget(): not cached; recycle the least recently used clean free buffer.
bget_recycle(p, s) ==
  /\ Wants(p, s)
  /\ \A b \in Buf : ~Caches(b, s)
  /\ \E i \in DOMAIN lru :
       /\ Recyclable(lru[i])
       /\ \A j \in DOMAIN lru : j > i => ~Recyclable(lru[j])
       /\ Take(p, lru[i], s, {})

\* bget(): panic("bget: no buffers").
bget_panic(p, s) ==
  /\ Wants(p, s)
  /\ \A b \in Buf : ~Caches(b, s) /\ ~Recyclable(b)
  /\ panic' = TRUE
  /\ UNCHANGED <<disk, buf, lru, idequeue, cmd, pc, cur, want>>

\* wakeup(b) makes the sleepers on b runnable, wherever they sleep.
Woken(b) ==
  [p \in Proc |->
     IF cur[p] # b THEN pc[p]
     ELSE IF pc[p] = "bgetsleep" THEN "bget"
     ELSE IF pc[p] = "rwsleep" THEN "rwtest"
     ELSE pc[p]]

\* idestart(b): a write command takes the data with it.
idestart(b) ==
  cmd' = [op     |-> IF "B_DIRTY" \in buf[b].flags THEN "write" ELSE "read",
          sector |-> buf[b].sector,
          data   |-> IF "B_DIRTY" \in buf[b].flags THEN buf[b].data ELSE None]

\* iderw(): append b to idequeue, start the disk if it is idle, sleep(b).
iderw(p) ==
  /\ pc[p] = "iderw"
  /\ idequeue' = Append(idequeue, cur[p])
  /\ IF idequeue = <<>> THEN idestart(cur[p]) ELSE UNCHANGED cmd
  /\ pc' = [pc EXCEPT ![p] = "rwsleep"]
  /\ UNCHANGED <<disk, buf, lru, cur, want, panic>>

\* The loop condition of iderw(), evaluated after a wakeup.
iderw_test(p) ==
  /\ pc[p] = "rwtest"
  /\ pc' = [pc EXCEPT ![p] = IF Synced(cur[p]) THEN "hold" ELSE "rwsleep"]
  /\ UNCHANGED <<disk, buf, lru, idequeue, cmd, cur, want, panic>>

\* The drive has executed its command and interrupts: ideintr().
ideintr ==
  /\ idequeue # <<>>
  /\ LET b == Head(idequeue)
         reads == "B_DIRTY" \notin buf[b].flags IN
       /\ disk' = IF cmd.op = "write"
                  THEN [disk EXCEPT ![cmd.sector] = cmd.data] ELSE disk
       /\ \E ok \in {TRUE} \cup {~ReadErrors} :
            buf' = [buf EXCEPT
                      ![b].data  = IF reads /\ ok THEN disk[cmd.sector] ELSE @,
                      ![b].flags = (@ \cup {"B_VALID"}) \ {"B_DIRTY"}]
       /\ pc' = Woken(b)
  /\ idequeue' = Tail(idequeue)
  /\ IF Len(idequeue) > 1 THEN idestart(idequeue[2]) ELSE cmd' = NoCmd
  /\ UNCHANGED <<lru, cur, want, panic>>

\* The holder changes the data and calls bwrite().
bwrite(p, d) ==
  /\ pc[p] = "hold"
  /\ buf' = [buf EXCEPT ![cur[p]].data = d, ![cur[p]].flags = @ \cup {"B_DIRTY"}]
  /\ pc' = [pc EXCEPT ![p] = "iderw"]
  /\ UNCHANGED <<disk, lru, idequeue, cmd, cur, want, panic>>

\* The holder changes the data and log_write() sets B_DIRTY to pin the buffer.
pin(p, d) ==
  /\ pc[p] = "hold"
  /\ buf' = [buf EXCEPT ![cur[p]].data = d, ![cur[p]].flags = @ \cup {"B_DIRTY"}]
  /\ UNCHANGED <<disk, lru, idequeue, cmd, pc, cur, want, panic>>

\* b is taken out of the list and put at the head.
ToFront(b) ==
  LET k == CHOOSE i \in DOMAIN lru : lru[i] = b
  IN  <<b>> \o (SubSeq(lru, 1, k - 1) \o SubSeq(lru, k + 1, Len(lru)))

\* Faulty variant: no wakeup(b).
brelse_silent(p) ==
  /\ pc[p] = "hold"
  /\ lru' = ToFront(cur[p])
  /\ buf' = [buf EXCEPT ![cur[p]].flags = @ \ {"B_BUSY"}]
  /\ pc' = [pc EXCEPT ![p] = "idle"]
  /\ cur' = [cur EXCEPT ![p] = None]
  /\ UNCHANGED <<disk, idequeue, cmd, want, panic>>

\* brelse(): to the front of the list, clear B_BUSY, wakeup(b).
brelse(p) ==
  /\ pc[p] = "hold"
  /\ lru' = ToFront(cur[p])
  /\ buf' = [buf EXCEPT ![cur[p]].flags = @ \ {"B_BUSY"}]
  /\ pc' = [Woken(cur[p]) EXCEPT ![p] = "idle"]
  /\ cur' = [cur EXCEPT ![p] = None]
  /\ UNCHANGED <<disk, idequeue, cmd, want, panic>>

Step(p) ==
  \/ \E s \in Sector :
       bget_hit(p, s) \/ bget_wait(p, s) \/ bget_recycle(p, s) \/ bget_panic(p, s)
  \/ iderw(p)
  \/ iderw_test(p)
  \/ \E d \in Data : bwrite(p, d) \/ pin(p, d)
  \/ brelse(p)

Next == ~panic /\ ((\E p \in Proc : Step(p)) \/ ideintr)

Spec == Init /\ [][Next]_vars

\* Type invariant.
TypeOK ==
  /\ disk \in [Sector -> Data]
  /\ buf \in [Buf -> [sector : Sector \cup {None}, flags : SUBSET Flag, data : Data]]
  /\ lru \in Seq(Buf)
  /\ idequeue \in Seq(Buf)
  /\ cmd \in [op : {"none", "read", "write"}, sector : Sector \cup {None},
              data : Data \cup {None}]
  /\ pc \in [Proc -> Label]
  /\ cur \in [Proc -> Buf \cup {None}]
  /\ want \in [Proc -> Sector \cup {None}]
  /\ panic \in BOOLEAN

Holding == {"iderw", "rwsleep", "rwtest", "hold"}

\* bget()'s scans see every buffer, once: brelse() only reorders the list.
LruListsBuffers ==
  /\ IsInjective(lru)
  /\ \A b \in Buf : \E i \in DOMAIN lru : lru[i] = b

\* bget() never gives a sector two buffers, although it gives up bcache.lock
\* while it sleeps on a busy one.
OneBufferPerSector ==
  \A a, b \in Buf : buf[a].sector = buf[b].sector /\ a # b => buf[a].sector = None

HolderHasBuffer(p) ==
  pc[p] \in Holding => cur[p] \in Buf /\ ~Free(cur[p]) /\ buf[cur[p]].sector # None

OneHolder(p, q) == {pc[p], pc[q]} \subseteq Holding /\ cur[p] = cur[q] => p = q

BusyIsHeld(b) == ~Free(b) => \E p \in Proc : pc[p] \in Holding /\ cur[p] = b

\* B_BUSY is a lock: a buffer has it exactly while one process is between
\* bget() and brelse().
BusyExcludes ==
  /\ \A p \in Proc : HolderHasBuffer(p)
  /\ \A p, q \in Proc : OneHolder(p, q)
  /\ \A b \in Buf : BusyIsHeld(b)

FlagsFitBuffer(b) ==
  /\ buf[b].sector = None => buf[b].flags = {}
  /\ "B_DIRTY" \in buf[b].flags => "B_VALID" \in buf[b].flags
  /\ Free(b) /\ buf[b].sector # None => "B_VALID" \in buf[b].flags

FlagsFitHolder(p) ==
  /\ pc[p] = "hold" => "B_VALID" \in buf[cur[p]].flags
  /\ pc[p] \in {"iderw", "rwsleep"} => ~Synced(cur[p])
  /\ pc[p] = "rwtest" => Synced(cur[p])

\* The flags fit what the holder is doing: iderw() is never asked for a buffer
\* that needs nothing, has done its work when it is woken, and only what has
\* been read is given to others.
FlagsFitPhases ==
  (\A b \in Buf : FlagsFitBuffer(b)) /\ (\A p \in Proc : FlagsFitHolder(p))

\* What bget(), brelse() and iderw() keep true of the buffers.
CacheStructure ==
  TypeOK /\ LruListsBuffers /\ OneBufferPerSector /\ BusyExcludes /\ FlagsFitPhases

DriverWakes(p) ==
  pc[p] = "rwsleep" <=> \E i \in DOMAIN idequeue : idequeue[i] = cur[p] /\ pc[p] \in Holding

HolderWakes(p) ==
  pc[p] = "bgetsleep" => \E q \in Proc : pc[q] \in Holding /\ cur[q] = cur[p]

RequestsAwaited ==
  \A i \in DOMAIN idequeue : \E p \in Proc : pc[p] = "rwsleep" /\ cur[p] = idequeue[i]

DriveServesHead ==
  /\ cmd.op = "none" <=> idequeue = <<>>
  /\ idequeue # <<>> =>
       LET b == Head(idequeue) IN
       /\ cmd.sector = buf[b].sector
       /\ cmd.op = "write" <=> "B_DIRTY" \in buf[b].flags
       /\ cmd.op = "write" => cmd.data = buf[b].data

\* No lost wakeups on the channel b, which bget() and iderw() share: whoever
\* sleeps in iderw() has its buffer in the driver's queue, the drive is busy
\* with the first request whenever the queue is not empty, and whoever sleeps in
\* bget() has a holder that is still to call brelse().
SleepersHaveAWaker ==
  /\ \A p \in Proc : DriverWakes(p) /\ HolderWakes(p)
  /\ RequestsAwaited
  /\ IsInjective(idequeue)
  /\ DriveServesHead

\* "Return a B_BUSY buf with the contents of the indicated disk sector": a
\* process that bread() has returned to sees the sector's current contents.
BreadReturnsContents ==
  \A p \in Proc :
    pc[p] = "hold" /\ "B_DIRTY" \notin buf[cur[p]].flags =>
      Synced(cur[p]) /\ buf[cur[p]].data = disk[buf[cur[p]].sector]

\* A buffer without unwritten changes agrees with the disk, whether or not
\* somebody holds it, so that it may be recycled or returned without a read.
CleanIsCurrent ==
  \A b \in Buf :
    Synced(b) /\ buf[b].sector # None => buf[b].data = disk[buf[b].sector]

\* The cache is sound while no read fails: one buffer per sector, one user per
\* buffer, and whoever bread() returned to has the sector's contents.
CacheIsSound == CacheStructure /\ CleanIsCurrent /\ BreadReturnsContents

CachedAt(s) ==
  {b \in Buf : buf[b].sector = s
               /\ ("B_VALID" \in buf[b].flags \/ "B_DIRTY" \in buf[b].flags)}

Mem ==
  [s \in Sector |->
     IF CachedAt(s) # {} THEN buf[CHOOSE b \in CachedAt(s) : TRUE].data ELSE disk[s]]

HolderOf ==
  [s \in Sector |->
     IF \E p \in Proc : pc[p] \in Holding /\ buf[cur[p]].sector = s
     THEN CHOOSE p \in Proc : pc[p] \in Holding /\ buf[cur[p]].sector = s
     ELSE None]

BS == INSTANCE BlockStore WITH mem <- Mem, holder <- HolderOf

\* bio.c over ide.c behaves as one copy of every block with one user at a
\* time: recycling, queueing and interrupts never lose or duplicate a change.
OneCopy == BS!Spec
=============================================================================
