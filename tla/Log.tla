--------------------------------- MODULE Log ---------------------------------
(***************************************************************************)
(* log.c: the physical redo log of the file system.  One transaction at a  *)
(* time; log_write() appends a copy of a block to the log and pins the     *)
(* cached block; commit_trans() writes the header (the commit point),      *)
(* copies the log to the home sectors, and erases the header;              *)
(* recover_from_log() does the last two at boot.                           *)
(*                                                                         *)
(* A step ends where the code gives other actors a chance: at a disk       *)
(* write, a sleep, or the release of log.lock or of a buffer.  A disk      *)
(* write of one sector is atomic; the machine may crash between any two    *)
(* steps, recovery included.                                               *)
(***************************************************************************)
EXTENDS Naturals

CONSTANTS
  Proc,      \* kernel processes that make file-system calls
  Sector,    \* home sectors: the blocks of the image outside the log
  Data,      \* block contents
  LOGSIZE,   \* param.h: max data sectors in the on-disk log
  nlog,      \* sb.nlog: log blocks, header included
  Block0,    \* sector number 0, as in a zeroed header: never a home sector
  Evicted    \* marks a sector without a buffer in the cache

ASSUME LogAssumption ==
  /\ LOGSIZE \in Nat \ {0}
  /\ nlog \in Nat
  /\ Evicted \notin Data
  /\ Block0 \notin Sector
  /\ Proc # {}

VARIABLES
  \* on disk
  home,      \* contents of the home sectors
  blk,       \* contents of the log's data blocks
  head,      \* header block: struct logheader
  \* in memory
  mode,      \* "boot" (initlog is running), "up" or "panic"
  busy,      \* log.busy
  lh,        \* log.lh
  cache,     \* data of the cached buffer of a home sector, or Evicted
  dirty,     \* home sectors whose buffer has B_DIRTY
  tail,      \* loop variable of install_trans
  pc,        \* where each process is
  cur        \* per process: the buffer it holds (s) and its log index (i)

disk == <<home, blk, head>>
vars == <<home, blk, head, mode, busy, lh, cache, dirty, tail, pc, cur>>

LogIndex == 0 .. (LOGSIZE - 1)

Header == [n : 0 .. LOGSIZE, sector : [LogIndex -> Sector \cup {Block0}]]

EmptyHeader == [n |-> 0, sector |-> [i \in LogIndex |-> Block0]]

\* A process that holds no buffer: its locals are out of scope.
NoBuf == [s |-> Block0, i |-> 0]

\* Labels of a process inside begin_trans()/commit_trans(), in program order.
Open      == {"trans", "modified", "logging"}
Committed == {"install", "erase", "end"}
Label     == {"idle", "asleep", "initlog"} \cup Open \cup Committed

\* bread(): the cached data, or what is on disk.
Contents(s) == IF cache[s] # Evicted THEN cache[s] ELSE home[s]

\* bget() returns only buffers that no other process holds (B_BUSY).
Held(s) == \E p \in Proc : pc[p] \in {"modified", "logging"} /\ cur[p].s = s

Goto(p, label) == pc' = [pc EXCEPT ![p] = label]
-----------------------------------------------------------------------------
\* mkfs leaves a zeroed log; the first process runs initlog().
Init ==
  /\ home \in [Sector -> Data]
  /\ \E d \in Data : blk = [i \in LogIndex |-> d]
  /\ head = EmptyHeader
  /\ mode = "boot"
  /\ busy = FALSE
  /\ lh = EmptyHeader
  /\ cache = [s \in Sector |-> Evicted]
  /\ dirty = {}
  /\ tail = 0
  /\ \E p \in Proc : pc = [q \in Proc |-> IF q = p THEN "initlog" ELSE "idle"]
  /\ cur = [p \in Proc |-> NoBuf]
-----------------------------------------------------------------------------
\* Faulty variant: log.busy is not tested.
begin_trans_unchecked(p) ==
  /\ mode = "up" /\ pc[p] = "idle"
  /\ busy' = TRUE
  /\ Goto(p, "trans")
  /\ UNCHANGED <<home, blk, head, mode, lh, cache, dirty, tail, cur>>

\* begin_trans() when no transaction is active.
begin_trans(p) ==
  /\ mode = "up"
  /\ pc[p] = "idle"
  /\ ~busy
  /\ busy' = TRUE
  /\ Goto(p, "trans")
  /\ UNCHANGED <<home, blk, head, mode, lh, cache, dirty, tail, cur>>

\* begin_trans() finds a transaction active: sleep(&log, &log.lock).
begin_wait(p) ==
  /\ mode = "up"
  /\ pc[p] = "idle"
  /\ busy
  /\ Goto(p, "asleep")
  /\ UNCHANGED <<home, blk, head, mode, busy, lh, cache, dirty, tail, cur>>

\* A caller inside a transaction: bp = bread(...); modify bp->data[].
modify(p, s, d) ==
  /\ mode = "up"
  /\ pc[p] = "trans"
  /\ ~Held(s)
  /\ cache' = [cache EXCEPT ![s] = d]
  /\ cur' = [cur EXCEPT ![p].s = s]
  /\ Goto(p, "modified")
  /\ UNCHANGED <<home, blk, head, mode, busy, lh, dirty, tail>>

Full == lh.n >= LOGSIZE \/ lh.n + 1 >= nlog

\* Faulty variant: no search, every log_write() appends.
StopsAt_end(s, i) == i = lh.n

\* The search of log_write() for the block in the log stops at i.
StopsAt(s, i) ==
  /\ i = lh.n \/ lh.sector[i] = s
  /\ \A j \in 0 .. (lh.n - 1) : j < i => lh.sector[j] # s

\* log_write(bp), up to the write of the log block.
log_write(p) ==
  /\ mode = "up"
  /\ pc[p] = "modified"
  /\ ~Full
  /\ busy
  /\ \E i \in 0 .. lh.n :
       /\ StopsAt(cur[p].s, i)
       /\ lh' = [lh EXCEPT !.sector[i] = cur[p].s]
       /\ cur' = [cur EXCEPT ![p].i = i]
  /\ Goto(p, "logging")
  /\ UNCHANGED <<home, blk, head, mode, busy, cache, dirty, tail>>

\* panic("too big a transaction") or panic("write outside of trans").
log_write_panic(p) ==
  /\ mode = "up"
  /\ pc[p] = "modified"
  /\ Full \/ ~busy
  /\ mode' = "panic"
  /\ UNCHANGED <<home, blk, head, busy, lh, cache, dirty, tail, pc, cur>>

\* Faulty variant: B_DIRTY is not set, so bget() may recycle the buffer.
log_append_unpinned(p) ==
  /\ mode = "up" /\ pc[p] = "logging"
  /\ blk' = [blk EXCEPT ![cur[p].i] = cache[cur[p].s]]
  /\ lh' = IF cur[p].i = lh.n THEN [lh EXCEPT !.n = @ + 1] ELSE lh
  /\ cur' = [cur EXCEPT ![p] = NoBuf]
  /\ Goto(p, "trans")
  /\ UNCHANGED <<home, head, mode, busy, cache, dirty, tail>>

\* The log block reaches the disk; log_write() returns and brelse(bp).
log_append(p) ==
  /\ mode = "up"
  /\ pc[p] = "logging"
  /\ blk' = [blk EXCEPT ![cur[p].i] = cache[cur[p].s]]
  /\ lh' = IF cur[p].i = lh.n THEN [lh EXCEPT !.n = @ + 1] ELSE lh
  /\ dirty' = dirty \cup {cur[p].s}
  /\ cur' = [cur EXCEPT ![p] = NoBuf]
  /\ Goto(p, "trans")
  /\ UNCHANGED <<home, head, mode, busy, cache, tail>>
-----------------------------------------------------------------------------
\* write_head(): entries beyond n keep what the header block had.
write_head ==
  head' = [n |-> lh.n,
           sector |-> [i \in LogIndex |->
                         IF i < lh.n THEN lh.sector[i] ELSE head.sector[i]]]

\* commit_trans() of a transaction that logged something: the commit point.
commit_head(p) ==
  /\ mode = "up"
  /\ pc[p] = "trans"
  /\ lh.n > 0
  /\ write_head
  /\ tail' = 0
  /\ Goto(p, "install")
  /\ UNCHANGED <<home, blk, mode, busy, lh, cache, dirty, cur>>

\* commit_trans() of a transaction that logged nothing.
commit_empty(p) ==
  /\ mode = "up"
  /\ pc[p] = "trans"
  /\ lh.n = 0
  /\ Goto(p, "end")
  /\ UNCHANGED <<home, blk, head, mode, busy, lh, cache, dirty, tail, cur>>

\* Faulty variant: tail is not advanced.
install_trans_stuck(p) ==
  /\ mode # "panic" /\ pc[p] = "install"
  /\ tail < lh.n
  /\ home' = [home EXCEPT ![lh.sector[tail]] = blk[tail]]
  /\ cache' = [cache EXCEPT ![lh.sector[tail]] = blk[tail]]
  /\ dirty' = dirty \ {lh.sector[tail]}
  /\ UNCHANGED <<blk, head, mode, busy, lh, tail, pc, cur>>

\* One iteration of install_trans(): copy a log block home, write it, brelse.
install_trans(p) ==
  /\ mode # "panic"
  /\ pc[p] = "install"
  /\ tail < lh.n
  /\ LET s == lh.sector[tail] IN
       /\ ~Held(s)
       /\ home' = [home EXCEPT ![s] = blk[tail]]
       /\ cache' = [cache EXCEPT ![s] = blk[tail]]
       /\ dirty' = dirty \ {s}
  /\ tail' = tail + 1
  /\ UNCHANGED <<blk, head, mode, busy, lh, pc, cur>>

\* Faulty variant: the loop of install_trans() stops one block early.
reset_early(p) ==
  /\ mode # "panic" /\ pc[p] = "install"
  /\ tail + 1 >= lh.n
  /\ lh' = [lh EXCEPT !.n = 0]
  /\ Goto(p, "erase")
  /\ UNCHANGED <<home, blk, head, mode, busy, cache, dirty, tail, cur>>

\* install_trans() has returned: log.lh.n = 0.
reset(p) ==
  /\ mode # "panic"
  /\ pc[p] = "install"
  /\ tail >= lh.n
  /\ lh' = [lh EXCEPT !.n = 0]
  /\ Goto(p, "erase")
  /\ UNCHANGED <<home, blk, head, mode, busy, cache, dirty, tail, cur>>

\* The second write_head(): erase the transaction from the log.
erase(p) ==
  /\ mode # "panic"
  /\ pc[p] = "erase"
  /\ write_head
  /\ mode' = "up"
  /\ Goto(p, IF mode = "boot" THEN "idle" ELSE "end")
  /\ UNCHANGED <<home, blk, busy, lh, cache, dirty, tail, cur>>

\* Faulty variant: no wakeup(&log).
commit_done_silent(p) ==
  /\ mode = "up" /\ pc[p] = "end"
  /\ busy' = FALSE
  /\ Goto(p, "idle")
  /\ UNCHANGED <<home, blk, head, mode, lh, cache, dirty, tail, cur>>

\* The end of commit_trans(), under log.lock: busy = 0, wakeup(&log).
commit_done(p) ==
  /\ mode = "up"
  /\ pc[p] = "end"
  /\ busy' = FALSE
  /\ pc' = [q \in Proc |-> IF q = p \/ pc[q] = "asleep" THEN "idle" ELSE pc[q]]
  /\ UNCHANGED <<home, blk, head, mode, lh, cache, dirty, tail, cur>>
-----------------------------------------------------------------------------
\* recover_from_log(): read_head(); install_trans and erase do the rest.
read_head(p) ==
  /\ mode = "boot"
  /\ pc[p] = "initlog"
  /\ lh' = [n |-> head.n,
            sector |-> [i \in LogIndex |->
                          IF i < head.n THEN head.sector[i] ELSE lh.sector[i]]]
  /\ tail' = 0
  /\ Goto(p, "install")
  /\ UNCHANGED <<home, blk, head, mode, busy, cache, dirty, cur>>

\* bio.c: bread() of an uncached sector by a reader.
bread(s) ==
  /\ mode = "up"
  /\ cache[s] = Evicted
  /\ cache' = [cache EXCEPT ![s] = home[s]]
  /\ UNCHANGED <<home, blk, head, mode, busy, lh, dirty, tail, pc, cur>>

\* bio.c: bget() recycles a buffer that is neither busy nor dirty.
evict(s) ==
  /\ mode = "up"
  /\ cache[s] # Evicted
  /\ ~Held(s)
  /\ s \notin dirty
  /\ cache' = [cache EXCEPT ![s] = Evicted]
  /\ UNCHANGED <<home, blk, head, mode, busy, lh, dirty, tail, pc, cur>>

\* Power failure, or the reboot after a panic: memory is gone.
Crash ==
  /\ mode' = "boot"
  /\ busy' = FALSE
  /\ lh' = EmptyHeader
  /\ cache' = [s \in Sector |-> Evicted]
  /\ dirty' = {}
  /\ tail' = 0
  /\ \E p \in Proc : pc' = [q \in Proc |-> IF q = p THEN "initlog" ELSE "idle"]
  /\ cur' = [p \in Proc |-> NoBuf]
  /\ UNCHANGED disk

Step(p) ==
  \/ begin_trans(p) \/ begin_wait(p)
  \/ \E s \in Sector, d \in Data : modify(p, s, d)
  \/ log_write(p) \/ log_write_panic(p) \/ log_append(p)
  \/ commit_head(p) \/ commit_empty(p)
  \/ install_trans(p) \/ reset(p) \/ erase(p) \/ commit_done(p)
  \/ read_head(p)

Next ==
  \/ \E p \in Proc : Step(p)
  \/ \E s \in Sector : bread(s) \/ evict(s)
  \/ Crash

Spec == Init /\ [][Next]_vars

\* A process that is not asleep keeps running, the disk answers, and every
\* system call reaches its commit_trans() after finitely many log_write()s.
FairSpec ==
  /\ Spec
  /\ \A p \in Proc :
       /\ WF_vars(Step(p))
       /\ SF_vars(commit_head(p) \/ commit_empty(p))
-----------------------------------------------------------------------------
(***************************************************************************)
(* Properties.                                                             *)
(***************************************************************************)

\* Type invariant.
TypeOK ==
  /\ home \in [Sector -> Data]
  /\ blk \in [LogIndex -> Data]
  /\ head \in Header
  /\ mode \in {"boot", "up", "panic"}
  /\ busy \in BOOLEAN
  /\ lh \in Header
  /\ cache \in [Sector -> Data \cup {Evicted}]
  /\ dirty \in SUBSET Sector
  /\ tail \in 0 .. LOGSIZE
  /\ pc \in [Proc -> Label]
  /\ cur \in [Proc -> [s : Sector \cup {Block0}, i : LogIndex]]

\* The image recover_from_log() would produce from what is on disk now.
Recovered ==
  [s \in Sector |->
     IF \E i \in 0 .. (head.n - 1) : head.sector[i] = s
     THEN blk[CHOOSE i \in 0 .. (head.n - 1) : head.sector[i] = s]
     ELSE home[s]]

View == [s \in Sector |-> IF mode = "boot" THEN Recovered[s] ELSE Contents(s)]

Phase ==
  IF mode = "boot" THEN "none"
  ELSE IF \E p \in Proc : pc[p] \in Open THEN "open"
  ELSE IF \E p \in Proc : pc[p] \in Committed THEN "committed"
  ELSE "none"

TD == INSTANCE TransDisk WITH view <- View, durable <- Recovered, phase <- Phase

\* log.c implements an atomic transactional disk: begin_trans ... commit_trans
\* becomes durable in one step (the header write), reads see the writes of the
\* running transaction, and a crash at any point, recovery included, brings
\* back the image of the last commit.
Atomicity == TD!Spec

\* begin_trans() loses no wakeup: a process sleeps on &log only while a
\* transaction is active, so some commit_trans() is still to wake it.
SleepersHaveAWaker ==
  \A p \in Proc : pc[p] = "asleep" =>
    busy /\ \E q \in Proc : pc[q] \in Open \cup Committed

\* A block stays pinned (B_DIRTY) from log_write() until install_trans() has
\* written it home: every cached block that differs from its home sector is
\* dirty, or is held by the process that is about to log it.
UnwrittenIsPinned ==
  mode = "up" =>
    \A s \in Sector : Contents(s) # home[s] => s \in dirty \/ Held(s)

\* While the header on disk names a transaction, nobody appends to the log
\* and no other transaction is open: a crash replays only whole transactions.
CommittedLogIsFrozen ==
  [][head.n > 0 => blk' = blk /\ (head' = head \/ head'.n = 0)]_vars

\* Whoever waits in begin_trans() is woken, unless the machine panics.
WaiterWakes ==
  \A p \in Proc : pc[p] = "asleep" ~> pc[p] # "asleep" \/ mode = "panic"

\* Recovery terminates: the machine comes up again and again, unless it
\* keeps crashing or stays in panic().
RecoveryCompletes == []<>(mode # "boot") \/ []<><<Crash>>_vars
-----------------------------------------------------------------------------
(***************************************************************************)
(* The inductive invariant behind Atomicity.                               *)
(***************************************************************************)
InLog(h) == 0 .. (h.n - 1)

Active(p) == pc[p] \in Open \cup Committed \cup {"initlog"}

\* One process at a time between begin_trans() and commit_trans().
OneOwner ==
  /\ \A p, q \in Proc : Active(p) /\ Active(q) => p = q
  /\ mode = "boot" =>
       \A p \in Proc : pc[p] \in {"idle", "initlog", "install", "erase"}
  /\ mode # "boot" => \A p \in Proc : pc[p] # "initlog"
  /\ mode # "boot" => (busy <=> \E p \in Proc : Active(p))

\* Both headers list distinct home sectors.
WellFormed(h) ==
  /\ \A i \in InLog(h) : h.sector[i] \in Sector
  /\ \A i, j \in InLog(h) : h.sector[i] = h.sector[j] => i = j

\* What a process knows about the buffer it is logging.
HeldBuffer ==
  \A p \in Proc :
    /\ pc[p] \in {"modified", "logging"} =>
         cur[p].s \in Sector /\ cache[cur[p].s] # Evicted
    /\ pc[p] = "logging" =>
         /\ cur[p].i <= lh.n
         /\ lh.sector[cur[p].i] = cur[p].s
         /\ cur[p].i = lh.n => \A j \in InLog(lh) : lh.sector[j] # cur[p].s

\* A clean, unheld buffer holds what is on disk; a dirty one is in the log.
CacheCoherent ==
  /\ \A s \in Sector :
       s \notin dirty /\ ~Held(s) => cache[s] \in {Evicted, home[s]}
  /\ \A s \in dirty :
       cache[s] # Evicted /\ \E i \in InLog(lh) : lh.sector[i] = s

Quiet == lh.n = 0 /\ head.n = 0 /\ dirty = {}

\* What holds at each label of the owner.
ByPhase ==
  /\ mode = "boot" => dirty = {} /\ ~busy
  /\ mode # "boot" /\ ~busy => Quiet
  /\ \A p \in Proc :
       /\ pc[p] \in Open =>
            /\ head.n = 0
            /\ \A i \in InLog(lh) :
                 /\ lh.sector[i] \in dirty
                 /\ ~Held(lh.sector[i]) => blk[i] = cache[lh.sector[i]]
       /\ pc[p] = "install" =>
            /\ head.n = lh.n
            /\ tail <= lh.n
            /\ \A i \in InLog(lh) :
                 /\ head.sector[i] = lh.sector[i]
                 /\ i < tail => lh.sector[i] \notin dirty
                                /\ home[lh.sector[i]] = blk[i]
                 /\ mode # "boot" /\ i >= tail =>
                      lh.sector[i] \in dirty /\ cache[lh.sector[i]] = blk[i]
       /\ pc[p] = "erase" =>
            /\ lh.n = 0
            /\ \A i \in InLog(head) : home[head.sector[i]] = blk[i]
       /\ pc[p] = "end" => Quiet

\* The log's states and the owner's program counter agree: one owner, distinct
\* sectors, every unwritten block pinned and logged, and the home sectors
\* complete before the header is erased.
LogInvariant ==
  /\ TypeOK
  /\ OneOwner
  /\ WellFormed(lh)
  /\ WellFormed(head)
  /\ HeldBuffer
  /\ CacheCoherent
  /\ ByPhase
  /\ \A p \in Proc : pc[p] = "asleep" => busy
=============================================================================
