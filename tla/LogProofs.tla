------------------------------ MODULE LogProofs ------------------------------
(***************************************************************************)
(* Proofs about log.c for any set of processes, sectors and contents and   *)
(* any log size: LogInvariant is inductive, what follows from it, and the  *)
(* refinement of TransDisk: transactions are atomic across crashes.        *)
(***************************************************************************)
EXTENDS Log, TLAPS

USE LogAssumption, ZenonT(60)

\* mkfs's zeroed log satisfies the invariant.
LEMMA InitInv == Init => LogInvariant
<1> SUFFICES ASSUME Init PROVE LogInvariant
  OBVIOUS
<1>0. EmptyHeader \in Header /\ NoBuf \in [s : Sector \cup {Block0}, i : LogIndex]
  BY SMTT(60) DEF EmptyHeader, Header, LogIndex, NoBuf
<1>1. TypeOK
  <2>1. blk \in [LogIndex -> Data] /\ cache \in [Sector -> Data \cup {Evicted}]
    BY DEF Init
  <2>2. pc \in [Proc -> Label]
    BY DEF Init, Label
  <2>3. cur \in [Proc -> [s : Sector \cup {Block0}, i : LogIndex]]
    BY <1>0 DEF Init
  <2>4. tail \in 0 .. LOGSIZE
    BY SMTT(60) DEF Init
  <2> QED BY <1>0, <2>1, <2>2, <2>3, <2>4 DEF Init, TypeOK
<1>2. OneOwner
  BY SMTT(60) DEF Init, OneOwner, Active, Open, Committed
<1>3. WellFormed(lh) /\ WellFormed(head)
  BY SMTT(60) DEF Init, WellFormed, InLog, EmptyHeader
<1>4. HeldBuffer /\ CacheCoherent /\ ByPhase
  BY SMTT(60) DEF Init, HeldBuffer, CacheCoherent, ByPhase, Held, Open, InLog, EmptyHeader
<1>5. \A p \in Proc : pc[p] = "asleep" => busy
  BY DEF Init
<1> QED BY <1>1, <1>2, <1>3, <1>4, <1>5 DEF LogInvariant

\* begin_trans(), whether it gets the log or goes to sleep, preserves it.
LEMMA BeginInv ==
  ASSUME LogInvariant, NEW p \in Proc, begin_trans(p) \/ begin_wait(p)
  PROVE  LogInvariant'
<1> USE DEF LogInvariant
<1>1. TypeOK'
  BY DEF TypeOK, begin_trans, begin_wait, Goto, Label, Open, Committed
<1>2. OneOwner'
  BY SMTT(60) DEF TypeOK, OneOwner, Active, begin_trans, begin_wait, Goto, Open, Committed
<1>3. WellFormed(lh)' /\ WellFormed(head)'
  BY DEF begin_trans, begin_wait, WellFormed, InLog
<1>4. HeldBuffer'
  BY SMTT(60) DEF TypeOK, begin_trans, begin_wait, Goto, HeldBuffer, InLog
<1>5. CacheCoherent'
  BY DEF TypeOK, begin_trans, begin_wait, Goto, CacheCoherent, Held, InLog
<1>6. ByPhase'
  BY SMTT(60) DEF TypeOK, OneOwner, Active, begin_trans, begin_wait, Goto, ByPhase, Held, Open,
                  Committed, InLog, Quiet
<1>7. (\A q \in Proc : pc[q] = "asleep" => busy)'
  BY DEF TypeOK, begin_trans, begin_wait, Goto
<1> QED BY <1>1, <1>2, <1>3, <1>4, <1>5, <1>6, <1>7

\* bread() and the change of a block inside a transaction.
LEMMA ModifyInv ==
  ASSUME LogInvariant, NEW p \in Proc, NEW s \in Sector, NEW d \in Data, modify(p, s, d)
  PROVE  LogInvariant'
<1> USE DEF LogInvariant, modify
<1>1. TypeOK'
  BY DEF TypeOK, Header, LogIndex, Goto, Label, Open, Committed
<1>2. OneOwner'
  BY SMTT(60) DEF TypeOK, OneOwner, Active, Goto, Open, Committed
<1>3. WellFormed(lh)' /\ WellFormed(head)'
  BY SMTT(60) DEF TypeOK, Header, LogIndex, WellFormed, InLog
<1>4. HeldBuffer'
  BY SMTT(60) DEF TypeOK, Header, LogIndex, HeldBuffer, Goto, InLog
<1>a. /\ \A q \in Proc : q # p => pc'[q] \notin {"modified", "logging"}
      /\ pc'[p] = "modified" /\ cur'[p].s = s
      /\ \A t \in Sector : ~Held(t)
  BY SMTT(60) DEF TypeOK, OneOwner, Active, Goto, Open, Committed, Held
<1>b. \A t \in Sector : Held(t)' <=> t = s
  BY <1>a DEF Held
<1>5. CacheCoherent'
  BY <1>a, <1>b, SMTT(60) DEF TypeOK, CacheCoherent, InLog
<1>6. ByPhase'
  <2>1. \A i \in InLog(lh) : lh.sector[i] \in dirty
                            /\ (lh.sector[i] # s => blk[i] = cache'[lh.sector[i]])
    BY <1>a, SMTT(60) DEF TypeOK, ByPhase, WellFormed, Open
  <2>2. \A q \in Proc : q # p => ~Active(q) /\ pc'[q] = pc[q]
    BY DEF TypeOK, OneOwner, Active, Goto, Open
  <2>3. head.n = 0 /\ busy /\ mode # "boot"
    BY DEF ByPhase, OneOwner, Active, Open
  <2> QED BY <1>a, <1>b, <2>1, <2>2, <2>3, SMTT(60) DEF ByPhase, WellFormed, Active, Open, Committed,
                                              InLog
<1>7. (\A q \in Proc : pc[q] = "asleep" => busy)'
  BY DEF TypeOK, OneOwner, Active, Goto, Open, Committed
<1> QED BY <1>1, <1>2, <1>3, <1>4, <1>5, <1>6, <1>7

\* log_write() up to the write of the log block.
LEMMA LogWriteInv ==
  ASSUME LogInvariant, NEW p \in Proc, log_write(p)
  PROVE  LogInvariant'
<1> USE DEF LogInvariant, log_write, StopsAt, Full
<1>a. PICK i \in 0 .. lh.n :
        /\ StopsAt(cur[p].s, i)
        /\ lh' = [lh EXCEPT !.sector[i] = cur[p].s]
        /\ cur' = [cur EXCEPT ![p].i = i]
  OBVIOUS
<1>b. /\ lh.n \in Nat /\ lh.n < LOGSIZE /\ i \in LogIndex
      /\ lh'.n = lh.n
      /\ lh'.sector = [lh.sector EXCEPT ![i] = cur[p].s]
      /\ cur[p].s \in Sector
      /\ lh.sector \in [LogIndex -> Sector \cup {Block0}]
  BY <1>a, SMTT(60) DEF TypeOK, Header, LogIndex, HeldBuffer
<1>c. /\ pc'[p] = "logging"
      /\ \A q \in Proc : cur'[q].s = cur[q].s
      /\ \A q \in Proc : q # p => pc'[q] = pc[q] /\ cur'[q] = cur[q]
      /\ cur'[p].i = i
  BY <1>a, SMTT(60) DEF TypeOK, Goto
<1>d. \A t \in Sector : Held(t)' <=> Held(t)
  BY <1>c DEF Held
<1>e. \A j \in InLog(lh) : lh'.sector[j] = lh.sector[j]
  BY <1>a, <1>b, SMTT(60) DEF InLog, LogIndex
<1>1. TypeOK'
  <2>1. lh' \in Header
    BY <1>a, <1>b DEF TypeOK, Header
  <2>2. cur' \in [Proc -> [s : Sector \cup {Block0}, i : LogIndex]]
    BY <1>a, <1>b, SMTT(60) DEF TypeOK
  <2> QED BY <2>1, <2>2 DEF TypeOK, Goto, Label, Open, Committed
<1>2. OneOwner'
  BY SMTT(60) DEF TypeOK, OneOwner, Active, Goto, Open, Committed
<1>3. WellFormed(lh)' /\ WellFormed(head)'
  BY <1>b, <1>e, SMTT(60) DEF WellFormed, InLog
<1>4. HeldBuffer'
  <2>1. lh'.sector[i] = cur[p].s
    BY <1>b
  <2>2. i = lh.n => \A j \in InLog(lh) : lh.sector[j] # cur[p].s
    BY <1>a, <1>b, SMTT(60) DEF InLog, StopsAt
  <2>3. \A q \in Proc : q # p => pc'[q] \notin {"modified", "logging"}
    BY <1>c, SMTT(60) DEF OneOwner, Active, Open
  <2> QED BY <1>a, <1>b, <1>c, <1>e, <2>1, <2>2, <2>3, SMTT(60) DEF HeldBuffer, InLog
<1>5. CacheCoherent'
  BY <1>b, <1>d, <1>e, SMTT(60) DEF TypeOK, CacheCoherent, InLog
<1>6. ByPhase'
  BY <1>b, <1>c, <1>d, <1>e, SMTT(60) DEF TypeOK, OneOwner, Active, ByPhase, WellFormed, Open, Committed,
                                InLog, Quiet
<1>7. (\A q \in Proc : pc[q] = "asleep" => busy)'
  BY DEF TypeOK, OneOwner, Active, Goto, Open, Committed
<1> QED BY <1>1, <1>2, <1>3, <1>4, <1>5, <1>6, <1>7

\* The panics of log_write().
LEMMA PanicInv ==
  ASSUME LogInvariant, NEW p \in Proc, log_write_panic(p)
  PROVE  LogInvariant'
<1> USE DEF LogInvariant, log_write_panic
<1>1. TypeOK'
  BY DEF TypeOK, Header, LogIndex, Goto, Label, Open, Committed
<1>2. OneOwner'
  BY DEF TypeOK, OneOwner, Active, Goto, Open, Committed
<1>3. WellFormed(lh)' /\ WellFormed(head)'
  BY SMTT(60) DEF TypeOK, Header, LogIndex, WellFormed, InLog
<1>4. HeldBuffer'
  BY DEF TypeOK, Header, LogIndex, HeldBuffer, Goto, InLog
<1>5. CacheCoherent'
  BY DEF TypeOK, Header, LogIndex, CacheCoherent, HeldBuffer, Held, Goto, InLog
<1>6. ByPhase'
  BY SMTT(60) DEF TypeOK, Header, LogIndex, OneOwner, Active, ByPhase, HeldBuffer,
                  CacheCoherent, WellFormed, Held, Goto, Open, Committed, InLog, Quiet
<1>7. (\A q \in Proc : pc[q] = "asleep" => busy)'
  BY DEF TypeOK, OneOwner, Active, Goto, Open, Committed
<1> QED BY <1>1, <1>2, <1>3, <1>4, <1>5, <1>6, <1>7

\* The second half of log_write().
LEMMA AppendInv ==
  ASSUME LogInvariant, NEW p \in Proc, log_append(p)
  PROVE  LogInvariant'
<1> USE DEF LogInvariant, log_append
<1>a. /\ cur[p].i \in LogIndex /\ cur[p].i \in 0 .. lh.n /\ cur[p].s \in Sector
      /\ lh.n \in 0 .. LOGSIZE /\ lh'.sector = lh.sector
      /\ lh'.n \in Nat /\ lh.n <= lh'.n /\ lh'.n <= LOGSIZE
      /\ lh'.n = IF cur[p].i = lh.n THEN lh.n + 1 ELSE lh.n
      /\ lh.sector[cur[p].i] = cur[p].s
      /\ cache[cur[p].s] \in Data
  BY SMTT(60) DEF TypeOK, Header, LogIndex, HeldBuffer
<1>b. /\ \A t \in Sector : Held(t) <=> t = cur[p].s
      /\ \A t \in Sector : ~Held(t)'
      /\ \A q \in Proc : q # p => ~Active(q) /\ pc'[q] = pc[q]
      /\ pc'[p] = "trans"
  BY DEF TypeOK, OneOwner, Active, Goto, Open, Committed, Held
<1>c. \A j \in InLog(lh)' : (j \in InLog(lh) \/ j = cur[p].i) /\ j \in LogIndex
  BY <1>a, SMTT(60) DEF InLog, LogIndex
<1>1. TypeOK'
  <2>1. lh' \in Header
    BY <1>a, SMTT(60) DEF TypeOK, Header
  <2>2. NoBuf \in [s : Sector \cup {Block0}, i : LogIndex]
    BY SMTT(60) DEF NoBuf, LogIndex
  <2> QED BY <1>a, <2>1, <2>2 DEF TypeOK, Goto, Label, Open, Committed
<1>2. OneOwner'
  BY SMTT(60) DEF TypeOK, OneOwner, Active, Goto, Open, Committed
<1>3. WellFormed(lh)' /\ WellFormed(head)'
  BY <1>a, <1>c, SMTT(60) DEF WellFormed, HeldBuffer, InLog
<1>4. HeldBuffer'
  BY SMTT(60) DEF TypeOK, Header, LogIndex, HeldBuffer, Goto, InLog
<1>5. CacheCoherent'
  <2>1. \A t \in dirty' : cache'[t] # Evicted /\ \E i \in InLog(lh)' : lh'.sector[i] = t
    <3>1. cur[p].i \in InLog(lh)'
      BY <1>a, SMTT(60) DEF InLog
    <3>2. \A i \in InLog(lh) : i \in InLog(lh)'
      BY <1>a, SMTT(60) DEF InLog
    <3> QED BY <1>a, <3>1, <3>2, SMTT(60) DEF CacheCoherent, HeldBuffer
  <2>2. \A t \in Sector : t \notin dirty' => cache'[t] \in {Evicted, home'[t]}
    BY <1>b DEF CacheCoherent
  <2> QED BY <2>1, <2>2 DEF CacheCoherent
<1>6. ByPhase'
  <2>1. \A j \in InLog(lh)' :
          lh'.sector[j] \in dirty' /\ blk'[j] = cache'[lh'.sector[j]]
    <3> SUFFICES ASSUME NEW j \in InLog(lh)'
                 PROVE  lh'.sector[j] \in dirty' /\ blk'[j] = cache'[lh'.sector[j]]
      OBVIOUS
    <3>1. CASE j = cur[p].i
      BY <1>a, <3>1, SMTT(60) DEF TypeOK
    <3>2. CASE j # cur[p].i
      <4>1. j \in InLog(lh) /\ j \in LogIndex
        BY <1>c, <3>2
      <4>2. lh.sector[j] # cur[p].s
        BY <1>a, <3>2, <4>1, SMTT(60) DEF WellFormed, HeldBuffer, InLog
      <4>3. lh.sector[j] \in Sector /\ ~Held(lh.sector[j])
        BY <1>b, <4>1, <4>2 DEF WellFormed
      <4> QED BY <1>a, <3>2, <4>1, <4>3, SMTT(60) DEF ByPhase, Open, TypeOK
    <3> QED BY <3>1, <3>2
  <2>2. head'.n = 0 /\ mode' # "boot" /\ busy'
    BY DEF ByPhase, Open, OneOwner, Active
  <2> QED BY <1>b, <2>1, <2>2, SMTT(60) DEF ByPhase, Active, Open, Committed
<1>7. (\A q \in Proc : pc[q] = "asleep" => busy)'
  BY DEF TypeOK, OneOwner, Active, Goto, Open, Committed
<1> QED BY <1>1, <1>2, <1>3, <1>4, <1>5, <1>6, <1>7

\* The commit point.
LEMMA CommitHeadInv ==
  ASSUME LogInvariant, NEW p \in Proc, commit_head(p)
  PROVE  LogInvariant'
<1> USE DEF LogInvariant, commit_head, write_head
<1>1. TypeOK'
  BY SMTT(60) DEF TypeOK, Header, LogIndex, Goto, Label, Open, Committed
<1>2. OneOwner'
  BY SMTT(60) DEF TypeOK, OneOwner, Active, Goto, Open, Committed
<1>3. WellFormed(lh)' /\ WellFormed(head)'
  BY SMTT(60) DEF TypeOK, Header, LogIndex, WellFormed, InLog
<1>4. HeldBuffer'
  BY DEF TypeOK, Header, LogIndex, HeldBuffer, Goto, InLog
<1>5. CacheCoherent'
  BY DEF TypeOK, Header, LogIndex, CacheCoherent, HeldBuffer, Held, Goto, InLog
<1>6. ByPhase'
  <2>1. /\ head'.n = lh.n /\ lh.n \in 0 .. LOGSIZE
        /\ \A i \in InLog(lh) : head'.sector[i] = lh.sector[i]
    BY SMTT(60) DEF TypeOK, Header, LogIndex, InLog
  <2>2. /\ \A q \in Proc : q # p => ~Active(q) /\ pc'[q] = pc[q]
        /\ pc'[p] = "install" /\ \A t \in Sector : ~Held(t)
    BY DEF TypeOK, OneOwner, Active, Goto, Open, Committed, Held
  <2>3. \A i \in InLog(lh) : /\ lh.sector[i] \in dirty
                             /\ blk[i] = cache[lh.sector[i]]
    BY <2>2 DEF ByPhase, Open, WellFormed
  <2>4. busy /\ mode = "up"
    BY DEF OneOwner, Active, Open
  <2> QED BY <2>1, <2>2, <2>3, <2>4, SMTT(60) DEF ByPhase, Active, Open, Committed, InLog
<1>7. (\A q \in Proc : pc[q] = "asleep" => busy)'
  BY DEF TypeOK, OneOwner, Active, Goto, Open, Committed
<1> QED BY <1>1, <1>2, <1>3, <1>4, <1>5, <1>6, <1>7

\* An empty transaction.
LEMMA CommitEmptyInv ==
  ASSUME LogInvariant, NEW p \in Proc, commit_empty(p)
  PROVE  LogInvariant'
<1> USE DEF LogInvariant, commit_empty
<1>1. TypeOK'
  BY DEF TypeOK, Header, LogIndex, Goto, Label, Open, Committed
<1>2. OneOwner'
  BY SMTT(60) DEF TypeOK, OneOwner, Active, Goto, Open, Committed
<1>3. WellFormed(lh)' /\ WellFormed(head)'
  BY SMTT(60) DEF TypeOK, Header, LogIndex, WellFormed, InLog
<1>4. HeldBuffer'
  BY SMTT(60) DEF TypeOK, Header, LogIndex, HeldBuffer, Goto, InLog
<1>5. CacheCoherent'
  BY DEF TypeOK, Header, LogIndex, CacheCoherent, HeldBuffer, Held, Goto, InLog
<1>6. ByPhase'
  BY SMTT(60) DEF TypeOK, Header, LogIndex, OneOwner, Active, ByPhase, HeldBuffer, CacheCoherent,
         WellFormed, Held, Goto, Open, Committed, InLog, Quiet
<1>7. (\A q \in Proc : pc[q] = "asleep" => busy)'
  BY DEF TypeOK, OneOwner, Active, Goto, Open, Committed
<1> QED BY <1>1, <1>2, <1>3, <1>4, <1>5, <1>6, <1>7

\* One iteration of install_trans().
LEMMA InstallInv ==
  ASSUME LogInvariant, NEW p \in Proc, install_trans(p)
  PROVE  LogInvariant'
<1> USE DEF LogInvariant, install_trans
<1>1. TypeOK'
  BY SMTT(60) DEF TypeOK, Header, LogIndex, WellFormed, InLog
<1>2. OneOwner'
  BY DEF TypeOK, OneOwner, Active, Goto, Open, Committed
<1>3. WellFormed(lh)' /\ WellFormed(head)'
  BY SMTT(60) DEF TypeOK, Header, LogIndex, WellFormed, InLog
<1>4. HeldBuffer'
  BY SMTT(60) DEF TypeOK, Header, LogIndex, HeldBuffer, Goto, InLog
<1>5. CacheCoherent'
  BY SMTT(60) DEF TypeOK, Header, LogIndex, CacheCoherent, HeldBuffer, Held, Goto, InLog
<1>6. ByPhase'
  BY SMTT(60) DEF TypeOK, Header, LogIndex, OneOwner, Active, ByPhase, HeldBuffer, CacheCoherent,
         WellFormed, Held, Goto, Open, Committed, InLog, Quiet
<1>7. (\A q \in Proc : pc[q] = "asleep" => busy)'
  BY DEF TypeOK, OneOwner, Active, Goto, Open, Committed
<1> QED BY <1>1, <1>2, <1>3, <1>4, <1>5, <1>6, <1>7

\* log.lh.n = 0.
LEMMA ResetInv ==
  ASSUME LogInvariant, NEW p \in Proc, reset(p)
  PROVE  LogInvariant'
<1> USE DEF LogInvariant, reset
<1>1. TypeOK'
  <2>1. lh' \in Header
    BY SMTT(60) DEF TypeOK, Header
  <2> QED BY <2>1 DEF TypeOK, Goto, Label, Open, Committed
<1>2. OneOwner'
  BY SMTT(60) DEF TypeOK, OneOwner, Active, Goto, Open, Committed
<1>3. WellFormed(lh)' /\ WellFormed(head)'
  BY SMTT(60) DEF TypeOK, Header, LogIndex, WellFormed, InLog
<1>4. HeldBuffer'
  BY SMTT(60) DEF TypeOK, Header, LogIndex, OneOwner, Active, Open, Committed, HeldBuffer, Goto, InLog
<1>5. CacheCoherent'
  BY SMTT(60) DEF TypeOK, Header, LogIndex, OneOwner, Active, Open, Committed, ByPhase,
                  CacheCoherent, Held, Goto, InLog
<1>6. ByPhase'
  BY SMTT(60) DEF TypeOK, Header, LogIndex, OneOwner, Active, ByPhase, HeldBuffer, CacheCoherent,
         WellFormed, Held, Goto, Open, Committed, InLog, Quiet
<1>7. (\A q \in Proc : pc[q] = "asleep" => busy)'
  BY SMTT(60) DEF TypeOK, OneOwner, Active, Goto, Open, Committed
<1> QED BY <1>1, <1>2, <1>3, <1>4, <1>5, <1>6, <1>7

\* The erasing write_head().
LEMMA EraseInv ==
  ASSUME LogInvariant, NEW p \in Proc, erase(p)
  PROVE  LogInvariant'
<1> USE DEF LogInvariant, erase, write_head
<1>1. TypeOK'
  BY DEF TypeOK, Header, LogIndex, Goto, Label, Open, Committed
<1>2. OneOwner'
  BY SMTT(60) DEF TypeOK, OneOwner, ByPhase, Active, Goto, Open, Committed
<1>3. WellFormed(lh)' /\ WellFormed(head)'
  BY SMTT(60) DEF TypeOK, Header, LogIndex, WellFormed, InLog
<1>4. HeldBuffer'
  BY DEF TypeOK, Header, LogIndex, HeldBuffer, Goto, InLog
<1>5. CacheCoherent'
  BY DEF TypeOK, Header, LogIndex, CacheCoherent, HeldBuffer, Held, Goto, InLog
<1>6. ByPhase'
  BY SMTT(60) DEF TypeOK, Header, LogIndex, OneOwner, Active, ByPhase, HeldBuffer,
                  CacheCoherent, WellFormed, Held, Goto, Open, Committed, InLog, Quiet
<1>7. (\A q \in Proc : pc[q] = "asleep" => busy)'
  BY SMTT(60) DEF TypeOK, OneOwner, Active, Goto, Open, Committed
<1> QED BY <1>1, <1>2, <1>3, <1>4, <1>5, <1>6, <1>7

\* The end of commit_trans().
LEMMA DoneInv ==
  ASSUME LogInvariant, NEW p \in Proc, commit_done(p)
  PROVE  LogInvariant'
<1> USE DEF LogInvariant, commit_done
<1>1. TypeOK'
  BY DEF TypeOK, Header, LogIndex, Goto, Label, Open, Committed
<1>2. OneOwner'
  BY SMTT(60) DEF TypeOK, OneOwner, Active, Goto, Open, Committed
<1>3. WellFormed(lh)' /\ WellFormed(head)'
  BY SMTT(60) DEF TypeOK, Header, LogIndex, WellFormed, InLog
<1>4. HeldBuffer'
  BY DEF TypeOK, Header, LogIndex, HeldBuffer, Goto, InLog
<1>5. CacheCoherent'
  BY DEF TypeOK, Header, LogIndex, CacheCoherent, HeldBuffer, Held, Goto, InLog
<1>6. ByPhase'
  BY SMTT(60) DEF TypeOK, Header, LogIndex, OneOwner, Active, ByPhase, HeldBuffer, CacheCoherent,
         WellFormed, Held, Goto, Open, Committed, InLog, Quiet
<1>7. (\A q \in Proc : pc[q] = "asleep" => busy)'
  BY DEF TypeOK, OneOwner, Active, Goto, Open, Committed
<1> QED BY <1>1, <1>2, <1>3, <1>4, <1>5, <1>6, <1>7

\* read_head() at boot.
LEMMA ReadHeadInv ==
  ASSUME LogInvariant, NEW p \in Proc, read_head(p)
  PROVE  LogInvariant'
<1> USE DEF LogInvariant, read_head
<1>1. TypeOK'
  BY SMTT(60) DEF TypeOK, Header, LogIndex, Goto, Label, Open, Committed
<1>2. OneOwner'
  BY SMTT(60) DEF TypeOK, OneOwner, Active, Goto, Open, Committed
<1>3. WellFormed(lh)' /\ WellFormed(head)'
  BY SMTT(60) DEF TypeOK, Header, LogIndex, WellFormed, InLog
<1>4. HeldBuffer'
  BY SMTT(60) DEF TypeOK, Header, LogIndex, OneOwner, Active, Open, Committed, HeldBuffer, Goto, InLog
<1>5. CacheCoherent'
  BY DEF TypeOK, Header, LogIndex, OneOwner, Active, Open, Committed, ByPhase,
                  CacheCoherent, Held, Goto, InLog
<1>6. ByPhase'
  BY SMTT(60) DEF TypeOK, Header, LogIndex, OneOwner, Active, ByPhase, HeldBuffer,
                  CacheCoherent, WellFormed, Held, Goto, Open, Committed, InLog, Quiet
<1>7. (\A q \in Proc : pc[q] = "asleep" => busy)'
  BY DEF TypeOK, OneOwner, Active, Goto, Open, Committed
<1> QED BY <1>1, <1>2, <1>3, <1>4, <1>5, <1>6, <1>7

\* Readers filling the cache and bget() recycling a buffer.
LEMMA CacheInv ==
  ASSUME LogInvariant, NEW s \in Sector, bread(s) \/ evict(s)
  PROVE  LogInvariant'
<1> USE DEF LogInvariant, bread, evict
<1>1. TypeOK'
  BY SMTT(60) DEF TypeOK, Header, LogIndex, Goto, Label, Open, Committed
<1>2. OneOwner'
  BY SMTT(60) DEF TypeOK, OneOwner, Active, Goto, Open, Committed
<1>3. WellFormed(lh)' /\ WellFormed(head)'
  BY DEF TypeOK, Header, LogIndex, WellFormed, InLog
<1>4. HeldBuffer'
  BY SMTT(60) DEF TypeOK, HeldBuffer, Held, InLog
<1>a. \A t \in Sector : Held(t)' <=> Held(t)
  BY DEF Held
<1>5. CacheCoherent'
  BY <1>a, SMTT(60) DEF TypeOK, CacheCoherent, InLog
<1>6. ByPhase'
  BY <1>a, SMTT(60) DEF TypeOK, ByPhase, CacheCoherent, WellFormed, InLog, Quiet
<1>7. (\A q \in Proc : pc[q] = "asleep" => busy)'
  BY DEF TypeOK, OneOwner, Active, Goto, Open, Committed
<1> QED BY <1>1, <1>2, <1>3, <1>4, <1>5, <1>6, <1>7

\* A crash loses the memory; the disk already satisfies what boot expects.
LEMMA CrashInv == LogInvariant /\ Crash => LogInvariant'
<1> SUFFICES ASSUME LogInvariant, Crash PROVE LogInvariant'
  OBVIOUS
<1> USE DEF LogInvariant, Crash, disk
<1>0. EmptyHeader \in Header /\ NoBuf \in [s : Sector \cup {Block0}, i : LogIndex]
  BY SMTT(60) DEF EmptyHeader, Header, LogIndex, NoBuf
<1>1. TypeOK'
  <2>1. tail' \in 0 .. LOGSIZE /\ dirty' \in SUBSET Sector
    BY SMTT(60)
  <2>2. pc' \in [Proc -> Label]
    BY DEF Label
  <2>3. cur' \in [Proc -> [s : Sector \cup {Block0}, i : LogIndex]]
    BY <1>0
  <2>4. cache' \in [Sector -> Data \cup {Evicted}]
    OBVIOUS
  <2> QED BY <1>0, <2>1, <2>2, <2>3, <2>4 DEF TypeOK
<1>2. OneOwner'
  BY SMTT(60) DEF OneOwner, Active, Open, Committed
<1>3. WellFormed(lh)' /\ WellFormed(head)'
  BY SMTT(60) DEF WellFormed, InLog, EmptyHeader
<1>4. HeldBuffer' /\ CacheCoherent' /\ ByPhase'
  BY SMTT(60) DEF HeldBuffer, CacheCoherent, ByPhase, Held, Open, InLog, EmptyHeader
<1>5. (\A p \in Proc : pc[p] = "asleep" => busy)'
  OBVIOUS
<1> QED BY <1>1, <1>2, <1>3, <1>4, <1>5

\* A step that changes nothing preserves it.
LEMMA StutterInv == LogInvariant /\ UNCHANGED vars => LogInvariant'
<1> SUFFICES ASSUME LogInvariant, UNCHANGED vars PROVE LogInvariant'
  OBVIOUS
<1> USE DEF LogInvariant, vars
<1>1. TypeOK'
  BY DEF TypeOK
<1>2. OneOwner'
  BY DEF OneOwner, Active
<1>3. WellFormed(lh)' /\ WellFormed(head)'
  BY SMTT(60) DEF WellFormed, InLog
<1>4. HeldBuffer'
  BY DEF HeldBuffer, Held, InLog
<1>5. CacheCoherent'
  BY DEF CacheCoherent, Held, InLog
<1>6. ByPhase'
  BY SMTT(60) DEF ByPhase, Quiet, InLog, Held
<1>7. (\A p \in Proc : pc[p] = "asleep" => busy)'
  OBVIOUS
<1> QED BY <1>1, <1>2, <1>3, <1>4, <1>5, <1>6, <1>7

\* The log's invariant holds in every state of every execution of log.c's
\* operations, whatever the number of processes and the size of the log.
THEOREM LogInvariantHolds == Spec => []LogInvariant
<1>1. LogInvariant /\ [Next]_vars => LogInvariant'
  <2> SUFFICES ASSUME LogInvariant, [Next]_vars PROVE LogInvariant'
    OBVIOUS
  <2>1. ASSUME NEW p \in Proc, Step(p) PROVE LogInvariant'
    BY <2>1, BeginInv, ModifyInv, LogWriteInv, PanicInv, AppendInv, CommitHeadInv,
       CommitEmptyInv, InstallInv, ResetInv, EraseInv, DoneInv, ReadHeadInv DEF Step
  <2>2. ASSUME NEW s \in Sector, bread(s) \/ evict(s) PROVE LogInvariant'
    BY <2>2, CacheInv
  <2> QED BY <2>1, <2>2, CrashInv, StutterInv DEF Next
<1> QED BY InitInv, <1>1, PTL DEF Spec

-----------------------------------------------------------------------------
\* begin_trans() loses no wakeup.
THEOREM SleepersHaveAWakerHolds == Spec => []SleepersHaveAWaker
<1>1. LogInvariant => SleepersHaveAWaker
  BY DEF LogInvariant, TypeOK, OneOwner, ByPhase, Active, SleepersHaveAWaker
<1> QED BY <1>1, LogInvariantHolds, PTL

\* A logged block stays pinned in the cache until it is home.
THEOREM UnwrittenIsPinnedHolds == Spec => []UnwrittenIsPinned
<1>1. LogInvariant => UnwrittenIsPinned
  BY DEF LogInvariant, CacheCoherent, UnwrittenIsPinned, Contents
<1> QED BY <1>1, LogInvariantHolds, PTL

\* While the header on disk names a transaction, the log is not written and
\* the header can only be erased.
THEOREM CommittedLogIsFrozenHolds == Spec => CommittedLogIsFrozen
<1> DEFINE Frozen == head.n > 0 => blk' = blk /\ (head' = head \/ head'.n = 0)
<1>1. LogInvariant /\ [Next]_vars => [Frozen]_vars
  <2> SUFFICES ASSUME LogInvariant, Next, head.n > 0
               PROVE  blk' = blk /\ (head' = head \/ head'.n = 0)
    OBVIOUS
  <2>0. head.n # 0
    BY SMTT(60) DEF LogInvariant, TypeOK, Header
  <2>1. \A p \in Proc : pc[p] \notin Open
    BY <2>0 DEF LogInvariant, ByPhase
  <2>2. \A p \in Proc : pc[p] = "erase" => lh.n = 0
    BY DEF LogInvariant, ByPhase
  <2>3. ASSUME NEW p \in Proc, Step(p)
        PROVE  blk' = blk /\ (head' = head \/ head'.n = 0)
    BY <2>1, <2>2, <2>3, SMTT(60)
       DEF Open, Step, begin_trans, begin_wait, modify, log_write, log_write_panic,
           log_append, commit_head, commit_empty, install_trans, reset, erase,
           commit_done, read_head, write_head
  <2> QED BY <2>3 DEF Next, bread, evict, Crash, disk
<1> QED BY <1>1, LogInvariantHolds, PTL DEF CommittedLogIsFrozen, Spec
-----------------------------------------------------------------------------
\* The overlay of the header's sectors, spelled out.
RecoveryOverlay ==
  WellFormed(head) /\ head \in Header =>
    /\ \A i \in InLog(head) : Recovered[head.sector[i]] = blk[i]
    /\ \A s \in Sector :
         (\A i \in InLog(head) : head.sector[i] # s) => Recovered[s] = home[s]

\* The replay of the header's entries has the overlay's two properties:
\* distinct entries are what makes the CHOOSE in Recovered unambiguous.
LEMMA RecoveredAt == RecoveryOverlay
<1> SUFFICES ASSUME WellFormed(head), head \in Header
             PROVE  /\ \A i \in InLog(head) : Recovered[head.sector[i]] = blk[i]
                    /\ \A s \in Sector :
                         (\A i \in InLog(head) : head.sector[i] # s)
                           => Recovered[s] = home[s]
  BY DEF RecoveryOverlay
<1>1. ASSUME NEW i \in InLog(head) PROVE Recovered[head.sector[i]] = blk[i]
  <2> DEFINE s == head.sector[i]
             c == CHOOSE j \in 0 .. (head.n - 1) : head.sector[j] = s
  <2>1. s \in Sector
    BY DEF WellFormed
  <2>2. c \in InLog(head) /\ head.sector[c] = s
    BY DEF InLog
  <2>3. c = i
    BY <2>2 DEF WellFormed
  <2> HIDE DEF c
  <2>4. Recovered[s] = blk[c]
    BY <2>1 DEF Recovered, InLog, c
  <2> QED BY <2>3, <2>4
<1>2. ASSUME NEW s \in Sector, \A i \in InLog(head) : head.sector[i] # s
      PROVE  Recovered[s] = home[s]
  BY <1>2 DEF Recovered, InLog
<1> QED BY <1>1, <1>2

\* The same in the next state.
LEMMA RecoveredAtNext == RecoveryOverlay'
BY RecoveredAt, PTL

\* With an erased header, recovery does nothing.
LEMMA RecoveredQuiet ==
  ASSUME LogInvariant, head.n = 0
  PROVE  Recovered = home
BY SMTT(60) DEF LogInvariant, TypeOK, Recovered

\* Recovery depends on the disk only.
LEMMA RecoveredSame == UNCHANGED disk => Recovered' = Recovered
BY SMTT(60) DEF Recovered, disk

\* The abstract phase is the owner's label.
LEMMA PhaseOf ==
  ASSUME LogInvariant
  PROVE  /\ mode = "boot" => Phase = "none"
         /\ mode # "boot" /\ ~busy => Phase = "none"
         /\ \A p \in Proc : mode # "boot" /\ pc[p] \in Open => Phase = "open"
         /\ \A p \in Proc : mode # "boot" /\ pc[p] \in Committed => Phase = "committed"
BY DEF LogInvariant, OneOwner, Active, Phase, Open, Committed

\* The same in the next state.
LEMMA PhaseOfNext ==
  ASSUME LogInvariant'
  PROVE  /\ mode' = "boot" => Phase' = "none"
         /\ mode' # "boot" /\ ~busy' => Phase' = "none"
         /\ \A p \in Proc : mode' # "boot" /\ pc'[p] \in Open => Phase' = "open"
         /\ \A p \in Proc : mode' # "boot" /\ pc'[p] \in Committed => Phase' = "committed"
BY DEF LogInvariant, OneOwner, Active, Phase, Open, Committed

\* RecoveredQuiet in the next state.
LEMMA RecoveredQuietNext ==
  ASSUME LogInvariant', head'.n = 0
  PROVE  Recovered' = home'
BY SMTT(60) DEF LogInvariant, TypeOK, Recovered

\* With a quiet log, what bread() shows is what is on disk.
LEMMA ViewQuiet ==
  ASSUME LogInvariant, dirty = {}, \A s \in Sector : ~Held(s), mode # "boot"
  PROVE  View = home
<1>1. \A s \in Sector : Contents(s) = home[s]
  BY DEF LogInvariant, CacheCoherent, Contents
<1> QED BY <1>1 DEF View, LogInvariant, TypeOK

\* begin_trans() starts an abstract transaction.
LEMMA BeginRefines ==
  ASSUME LogInvariant, LogInvariant', NEW p \in Proc, begin_trans(p)
  PROVE  TD!Begin
<1>1. Phase = "none" /\ Phase' = "open"
  BY PhaseOf, PhaseOfNext DEF begin_trans, Goto, Open, LogInvariant, TypeOK
<1>2. Recovered' = Recovered
  BY RecoveredSame DEF begin_trans, disk
<1>3. View' = View
  BY <1>2 DEF View, Contents, begin_trans
<1> QED BY <1>1, <1>2, <1>3, SMTT(60) DEF TD!Begin

\* The change of a cached block is an abstract write.
LEMMA ModifyRefines ==
  ASSUME LogInvariant, LogInvariant', NEW p \in Proc, NEW s \in Sector,
         NEW d \in Data, modify(p, s, d)
  PROVE  TD!Write(s, d)
<1>1. Phase = "open" /\ Phase' = "open"
  BY PhaseOf, PhaseOfNext DEF modify, Goto, Open, LogInvariant, TypeOK
<1>2. Recovered' = Recovered
  BY RecoveredSame DEF modify, disk
<1>3. View' = [View EXCEPT ![s] = d]
  BY DEF View, Contents, modify, LogInvariant, TypeOK
<1> QED BY <1>1, <1>2, <1>3 DEF TD!Write

\* Steps of the owner that the abstract disk does not see.
LEMMA OpenStepStutters ==
  ASSUME LogInvariant, LogInvariant', NEW p \in Proc,
         log_write(p) \/ log_write_panic(p) \/ log_append(p) \/ begin_wait(p)
  PROVE  UNCHANGED TD!vars
<1>1. Phase' = Phase
  <2>1. CASE begin_wait(p)
    BY <2>1 DEF begin_wait, Goto, Phase, Open, Committed, LogInvariant, TypeOK
  <2>2. CASE log_write(p) \/ log_write_panic(p) \/ log_append(p)
    BY <2>2, PhaseOf, PhaseOfNext
       DEF log_write, log_write_panic, log_append, Goto, Open, LogInvariant, TypeOK
  <2> QED BY <2>1, <2>2
<1>2. Recovered' = Recovered
  <2>1. CASE log_append(p)
    <3>1. head.n = 0 /\ head' = head /\ home' = home
      BY <2>1 DEF log_append, LogInvariant, ByPhase, Open
    <3> QED BY <3>1, RecoveredQuiet, RecoveredQuietNext
  <2>2. CASE log_write(p) \/ log_write_panic(p) \/ begin_wait(p)
    BY <2>2, RecoveredSame DEF log_write, log_write_panic, begin_wait, disk
  <2> QED BY <2>1, <2>2
<1>3. View' = View
  BY <1>2 DEF View, Contents, begin_wait, log_write, log_write_panic, log_append
<1> QED BY <1>1, <1>2, <1>3 DEF TD!vars

\* Before the header write, the cached blocks of the transaction are exactly
\* the log's blocks, and all other blocks are as on disk.
LEMMA CommitHeadFacts ==
  ASSUME LogInvariant, NEW p \in Proc, commit_head(p)
  PROVE  /\ \A i \in InLog(lh) : /\ head'.sector[i] = lh.sector[i]
                                 /\ blk[i] = cache[lh.sector[i]]
                                 /\ cache[lh.sector[i]] # Evicted
                                 /\ lh.sector[i] \in Sector
         /\ \A s \in Sector :
              (\A i \in InLog(lh) : lh.sector[i] # s) => Contents(s) = home[s]
<1>1. \A s \in Sector : ~Held(s)
  BY DEF LogInvariant, OneOwner, Active, Open, Held, commit_head
<1>2. ASSUME NEW i \in InLog(lh)
      PROVE  /\ blk[i] = cache[lh.sector[i]]
             /\ cache[lh.sector[i]] # Evicted
             /\ lh.sector[i] \in Sector
  <2>1. lh.sector[i] \in Sector
    BY DEF LogInvariant, WellFormed
  <2>2. lh.sector[i] \in dirty /\ (~Held(lh.sector[i]) => blk[i] = cache[lh.sector[i]])
    BY DEF LogInvariant, ByPhase, commit_head, Open
  <2>3. cache[lh.sector[i]] # Evicted
    BY <2>2 DEF LogInvariant, CacheCoherent
  <2> QED BY <1>1, <2>1, <2>2, <2>3
<1>3. ASSUME NEW i \in InLog(lh) PROVE head'.sector[i] = lh.sector[i]
  <2>1. i \in LogIndex /\ i < lh.n
    BY SMTT(60) DEF LogInvariant, TypeOK, Header, LogIndex, InLog
  <2> QED BY <2>1 DEF commit_head, write_head
<1>4. \A s \in Sector : (\A i \in InLog(lh) : lh.sector[i] # s) => Contents(s) = home[s]
  BY <1>1 DEF LogInvariant, CacheCoherent, Contents
<1> QED BY <1>2, <1>3, <1>4

\* The header write makes the whole view durable.
LEMMA CommitHeadRefines ==
  ASSUME LogInvariant, LogInvariant', NEW p \in Proc, commit_head(p)
  PROVE  TD!Commit
<1>1. Phase = "open" /\ Phase' = "committed"
  BY PhaseOf, PhaseOfNext DEF commit_head, Goto, Open, Committed, LogInvariant, TypeOK
<1>2. View' = View
  BY DEF View, Contents, commit_head
<1>3. /\ \A i \in InLog(head)' : Recovered'[head'.sector[i]] = blk'[i]
      /\ \A s \in Sector :
           (\A i \in InLog(head)' : head'.sector[i] # s) => Recovered'[s] = home'[s]
  BY RecoveredAtNext DEF RecoveryOverlay, LogInvariant, TypeOK
<1>4. InLog(head)' = InLog(lh)
  BY DEF InLog, commit_head, write_head
<1>5. ASSUME NEW s \in Sector PROVE Recovered'[s] = View[s]
  <2>1. View[s] = Contents(s) /\ home' = home /\ blk' = blk
    BY DEF View, commit_head
  <2>2. CASE \A i \in InLog(lh) : lh.sector[i] # s
    BY <1>3, <1>4, <2>1, <2>2, CommitHeadFacts, SMTT(60)
  <2>3. CASE \E i \in InLog(lh) : lh.sector[i] = s
    <3>1. PICK i \in InLog(lh) : lh.sector[i] = s
      BY <2>3
    <3>2. Contents(s) = blk[i] /\ head'.sector[i] = s
      BY <3>1, CommitHeadFacts DEF Contents
    <3> QED BY <1>3, <1>4, <2>1, <3>2
  <2> QED BY <2>2, <2>3
<1>6. Recovered' = View
  BY <1>5 DEF Recovered, View
<1> QED BY <1>1, <1>2, <1>6, SMTT(60) DEF TD!Commit

\* A transaction that logged nothing leaves no dirty block.
LEMMA CommitEmptyFacts ==
  ASSUME LogInvariant, NEW p \in Proc, commit_empty(p)
  PROVE  head.n = 0 /\ View = home
<1>1. head.n = 0
  BY DEF LogInvariant, ByPhase, commit_empty, Open
<1>2. \A i : i \notin InLog(lh)
  BY SMTT(60) DEF commit_empty, InLog
<1>3. dirty = {}
  BY <1>2, SMTT(60) DEF LogInvariant, CacheCoherent
<1>4. \A s \in Sector : ~Held(s)
  BY SMTT(60) DEF LogInvariant, OneOwner, Active, Open, Held, commit_empty
<1> QED BY <1>1, <1>3, <1>4, ViewQuiet DEF commit_empty

\* A transaction that logged nothing commits nothing.
LEMMA CommitEmptyRefines ==
  ASSUME LogInvariant, LogInvariant', NEW p \in Proc, commit_empty(p)
  PROVE  TD!Commit
<1>1. Phase = "open" /\ Phase' = "committed"
  BY PhaseOf, PhaseOfNext DEF commit_empty, Goto, Open, Committed, LogInvariant, TypeOK
<1>2. View' = View
  BY DEF View, Contents, commit_empty
<1>3. Recovered' = home
  BY CommitEmptyFacts, RecoveredQuietNext DEF commit_empty
<1> QED BY <1>1, <1>2, <1>3, CommitEmptyFacts DEF TD!Commit

\* The entry that install_trans() copies: the header names the same sector, and
\* outside of recovery the cached block is the log's block already.
LEMMA InstallFacts ==
  ASSUME LogInvariant, NEW p \in Proc, install_trans(p)
  PROVE  /\ tail \in InLog(head)
         /\ head.sector[tail] = lh.sector[tail] /\ lh.sector[tail] \in Sector
         /\ blk[tail] # Evicted
         /\ mode # "boot" => cache[lh.sector[tail]] = blk[tail]
<1>1. lh.n \in 0 .. LOGSIZE /\ tail \in 0 .. LOGSIZE /\ tail < lh.n
  BY DEF LogInvariant, TypeOK, Header, install_trans
<1>2. tail \in InLog(lh) /\ tail \in LogIndex
  BY <1>1, SMTT(60) DEF InLog, LogIndex
<1>3. head.n = lh.n
  BY DEF LogInvariant, ByPhase, install_trans
<1>4. head.sector[tail] = lh.sector[tail]
  BY <1>2 DEF LogInvariant, ByPhase, install_trans
<1>5. mode # "boot" => cache[lh.sector[tail]] = blk[tail]
  BY <1>1, <1>2, SMTT(60) DEF LogInvariant, ByPhase, install_trans
<1>6. lh.sector[tail] \in Sector
  BY <1>2 DEF LogInvariant, WellFormed
<1>7. blk[tail] # Evicted
  BY <1>2, SMTT(60) DEF LogInvariant, TypeOK
<1> QED BY <1>2, <1>3, <1>4, <1>5, <1>6, <1>7 DEF InLog

\* install_trans() changes neither what is durable nor what is seen.
LEMMA InstallStutters ==
  ASSUME LogInvariant, LogInvariant', NEW p \in Proc, install_trans(p)
  PROVE  UNCHANGED TD!vars
<1>1. Phase' = Phase
  BY DEF Phase, install_trans
<1>2. /\ tail \in InLog(head)
      /\ head.sector[tail] = lh.sector[tail] /\ lh.sector[tail] \in Sector
  BY InstallFacts
<1>3. Recovered' = Recovered
  <2>1. \A s \in Sector : s # lh.sector[tail] => home'[s] = home[s]
    BY DEF install_trans, LogInvariant, TypeOK
  <2>2. ASSUME NEW s \in Sector PROVE Recovered'[s] = Recovered[s]
    <3>1. CASE \E i \in InLog(head) : head.sector[i] = s
      <4>1. PICK i \in InLog(head) : head.sector[i] = s
        BY <3>1
      <4>2. Recovered[s] = blk[i]
        BY <4>1, RecoveredAt DEF RecoveryOverlay, LogInvariant, TypeOK
      <4>3. Recovered'[s] = blk'[i]
        BY <4>1, RecoveredAtNext
           DEF RecoveryOverlay, LogInvariant, TypeOK, install_trans, InLog
      <4> QED BY <4>2, <4>3 DEF install_trans
    <3>2. CASE \A i \in InLog(head) : head.sector[i] # s
      <4>1. s # lh.sector[tail]
        BY <1>2, <3>2
      <4>2. Recovered[s] = home[s]
        BY <3>2, RecoveredAt DEF RecoveryOverlay, LogInvariant, TypeOK
      <4>3. Recovered'[s] = home'[s]
        BY <3>2, RecoveredAtNext
           DEF RecoveryOverlay, LogInvariant, TypeOK, install_trans, InLog
      <4> QED BY <2>1, <4>1, <4>2, <4>3
    <3> QED BY <3>1, <3>2
  <2> QED BY <2>2 DEF Recovered
<1>4. View' = View
  <2>1. CASE mode = "boot"
    BY <2>1, <1>3 DEF View, install_trans
  <2>2. CASE mode # "boot"
    <3>1. cache[lh.sector[tail]] = blk[tail] /\ blk[tail] # Evicted
      BY <2>2, InstallFacts
    <3>2. \A s \in Sector : Contents(s)' = Contents(s)
      BY <3>1, <1>2 DEF Contents, install_trans, LogInvariant, TypeOK
    <3> QED BY <2>2, <3>2 DEF View, install_trans
  <2> QED BY <2>1, <2>2
<1> QED BY <1>1, <1>3, <1>4 DEF TD!vars

\* log.lh.n = 0 and read_head() touch neither the disk nor the cache.
LEMMA HeaderStepStutters ==
  ASSUME LogInvariant, LogInvariant', NEW p \in Proc, reset(p) \/ read_head(p)
  PROVE  UNCHANGED TD!vars
<1>1. Phase' = Phase
  BY PhaseOf, PhaseOfNext DEF reset, read_head, Goto, Committed, LogInvariant, TypeOK
<1>2. Recovered' = Recovered
  BY RecoveredSame DEF reset, read_head, disk
<1>3. View' = View
  BY <1>2 DEF View, Contents, reset, read_head
<1> QED BY <1>1, <1>2, <1>3 DEF TD!vars

\* When the header is erased the cache and the log agree with the home sectors.
LEMMA EraseFacts ==
  ASSUME LogInvariant, NEW p \in Proc, erase(p)
  PROVE  /\ head'.n = 0
         /\ \A i \in InLog(head) : home[head.sector[i]] = blk[i]
         /\ \A s \in Sector : Contents(s) = home[s]
<1>1. lh.n = 0 /\ \A i \in InLog(head) : home[head.sector[i]] = blk[i]
  BY DEF LogInvariant, ByPhase, erase
<1>2. head'.n = 0
  BY <1>1 DEF erase, write_head
<1>3. \A i : i \notin InLog(lh)
  BY <1>1, SMTT(60) DEF InLog
<1>4. dirty = {}
  BY <1>3 DEF LogInvariant, CacheCoherent
<1>5. \A s \in Sector : ~Held(s)
  BY DEF LogInvariant, OneOwner, Active, Open, Committed, Held, erase
<1>6. \A s \in Sector : Contents(s) = home[s]
  BY <1>4, <1>5 DEF LogInvariant, CacheCoherent, Contents
<1> QED BY <1>1, <1>2, <1>6

\* Erasing the header: every logged sector is home already.
LEMMA EraseStutters ==
  ASSUME LogInvariant, LogInvariant', NEW p \in Proc, erase(p)
  PROVE  UNCHANGED TD!vars
<1>1. /\ head'.n = 0 /\ home' = home /\ cache' = cache
      /\ \A i \in InLog(head) : home[head.sector[i]] = blk[i]
  BY EraseFacts DEF erase
<1>2. Recovered' = home
  BY <1>1, RecoveredQuietNext
<1>3. Recovered = home
  <2>1. ASSUME NEW s \in Sector PROVE Recovered[s] = home[s]
    BY <1>1, RecoveredAt, SMTT(60) DEF RecoveryOverlay, LogInvariant, TypeOK
  <2> QED BY <2>1 DEF Recovered, LogInvariant, TypeOK
<1>4. \A s \in Sector : Contents(s)' = Contents(s) /\ Contents(s) = home[s]
  BY <1>1, EraseFacts DEF Contents
<1>5. View' = View
  <2>1. \A s \in Sector : View'[s] = home[s] /\ View[s] = home[s]
    BY <1>3, <1>4 DEF View, erase
  <2> QED BY <2>1 DEF View
<1>6. Phase' = Phase
  <2>1. CASE mode = "boot"
    <3>1. ~busy' /\ mode' # "boot"
      BY <2>1 DEF erase, LogInvariant, ByPhase
    <3> QED BY <2>1, <3>1, PhaseOf, PhaseOfNext
  <2>2. CASE mode # "boot"
    BY <2>2, PhaseOf, PhaseOfNext DEF erase, Goto, Committed, LogInvariant, TypeOK
  <2> QED BY <2>1, <2>2, SMTT(60)
<1> QED BY <1>2, <1>3, <1>5, <1>6, SMTT(60) DEF TD!vars

\* busy = 0 ends the abstract transaction.
LEMMA DoneRefines ==
  ASSUME LogInvariant, LogInvariant', NEW p \in Proc, commit_done(p)
  PROVE  TD!End
<1>1. Phase = "committed" /\ Phase' = "none"
  BY PhaseOf, PhaseOfNext DEF commit_done, Committed
<1>2. Recovered' = Recovered
  BY RecoveredSame DEF commit_done, disk
<1>3. View' = View
  BY <1>2 DEF View, Contents, commit_done
<1> QED BY <1>1, <1>2, <1>3, SMTT(60) DEF TD!End

\* A buffer that bget() fills or recycles holds what is on disk.
LEMMA ContentsSame ==
  ASSUME LogInvariant, NEW s \in Sector, bread(s) \/ evict(s), NEW t \in Sector
  PROVE  Contents(t)' = Contents(t)
<1>1. cache \in [Sector -> Data \cup {Evicted}] /\ home \in [Sector -> Data] /\ home' = home
  BY DEF LogInvariant, TypeOK, bread, evict
<1>2. CASE bread(s)
  BY <1>1, <1>2 DEF bread, Contents
<1>3. CASE evict(s)
  <2>1. cache[s] = home[s]
    BY <1>3 DEF LogInvariant, CacheCoherent, evict
  <2> QED BY <1>1, <1>3, <2>1 DEF evict, Contents
<1> QED BY <1>2, <1>3

\* Reading and recycling buffers is invisible.
LEMMA CacheStutters ==
  ASSUME LogInvariant, LogInvariant', NEW s \in Sector, bread(s) \/ evict(s)
  PROVE  UNCHANGED TD!vars
<1>1. Phase' = Phase
  BY DEF Phase, bread, evict
<1>2. Recovered' = Recovered
  BY RecoveredSame DEF bread, evict, disk
<1>3. \A t \in Sector : Contents(t)' = Contents(t)
  BY ContentsSame
<1>4. View' = View
  BY <1>2, <1>3 DEF View, bread, evict
<1> QED BY <1>1, <1>2, <1>4, SMTT(60) DEF TD!vars

\* A crash brings back the durable image.
LEMMA CrashRefines ==
  ASSUME LogInvariant, LogInvariant', Crash
  PROVE  TD!Crash
<1>1. Phase' = "none"
  BY PhaseOfNext DEF Crash
<1>2. Recovered' = Recovered
  BY RecoveredSame DEF Crash, disk
<1>3. View' = Recovered
  BY <1>2 DEF View, Crash, Recovered
<1> QED BY <1>1, <1>2, <1>3 DEF TD!Crash

\* log.c implements the atomic transactional disk: whatever crashes and
\* restarts happen, each transaction is durable as a whole or not at all.
THEOREM LogIsAtomic == Spec => Atomicity
<1>1. Init => TD!Init
  <2> SUFFICES ASSUME Init PROVE TD!Init
    OBVIOUS
  <2>1. LogInvariant
    BY InitInv
  <2>2. Recovered = home
    BY <2>1, RecoveredQuiet DEF Init, EmptyHeader
  <2>3. View = home
    BY <2>2 DEF View, Init
  <2>4. Phase = "none"
    BY DEF Phase, Init
  <2> QED BY <2>2, <2>3, <2>4 DEF TD!Init, Init
<1>2. LogInvariant /\ LogInvariant' /\ [Next]_vars => [TD!Next]_(TD!vars)
  <2> SUFFICES ASSUME LogInvariant, LogInvariant', [Next]_vars
               PROVE  [TD!Next]_(TD!vars)
    BY SMTT(60)
  <2>1. ASSUME NEW p \in Proc, Step(p) PROVE TD!Next \/ UNCHANGED TD!vars
    BY <2>1, BeginRefines, ModifyRefines, OpenStepStutters, CommitHeadRefines,
       CommitEmptyRefines, InstallStutters, HeaderStepStutters, EraseStutters,
       DoneRefines DEF Step, TD!Next
  <2>2. ASSUME NEW s \in Sector, bread(s) \/ evict(s) PROVE UNCHANGED TD!vars
    BY <2>2, CacheStutters
  <2>3. CASE Crash
    BY <2>3, CrashRefines, SMTT(60) DEF TD!Next
  <2>4. CASE UNCHANGED vars
    BY <2>4, SMTT(60) DEF vars, TD!vars, View, Phase, Recovered, Contents
  <2> QED BY <2>1, <2>2, <2>3, <2>4 DEF Next
<1> QED BY <1>1, <1>2, LogInvariantHolds, PTL DEF Spec, Atomicity, TD!Spec
=============================================================================
