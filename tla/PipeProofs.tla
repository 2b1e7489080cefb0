----------------------------- MODULE PipeProofs -----------------------------
(***************************************************************************)
(* Proofs about pipe.c for any number of readers and writers, any size of  *)
(* the ring and any width of its counters: the safety invariants, and that *)
(* the ring implements a bounded FIFO.                                     *)
(***************************************************************************)
EXTENDS Pipe, Integers, TLAPS

USE PipeAssumption

-----------------------------------------------------------------------------
(***************************************************************************)
(* Remainders.                                                             *)
(***************************************************************************)

\* A remainder is smaller than the divisor.
LEMMA ModRange ==
  ASSUME NEW a \in Nat, NEW m \in Nat \ {0}
  PROVE  a % m \in 0 .. (m - 1)
OBVIOUS

\* A number is a multiple of the divisor and a remainder.
LEMMA ModSplit ==
  ASSUME NEW a \in Nat, NEW m \in Nat \ {0}
  PROVE  \E q \in Nat : a = m * q + (a % m)
<1>1. a = m * (a \div m) + (a % m) /\ a \div m \in Nat
  OBVIOUS
<1> QED BY <1>1

\* There is only one remainder.
LEMMA ModUnique ==
  ASSUME NEW m \in Nat \ {0}, NEW q \in Nat, NEW r \in 0 .. (m - 1)
  PROVE  (m * q + r) % m = r
OBVIOUS

\* What it is below the divisor, and one turn further.
LEMMA ModSmall ==
  ASSUME NEW m \in Nat \ {0}, NEW a \in 0 .. (m - 1)
  PROVE  a % m = a
OBVIOUS

LEMMA ModWrap ==
  ASSUME NEW m \in Nat \ {0}, NEW a \in m .. (2 * m - 1)
  PROVE  a % m = a - m
OBVIOUS

\* Width is a multiple of PIPESIZE: a counter that wraps around keeps its place
\* in the ring.
LEMMA WrapKeepsSlot ==
  ASSUME NEW a \in Nat
  PROVE  (a + Width) % PIPESIZE = a % PIPESIZE
<1>1. PICK w \in Nat : Width = PIPESIZE * w
  <2>1. PICK w \in Nat : Width = PIPESIZE * w + (Width % PIPESIZE)
    BY ModSplit
  <2> QED BY <2>1
<1>2. PICK q \in Nat : a = PIPESIZE * q + (a % PIPESIZE)
  BY ModSplit
<1>3. a % PIPESIZE \in 0 .. (PIPESIZE - 1)
  BY ModRange
<1>4. a + Width = PIPESIZE * (q + w) + (a % PIPESIZE)
  BY <1>1, <1>2, <1>3
<1>5. q + w \in Nat
  OBVIOUS
<1> QED BY <1>3, <1>4, <1>5, ModUnique

\* Bytes less than PIPESIZE apart are in different places.
LEMMA SlotsDiffer ==
  ASSUME NEW a \in Nat, NEW j \in Nat, NEW d \in Nat, j < d, d < j + PIPESIZE
  PROVE  (a + j) % PIPESIZE # (a + d) % PIPESIZE
<1> SUFFICES ASSUME (a + j) % PIPESIZE = (a + d) % PIPESIZE PROVE FALSE
  OBVIOUS
<1>0. a + j \in Nat /\ a + d \in Nat
  OBVIOUS
<1>1. PICK q \in Nat : a + j = PIPESIZE * q + ((a + j) % PIPESIZE)
  BY <1>0, ModSplit
<1>2. PICK r \in Nat : a + d = PIPESIZE * r + ((a + d) % PIPESIZE)
  BY <1>0, ModSplit
<1>3. (a + j) % PIPESIZE \in Nat
  BY <1>0, ModRange
<1>4. d - j = PIPESIZE * (r - q)
  BY <1>1, <1>2, <1>3
<1>5. r - q \in Int /\ d - j \in 1 .. (PIPESIZE - 1)
  OBVIOUS
<1> QED BY <1>4, <1>5

-----------------------------------------------------------------------------
(***************************************************************************)
(* The counters.                                                           *)
(***************************************************************************)

\* A counter after an increment.
LEMMA Increment ==
  ASSUME NEW a \in 0 .. (Width - 1)
  PROVE  (a + 1) % Width = IF a + 1 < Width THEN a + 1 ELSE 0
<1>1. CASE a + 1 < Width
  BY <1>1, ModSmall
<1>2. CASE a + 1 >= Width
  <2>1. a + 1 \in Width .. (2 * Width - 1)
    BY <1>2
  <2>2. (a + 1) % Width = a + 1 - Width
    BY <2>1, ModWrap
  <2> QED BY <1>2, <2>2
<1> QED BY <1>1, <1>2

Distance(r, w) == IF w >= r THEN w - r ELSE w + Width - r

\* The difference of the counters, whichever has wrapped around last.
LEMMA DistanceIs ==
  ASSUME NEW r \in 0 .. (Width - 1), NEW w \in 0 .. (Width - 1)
  PROVE  (w + Width - r) % Width = Distance(r, w)
<1>1. CASE w >= r
  <2>1. w + Width - r \in Width .. (2 * Width - 1)
    BY <1>1
  <2>2. (w + Width - r) % Width = w + Width - r - Width
    BY <2>1, ModWrap
  <2> QED BY <1>1, <2>2 DEF Distance
<1>2. CASE ~(w >= r)
  <2>1. w + Width - r \in 0 .. (Width - 1)
    BY <1>2
  <2> QED BY <1>2, <2>1, ModSmall DEF Distance
<1> QED BY <1>1, <1>2

\* A byte more, and a byte less.
LEMMA DistanceGrows ==
  ASSUME NEW r \in 0 .. (Width - 1), NEW w \in 0 .. (Width - 1), Distance(r, w) < PIPESIZE
  PROVE  (w + 1) % Width \in 0 .. (Width - 1) /\ Distance(r, (w + 1) % Width) = Distance(r, w) + 1
<1> DEFINE v == (w + 1) % Width
<1>1. v = IF w + 1 < Width THEN w + 1 ELSE 0
  BY Increment
<1> HIDE DEF v
<1>2. v \in 0 .. (Width - 1) /\ Distance(r, v) = Distance(r, w) + 1
  BY <1>1 DEF Distance
<1> QED BY <1>2 DEF v

LEMMA DistanceShrinks ==
  ASSUME NEW r \in 0 .. (Width - 1), NEW w \in 0 .. (Width - 1), r # w
  PROVE  (r + 1) % Width \in 0 .. (Width - 1) /\ Distance((r + 1) % Width, w) = Distance(r, w) - 1
<1> DEFINE v == (r + 1) % Width
<1>1. v = IF r + 1 < Width THEN r + 1 ELSE 0
  BY Increment
<1> HIDE DEF v
<1>2. v \in 0 .. (Width - 1) /\ Distance(v, w) = Distance(r, w) - 1
  BY <1>1 DEF Distance
<1> QED BY <1>2 DEF v

\* "Full" and "empty" say what they mean.
LEMMA CountFacts ==
  ASSUME nread \in 0 .. (Width - 1), nwrite \in 0 .. (Width - 1)
  PROVE  /\ Count = Distance(nread, nwrite) /\ Count \in 0 .. (Width - 1)
         /\ Full <=> Count = PIPESIZE
         /\ Empty <=> Count = 0
<1>1. Count = Distance(nread, nwrite)
  BY DistanceIs DEF Count
<1>2. (nread + PIPESIZE) % Width = IF nread + PIPESIZE < Width THEN nread + PIPESIZE
                                   ELSE nread + PIPESIZE - Width
  <2>1. CASE nread + PIPESIZE < Width
    BY <2>1, ModSmall
  <2>2. CASE nread + PIPESIZE >= Width
    <3>1. nread + PIPESIZE \in Width .. (2 * Width - 1)
      BY <2>2
    <3> QED BY <2>2, <3>1, ModWrap
  <2> QED BY <2>1, <2>2
<1> QED BY <1>1, <1>2 DEF Distance, Full, Empty

\* The place of the byte that is written next, from the side of the reader.
LEMMA WriteSlot ==
  ASSUME nread \in 0 .. (Width - 1), nwrite \in 0 .. (Width - 1)
  PROVE  nwrite % PIPESIZE = (nread + Count) % PIPESIZE
<1>1. Count = Distance(nread, nwrite)
  BY CountFacts
<1>2. CASE nwrite >= nread
  BY <1>1, <1>2 DEF Distance
<1>3. CASE ~(nwrite >= nread)
  <2>1. nread + Count = nwrite + Width
    BY <1>1, <1>3 DEF Distance
  <2>2. nwrite \in Nat
    OBVIOUS
  <2>3. (nwrite + Width) % PIPESIZE = nwrite % PIPESIZE
    BY <2>2, WrapKeepsSlot
  <2> QED BY <2>1, <2>3
<1> QED BY <1>2, <1>3

-----------------------------------------------------------------------------
(***************************************************************************)
(* The invariants.                                                         *)
(***************************************************************************)
PipeInvariant == NoUseAfterFree /\ SleepersHaveAReason /\ NoSpuriousEof

\* A process is a reader or a writer, not both, and is not the null pointer.
LEMMA SideFacts == None \notin Proc /\ \A p \in Proc : p \in Reader <=> p \notin Writer
BY DEF Proc

\* A new pipe satisfies them.
LEMMA InitInv == Init => PipeInvariant
<1> SUFFICES ASSUME Init PROVE PipeInvariant
  OBVIOUS
<1>1. nread = 0 /\ nwrite = 0 /\ 0 \in 0 .. (Width - 1)
  BY DEF Init
<1>2. Count = 0
  BY <1>1, CountFacts DEF Empty
<1>3. TypeOK
  <2>1. data \in [Slot -> Byte]
    BY DEF Init
  <2>2. i \in [Proc -> 0 .. MaxCount] /\ n \in [Proc -> 0 .. MaxCount]
    BY DEF Init
  <2>3. killed \in [Proc -> BOOLEAN] /\ pc \in [Proc -> Label]
    BY DEF Init, Label
  <2>4. Count <= PIPESIZE
    BY <1>2
  <2> QED BY <1>1, <2>1, <2>2, <2>3, <2>4 DEF Init, TypeOK
<1> QED BY <1>3, SideFacts DEF Init, PipeInvariant, NoUseAfterFree, SleepersHaveAReason, NoSpuriousEof, Proc

\* What the steps that do not touch the ring leave alone.
LEMMA RingKept ==
  ASSUME UNCHANGED ring
  PROVE  /\ UNCHANGED <<data, nread, nwrite, got>>
         /\ Full' = Full /\ Empty' = Empty /\ Count' = Count
BY DEF ring, Full, Empty, Count

\* Entering a call, and acquire() of p->lock.
LEMMA EnterInv ==
  ASSUME PipeInvariant, NEW p \in Proc, acquire(p) \/ (\E c \in 0 .. MaxCount : call(p, c))
  PROVE  PipeInvariant'
<1> USE SideFacts DEF PipeInvariant, NoUseAfterFree, ends
<1>1. UNCHANGED ring /\ UNCHANGED <<data, nread, nwrite, got>> /\ Full' = Full /\ Empty' = Empty /\ Count' = Count
  BY RingKept DEF acquire, call
<1>2. TypeOK'
  BY <1>1 DEF TypeOK, acquire, call, Goto, Label
<1>3. NoUseAfterFree'
  BY <1>2 DEF TypeOK, acquire, call, Goto
<1>4. SleepersHaveAReason'
  BY <1>1 DEF TypeOK, acquire, call, Goto, SleepersHaveAReason, HasReason
<1>5. NoSpuriousEof'
  BY <1>1 DEF TypeOK, acquire, call, Goto, NoSpuriousEof, Proc
<1> QED BY <1>3, <1>4, <1>5

\* A byte goes in.
LEMMA WriteByteInv ==
  ASSUME PipeInvariant, NEW p \in Proc, NEW x \in Byte, write_byte(p, x)
  PROVE  PipeInvariant' /\ Count' = Count + 1
<1> USE SideFacts DEF PipeInvariant, NoUseAfterFree, ends, write_byte
<1>1. Count' = Count + 1 /\ nwrite' \in 0 .. (Width - 1) /\ Count + 1 <= PIPESIZE
  <2>1. nread \in 0 .. (Width - 1) /\ nwrite \in 0 .. (Width - 1) /\ Count <= PIPESIZE
    BY DEF TypeOK
  <2>2. Count = Distance(nread, nwrite) /\ Count \in 0 .. (Width - 1) /\ Count # PIPESIZE
    BY <2>1, CountFacts
  <2>3. Distance(nread, nwrite) < PIPESIZE
    BY <2>1, <2>2
  <2>4. /\ nwrite' \in 0 .. (Width - 1) /\ nread' = nread
        /\ Distance(nread, nwrite') = Distance(nread, nwrite) + 1
    BY <2>1, <2>3, DistanceGrows
  <2>5. Count' = Distance(nread, nwrite')
    BY <2>1, <2>4, DistanceIs DEF Count
  <2> QED BY <2>2, <2>3, <2>4, <2>5
<1>2. TypeOK'
  <2>1. i' \in [Proc -> 0 .. MaxCount]
    BY DEF TypeOK
  <2>2. data' \in [Slot -> Byte]
    BY DEF TypeOK
  <2>3. Count' <= PIPESIZE
    BY <1>1
  <2> QED BY <1>1, <2>1, <2>2, <2>3 DEF TypeOK
<1>3. NoUseAfterFree'
  BY <1>2 DEF TypeOK
<1>4. lock = p /\ pc[p] = "copy" /\ p \in Writer
  OBVIOUS
<1>5. SleepersHaveAReason'
  BY <1>4 DEF TypeOK, SleepersHaveAReason, HasReason
<1>6. NoSpuriousEof'
  BY <1>4 DEF TypeOK, NoSpuriousEof, Proc
<1> QED BY <1>1, <1>3, <1>5, <1>6

\* A byte comes out.
LEMMA ReadByteInv ==
  ASSUME PipeInvariant, NEW p \in Proc, read_byte(p)
  PROVE  PipeInvariant' /\ Count' = Count - 1 /\ Count > 0
<1> USE SideFacts DEF PipeInvariant, NoUseAfterFree, ends, read_byte
<1>1. Count' = Count - 1 /\ nread' \in 0 .. (Width - 1) /\ Count > 0 /\ Count <= PIPESIZE
  <2>1. nread \in 0 .. (Width - 1) /\ nwrite \in 0 .. (Width - 1) /\ Count <= PIPESIZE
    BY DEF TypeOK
  <2>2. Count = Distance(nread, nwrite) /\ Count \in 0 .. (Width - 1) /\ Count # 0
    BY <2>1, CountFacts
  <2>3. /\ nread' \in 0 .. (Width - 1) /\ nwrite' = nwrite
        /\ Distance(nread', nwrite) = Distance(nread, nwrite) - 1
    BY <2>1, DistanceShrinks DEF Empty
  <2>4. Count' = Distance(nread', nwrite)
    BY <2>1, <2>3, DistanceIs DEF Count
  <2> QED BY <2>1, <2>2, <2>3, <2>4
<1>2. got' \in Byte
  <2>0. nread \in Nat
    BY DEF TypeOK
  <2>1. nread % PIPESIZE \in Slot
    BY <2>0, ModRange DEF Slot
  <2> QED BY <2>1 DEF TypeOK
<1>3. TypeOK'
  <2>1. i' \in [Proc -> 0 .. MaxCount]
    BY DEF TypeOK
  <2>2. Count' <= PIPESIZE
    <3>1. Count \in Nat
      BY CountFacts DEF TypeOK
    <3> QED BY <1>1, <3>1
  <2> QED BY <1>1, <1>2, <2>1, <2>2 DEF TypeOK
<1>4. NoUseAfterFree'
  BY <1>3 DEF TypeOK
<1>5. lock = p /\ pc[p] = "copy" /\ p \in Reader
  OBVIOUS
<1>6. SleepersHaveAReason'
  BY <1>5 DEF TypeOK, SleepersHaveAReason, HasReason
<1>7. NoSpuriousEof'
  BY <1>5 DEF TypeOK, NoSpuriousEof, Proc
<1> QED BY <1>1, <1>4, <1>6, <1>7

\* pipewrite() finds the ring full and wakes the readers.
LEMMA WriteFullInv ==
  ASSUME PipeInvariant, NEW p \in Proc, write_full(p)
  PROVE  PipeInvariant'
<1> USE SideFacts DEF PipeInvariant, NoUseAfterFree, ends
<1>1. UNCHANGED <<data, nread, nwrite, got>> /\ Full' = Full /\ Empty' = Empty /\ Count' = Count
  BY RingKept DEF write_full
<1>2. TypeOK'
  BY <1>1 DEF TypeOK, Label, write_full, Return, Goto, WakeupAnd
<1>3. NoUseAfterFree'
  BY <1>2 DEF TypeOK, write_full, Return, Goto, WakeupAnd
<1>4. SleepersHaveAReason'
  BY <1>1 DEF TypeOK, write_full, Return, Goto, WakeupAnd, SleepersHaveAReason, HasReason, Proc
<1>5. NoSpuriousEof'
  BY <1>1 DEF TypeOK, write_full, Return, Goto, WakeupAnd, NoSpuriousEof, Proc
<1> QED BY <1>3, <1>4, <1>5

\* pipewrite() is done and wakes the readers.
LEMMA WriteDoneInv ==
  ASSUME PipeInvariant, NEW p \in Proc, write_done(p)
  PROVE  PipeInvariant'
<1> USE SideFacts DEF PipeInvariant, NoUseAfterFree, ends
<1>1. UNCHANGED <<data, nread, nwrite, got>> /\ Full' = Full /\ Empty' = Empty /\ Count' = Count
  BY RingKept DEF write_done
<1>2. TypeOK'
  BY <1>1 DEF TypeOK, Label, write_done, Return, Goto, WakeupAnd
<1>3. NoUseAfterFree'
  BY <1>2 DEF TypeOK, write_done, Return, Goto, WakeupAnd
<1>4. SleepersHaveAReason'
  BY <1>1 DEF TypeOK, write_done, Return, Goto, WakeupAnd, SleepersHaveAReason, HasReason, Proc
<1>5. NoSpuriousEof'
  BY <1>1 DEF TypeOK, write_done, Return, Goto, WakeupAnd, NoSpuriousEof, Proc
<1> QED BY <1>3, <1>4, <1>5

\* pipewrite() gives up: only a killed writer does so beside a sleeping reader.
LEMMA WriteFailInv ==
  ASSUME PipeInvariant, NEW p \in Proc, write_fail(p)
  PROVE  PipeInvariant'
<1> USE SideFacts DEF PipeInvariant, NoUseAfterFree, ends
<1>1. UNCHANGED <<data, nread, nwrite, got>> /\ Full' = Full /\ Empty' = Empty /\ Count' = Count
  BY RingKept DEF write_fail
<1>2. TypeOK'
  BY <1>1 DEF TypeOK, Label, write_fail, Return, Goto, WakeupAnd
<1>3. NoUseAfterFree'
  BY <1>2 DEF TypeOK, write_fail, Return, Goto, WakeupAnd
<1>4. SleepersHaveAReason'
  BY <1>1 DEF TypeOK, write_fail, Return, Goto, WakeupAnd, SleepersHaveAReason, HasReason, Proc
<1>5. NoSpuriousEof'
  BY <1>1 DEF TypeOK, write_fail, Return, Goto, WakeupAnd, NoSpuriousEof, Proc
<1> QED BY <1>3, <1>4, <1>5

\* piperead() gives up.
LEMMA ReadFailInv ==
  ASSUME PipeInvariant, NEW p \in Proc, read_fail(p)
  PROVE  PipeInvariant'
<1> USE SideFacts DEF PipeInvariant, NoUseAfterFree, ends
<1>1. UNCHANGED <<data, nread, nwrite, got>> /\ Full' = Full /\ Empty' = Empty /\ Count' = Count
  BY RingKept DEF read_fail
<1>2. TypeOK'
  BY <1>1 DEF TypeOK, Label, read_fail, Return, Goto, WakeupAnd
<1>3. NoUseAfterFree'
  BY <1>2 DEF TypeOK, read_fail, Return, Goto, WakeupAnd
<1>4. SleepersHaveAReason'
  BY <1>1 DEF TypeOK, read_fail, Return, Goto, WakeupAnd, SleepersHaveAReason, HasReason, Proc
<1>5. NoSpuriousEof'
  BY <1>1 DEF TypeOK, read_fail, Return, Goto, WakeupAnd, NoSpuriousEof, Proc
<1> QED BY <1>3, <1>4, <1>5

\* piperead() leaves its test of the ring, one way or the other.
LEMMA ReadWaitInv ==
  ASSUME PipeInvariant, NEW p \in Proc, read_empty(p) \/ read_ready(p)
  PROVE  PipeInvariant'
<1> USE SideFacts DEF PipeInvariant, NoUseAfterFree, ends
<1>1. UNCHANGED <<data, nread, nwrite, got>> /\ Full' = Full /\ Empty' = Empty /\ Count' = Count
  BY RingKept DEF read_empty, read_ready
<1>2. TypeOK'
  BY <1>1 DEF TypeOK, Label, read_empty, read_ready, Return, Goto, WakeupAnd
<1>3. NoUseAfterFree'
  BY <1>2 DEF TypeOK, read_empty, read_ready, Return, Goto, WakeupAnd
<1>4. SleepersHaveAReason'
  BY <1>1 DEF TypeOK, read_empty, read_ready, Return, Goto, WakeupAnd, SleepersHaveAReason, HasReason, Proc
<1>5. NoSpuriousEof'
  BY <1>1 DEF TypeOK, read_empty, read_ready, Return, Goto, WakeupAnd, NoSpuriousEof, Proc
<1> QED BY <1>3, <1>4, <1>5

\* piperead() is done and wakes the writers.
LEMMA ReadDoneInv ==
  ASSUME PipeInvariant, NEW p \in Proc, read_done(p)
  PROVE  PipeInvariant'
<1> USE SideFacts DEF PipeInvariant, NoUseAfterFree, ends
<1>1. UNCHANGED <<data, nread, nwrite, got>> /\ Full' = Full /\ Empty' = Empty /\ Count' = Count
  BY RingKept DEF read_done
<1>2. TypeOK'
  BY <1>1 DEF TypeOK, Label, read_done, Return, Goto, WakeupAnd
<1>3. NoUseAfterFree'
  BY <1>2 DEF TypeOK, read_done, Return, Goto, WakeupAnd
<1>4. SleepersHaveAReason'
  BY <1>1 DEF TypeOK, read_done, Return, Goto, WakeupAnd, SleepersHaveAReason, HasReason, Proc
<1>5. NoSpuriousEof'
  BY <1>1 DEF TypeOK, read_done, Return, Goto, WakeupAnd, NoSpuriousEof, Proc
<1> QED BY <1>3, <1>4, <1>5

\* sleep() gives up p->lock.
LEMMA SleepInv ==
  ASSUME PipeInvariant, NEW p \in Proc, sleep(p)
  PROVE  PipeInvariant'
<1> USE SideFacts DEF PipeInvariant, NoUseAfterFree, ends
<1>1. UNCHANGED <<data, nread, nwrite, got>> /\ Full' = Full /\ Empty' = Empty /\ Count' = Count
  BY RingKept DEF sleep
<1>2. TypeOK'
  BY <1>1 DEF TypeOK, Label, sleep, Return, Goto, WakeupAnd
<1>3. NoUseAfterFree'
  BY <1>2 DEF TypeOK, sleep, Return, Goto, WakeupAnd
<1>4. SleepersHaveAReason'
  BY <1>1 DEF TypeOK, sleep, Return, Goto, WakeupAnd, SleepersHaveAReason, HasReason, Proc
<1>5. NoSpuriousEof'
  BY <1>1 DEF TypeOK, sleep, Return, Goto, WakeupAnd, NoSpuriousEof, Proc
<1> QED BY <1>3, <1>4, <1>5

\* kill() does not take p->lock.
LEMMA KillInv ==
  ASSUME PipeInvariant, NEW p \in Proc, kill(p)
  PROVE  PipeInvariant'
<1> USE SideFacts DEF PipeInvariant, NoUseAfterFree, ends
<1>1. UNCHANGED <<data, nread, nwrite, got>> /\ Full' = Full /\ Empty' = Empty /\ Count' = Count
  BY RingKept DEF kill
<1>2. TypeOK'
  BY <1>1 DEF TypeOK, Label, kill, Return, Goto, WakeupAnd
<1>3. NoUseAfterFree'
  BY <1>2 DEF TypeOK, kill, Return, Goto, WakeupAnd
<1>4. SleepersHaveAReason'
  BY <1>1 DEF TypeOK, kill, Return, Goto, WakeupAnd, SleepersHaveAReason, HasReason, Proc
<1>5. NoSpuriousEof'
  BY <1>1 DEF TypeOK, kill, Return, Goto, WakeupAnd, NoSpuriousEof, Proc
<1> QED BY <1>3, <1>4, <1>5

\* The last close() of an end wakes the other side.
LEMMA CloseInv ==
  ASSUME PipeInvariant, NEW p \in Proc, close(p)
  PROVE  PipeInvariant'
<1> USE SideFacts DEF PipeInvariant, NoUseAfterFree, ends
<1>1. UNCHANGED <<data, nread, nwrite, got>> /\ Full' = Full /\ Empty' = Empty /\ Count' = Count
  BY RingKept DEF close
<1>2. TypeOK'
  BY <1>1 DEF TypeOK, Label, close, Return, Goto, WakeupAnd
<1>3. NoUseAfterFree'
  BY <1>2 DEF TypeOK, close, Return, Goto, WakeupAnd
<1>4. SleepersHaveAReason'
  BY <1>1 DEF TypeOK, close, Return, Goto, WakeupAnd, SleepersHaveAReason, HasReason, Proc
<1>5. NoSpuriousEof'
  BY <1>1 DEF TypeOK, close, Return, Goto, WakeupAnd, NoSpuriousEof, Proc
<1> QED BY <1>3, <1>4, <1>5

\* All steps together.
LEMMA NextInv == PipeInvariant /\ [Next]_vars => PipeInvariant'
<1> SUFFICES ASSUME PipeInvariant, [Next]_vars PROVE PipeInvariant'
  OBVIOUS
<1>1. ASSUME NEW p \in Proc, Step(p) PROVE PipeInvariant'
  <2>1. CASE acquire(p)
    BY <2>1, EnterInv
  <2>2. CASE sleep(p)
    BY <2>2, SleepInv
  <2>3. CASE \E x \in Byte : write_byte(p, x)
    BY <2>3, WriteByteInv
  <2>4. CASE write_fail(p)
    BY <2>4, WriteFailInv
  <2>5. CASE write_full(p)
    BY <2>5, WriteFullInv
  <2>6. CASE write_done(p)
    BY <2>6, WriteDoneInv
  <2>7. CASE read_fail(p)
    BY <2>7, ReadFailInv
  <2>8. CASE read_empty(p) \/ read_ready(p)
    BY <2>8, ReadWaitInv
  <2>9. CASE read_byte(p)
    BY <2>9, ReadByteInv
  <2>10. CASE read_done(p)
    BY <2>10, ReadDoneInv
  <2> QED BY <1>1, <2>1, <2>2, <2>3, <2>4, <2>5, <2>6, <2>7, <2>8, <2>9, <2>10 DEF Step
<1>2. ASSUME NEW p \in Proc, \E c \in 0 .. MaxCount : call(p, c) PROVE PipeInvariant'
  BY <1>2, EnterInv
<1>3. ASSUME NEW p \in Proc, kill(p) PROVE PipeInvariant'
  BY <1>3, KillInv
<1>4. ASSUME NEW p \in Proc, close(p) PROVE PipeInvariant'
  BY <1>4, CloseInv
<1>5. CASE UNCHANGED vars
  BY <1>5 DEF vars, PipeInvariant, NoUseAfterFree, TypeOK, Count, SleepersHaveAReason, HasReason,
              Full, Empty, NoSpuriousEof
<1> QED BY <1>1, <1>2, <1>3, <1>4, <1>5 DEF Next

\* The invariants hold in every state.
LEMMA InvariantHolds == Spec => []PipeInvariant
BY InitInv, NextInv, PTL DEF Spec

\* pipeclose() frees the pipe only when no process can reach it, for any number
\* of readers and writers.
THEOREM NoUseAfterFreeHolds == Spec => []NoUseAfterFree
<1>1. PipeInvariant => NoUseAfterFree
  BY DEF PipeInvariant
<1> QED BY <1>1, InvariantHolds, PTL

\* No wakeup of pipe.c is lost, but for those of a killed writer.
THEOREM SleepersHaveAReasonHolds == Spec => []SleepersHaveAReason
<1>1. PipeInvariant => SleepersHaveAReason
  BY DEF PipeInvariant
<1> QED BY <1>1, InvariantHolds, PTL

\* piperead() reports no end of file while a writer is left.
THEOREM NoSpuriousEofHolds == Spec => []NoSpuriousEof
<1>1. PipeInvariant => NoSpuriousEof
  BY DEF PipeInvariant
<1> QED BY <1>1, InvariantHolds, PTL

-----------------------------------------------------------------------------
(***************************************************************************)
(* The refinement of ByteStream.                                           *)
(***************************************************************************)

RingHolds ==
  /\ Count \in Nat
  /\ InFlight \in Seq(Byte) /\ Len(InFlight) = Count
  /\ \A k \in 1 .. Count : InFlight[k] = data[(nread + k - 1) % PIPESIZE]

\* The bytes in flight are a sequence.
LEMMA InFlightIsSeq == TypeOK => RingHolds
<1> SUFFICES ASSUME TypeOK PROVE RingHolds
  OBVIOUS
<1>1. Count \in Nat
  BY CountFacts DEF TypeOK
<1>2. \A k \in 1 .. Count : data[(nread + k - 1) % PIPESIZE] \in Byte
  <2> SUFFICES ASSUME NEW k \in 1 .. Count PROVE data[(nread + k - 1) % PIPESIZE] \in Byte
    OBVIOUS
  <2>1. nread + k - 1 \in Nat
    BY <1>1 DEF TypeOK
  <2>2. (nread + k - 1) % PIPESIZE \in Slot
    BY <2>1, ModRange DEF Slot
  <2> QED BY <2>2 DEF TypeOK
<1>3. InFlight \in [1 .. Count -> Byte]
  BY <1>2 DEF InFlight
<1> QED BY <1>1, <1>3 DEF InFlight, RingHolds

\* ... after a step too.
LEMMA InFlightIsSeqNext == TypeOK' => RingHolds'
BY InFlightIsSeq, PTL

\* pipewrite()'s store appends a byte.
LEMMA WriteByteAppends ==
  ASSUME PipeInvariant, NEW p \in Proc, NEW x \in Byte, write_byte(p, x)
  PROVE  BS!Put(x)
<1>1. TypeOK /\ TypeOK' /\ Count' = Count + 1 /\ nread' = nread
  BY WriteByteInv DEF PipeInvariant, NoUseAfterFree, write_byte
<1>2. /\ Count \in Nat /\ InFlight \in Seq(Byte) /\ Len(InFlight) = Count
      /\ \A k \in 1 .. Count : InFlight[k] = data[(nread + k - 1) % PIPESIZE]
  BY <1>1, InFlightIsSeq DEF RingHolds
<1>3. /\ InFlight' \in Seq(Byte) /\ Len(InFlight') = Count'
      /\ \A k \in 1 .. Count' : InFlight'[k] = data'[(nread + k - 1) % PIPESIZE]
  BY <1>1, InFlightIsSeqNext DEF RingHolds
<1>4. Count < PIPESIZE
  BY <1>1, <1>2 DEF TypeOK
<1>5. nwrite % PIPESIZE = (nread + Count) % PIPESIZE /\ nwrite % PIPESIZE \in Slot
  <2>1. nwrite \in Nat
    BY <1>1 DEF TypeOK
  <2>2. nwrite % PIPESIZE \in Slot
    BY <2>1, ModRange DEF Slot
  <2> QED BY <1>1, <2>2, WriteSlot DEF TypeOK
<1>6. InFlight'[Count + 1] = x
  <2>1. (nread + (Count + 1) - 1) % PIPESIZE = nwrite % PIPESIZE
    <3>1. nread + (Count + 1) - 1 = nread + Count
      BY <1>1, <1>2 DEF TypeOK
    <3> QED BY <1>5, <3>1
  <2>2. data'[nwrite % PIPESIZE] = x
    BY <1>1, <1>5 DEF TypeOK, write_byte
  <2> QED BY <1>1, <1>2, <1>3, <2>1, <2>2
<1>7. ASSUME NEW k \in 1 .. Count PROVE InFlight'[k] = InFlight[k]
  <2>0. nread \in Nat
    BY <1>1 DEF TypeOK
  <2>1. k - 1 \in Nat /\ nread + k - 1 = nread + (k - 1)
    BY <1>2, <2>0
  <2>a. k - 1 < Count /\ Count < (k - 1) + PIPESIZE
    BY <1>2, <1>4
  <2>2. (nread + (k - 1)) % PIPESIZE # (nread + Count) % PIPESIZE
    BY <1>2, <2>0, <2>1, <2>a, SlotsDiffer
  <2>3. data'[(nread + k - 1) % PIPESIZE] = data[(nread + k - 1) % PIPESIZE]
    <3>1. nread + (k - 1) \in Nat
      BY <2>0, <2>1
    <3>2. (nread + (k - 1)) % PIPESIZE \in Slot
      BY <3>1, ModRange DEF Slot
    <3> QED BY <1>1, <1>5, <2>1, <2>2, <3>2 DEF TypeOK, write_byte
  <2> QED BY <1>1, <1>2, <1>3, <2>3
<1>8. InFlight' = Append(InFlight, x)
  BY <1>1, <1>2, <1>3, <1>6, <1>7
<1> QED BY <1>2, <1>4, <1>8 DEF BS!Put, write_byte

\* piperead()'s copy takes the oldest byte.
LEMMA ReadByteTakes ==
  ASSUME PipeInvariant, NEW p \in Proc, read_byte(p)
  PROVE  BS!Get
<1>1. TypeOK /\ TypeOK' /\ Count' = Count - 1 /\ Count > 0 /\ data' = data
  BY ReadByteInv DEF PipeInvariant, NoUseAfterFree, read_byte
<1>2. /\ Count \in Nat /\ InFlight \in Seq(Byte) /\ Len(InFlight) = Count
      /\ \A k \in 1 .. Count : InFlight[k] = data[(nread + k - 1) % PIPESIZE]
  BY <1>1, InFlightIsSeq DEF RingHolds
<1>3. /\ InFlight' \in Seq(Byte) /\ Len(InFlight') = Count'
      /\ \A k \in 1 .. Count' : InFlight'[k] = data'[(nread' + k - 1) % PIPESIZE]
  BY <1>1, InFlightIsSeqNext DEF RingHolds
<1>4. got' = InFlight[1]
  <2>1. nread + 1 - 1 = nread
    BY <1>1 DEF TypeOK
  <2> QED BY <1>1, <1>2, <2>1 DEF read_byte
<1>5. ASSUME NEW k \in 1 .. Count' PROVE InFlight'[k] = InFlight[k + 1]
  <2>0. k + 1 \in 1 .. Count
    BY <1>1, <1>2
  <2>a. nread \in 0 .. (Width - 1) /\ nread' = (nread + 1) % Width
    BY <1>1 DEF TypeOK, read_byte
  <2>1. nread' = IF nread + 1 < Width THEN nread + 1 ELSE 0
    BY <2>a, Increment
  <2>2. (nread' + k - 1) % PIPESIZE = (nread + (k + 1) - 1) % PIPESIZE
    <3>1. CASE nread + 1 < Width
      <4>1. nread' + k - 1 = nread + (k + 1) - 1
        BY <2>a, <2>1, <3>1
      <4> QED BY <4>1
    <3>2. CASE ~(nread + 1 < Width)
      <4>1. /\ nread' + k - 1 \in Nat
            /\ nread + (k + 1) - 1 = (nread' + k - 1) + Width
        BY <2>0, <2>a, <2>1, <3>2
      <4> QED BY <4>1, WrapKeepsSlot
    <3> QED BY <3>1, <3>2
  <2> QED BY <1>1, <1>2, <1>3, <2>0, <2>2
<1>6. InFlight' = Tail(InFlight)
  BY <1>1, <1>2, <1>3, <1>5
<1> QED BY <1>1, <1>2, <1>4, <1>6 DEF BS!Get

\* The ring, its counters and their wrap-around implement a bounded FIFO, for
\* any number of readers and writers, any PIPESIZE and any multiple of it as
\* Width.
THEOREM PipeIsFifo == Spec => Fifo
<1>1. Init => BS!Init
  <2> SUFFICES ASSUME Init PROVE BS!Init
    OBVIOUS
  <2>1. TypeOK
    BY InitInv DEF PipeInvariant, NoUseAfterFree
  <2>2. Count = 0
    BY <2>1, CountFacts DEF TypeOK, Init, Empty
  <2>3. InFlight \in Seq(Byte) /\ Len(InFlight) = 0
    BY <2>1, <2>2, InFlightIsSeq DEF RingHolds
  <2>4. InFlight = <<>>
    BY <2>3
  <2> QED BY <2>4 DEF BS!Init, Init
<1>2. PipeInvariant /\ [Next]_vars => [BS!Next]_(BS!vars)
  <2> SUFFICES ASSUME PipeInvariant, [Next]_vars PROVE [BS!Next]_(BS!vars)
    OBVIOUS
  <2>1. ASSUME NEW p \in Proc, NEW x \in Byte, write_byte(p, x) PROVE BS!Next
    BY <2>1, WriteByteAppends DEF BS!Next
  <2>2. ASSUME NEW p \in Proc, read_byte(p) PROVE BS!Next
    BY <2>2, ReadByteTakes DEF BS!Next
  <2>3. CASE UNCHANGED ring
    BY <2>3 DEF ring, InFlight, Count, BS!vars
  <2>4. \/ \E p \in Proc, x \in Byte : write_byte(p, x)
        \/ \E p \in Proc : read_byte(p)
        \/ UNCHANGED ring
    BY DEF Next, Step, vars, ring, call, acquire, sleep, write_fail, write_full, write_done,
           read_fail, read_empty, read_ready, read_done, kill, close
  <2> QED BY <2>1, <2>2, <2>3, <2>4
<1> QED BY <1>1, <1>2, InvariantHolds, PTL DEF Spec, Fifo, BS!Spec
=============================================================================
