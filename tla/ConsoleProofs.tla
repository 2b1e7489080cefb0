---------------------------- MODULE ConsoleProofs ----------------------------
(***************************************************************************)
(* Proofs about the input side of console.c for any number of readers, any *)
(* size of the ring and any width of its indices: its safety invariants,   *)
(* and that the ring implements LineInput.                                 *)
(***************************************************************************)
EXTENDS Console, Integers, SequenceTheorems, TLAPS

USE ConsoleAssumption

Index == 0 .. (Width - 1)

-----------------------------------------------------------------------------
(***************************************************************************)
(* Indices.                                                                *)
(***************************************************************************)

\* A remainder, with its quotient.
LEMMA Division ==
  ASSUME NEW a \in Nat, NEW m \in Nat \ {0}
  PROVE  a % m \in 0 .. (m - 1) /\ \E q \in Nat : a = m * q + (a % m)
<1>1. a = m * (a \div m) + (a % m) /\ a \div m \in Nat /\ a % m \in 0 .. (m - 1)
  OBVIOUS
<1> QED BY <1>1

LEMMA OneRemainder ==
  ASSUME NEW m \in Nat \ {0}, NEW q \in Nat, NEW x \in 0 .. (m - 1)
  PROVE  (m * q + x) % m = x
OBVIOUS

\* Below the divisor, and in the turn after it.
LEMMA FirstTurn ==
  ASSUME NEW m \in Nat \ {0}, NEW a \in 0 .. (m - 1)
  PROVE  a % m = a
OBVIOUS

LEMMA SecondTurn ==
  ASSUME NEW m \in Nat \ {0}, NEW a \in m .. (2 * m - 1)
  PROVE  a % m = a - m
OBVIOUS

\* Sums and differences of indices, without the remainder.
LEMMA PlusIs ==
  ASSUME NEW a \in Index, NEW k \in 0 .. Width
  PROVE  Plus(a, k) = (IF a + k < Width THEN a + k ELSE a + k - Width) /\ Plus(a, k) \in Index
<1>1. CASE a + k < Width
  <2>1. a + k \in 0 .. (Width - 1)
    BY <1>1 DEF Index
  <2> QED BY <1>1, <2>1, FirstTurn DEF Plus, Index
<1>2. CASE a + k >= Width
  <2>1. a + k \in Width .. (2 * Width - 1) /\ Width \in Nat \ {0}
    BY <1>2 DEF Index
  <2>2. Plus(a, k) = a + k - Width
    <3>1. (a + k) % Width = a + k - Width
      BY <2>1, SecondTurn DEF Index
    <3> QED BY <3>1 DEF Plus
  <2> QED BY <1>2, <2>1, <2>2 DEF Index
<1> QED BY <1>1, <1>2 DEF Index

LEMMA MinusIs ==
  ASSUME NEW a \in Index, NEW k \in 0 .. Width
  PROVE  Minus(a, k) = (IF a >= k THEN a - k ELSE a + Width - k) /\ Minus(a, k) \in Index
<1>1. CASE a >= k
  <2>1. a + Width - k \in Width .. (2 * Width - 1) /\ Width \in Nat \ {0}
    BY <1>1 DEF Index
  <2>2. Minus(a, k) = a + Width - k - Width
    <3>1. (a + Width - k) % Width = a + Width - k - Width
      BY <2>1, SecondTurn DEF Index
    <3> QED BY <3>1 DEF Minus
  <2> QED BY <1>1, <2>1, <2>2 DEF Index
<1>2. CASE ~(a >= k)
  <2>1. a + Width - k \in 0 .. (Width - 1)
    BY <1>2 DEF Index
  <2> QED BY <1>2, <2>1, FirstTurn DEF Minus, Index
<1> QED BY <1>1, <1>2

\* Width is a multiple of INPUT_BUF: wrapping around keeps the place in the ring.
LEMMA WrapKeepsPlace ==
  ASSUME NEW a \in Nat
  PROVE  (a + Width) % INPUT_BUF = a % INPUT_BUF
<1>1. PICK t \in Nat : Width = INPUT_BUF * t
  <2>1. PICK t \in Nat : Width = INPUT_BUF * t + (Width % INPUT_BUF)
    BY Division
  <2> QED BY <2>1
<1>2. PICK q \in Nat : a = INPUT_BUF * q + (a % INPUT_BUF)
  BY Division
<1>3. a % INPUT_BUF \in 0 .. (INPUT_BUF - 1)
  BY Division
<1>4. a + Width = INPUT_BUF * (q + t) + (a % INPUT_BUF)
  BY <1>1, <1>2, <1>3
<1>5. q + t \in Nat
  OBVIOUS
<1> QED BY <1>3, <1>4, <1>5, OneRemainder

\* Less than INPUT_BUF apart means different places.
LEMMA PlacesDiffer ==
  ASSUME NEW a \in Nat, NEW b \in Nat, a < b, b < a + INPUT_BUF
  PROVE  a % INPUT_BUF # b % INPUT_BUF
<1> SUFFICES ASSUME a % INPUT_BUF = b % INPUT_BUF PROVE FALSE
  OBVIOUS
<1>1. PICK q \in Nat : a = INPUT_BUF * q + (a % INPUT_BUF)
  BY Division
<1>2. PICK t \in Nat : b = INPUT_BUF * t + (b % INPUT_BUF)
  BY Division
<1>3. a % INPUT_BUF \in Nat
  BY Division
<1>4. b - a = INPUT_BUF * (t - q)
  BY <1>1, <1>2, <1>3
<1>5. t - q \in Int /\ b - a \in 1 .. (INPUT_BUF - 1)
  OBVIOUS
<1> QED BY <1>4, <1>5

\* The place in the ring of the character k after index a.
Place(a, k) == (a + k) % INPUT_BUF

LEMMA PlaceIs ==
  ASSUME NEW a \in Index, NEW k \in 0 .. Width
  PROVE  Plus(a, k) % INPUT_BUF = Place(a, k) /\ Place(a, k) \in 0 .. (INPUT_BUF - 1)
<1>1. a + k \in Nat /\ a \in Nat
  BY DEF Index
<1>2. Place(a, k) \in 0 .. (INPUT_BUF - 1)
  BY <1>1, Division DEF Place
<1>3. CASE a + k < Width
  <2>1. Plus(a, k) = a + k
    BY <1>3, PlusIs
  <2> QED BY <1>2, <2>1 DEF Place
<1>4. CASE ~(a + k < Width)
  <2>1. Plus(a, k) = a + k - Width /\ a + k - Width \in Nat
    BY <1>1, <1>4, PlusIs
  <2>2. (a + k - Width + Width) % INPUT_BUF = (a + k - Width) % INPUT_BUF
    BY <2>1, WrapKeepsPlace
  <2>3. a + k - Width + Width = a + k
    BY <1>1
  <2> QED BY <1>2, <2>1, <2>2, <2>3 DEF Place
<1> QED BY <1>2, <1>3, <1>4

-----------------------------------------------------------------------------
(***************************************************************************)
(* Distances.                                                              *)
(***************************************************************************)
D(a, b) == IF b >= a THEN b - a ELSE b + Width - a

LEMMA DistanceIs ==
  ASSUME NEW a \in Index, NEW b \in Index
  PROVE  Minus(b, a) = D(a, b) /\ D(a, b) \in Index /\ (D(a, b) = 0 <=> a = b)
<1>1. a \in 0 .. Width
  BY DEF Index
<1>2. Minus(b, a) = D(a, b)
  BY <1>1, MinusIs DEF D
<1> QED BY <1>2 DEF D, Index

\* From a through b to c.
LEMMA Through ==
  ASSUME NEW a \in Index, NEW b \in Index, NEW c \in Index, D(a, b) <= D(a, c)
  PROVE  D(a, c) = D(a, b) + D(b, c)
BY DEF D, Index

\* One character further: the end, and the start.
LEMMA EndMoves ==
  ASSUME NEW a \in Index, NEW b \in Index, D(a, b) < INPUT_BUF
  PROVE  Plus(b, 1) \in Index /\ D(a, Plus(b, 1)) = D(a, b) + 1
<1> DEFINE v == Plus(b, 1)
<1>1. v = (IF b + 1 < Width THEN b + 1 ELSE b + 1 - Width) /\ v \in Index
  BY PlusIs
<1> HIDE DEF v
<1>2. D(a, v) = D(a, b) + 1
  BY <1>1 DEF D, Index
<1> QED BY <1>1, <1>2 DEF v

LEMMA StartMoves ==
  ASSUME NEW a \in Index, NEW b \in Index, a # b
  PROVE  Plus(a, 1) \in Index /\ D(Plus(a, 1), b) = D(a, b) - 1
<1> DEFINE v == Plus(a, 1)
<1>1. v = (IF a + 1 < Width THEN a + 1 ELSE a + 1 - Width) /\ v \in Index
  BY PlusIs
<1> HIDE DEF v
<1>2. D(v, b) = D(a, b) - 1
  BY <1>1 DEF D, Index
<1> QED BY <1>1, <1>2 DEF v

LEMMA EndMovesBack ==
  ASSUME NEW a \in Index, NEW b \in Index, a # b
  PROVE  Minus(b, 1) \in Index /\ D(a, Minus(b, 1)) = D(a, b) - 1
<1> DEFINE v == Minus(b, 1)
<1>1. v = (IF b >= 1 THEN b - 1 ELSE b + Width - 1) /\ v \in Index
  BY MinusIs
<1> HIDE DEF v
<1>2. D(a, v) = D(a, b) - 1
  BY <1>1 DEF D, Index
<1> QED BY <1>1, <1>2 DEF v

\* "input.e == input.r+INPUT_BUF" says that the ring is full.
LEMMA FullMeans ==
  ASSUME NEW a \in Index, NEW b \in Index
  PROVE  b = Plus(a, INPUT_BUF) <=> D(a, b) = INPUT_BUF
<1>1. Plus(a, INPUT_BUF) = IF a + INPUT_BUF < Width THEN a + INPUT_BUF ELSE a + INPUT_BUF - Width
  BY PlusIs
<1> QED BY <1>1 DEF D, Index

\* A place reached from a or from b, an index D(a, b) further.
LEMMA SamePlace ==
  ASSUME NEW a \in Index, NEW b \in Index, NEW k \in Nat
  PROVE  Place(b, k) = Place(a, D(a, b) + k)
<1>1. CASE b >= a
  BY <1>1 DEF Place, D, Index
<1>2. CASE ~(b >= a)
  <2>1. a + (D(a, b) + k) = b + k + Width /\ b + k \in Nat
    BY <1>2 DEF D, Index
  <2> QED BY <2>1, WrapKeepsPlace DEF Place
<1> QED BY <1>1, <1>2

-----------------------------------------------------------------------------
(***************************************************************************)
(* The invariant.                                                          *)
(***************************************************************************)

\* FullRingIsReadable and LineIsOpen, without remainders.
RingOk ==
  /\ r \in Index /\ w \in Index /\ e \in Index
  /\ D(r, w) <= D(r, e) /\ D(r, e) <= INPUT_BUF
  /\ D(r, e) = INPUT_BUF => w = e
  /\ \A k \in 0 .. (D(w, e) - 1) : buf[Place(w, k)] = "x"

RingMeans == TypeOK => (RingOk <=> FullRingIsReadable /\ LineIsOpen)

LEMMA RingIs == RingMeans
<1> SUFFICES ASSUME TypeOK PROVE RingOk <=> FullRingIsReadable /\ LineIsOpen
  BY DEF RingMeans
<1>1. r \in Index /\ w \in Index /\ e \in Index
  BY DEF TypeOK, Index
<1>2. Minus(w, r) = D(r, w) /\ Minus(e, r) = D(r, e) /\ Minus(e, w) = D(w, e) /\ D(w, e) \in Index
  BY <1>1, DistanceIs
<1>3. \A k \in 0 .. (D(w, e) - 1) : Plus(w, k) % INPUT_BUF = Place(w, k)
  <2>1. \A k \in 0 .. (D(w, e) - 1) : k \in 0 .. Width
    BY <1>2 DEF Index
  <2> QED BY <1>1, <2>1, PlaceIs
<1> QED BY <1>1, <1>2, <1>3 DEF RingOk, FullRingIsReadable, LineIsOpen

LEMMA RingIsNext == RingMeans'
BY RingIs, PTL

\* What goes on among the readers.
ReadersOk == LockFollowsReaders /\ SleepersHaveNothingToRead /\ ReadsReturnOneLine

\* The conjuncts of InputIsSound, with RingOk.
Sound == TypeOK /\ RingOk /\ ReadersOk

SoundMeans == Sound <=> InputIsSound

LEMMA SoundIs == SoundMeans
BY RingIs DEF SoundMeans, RingMeans, Sound, ReadersOk, InputIsSound

\* Distances in a sound ring.
LEMMA RingFacts ==
  ASSUME RingOk
  PROVE  /\ D(r, e) = D(r, w) + D(w, e) /\ D(r, w) \in Nat /\ D(w, e) \in Nat /\ D(r, e) \in Nat
         /\ (D(r, w) = 0 <=> r = w) /\ (D(w, e) = 0 <=> w = e) /\ (D(r, e) = 0 <=> r = e)
         /\ Minus(e, r) = D(r, e) /\ Minus(e, w) = D(w, e) /\ Minus(w, r) = D(r, w)
         /\ D(r, e) <= INPUT_BUF
<1>1. r \in Index /\ w \in Index /\ e \in Index /\ D(r, w) <= D(r, e) /\ D(r, e) <= INPUT_BUF
  BY DEF RingOk
<1>2. D(r, e) = D(r, w) + D(w, e)
  BY <1>1, Through
<1>3. D(r, w) \in Index /\ D(w, e) \in Index /\ D(r, e) \in Index
  BY <1>1, DistanceIs
<1>4. D(r, w) \in Nat /\ D(w, e) \in Nat /\ D(r, e) \in Nat
  BY <1>3 DEF Index
<1> QED BY <1>1, <1>2, <1>4, DistanceIs

LEMMA InitSound == Init => Sound
<1> SUFFICES ASSUME Init PROVE Sound
  OBVIOUS
<1>1. 0 \in Index /\ D(0, 0) = 0 /\ r = 0 /\ w = 0 /\ e = 0
  BY DEF Index, D, Init
<1>2. TypeOK
  BY <1>1 DEF Init, TypeOK, Index, Char
<1>3. RingOk
  BY <1>1 DEF RingOk
<1>4. ReadersOk
  <2>1. \A p \in Proc : got[p] = <<>> /\ target[p] = 0 /\ pc[p] = "idle" /\ lock # p
    BY DEF Init
  <2> QED BY <2>1 DEF ReadersOk, LockFollowsReaders, SleepersHaveNothingToRead, ReadsReturnOneLine
<1> QED BY <1>2, <1>3, <1>4 DEF Sound

\* Another place of the ring is not overwritten by the character at e.
LEMMA OthersKept ==
  ASSUME TypeOK, RingOk, NEW c \in Char, D(r, e) < INPUT_BUF, buf' = [buf EXCEPT ![e % INPUT_BUF] = c]
  PROVE  /\ \A k \in 0 .. (D(w, e) - 1) : buf'[Place(w, k)] = buf[Place(w, k)]
         /\ \A k \in 0 .. (D(r, e) - 1) : buf'[Place(r, k)] = buf[Place(r, k)]
         /\ buf'[Place(w, D(w, e))] = c /\ buf'[Place(r, D(r, e))] = c
         /\ buf' \in [0 .. (INPUT_BUF - 1) -> Char]
<1>1. r \in Index /\ w \in Index /\ e \in Index /\ r \in Nat /\ w \in Nat /\ e \in Nat
  BY DEF RingOk, Index
<1>2. D(w, e) \in Nat /\ D(r, e) \in Nat /\ D(w, e) <= D(r, e) /\ D(r, e) < Width
  BY RingFacts
<1>3. e % INPUT_BUF = Place(e, 0) /\ e % INPUT_BUF \in 0 .. (INPUT_BUF - 1)
  <2>1. e + 0 = e
    BY <1>1
  <2> QED BY <1>1, <2>1, Division DEF Place
<1>4. Place(e, 0) = Place(w, D(w, e)) /\ Place(e, 0) = Place(r, D(r, e))
  <2>1. D(w, e) + 0 = D(w, e) /\ D(r, e) + 0 = D(r, e)
    BY <1>2
  <2> QED BY <1>1, <2>1, SamePlace
<1>5. ASSUME NEW a \in Nat, NEW n \in Nat, n < INPUT_BUF, NEW k \in 0 .. (n - 1) PROVE Place(a, k) # Place(a, n)
  <2>1. a + k \in Nat /\ a + n \in Nat /\ a + k < a + n /\ a + n < a + k + INPUT_BUF
    BY <1>5
  <2> QED BY <2>1, PlacesDiffer DEF Place
<1>6. \A k \in 0 .. (D(w, e) - 1) : Place(w, k) # e % INPUT_BUF
  BY <1>1, <1>2, <1>3, <1>4, <1>5
<1>7. \A k \in 0 .. (D(r, e) - 1) : Place(r, k) # e % INPUT_BUF
  BY <1>1, <1>2, <1>3, <1>4, <1>5
<1>8. buf \in [0 .. (INPUT_BUF - 1) -> Char]
  BY DEF TypeOK
<1>9. \A i \in 0 .. (INPUT_BUF - 1) : buf'[i] = IF i = e % INPUT_BUF THEN c ELSE buf[i]
  BY <1>8
<1>10. \A a \in Index : \A k \in 0 .. Width : Place(a, k) \in 0 .. (INPUT_BUF - 1)
  BY PlaceIs
<1>11. (\A k \in 0 .. (D(w, e) - 1) : k \in 0 .. Width) /\ (\A k \in 0 .. (D(r, e) - 1) : k \in 0 .. Width)
  BY <1>2
<1>12. \A k \in 0 .. (D(w, e) - 1) : buf'[Place(w, k)] = buf[Place(w, k)]
  BY <1>1, <1>6, <1>9, <1>10, <1>11
<1>13. \A k \in 0 .. (D(r, e) - 1) : buf'[Place(r, k)] = buf[Place(r, k)]
  BY <1>1, <1>7, <1>9, <1>10, <1>11
<1>14. buf'[Place(w, D(w, e))] = c /\ buf'[Place(r, D(r, e))] = c
  BY <1>3, <1>4, <1>9
<1> QED BY <1>8, <1>12, <1>13, <1>14

\* A character is kept: the ring.
LEMMA IntrRing ==
  ASSUME Sound, NEW c \in Char, consoleintr(c), ~(Minus(e, r) >= INPUT_BUF)
  PROVE  /\ RingOk' /\ buf' \in [0 .. (INPUT_BUF - 1) -> Char]
         /\ D(r, e) < INPUT_BUF /\ e' = Plus(e, 1) /\ D(r, e') = D(r, e) + 1 /\ r' = r
         /\ Commits(c, Plus(e, 1)) <=> (c \in {"nl", "D"} \/ D(r, e) + 1 = INPUT_BUF)
<1>1. TypeOK /\ RingOk /\ r \in Index /\ w \in Index /\ e \in Index
  BY DEF Sound, RingOk
<1>2. /\ buf' = [buf EXCEPT ![e % INPUT_BUF] = c] /\ e' = Plus(e, 1) /\ r' = r
      /\ w' = IF Commits(c, Plus(e, 1)) THEN Plus(e, 1) ELSE w
  BY DEF consoleintr
<1>3. /\ D(r, e) = D(r, w) + D(w, e) /\ D(r, w) \in Nat /\ D(w, e) \in Nat /\ D(r, e) \in Nat
      /\ D(r, e) < INPUT_BUF /\ D(w, e) < INPUT_BUF
  BY <1>1, RingFacts
<1>4. e' \in Index /\ D(r, e') = D(r, e) + 1 /\ D(w, e') = D(w, e) + 1
  BY <1>1, <1>2, <1>3, EndMoves
<1>5. Commits(c, Plus(e, 1)) <=> (c \in {"nl", "D"} \/ D(r, e) + 1 = INPUT_BUF)
  BY <1>1, <1>2, <1>4, FullMeans DEF Commits
<1>6. CASE Commits(c, Plus(e, 1))
  <2>1. w' = e' /\ D(w', e') = 0 /\ D(r, w') = D(r, e')
    BY <1>2, <1>4, <1>6, DistanceIs
  <2>2. RingOk'
    BY <1>1, <1>2, <1>3, <1>4, <2>1 DEF RingOk
  <2> QED BY <1>1, <1>2, <1>3, <1>4, <1>5, <2>2, OthersKept
<1>7. CASE ~Commits(c, Plus(e, 1))
  <2>1. w' = w /\ c = "x" /\ D(r, e) + 1 # INPUT_BUF
    BY <1>2, <1>5, <1>7 DEF Char
  <2>2. \A k \in 0 .. (D(w, e') - 1) : buf'[Place(w, k)] = "x"
    <3>1. \A k \in 0 .. (D(w, e) - 1) : buf'[Place(w, k)] = "x"
      BY <1>1, <1>2, <1>3, OthersKept DEF RingOk
    <3>2. buf'[Place(w, D(w, e))] = "x"
      BY <1>1, <1>2, <1>3, <2>1, OthersKept
    <3>3. \A k \in 0 .. (D(w, e') - 1) : k \in 0 .. (D(w, e) - 1) \/ k = D(w, e)
      BY <1>3, <1>4
    <3> QED BY <3>1, <3>2, <3>3
  <2>3. /\ r' \in Index /\ w' \in Index /\ e' \in Index
        /\ D(r', w') <= D(r', e') /\ D(r', e') <= INPUT_BUF /\ D(r', e') # INPUT_BUF
    BY <1>1, <1>2, <1>3, <1>4, <2>1
  <2>4. RingOk'
    BY <2>1, <2>2, <2>3 DEF RingOk
  <2> QED BY <1>1, <1>2, <1>3, <1>4, <1>5, <2>4, OthersKept
<1> QED BY <1>6, <1>7

\* consoleintr() keeps a character, or has no room for it.
LEMMA IntrSound ==
  ASSUME Sound, NEW c \in Char, consoleintr(c)
  PROVE  Sound'
<1>1. TypeOK /\ RingOk /\ ReadersOk /\ lock = None
  BY DEF Sound, consoleintr, Interrupt
<1>2. UNCHANGED <<lock, target, got, killed>> /\ typed' = typed + 1
  BY DEF consoleintr, Interrupt
<1>3. \A p \in Proc : pc[p] \notin {"loop", "sleep"}
  BY <1>1 DEF ReadersOk, LockFollowsReaders
<1>4. CASE Minus(e, r) >= INPUT_BUF
  <2>1. UNCHANGED <<buf, r, w, e, pc>>
    BY <1>4 DEF consoleintr, input
  <2>2. TypeOK'
    BY <1>1, <1>2, <2>1 DEF TypeOK
  <2>3. RingOk' /\ ReadersOk'
    BY <1>1, <1>2, <2>1
       DEF RingOk, ReadersOk, LockFollowsReaders, SleepersHaveNothingToRead, ReadsReturnOneLine
  <2> QED BY <2>2, <2>3 DEF Sound
<1>5. CASE ~(Minus(e, r) >= INPUT_BUF)
  <2>1. RingOk' /\ buf' \in [0 .. (INPUT_BUF - 1) -> Char]
    BY <1>5, IntrRing
  <2>2. \/ /\ w' = w /\ r' = r /\ pc' = pc
        \/ pc' = [p \in Proc |-> IF pc[p] = "asleep" THEN "woken" ELSE pc[p]]
    BY <1>5 DEF consoleintr, Wakeup
  <2>3. TypeOK'
    <3>1. pc' \in [Proc -> {"idle", "acquire", "loop", "sleep", "asleep", "woken"}]
      BY <1>1, <2>2 DEF TypeOK
    <3>2. {r, w, e}' \subseteq 0 .. (Width - 1)
      BY <2>1 DEF RingOk, Index
    <3> QED BY <1>1, <1>2, <2>1, <3>1, <3>2 DEF TypeOK
  <2>4. \A p \in Proc : /\ pc'[p] \notin {"loop", "sleep"} /\ (pc'[p] = "idle" <=> pc[p] = "idle")
                        /\ pc'[p] = "asleep" => r' = r /\ w' = w /\ pc[p] = "asleep"
    BY <1>1, <1>3, <2>2 DEF TypeOK
  <2>5. LockFollowsReaders'
    BY <1>1, <1>2, <2>4 DEF LockFollowsReaders
  <2>6. SleepersHaveNothingToRead'
    BY <1>1, <2>4 DEF ReadersOk, SleepersHaveNothingToRead
  <2>7. ReadsReturnOneLine'
    BY <1>1, <1>2, <2>4 DEF ReadersOk, ReadsReturnOneLine
  <2> QED BY <2>1, <2>3, <2>5, <2>6, <2>7 DEF Sound, ReadersOk
<1> QED BY <1>4, <1>5

\* In an open line C('U') goes back to its beginning.
LEMMA LineStartIsW ==
  ASSUME TypeOK, RingOk
  PROVE  LineStart = w
<1> DEFINE back == {k \in 0 .. Minus(e, w) : k = Minus(e, w) \/ buf[Minus(e, k + 1) % INPUT_BUF] = "nl"}
<1>1. r \in Index /\ w \in Index /\ e \in Index /\ Minus(e, w) = D(w, e) /\ D(w, e) \in Nat /\ D(w, e) < Width
  BY RingFacts DEF RingOk
<1>2. ASSUME NEW k \in 0 .. (D(w, e) - 1) PROVE buf[Minus(e, k + 1) % INPUT_BUF] = "x"
  <2> DEFINE j == D(w, e) - (k + 1)
  <2>1. j \in 0 .. (D(w, e) - 1) /\ j \in 0 .. Width /\ k + 1 \in 0 .. Width
    BY <1>1
  <2>2. Minus(e, k + 1) = Plus(w, j)
    <3>1. Minus(e, k + 1) = IF e >= k + 1 THEN e - (k + 1) ELSE e + Width - (k + 1)
      BY <1>1, <2>1, MinusIs
    <3>2. Plus(w, j) = IF w + j < Width THEN w + j ELSE w + j - Width
      BY <1>1, <2>1, PlusIs
    <3> QED BY <1>1, <2>1, <3>1, <3>2 DEF D, Index
  <2>3. Plus(w, j) % INPUT_BUF = Place(w, j)
    BY <1>1, <2>1, PlaceIs
  <2> QED BY <2>1, <2>2, <2>3 DEF RingOk
<1>3. back = {D(w, e)}
  <2>1. ASSUME NEW k \in 0 .. D(w, e), k # D(w, e) PROVE buf[Minus(e, k + 1) % INPUT_BUF] # "nl"
    <3>1. k \in 0 .. (D(w, e) - 1)
      BY <1>1, <2>1
    <3> QED BY <1>2, <3>1
  <2> QED BY <1>1, <2>1
<1>4. (CHOOSE k \in back : \A j \in back : k <= j) = D(w, e)
  <2>1. \A k \in back : k = D(w, e)
    BY <1>3
  <2>2. D(w, e) \in back /\ \A j \in back : D(w, e) <= j
    BY <1>1, <1>3
  <2> HIDE DEF back
  <2> QED BY <2>1, <2>2
<1>5. LineStart = Minus(e, D(w, e))
  BY <1>4, Zenon DEF LineStart
<1>6. Minus(e, D(w, e)) = IF e >= D(w, e) THEN e - D(w, e) ELSE e + Width - D(w, e)
  BY <1>1, MinusIs
<1> QED BY <1>1, <1>5, <1>6 DEF D, Index

\* Editing: C('U') and backspace.
LEMMA EditSound ==
  ASSUME Sound, kill_line \/ backspace
  PROVE  Sound'
<1>1. TypeOK /\ RingOk /\ ReadersOk /\ r \in Index /\ w \in Index /\ e \in Index
  BY DEF Sound, RingOk
<1>2. UNCHANGED <<buf, r, w, lock, pc, target, got, killed>> /\ typed' = typed + 1
  BY DEF kill_line, backspace, Interrupt
<1>3. /\ D(r, e) = D(r, w) + D(w, e) /\ D(r, w) \in Nat /\ D(w, e) \in Nat /\ D(r, e) \in Nat
      /\ D(r, e) <= INPUT_BUF /\ (D(w, e) = 0 <=> w = e) /\ (D(r, e) = 0 <=> r = e)
  BY <1>1, RingFacts
<1>4. RingOk'
  <2>1. CASE e' = e
    BY <1>1, <1>2, <2>1 DEF RingOk
  <2>2. CASE e' = w
    <3>1. D(w, e') = 0
      BY <1>1, <2>2, DistanceIs
    <3> QED BY <1>1, <1>2, <1>3, <2>2, <3>1 DEF RingOk
  <2>3. CASE e # w /\ e' = Minus(e, 1)
    <3>1. e # r
      BY <1>3, <2>3
    <3>2. e' \in Index /\ D(w, e') = D(w, e) - 1 /\ D(r, e') = D(r, e) - 1
      BY <1>1, <2>3, <3>1, EndMovesBack
    <3>3. \A k \in 0 .. (D(w, e') - 1) : buf[Place(w, k)] = "x"
      <4>1. \A k \in 0 .. (D(w, e') - 1) : k \in 0 .. (D(w, e) - 1)
        BY <1>3, <3>2
      <4> QED BY <1>1, <4>1 DEF RingOk
    <3>4. D(r, w) <= D(r, e') /\ D(r, e') <= INPUT_BUF /\ D(r, e') # INPUT_BUF
      BY <1>3, <2>3, <3>2
    <3> QED BY <1>1, <1>2, <3>2, <3>3, <3>4 DEF RingOk
  <2> QED BY <1>1, <2>1, <2>2, <2>3, LineStartIsW DEF kill_line, backspace
<1>5. TypeOK'
  BY <1>1, <1>2, <1>4 DEF TypeOK, RingOk, Index
<1>6. ReadersOk'
  BY <1>1, <1>2 DEF ReadersOk, LockFollowsReaders, SleepersHaveNothingToRead, ReadsReturnOneLine
<1> QED BY <1>4, <1>5, <1>6 DEF Sound

\* The steps of a reader that leave the ring alone.
LEMMA ReaderSound ==
  ASSUME Sound, NEW p \in Proc,
         \/ \E n \in 0 .. MaxRead : read(p, n)
         \/ acquire(p) \/ read_done(p) \/ read_empty(p) \/ sleep(p) \/ kill(p)
  PROVE  Sound'
<1>1. TypeOK /\ RingOk /\ LockFollowsReaders /\ SleepersHaveNothingToRead /\ ReadsReturnOneLine
  BY DEF Sound, ReadersOk
<1>2. UNCHANGED <<buf, r, w, e, typed>>
  BY DEF read, acquire, read_done, read_empty, sleep, kill, input
<1>3. RingOk'
  BY <1>1, <1>2 DEF RingOk
<1>4. CASE \E n \in 0 .. MaxRead : read(p, n)
  <2>1. PICK n \in 0 .. MaxRead : read(p, n)
    BY <1>4
  <2>2. /\ pc[p] = "idle" /\ target' = [target EXCEPT ![p] = n] /\ got' = [got EXCEPT ![p] = <<>>]
        /\ pc' = [pc EXCEPT ![p] = "acquire"] /\ UNCHANGED <<lock, killed>>
    BY <2>1 DEF read, Goto
  <2>3. TypeOK'
    <3>1. <<>> \in Seq(Char)
      OBVIOUS
    <3>2. got' \in [Proc -> Seq(Char)] /\ target' \in [Proc -> 0 .. MaxRead]
      BY <1>1, <2>2, <3>1 DEF TypeOK
    <3> QED BY <1>1, <1>2, <2>2, <3>2 DEF TypeOK
  <2>4. /\ pc'[p] = "acquire" /\ got'[p] = <<>> /\ target'[p] = n
        /\ \A q \in Proc \ {p} : pc'[q] = pc[q] /\ got'[q] = got[q] /\ target'[q] = target[q]
    BY <1>1, <2>2 DEF TypeOK
  <2>5. LockFollowsReaders' /\ SleepersHaveNothingToRead'
    BY <1>1, <1>2, <2>2, <2>4 DEF LockFollowsReaders, SleepersHaveNothingToRead
  <2>6. ReadsReturnOneLine'
    <3>1. Len(<<>>) = 0 /\ DOMAIN <<>> = {}
      OBVIOUS
    <3>2. ASSUME NEW q \in Proc
          PROVE  /\ Len(got'[q]) <= target'[q]
                 /\ \A k \in DOMAIN got'[q] : got'[q][k] # "D" /\ (got'[q][k] = "nl" => k = Len(got'[q]) /\ pc'[q] = "idle")
      <4>1. CASE q = p
        BY <2>4, <3>1, <4>1
      <4>2. CASE q # p
        BY <1>1, <2>4, <4>2 DEF ReadsReturnOneLine
      <4> QED BY <4>1, <4>2
    <3> QED BY <3>2 DEF ReadsReturnOneLine
  <2> QED BY <1>3, <2>3, <2>5, <2>6 DEF Sound, ReadersOk
<1>5. CASE acquire(p) \/ read_done(p) \/ read_empty(p) \/ sleep(p) \/ kill(p)
  <2>1. UNCHANGED <<target, got>>
    BY <1>5 DEF acquire, read_done, read_empty, sleep, kill
  <2>2. \A q \in Proc : pc[q] = "idle" => pc'[q] = "idle"
    BY <1>1, <1>5 DEF TypeOK, acquire, read_done, read_empty, sleep, kill, Goto, Leave
  <2>3. TypeOK'
    BY <1>1, <1>2, <1>5, <2>1 DEF TypeOK, acquire, read_done, read_empty, sleep, kill, Goto, Leave
  <2>4. LockFollowsReaders'
    BY <1>1, <1>5 DEF TypeOK, LockFollowsReaders, acquire, read_done, read_empty, sleep, kill, Goto, Leave
  <2>5. SleepersHaveNothingToRead'
    BY <1>1, <1>2, <1>5 DEF TypeOK, SleepersHaveNothingToRead, acquire, read_done, read_empty, sleep, kill, Goto, Leave
  <2>6. ReadsReturnOneLine'
    BY <1>1, <2>1, <2>2 DEF ReadsReturnOneLine
  <2> QED BY <1>3, <2>3, <2>4, <2>5, <2>6 DEF Sound, ReadersOk
<1> QED BY <1>4, <1>5

\* consoleread() takes a character.
LEMMA CharSound ==
  ASSUME Sound, NEW p \in Proc, read_char(p)
  PROVE  Sound' /\ (r' = r \/ (r' = Plus(r, 1) /\ r # w)) /\ UNCHANGED <<buf, w, e>>
<1> DEFINE c == buf[r % INPUT_BUF]
<1>1. /\ TypeOK /\ RingOk /\ LockFollowsReaders /\ SleepersHaveNothingToRead /\ ReadsReturnOneLine
      /\ r \in Index /\ w \in Index /\ e \in Index /\ r \in Nat
  BY DEF Sound, ReadersOk, RingOk, Index
<1>2. /\ pc[p] = "loop" /\ Len(got[p]) < target[p] /\ r # w
      /\ r' = (IF c = "D" /\ got[p] # <<>> THEN r ELSE Plus(r, 1))
      /\ got' = (IF c = "D" THEN got ELSE [got EXCEPT ![p] = Append(@, c)])
      /\ IF c = "x" THEN UNCHANGED <<lock, pc>> ELSE lock' = None /\ pc' = [pc EXCEPT ![p] = "idle"]
      /\ UNCHANGED <<buf, w, e, target, killed, typed>>
  BY DEF read_char, Leave, Goto
<1>3. c \in Char
  BY <1>1, Division DEF TypeOK
<1> HIDE DEF c
<1>4. /\ D(r, e) = D(r, w) + D(w, e) /\ D(r, w) \in Nat /\ D(w, e) \in Nat /\ D(r, e) \in Nat
      /\ D(r, e) <= INPUT_BUF /\ (D(r, w) = 0 <=> r = w) /\ (D(r, e) = 0 <=> r = e)
  BY <1>1, RingFacts
<1>5. RingOk'
  <2>1. CASE r' = r
    BY <1>1, <1>2, <2>1 DEF RingOk
  <2>2. CASE r' = Plus(r, 1)
    <3>1. r # e
      BY <1>2, <1>4
    <3>2. r' \in Index /\ D(r', w) = D(r, w) - 1 /\ D(r', e) = D(r, e) - 1
      BY <1>1, <1>2, <2>2, <3>1, StartMoves
    <3>3. D(r', w) <= D(r', e) /\ D(r', e) <= INPUT_BUF /\ D(r', e) # INPUT_BUF
      BY <1>4, <3>2
    <3> QED BY <1>1, <1>2, <3>2, <3>3 DEF RingOk
  <2> QED BY <1>2, <2>1, <2>2
<1>6. got[p] \in Seq(Char) /\ Append(got[p], c) \in Seq(Char)
  BY <1>1, <1>3 DEF TypeOK
<1>7. TypeOK'
  <2>1. got' \in [Proc -> Seq(Char)]
    BY <1>1, <1>2, <1>6 DEF TypeOK
  <2>2. pc' \in [Proc -> {"idle", "acquire", "loop", "sleep", "asleep", "woken"}] /\ lock' \in Proc \cup {None}
    BY <1>1, <1>2 DEF TypeOK
  <2>3. {r, w, e}' \subseteq 0 .. (Width - 1)
    BY <1>5 DEF RingOk, Index
  <2> QED BY <1>1, <1>2, <2>1, <2>2, <2>3 DEF TypeOK
<1>8. /\ \A q \in Proc \ {p} : pc'[q] = pc[q] /\ got'[q] = got[q]
      /\ IF c = "x" THEN lock' = lock /\ pc'[p] = "loop" ELSE lock' = None /\ pc'[p] = "idle"
      /\ got'[p] = IF c = "D" THEN got[p] ELSE Append(got[p], c)
  BY <1>1, <1>2 DEF TypeOK
<1>9. LockFollowsReaders'
  BY <1>1, <1>2, <1>8 DEF LockFollowsReaders
<1>10. SleepersHaveNothingToRead'
  BY <1>1, <1>2, <1>8 DEF SleepersHaveNothingToRead
<1>11. ReadsReturnOneLine'
  <2>1. ASSUME NEW q \in Proc
        PROVE  /\ Len(got'[q]) <= target'[q]
               /\ \A k \in DOMAIN got'[q] : got'[q][k] # "D" /\ (got'[q][k] = "nl" => k = Len(got'[q]) /\ pc'[q] = "idle")
    <3>1. CASE q # p
      BY <1>1, <1>2, <1>8, <3>1 DEF ReadsReturnOneLine
    <3>2. CASE q = p
      <4>1. \A k \in DOMAIN got[p] : got[p][k] # "D" /\ got[p][k] # "nl"
        BY <1>1, <1>2 DEF ReadsReturnOneLine
      <4>2. Len(got[p]) \in Nat /\ target[p] \in Nat
        BY <1>1, <1>6 DEF TypeOK
      <4>3. CASE c = "D"
        BY <1>2, <1>8, <3>2, <4>1, <4>2, <4>3
      <4>4. CASE c # "D"
        <5>1. /\ got'[p] = Append(got[p], c) /\ Len(got'[p]) = Len(got[p]) + 1
              /\ DOMAIN got'[p] = 1 .. (Len(got[p]) + 1)
          BY <1>6, <1>8, <4>4
        <5>2. \A k \in 1 .. (Len(got[p]) + 1) : got'[p][k] = IF k <= Len(got[p]) THEN got[p][k] ELSE c
          BY <1>6, <4>2, <5>1
        <5>3. \A k \in 1 .. (Len(got[p]) + 1) : k <= Len(got[p]) => k \in DOMAIN got[p]
          BY <1>6, <4>2
        <5>4. ASSUME NEW k \in DOMAIN got'[p]
              PROVE  got'[p][k] # "D" /\ (got'[p][k] = "nl" => k = Len(got'[p]) /\ pc'[p] = "idle")
          <6>1. k \in 1 .. (Len(got[p]) + 1)
            BY <5>1
          <6>2. CASE k <= Len(got[p])
            BY <4>1, <5>2, <5>3, <6>1, <6>2
          <6>3. CASE ~(k <= Len(got[p]))
            BY <1>8, <4>2, <4>4, <5>1, <5>2, <6>1, <6>3
          <6> QED BY <6>2, <6>3
        <5>5. Len(got'[p]) <= target'[p]
          BY <1>2, <4>2, <5>1
        <5> QED BY <3>2, <5>4, <5>5
      <4> QED BY <4>3, <4>4
    <3> QED BY <3>1, <3>2
  <2> QED BY <2>1 DEF ReadsReturnOneLine
<1>12. r' = r \/ (r' = Plus(r, 1) /\ r # w)
  BY <1>2
<1> QED BY <1>2, <1>5, <1>7, <1>9, <1>10, <1>11, <1>12 DEF Sound, ReadersOk

LEMMA NextSound == Sound /\ [Next]_vars => Sound'
<1> SUFFICES ASSUME Sound, [Next]_vars PROVE Sound'
  OBVIOUS
<1>1. CASE Next
  BY <1>1, IntrSound, EditSound, ReaderSound, CharSound DEF Next
<1>2. CASE UNCHANGED vars
  <2>1. TypeOK'
    BY <1>2 DEF vars, Sound, TypeOK
  <2>2. RingOk' /\ ReadersOk'
    BY <1>2 DEF vars, Sound, RingOk, ReadersOk, LockFollowsReaders, SleepersHaveNothingToRead, ReadsReturnOneLine
  <2> QED BY <2>1, <2>2 DEF Sound
<1> QED BY <1>1, <1>2

LEMMA SoundHolds == Spec => []Sound
BY InitSound, NextSound, PTL DEF Spec

\* The console cannot jam, loses no wakeup and gives every read one line.
THEOREM InputIsSoundHolds == Spec => []InputIsSound
BY SoundHolds, SoundIs, PTL DEF SoundMeans

-----------------------------------------------------------------------------
(***************************************************************************)
(* The refinement.                                                         *)
(***************************************************************************)
Queue == Between(r, w)
Line == Between(w, e)

\* The ring as two sequences.
Views ==
  Sound =>
    /\ Queue \in Seq(Char) /\ Len(Queue) = D(r, w)
    /\ \A k \in 1 .. D(r, w) : Queue[k] = buf[Place(r, k - 1)]
    /\ Line \in Seq(Char) /\ Len(Line) = D(w, e)
    /\ \A k \in 1 .. D(w, e) : Line[k] = buf[Place(w, k - 1)]

LEMMA BetweenIs ==
  ASSUME TypeOK, NEW a \in Index, NEW b \in Index
  PROVE  /\ Between(a, b) \in Seq(Char) /\ Len(Between(a, b)) = D(a, b)
         /\ \A k \in 1 .. D(a, b) : Between(a, b)[k] = buf[Place(a, k - 1)]
<1>1. Minus(b, a) = D(a, b) /\ D(a, b) \in Nat /\ D(a, b) <= Width
  <2>1. Minus(b, a) = D(a, b) /\ D(a, b) \in Index
    BY DistanceIs
  <2> QED BY <2>1 DEF Index
<1>2. \A k \in 1 .. D(a, b) : /\ Plus(a, k - 1) % INPUT_BUF = Place(a, k - 1)
                              /\ Place(a, k - 1) \in 0 .. (INPUT_BUF - 1)
  <2>1. \A k \in 1 .. D(a, b) : k - 1 \in 0 .. Width
    BY <1>1
  <2> QED BY <2>1, PlaceIs
<1>3. Between(a, b) = [k \in 1 .. D(a, b) |-> buf[Plus(a, k - 1) % INPUT_BUF]]
  BY <1>1 DEF Between
<1>4. Between(a, b) \in [1 .. D(a, b) -> Char]
  BY <1>2, <1>3 DEF TypeOK
<1>5. Between(a, b) \in Seq(Char) /\ Len(Between(a, b)) = D(a, b)
  BY <1>1, <1>4
<1> QED BY <1>2, <1>3, <1>5

LEMMA ViewsHold == Views
<1> SUFFICES ASSUME Sound PROVE Views
  BY DEF Views
<1>1. TypeOK /\ r \in Index /\ w \in Index /\ e \in Index
  BY DEF Sound, RingOk
<1> QED BY <1>1, BetweenIs DEF Views, Queue, Line

LEMMA ViewsHoldNext == Views'
BY ViewsHold, PTL

LEMMA NoLine ==
  ASSUME NEW s \in Seq(Char), Len(s) = 0
  PROVE  s = <<>>
BY EmptySeq

\* A character is typed.
LEMMA IntrRefines ==
  ASSUME Sound, Sound', NEW c \in Char, consoleintr(c)
  PROVE  LI!Type(c) \/ UNCHANGED LI!vars
<1>1. CASE Minus(e, r) >= INPUT_BUF
  <2>1. UNCHANGED <<buf, r, w, e>>
    BY <1>1 DEF consoleintr, input
  <2> QED BY <2>1 DEF LI!vars, Between
<1>2. CASE ~(Minus(e, r) >= INPUT_BUF)
  <2>1. /\ D(r, e) < INPUT_BUF /\ e' = Plus(e, 1) /\ D(r, e') = D(r, e) + 1 /\ r' = r
        /\ Commits(c, Plus(e, 1)) <=> (c \in {"nl", "D"} \/ D(r, e) + 1 = INPUT_BUF)
    BY <1>2, IntrRing
  <2>2. buf' = [buf EXCEPT ![e % INPUT_BUF] = c] /\ w' = IF Commits(c, Plus(e, 1)) THEN Plus(e, 1) ELSE w
    BY <1>2 DEF consoleintr
  <2>3. TypeOK /\ RingOk /\ r \in Index /\ w \in Index /\ e \in Index /\ e' \in Index
    BY DEF Sound, RingOk
  <2>4. /\ D(r, e) = D(r, w) + D(w, e) /\ D(r, w) \in Nat /\ D(w, e) \in Nat /\ D(r, e) \in Nat
    BY <2>3, RingFacts
  <2>5. /\ \A k \in 0 .. (D(w, e) - 1) : buf'[Place(w, k)] = buf[Place(w, k)]
        /\ \A k \in 0 .. (D(r, e) - 1) : buf'[Place(r, k)] = buf[Place(r, k)]
        /\ buf'[Place(w, D(w, e))] = c /\ buf'[Place(r, D(r, e))] = c
    BY <2>1, <2>2, <2>3, OthersKept
  <2>6. /\ Queue \in Seq(Char) /\ Len(Queue) = D(r, w)
        /\ \A k \in 1 .. D(r, w) : Queue[k] = buf[Place(r, k - 1)]
        /\ Line \in Seq(Char) /\ Len(Line) = D(w, e)
        /\ \A k \in 1 .. D(w, e) : Line[k] = buf[Place(w, k - 1)]
    BY ViewsHold DEF Views
  <2>7. /\ Queue' \in Seq(Char) /\ Len(Queue') = D(r, w')
        /\ \A k \in 1 .. D(r, w') : Queue'[k] = buf'[Place(r, k - 1)]
        /\ Line' \in Seq(Char) /\ Len(Line') = D(w', e')
        /\ \A k \in 1 .. D(w', e') : Line'[k] = buf'[Place(w', k - 1)]
    BY <2>1, ViewsHoldNext DEF Views
  <2>8. /\ Append(Line, c) \in Seq(Char) /\ Len(Append(Line, c)) = D(w, e) + 1
        /\ \A k \in 1 .. (D(w, e) + 1) : Append(Line, c)[k] = IF k <= D(w, e) THEN Line[k] ELSE c
    BY <2>4, <2>6
  <2>9. CASE Commits(c, Plus(e, 1))
    <3>1. w' = e' /\ D(w', e') = 0 /\ D(r, w') = D(r, e) + 1
      BY <2>1, <2>2, <2>3, <2>9, DistanceIs
    <3>2. Line' = <<>>
      BY <2>7, <3>1, NoLine
    <3>3. /\ Queue \o Append(Line, c) \in Seq(Char) /\ Len(Queue \o Append(Line, c)) = D(r, e) + 1
          /\ \A k \in 1 .. (D(r, e) + 1) : (Queue \o Append(Line, c))[k] =
               IF k <= D(r, w) THEN Queue[k] ELSE Append(Line, c)[k - D(r, w)]
      <4>1. Len(Queue) + Len(Append(Line, c)) = D(r, e) + 1
        BY <2>4, <2>6, <2>8
      <4> QED BY <2>6, <2>8, <4>1, ConcatProperties
    <3>4. ASSUME NEW k \in 1 .. (D(r, e) + 1) PROVE Queue'[k] = (Queue \o Append(Line, c))[k]
      <4>1. Queue'[k] = buf'[Place(r, k - 1)]
        BY <2>7, <3>1
      <4>2. CASE k <= D(r, w)
        <5>1. k - 1 \in 0 .. (D(r, e) - 1) /\ k \in 1 .. D(r, w)
          BY <2>4, <4>2
        <5> QED BY <2>5, <2>6, <3>3, <4>1, <4>2, <5>1
      <4>3. CASE ~(k <= D(r, w)) /\ k <= D(r, e)
        <5>1. /\ k - 1 \in 0 .. (D(r, e) - 1) /\ k - D(r, w) \in 1 .. D(w, e) /\ k - D(r, w) - 1 \in Nat
              /\ D(r, w) + (k - D(r, w) - 1) = k - 1
          BY <2>4, <4>3
        <5>2. (Queue \o Append(Line, c))[k] = buf[Place(w, k - D(r, w) - 1)]
          <6>1. k - D(r, w) \in 1 .. (D(w, e) + 1) /\ k - D(r, w) <= D(w, e)
            BY <2>4, <5>1
          <6> QED BY <2>6, <2>8, <3>3, <4>3, <5>1, <6>1
        <5>3. Place(w, k - D(r, w) - 1) = Place(r, k - 1)
          BY <2>3, <5>1, SamePlace
        <5> QED BY <2>5, <4>1, <5>1, <5>2, <5>3
      <4>4. CASE k = D(r, e) + 1
        <5>1. k - 1 = D(r, e) /\ ~(k <= D(r, w)) /\ k - D(r, w) = D(w, e) + 1
          BY <2>4, <4>4
        <5>2. k - D(r, w) \in 1 .. (D(w, e) + 1) /\ ~(k - D(r, w) <= D(w, e))
          BY <2>4, <5>1
        <5>3. (Queue \o Append(Line, c))[k] = c
          BY <2>8, <3>3, <5>1, <5>2
        <5> QED BY <2>5, <4>1, <5>1, <5>3
      <4>5. k <= D(r, e) \/ k = D(r, e) + 1
        BY <2>4
      <4> QED BY <4>2, <4>3, <4>4, <4>5
    <3>5. Queue' = Queue \o Append(Line, c)
      BY <2>7, <3>1, <3>3, <3>4, SeqEqual
    <3>6. c \in {"nl", "D"} \/ Len(Queue) + Len(Line) + 1 = INPUT_BUF
      BY <2>1, <2>4, <2>6, <2>9
    <3>7. Len(Queue) + Len(Line) < INPUT_BUF
      BY <2>1, <2>4, <2>6
    <3> QED BY <3>2, <3>5, <3>6, <3>7 DEF LI!Type, Queue, Line
  <2>10. CASE ~Commits(c, Plus(e, 1))
    <3>1. w' = w /\ D(w', e') = D(w, e) + 1
      <4>1. w' = w
        BY <2>2, <2>10
      <4>2. D(w, e) < INPUT_BUF
        BY <2>1, <2>4
      <4> QED BY <2>1, <2>3, <4>1, <4>2, EndMoves
    <3>2. Queue' = Queue
      <4>1. ASSUME NEW k \in 1 .. D(r, w) PROVE Queue'[k] = Queue[k]
        <5>1. k - 1 \in 0 .. (D(r, e) - 1)
          BY <2>4
        <5> QED BY <2>5, <2>6, <2>7, <3>1, <5>1
      <4> QED BY <2>6, <2>7, <3>1, <4>1, SeqEqual
    <3>3. Line' = Append(Line, c)
      <4>1. ASSUME NEW k \in 1 .. (D(w, e) + 1) PROVE Line'[k] = Append(Line, c)[k]
        <5>1. Line'[k] = buf'[Place(w, k - 1)]
          BY <2>7, <3>1
        <5>2. CASE k <= D(w, e)
          <6>1. k - 1 \in 0 .. (D(w, e) - 1) /\ k \in 1 .. D(w, e)
            BY <2>4, <5>2
          <6> QED BY <2>5, <2>6, <2>8, <5>1, <5>2, <6>1
        <5>3. CASE ~(k <= D(w, e))
          <6>1. k - 1 = D(w, e)
            BY <2>4, <5>3
          <6> QED BY <2>5, <2>8, <5>1, <5>3, <6>1
        <5> QED BY <5>2, <5>3
      <4> QED BY <2>7, <2>8, <3>1, <4>1, SeqEqual
    <3>4. ~(c \in {"nl", "D"} \/ Len(Queue) + Len(Line) + 1 = INPUT_BUF)
      BY <2>1, <2>4, <2>6, <2>10
    <3>5. Len(Queue) + Len(Line) < INPUT_BUF
      BY <2>1, <2>4, <2>6
    <3> QED BY <3>2, <3>3, <3>4, <3>5 DEF LI!Type, Queue, Line
  <2> QED BY <2>9, <2>10
<1> QED BY <1>1, <1>2

\* Erasing moves the end of the line only.
LEMMA EditRefines ==
  ASSUME Sound, Sound', kill_line \/ backspace
  PROVE  LI!Kill \/ LI!Erase \/ UNCHANGED LI!vars
<1>1. TypeOK /\ RingOk /\ r \in Index /\ w \in Index /\ e \in Index
  BY DEF Sound, RingOk
<1>2. UNCHANGED <<buf, r, w>>
  BY DEF kill_line, backspace
<1>3. Queue' = Queue
  BY <1>2 DEF Queue, Between
<1>4. /\ Line \in Seq(Char) /\ Len(Line) = D(w, e)
      /\ \A k \in 1 .. D(w, e) : Line[k] = buf[Place(w, k - 1)]
  BY ViewsHold DEF Views
<1>5. /\ Line' \in Seq(Char) /\ Len(Line') = D(w, e')
      /\ \A k \in 1 .. D(w, e') : Line'[k] = buf[Place(w, k - 1)]
  BY <1>2, ViewsHoldNext DEF Views
<1>6. CASE kill_line
  <2>1. e' = w
    BY <1>1, <1>6, LineStartIsW DEF kill_line
  <2>2. D(w, e') = 0
    BY <1>1, <2>1, DistanceIs
  <2>3. Line' = <<>>
    BY <1>5, <2>2, NoLine
  <2> QED BY <1>3, <2>3 DEF LI!Kill, Queue, Line
<1>7. CASE backspace /\ e = w
  <2>1. e' = e
    BY <1>7 DEF backspace
  <2> QED BY <1>2, <2>1 DEF LI!vars, Between
<1>8. CASE backspace /\ e # w
  <2>1. e' = Minus(e, 1)
    BY <1>8 DEF backspace
  <2>2. D(w, e') = D(w, e) - 1 /\ D(w, e) \in Nat /\ D(w, e) # 0
    BY <1>1, <1>8, <2>1, EndMovesBack, RingFacts
  <2>3. Line # <<>>
    BY <1>4, <2>2
  <2>4. /\ SubSeq(Line, 1, Len(Line) - 1) \in Seq(Char) /\ Len(SubSeq(Line, 1, Len(Line) - 1)) = D(w, e) - 1
        /\ \A k \in 1 .. (D(w, e) - 1) : SubSeq(Line, 1, Len(Line) - 1)[k] = Line[k]
    BY <1>4, <2>2
  <2>5. ASSUME NEW k \in 1 .. (D(w, e) - 1) PROVE Line'[k] = SubSeq(Line, 1, Len(Line) - 1)[k]
    <3>1. k \in 1 .. D(w, e) /\ k \in 1 .. D(w, e')
      BY <2>2
    <3> QED BY <1>4, <1>5, <2>4, <3>1
  <2>6. Line' = SubSeq(Line, 1, Len(Line) - 1)
    BY <1>5, <2>2, <2>4, <2>5, SeqEqual
  <2> QED BY <1>3, <2>3, <2>6 DEF LI!Erase, Queue, Line
<1> QED BY <1>6, <1>7, <1>8

\* A character is read.
LEMMA CharRefines ==
  ASSUME Sound, Sound', NEW p \in Proc, read_char(p)
  PROVE  LI!Take \/ UNCHANGED LI!vars
<1>1. RingOk /\ r \in Index /\ w \in Index /\ e \in Index
  BY DEF Sound, RingOk
<1>2. UNCHANGED <<buf, w, e>> /\ (r' = r \/ (r' = Plus(r, 1) /\ r # w))
  BY CharSound
<1>3. Line' = Line
  BY <1>2 DEF Line, Between
<1>4. CASE r' = r
  BY <1>2, <1>4 DEF LI!vars, Between
<1>5. CASE r' = Plus(r, 1) /\ r # w
  <2>1. /\ Queue \in Seq(Char) /\ Len(Queue) = D(r, w)
        /\ \A k \in 1 .. D(r, w) : Queue[k] = buf[Place(r, k - 1)]
    BY ViewsHold DEF Views
  <2>2. /\ Queue' \in Seq(Char) /\ Len(Queue') = D(r', w)
        /\ \A k \in 1 .. D(r', w) : Queue'[k] = buf[Place(r', k - 1)]
    BY <1>2, ViewsHoldNext DEF Views
  <2>3. r' \in Index /\ D(r', w) = D(r, w) - 1 /\ D(r, w) \in Nat /\ D(r, w) # 0
    BY <1>1, <1>5, StartMoves, RingFacts
  <2>4. D(r, r') = 1
    <3>1. D(r, r) = 0
      BY <1>1, DistanceIs
    <3>2. D(r, r) < INPUT_BUF
      BY <3>1
    <3> QED BY <1>1, <1>5, <3>1, <3>2, EndMoves
  <2>5. Queue # <<>>
    BY <2>1, <2>3
  <2>6. /\ Tail(Queue) \in Seq(Char) /\ Len(Tail(Queue)) = D(r, w) - 1
        /\ \A k \in 1 .. (D(r, w) - 1) : Tail(Queue)[k] = Queue[k + 1]
    BY <2>1, <2>3, <2>5, HeadTailProperties
  <2>7. ASSUME NEW k \in 1 .. (D(r, w) - 1) PROVE Queue'[k] = Tail(Queue)[k]
    <3>1. k + 1 \in 1 .. D(r, w) /\ k \in 1 .. D(r', w) /\ k - 1 \in Nat /\ 1 + (k - 1) = k /\ (k + 1) - 1 = k
      BY <2>3
    <3>2. Place(r', k - 1) = Place(r, k)
      <4>1. Place(r', k - 1) = Place(r, D(r, r') + (k - 1))
        BY <1>1, <2>3, <3>1, SamePlace
      <4> QED BY <2>4, <3>1, <4>1
    <3>3. Queue[k + 1] = buf[Place(r, k)]
      BY <2>1, <3>1
    <3> QED BY <2>2, <2>6, <3>1, <3>2, <3>3
  <2>8. Queue' = Tail(Queue)
    BY <2>2, <2>3, <2>6, <2>7, SeqEqual
  <2> QED BY <1>3, <2>5, <2>8 DEF LI!Take, Queue, Line
<1> QED BY <1>2, <1>4, <1>5

LEMMA InitRefines == Init => LI!Init
<1> SUFFICES ASSUME Init PROVE LI!Init
  OBVIOUS
<1>1. Sound
  BY InitSound
<1>2. r = 0 /\ w = 0 /\ e = 0 /\ D(0, 0) = 0
  BY DEF Init, D
<1>3. Queue = <<>> /\ Line = <<>>
  BY <1>1, <1>2, ViewsHold, NoLine DEF Views
<1> QED BY <1>3 DEF LI!Init, Queue, Line

LEMMA StepRefines == Sound /\ Sound' /\ [Next]_vars => [LI!Next]_(LI!vars)
<1> SUFFICES ASSUME Sound, Sound', [Next]_vars PROVE LI!Next \/ UNCHANGED LI!vars
  OBVIOUS
<1>1. CASE \E c \in Char : consoleintr(c)
  BY <1>1, IntrRefines DEF LI!Next
<1>2. CASE kill_line \/ backspace
  BY <1>2, EditRefines DEF LI!Next
<1>3. ASSUME NEW p \in Proc, read_char(p) PROVE LI!Next \/ UNCHANGED LI!vars
  BY <1>3, CharRefines DEF LI!Next
<1>4. ASSUME NEW p \in Proc,
             \/ \E n \in 0 .. MaxRead : read(p, n)
             \/ acquire(p) \/ read_done(p) \/ read_empty(p) \/ sleep(p) \/ kill(p)
      PROVE  UNCHANGED LI!vars
  <2>1. UNCHANGED <<buf, r, w, e>>
    BY <1>4 DEF read, acquire, read_done, read_empty, sleep, kill, input
  <2> QED BY <2>1 DEF LI!vars, Between
<1>5. CASE UNCHANGED vars
  BY <1>5 DEF vars, LI!vars, Between
<1> QED BY <1>1, <1>2, <1>3, <1>4, <1>5 DEF Next

\* What is read is what was typed and not erased: the console implements the
\* line discipline of LineInput, for any number of readers, any size of the ring
\* and any width of its indices.
THEOREM ConsoleImplementsLineInput == Spec => TypedIsRead
BY SoundHolds, InitRefines, StepRefines, PTL DEF Spec, TypedIsRead, LI!Spec
=============================================================================
