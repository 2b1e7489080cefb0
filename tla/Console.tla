------------------------------- MODULE Console -------------------------------
(***************************************************************************)
(* console.c: the input ring that consoleintr() fills, edits and commits   *)
(* line by line, and the processes that read it with consoleread().        *)
(* Indices are unsigned and run freely, modulo 2^32 in the code.           *)
(***************************************************************************)
EXTENDS Naturals, Sequences, FiniteSets

CONSTANTS
  Proc,       \* processes that read the console
  INPUT_BUF,  \* size of the ring
  Width,      \* indices are modulo Width, a multiple of INPUT_BUF
  MaxRead,    \* bound: the n of a read
  MaxTyped,   \* bound: characters typed
  None

ASSUME ConsoleAssumption ==
  /\ INPUT_BUF \in Nat \ {0}
  /\ Width \in Nat /\ Width > INPUT_BUF /\ Width % INPUT_BUF = 0
  /\ MaxRead \in Nat
  /\ None \notin Proc

VARIABLES
  buf, r, w, e,  \* input
  lock,          \* holder of input.lock, or None
  pc,            \* where each process is
  target, got,   \* the n it asked for, what it has so far
  killed,        \* processes with killed set
  typed          \* characters typed so far

vars == <<buf, r, w, e, lock, pc, target, got, killed, typed>>
input == <<buf, r, w, e>>

\* "x" stands for any character without a meaning of its own, "D" for C('D').
Char == {"x", "nl", "D"}

Init ==
  /\ buf = [k \in 0 .. (INPUT_BUF - 1) |-> "x"]
  /\ r = 0 /\ w = 0 /\ e = 0
  /\ lock = None
  /\ pc = [p \in Proc |-> "idle"]
  /\ target = [p \in Proc |-> 0]
  /\ got = [p \in Proc |-> <<>>]
  /\ killed = {}
  /\ typed = 0

Plus(i, k) == (i + k) % Width
Minus(i, k) == (i + Width - k) % Width

\* wakeup(&input.r).
Wakeup == [p \in Proc |-> IF pc[p] = "asleep" THEN "woken" ELSE pc[p]]
-----------------------------------------------------------------------------
\* consoleintr(): the lock is held from the first character to the last; a
\* character is one step, since nothing else happens to the ring in between.
Interrupt ==
  /\ lock = None
  /\ typed < MaxTyped /\ typed' = typed + 1

\* Faulty variant: a full ring does not end the line.
Commits_late(c, edit) == c \in {"nl", "D"}

\* The line is complete: '\n', C('D'), or no room for more.
Commits(c, edit) == c \in {"nl", "D"} \/ edit = Plus(r, INPUT_BUF)

\* default: a character is kept if there is room.  '\r' becomes '\n'.
consoleintr(c) ==
  /\ Interrupt
  /\ LET edit == Plus(e, 1) IN
       IF Minus(e, r) >= INPUT_BUF THEN UNCHANGED <<input, pc>>
       ELSE /\ buf' = [buf EXCEPT ![e % INPUT_BUF] = c]
            /\ e' = edit
            /\ w' = IF Commits(c, edit) THEN edit ELSE w
            /\ pc' = IF Commits(c, edit) THEN Wakeup ELSE pc
            /\ UNCHANGED r
  /\ UNCHANGED <<lock, target, got, killed>>

\* Faulty variant: erases down to input.r.
LineStart_read == r

\* C('U'): back to the beginning of the line.
LineStart ==
  LET back == {k \in 0 .. Minus(e, w) : k = Minus(e, w) \/ buf[Minus(e, k + 1) % INPUT_BUF] = "nl"}
  IN  Minus(e, CHOOSE k \in back : \A j \in back : k <= j)

kill_line ==
  /\ Interrupt
  /\ e' = LineStart
  /\ UNCHANGED <<buf, r, w, lock, pc, target, got, killed>>

\* C('H'), '\x7f'.
backspace ==
  /\ Interrupt
  /\ e' = IF e # w THEN Minus(e, 1) ELSE e
  /\ UNCHANGED <<buf, r, w, lock, pc, target, got, killed>>
-----------------------------------------------------------------------------
Goto(p, label) == pc' = [pc EXCEPT ![p] = label]

\* sys_read() -> consoleread(ip, dst, n).
read(p, n) ==
  /\ pc[p] = "idle"
  /\ target' = [target EXCEPT ![p] = n]
  /\ got' = [got EXCEPT ![p] = <<>>]
  /\ Goto(p, "acquire")
  /\ UNCHANGED <<input, lock, killed, typed>>

\* acquire(&input.lock), at first and when sleep() returns.
acquire(p) ==
  /\ pc[p] \in {"acquire", "woken"}
  /\ lock = None
  /\ lock' = p
  /\ Goto(p, "loop")
  /\ UNCHANGED <<input, target, got, killed, typed>>

\* release(&input.lock); ilock(ip); return.
Leave(p) == lock' = None /\ Goto(p, "idle")

\* while(n > 0): nothing left to read for this call.
read_done(p) ==
  /\ pc[p] = "loop" /\ Len(got[p]) = target[p]
  /\ Leave(p)
  /\ UNCHANGED <<input, target, got, killed, typed>>

\* while(input.r == input.w): give up if killed, else on to sleep().
read_empty(p) ==
  /\ pc[p] = "loop" /\ Len(got[p]) < target[p] /\ r = w
  /\ IF p \in killed THEN Leave(p) ELSE Goto(p, "sleep") /\ UNCHANGED lock
  /\ UNCHANGED <<input, target, got, killed, typed>>

\* sleep(&input.r, &input.lock): asleep and without the lock in one step, as
\* ptable.lock is held over both.
sleep(p) ==
  /\ pc[p] = "sleep"
  /\ lock' = None
  /\ Goto(p, "asleep")
  /\ UNCHANGED <<input, target, got, killed, typed>>

\* One character.  C('D') ends the call, and stays for the next call if this one
\* has something to return; '\n' ends the call after it.
read_char(p) ==
  /\ pc[p] = "loop" /\ Len(got[p]) < target[p] /\ r # w
  /\ LET c == buf[r % INPUT_BUF] IN
       /\ r' = IF c = "D" /\ got[p] # <<>> THEN r ELSE Plus(r, 1)
       /\ got' = IF c = "D" THEN got ELSE [got EXCEPT ![p] = Append(@, c)]
       /\ IF c = "x" THEN UNCHANGED <<lock, pc>> ELSE Leave(p)
  /\ UNCHANGED <<buf, w, e, target, killed, typed>>

\* kill(): sets killed, and wakes a sleeper.
kill(p) ==
  /\ p \notin killed
  /\ killed' = killed \cup {p}
  /\ pc' = IF pc[p] = "asleep" THEN [pc EXCEPT ![p] = "woken"] ELSE pc
  /\ UNCHANGED <<input, lock, target, got, typed>>

Next ==
  \/ \E c \in Char : consoleintr(c)
  \/ kill_line
  \/ backspace
  \/ \E p \in Proc :
       \/ \E n \in 0 .. MaxRead : read(p, n)
       \/ acquire(p) \/ read_done(p) \/ read_empty(p) \/ sleep(p) \/ read_char(p)
       \/ kill(p)

Spec == Init /\ [][Next]_vars
-----------------------------------------------------------------------------
(***************************************************************************)
(* Properties.                                                             *)
(***************************************************************************)

\* Type invariant.
TypeOK ==
  /\ buf \in [0 .. (INPUT_BUF - 1) -> Char]
  /\ {r, w, e} \subseteq 0 .. (Width - 1)
  /\ lock \in Proc \cup {None}
  /\ pc \in [Proc -> {"idle", "acquire", "loop", "sleep", "asleep", "woken"}]
  /\ target \in [Proc -> 0 .. MaxRead] /\ got \in [Proc -> Seq(Char)]
  /\ killed \subseteq Proc /\ typed \in Nat

\* The ring never holds more than it has room for, and when it is full all of
\* it can be read: a line longer than the ring does not leave the interrupt
\* handler dropping input while the readers wait for an end of line.
FullRingIsReadable ==
  /\ Minus(w, r) <= Minus(e, r)
  /\ Minus(e, r) <= INPUT_BUF
  /\ Minus(e, r) = INPUT_BUF => w = e

\* The line being edited has no end yet: '\n' and C('D') commit it at once, so
\* C('U') stops only at its beginning and backspace never erases an end of line.
LineIsOpen == \A k \in 0 .. (Minus(e, w) - 1) : buf[Plus(w, k) % INPUT_BUF] = "x"

\* input.lock belongs to a reader exactly while it is between acquire() and
\* release() or sleep().
LockFollowsReaders == \A p \in Proc : lock = p <=> pc[p] \in {"loop", "sleep"}

\* No lost wakeup: a reader sleeps, or is about to, only while there is nothing
\* to read, whatever interrupts come between its test and its sleep.
SleepersHaveNothingToRead == \A p \in Proc : pc[p] \in {"sleep", "asleep"} => r = w

\* A read returns at most one line and never an end-of-file character; the
\* characters before a C('D') and the end of file it stands for come out
\* of two different calls.  A read that goes on has met no end of line.
ReadsReturnOneLine ==
  \A p \in Proc :
    /\ Len(got[p]) <= target[p]
    /\ \A k \in DOMAIN got[p] : got[p][k] # "D" /\ (got[p][k] = "nl" => k = Len(got[p]) /\ pc[p] = "idle")

\* The input side of the console works in every state: it cannot jam, editing
\* stays within the line, no reader sleeps beside input, and no read runs past
\* a line.
InputIsSound ==
  /\ TypeOK /\ FullRingIsReadable /\ LineIsOpen
  /\ LockFollowsReaders /\ SleepersHaveNothingToRead /\ ReadsReturnOneLine

Between(a, b) == [k \in 1 .. Minus(b, a) |-> buf[Plus(a, k - 1) % INPUT_BUF]]

LI == INSTANCE LineInput WITH
        queue <- Between(r, w), line <- Between(w, e), Ends <- {"nl", "D"}, Room <- INPUT_BUF

\* What is read is what was typed and not erased, each character once and in
\* order, with any number of readers, through wrap-around of the ring and of
\* its indices; erasing never reaches into a line that has ended.
TypedIsRead == LI!Spec
=============================================================================
