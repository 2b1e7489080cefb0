-------------------------------- MODULE Pipe --------------------------------
(***************************************************************************)
(* pipe.c: one pipe shared by processes that hold its read end and         *)
(* processes that hold its write end.  p->lock is held from acquire() to   *)
(* release() or sleep(); kill() takes ptable.lock only, so it can come     *)
(* between the test of proc->killed and the sleep().                       *)
(***************************************************************************)
EXTENDS Naturals, Sequences

CONSTANTS
  Reader,    \* processes with the read end open
  Writer,    \* processes with the write end open
  Byte,      \* byte values
  PIPESIZE,  \* size of the ring
  Width,     \* uint arithmetic is modulo Width (2^32)
  MaxCount,  \* bound on the count argument of read and write
  None       \* no process, no byte

ASSUME PipeAssumption ==
  /\ PIPESIZE \in Nat \ {0}
  /\ Width \in Nat /\ Width % PIPESIZE = 0 /\ Width > PIPESIZE
  /\ MaxCount \in Nat
  /\ Reader \cap Writer = {}
  /\ None \notin Reader \cup Writer \cup Byte

VARIABLES
  data,       \* p->data
  nread,      \* p->nread
  nwrite,     \* p->nwrite
  readopen,   \* p->readopen
  writeopen,  \* p->writeopen
  freed,      \* kfree(p) has been called
  lock,       \* holder of p->lock, or None
  fds,        \* processes whose file descriptor of the pipe is open
  killed,     \* proc->killed
  pc,         \* where each process is
  i,          \* loop variable of each process
  n,          \* count argument of each process
  got         \* the byte that piperead() stored last

vars == <<data, nread, nwrite, readopen, writeopen, freed, lock, fds, killed, pc, i, n, got>>
ring == <<data, nread, nwrite, got>>
ends == <<readopen, writeopen, freed, fds>>

Proc == Reader \cup Writer

Slot == 0 .. (PIPESIZE - 1)

\* Faulty variant: one byte too many.
Full_late == nwrite = (nread + PIPESIZE + 1) % Width

Full == nwrite = (nread + PIPESIZE) % Width
Empty == nread = nwrite

Label == {"idle", "enter", "wait", "gosleep", "sleep", "copy"}
-----------------------------------------------------------------------------
\* pipealloc(); the two files have been passed on by fork().
Init ==
  /\ \E x \in Byte : data = [k \in Slot |-> x]
  /\ nread = 0 /\ nwrite = 0
  /\ readopen = TRUE /\ writeopen = TRUE
  /\ freed = FALSE
  /\ lock = None
  /\ fds = Proc
  /\ killed = [p \in Proc |-> FALSE]
  /\ pc = [p \in Proc |-> "idle"]
  /\ i = [p \in Proc |-> 0]
  /\ n = [p \in Proc |-> 0]
  /\ got = None
-----------------------------------------------------------------------------
Goto(p, label) == pc' = [pc EXCEPT ![p] = label]

\* wakeup(&p->nread) or wakeup(&p->nwrite), and p goes to label.
WakeupAnd(side, p, label) ==
  pc' = [q \in Proc |-> IF q = p THEN label
                        ELSE IF q \in side /\ pc[q] = "sleep" THEN "enter"
                        ELSE pc[q]]

\* A process calls pipewrite() or piperead() with count c; trap() lets no
\* killed process into a system call.
call(p, c) ==
  /\ pc[p] = "idle"
  /\ ~killed[p]
  /\ p \in fds
  /\ Goto(p, "enter")
  /\ i' = [i EXCEPT ![p] = 0]
  /\ n' = [n EXCEPT ![p] = c]
  /\ UNCHANGED <<ring, ends, lock, killed>>

\* acquire(&p->lock), on entry and when sleep() returns.
acquire(p) ==
  /\ pc[p] = "enter"
  /\ lock = None
  /\ lock' = p
  /\ Goto(p, IF p \in Reader THEN "wait" ELSE "copy")
  /\ UNCHANGED <<ring, ends, killed, i, n>>

\* A return that releases p->lock.
Return(p) ==
  /\ lock' = None
  /\ i' = [i EXCEPT ![p] = 0]
  /\ n' = [n EXCEPT ![p] = 0]

\* pipewrite(): store one byte.
write_byte(p, x) ==
  /\ p \in Writer /\ pc[p] = "copy"
  /\ i[p] < n[p] /\ ~Full
  /\ data' = [data EXCEPT ![nwrite % PIPESIZE] = x]
  /\ nwrite' = (nwrite + 1) % Width
  /\ i' = [i EXCEPT ![p] = @ + 1]
  /\ UNCHANGED <<nread, got, ends, lock, killed, pc, n>>

\* pipewrite(): full, and no reader is left or the process was killed.
write_fail(p) ==
  /\ p \in Writer /\ pc[p] = "copy"
  /\ i[p] < n[p] /\ Full
  /\ ~readopen \/ killed[p]
  /\ Return(p)
  /\ Goto(p, "idle")
  /\ UNCHANGED <<ring, ends, killed>>

\* pipewrite(): full; wakeup(&p->nread), then on to sleep().
write_full(p) ==
  /\ p \in Writer /\ pc[p] = "copy"
  /\ i[p] < n[p] /\ Full
  /\ readopen /\ ~killed[p]
  /\ WakeupAnd(Reader, p, "gosleep")
  /\ UNCHANGED <<ring, ends, lock, killed, i, n>>

\* Faulty variant: no wakeup(&p->nread).
write_done_silent(p) ==
  /\ p \in Writer /\ pc[p] = "copy"
  /\ i[p] = n[p]
  /\ Return(p)
  /\ Goto(p, "idle")
  /\ UNCHANGED <<ring, ends, killed>>

\* pipewrite(): all bytes stored; wakeup(&p->nread), return n.
write_done(p) ==
  /\ p \in Writer /\ pc[p] = "copy"
  /\ i[p] = n[p]
  /\ Return(p)
  /\ WakeupAnd(Reader, p, "idle")
  /\ UNCHANGED <<ring, ends, killed>>

\* piperead(): the pipe is empty, a writer is left: fail if killed.
read_fail(p) ==
  /\ p \in Reader /\ pc[p] = "wait"
  /\ Empty /\ writeopen
  /\ killed[p]
  /\ Return(p)
  /\ Goto(p, "idle")
  /\ UNCHANGED <<ring, ends, killed>>

\* piperead(): the pipe is empty, a writer is left: on to sleep().
read_empty(p) ==
  /\ p \in Reader /\ pc[p] = "wait"
  /\ Empty /\ writeopen
  /\ ~killed[p]
  /\ Goto(p, "gosleep")
  /\ UNCHANGED <<ring, ends, lock, killed, i, n>>

\* Faulty variant: "if" instead of "while": data is not waited for again.
read_ready_woken(p) ==
  /\ p \in Reader /\ pc[p] = "wait"
  /\ Goto(p, "copy")
  /\ UNCHANGED <<ring, ends, lock, killed, i, n>>

\* piperead(): leave the waiting loop.
read_ready(p) ==
  /\ p \in Reader /\ pc[p] = "wait"
  /\ ~Empty \/ ~writeopen
  /\ Goto(p, "copy")
  /\ UNCHANGED <<ring, ends, lock, killed, i, n>>

\* piperead(): copy one byte out.
read_byte(p) ==
  /\ p \in Reader /\ pc[p] = "copy"
  /\ i[p] < n[p] /\ ~Empty
  /\ got' = data[nread % PIPESIZE]
  /\ nread' = (nread + 1) % Width
  /\ i' = [i EXCEPT ![p] = @ + 1]
  /\ UNCHANGED <<data, nwrite, ends, lock, killed, pc, n>>

\* piperead(): wakeup(&p->nwrite), return i.
read_done(p) ==
  /\ p \in Reader /\ pc[p] = "copy"
  /\ i[p] = n[p] \/ Empty
  /\ Return(p)
  /\ WakeupAnd(Writer, p, "idle")
  /\ UNCHANGED <<ring, ends, killed>>

\* sleep(chan, &p->lock): takes ptable.lock, so no wakeup is missed, and
\* releases p->lock.
sleep(p) ==
  /\ pc[p] = "gosleep"
  /\ lock' = None
  /\ Goto(p, "sleep")
  /\ UNCHANGED <<ring, ends, killed, i, n>>

\* kill() by another process: sets killed, wakes the process if it sleeps.
kill(p) ==
  /\ ~killed[p]
  /\ killed' = [killed EXCEPT ![p] = TRUE]
  /\ Goto(p, IF pc[p] = "sleep" THEN "enter" ELSE pc[p])
  /\ UNCHANGED <<ring, ends, lock, i, n>>

\* Faulty variant: the first end to be closed frees the pipe.
close_frees(p) ==
  /\ pc[p] = "idle"
  /\ p \in fds
  /\ lock = None
  /\ fds' = fds \ {p}
  /\ readopen' = (readopen /\ fds' \cap Reader # {})
  /\ writeopen' = (writeopen /\ fds' \cap Writer # {})
  /\ freed' = (~readopen' \/ ~writeopen')
  /\ IF readopen' # readopen THEN WakeupAnd(Writer, p, "idle")
     ELSE IF writeopen' # writeopen THEN WakeupAnd(Reader, p, "idle")
     ELSE UNCHANGED pc
  /\ UNCHANGED <<ring, lock, killed, i, n>>

\* close() or exit(); the last descriptor of an end calls pipeclose().
close(p) ==
  /\ pc[p] = "idle"
  /\ p \in fds
  /\ lock = None
  /\ fds' = fds \ {p}
  /\ readopen' = (readopen /\ fds' \cap Reader # {})
  /\ writeopen' = (writeopen /\ fds' \cap Writer # {})
  /\ freed' = (~readopen' /\ ~writeopen')
  /\ IF readopen' # readopen THEN WakeupAnd(Writer, p, "idle")
     ELSE IF writeopen' # writeopen THEN WakeupAnd(Reader, p, "idle")
     ELSE UNCHANGED pc
  /\ UNCHANGED <<ring, lock, killed, i, n>>

\* The steps of a call in progress.
Step(p) ==
  \/ acquire(p) \/ sleep(p)
  \/ (\E x \in Byte : write_byte(p, x))
  \/ write_fail(p) \/ write_full(p) \/ write_done(p)
  \/ read_fail(p) \/ read_empty(p) \/ read_ready(p) \/ read_byte(p) \/ read_done(p)

Next ==
  \E p \in Proc :
    \/ \E c \in 0 .. MaxCount : call(p, c)
    \/ Step(p)
    \/ kill(p)
    \/ close(p)

Spec == Init /\ [][Next]_vars
-----------------------------------------------------------------------------
(***************************************************************************)
(* Properties.                                                             *)
(***************************************************************************)

\* Bytes in the pipe, in uint arithmetic.
Count == (nwrite + Width - nread) % Width

\* Type invariant.
TypeOK ==
  /\ data \in [Slot -> Byte]
  /\ nread \in 0 .. (Width - 1)
  /\ nwrite \in 0 .. (Width - 1)
  /\ readopen \in BOOLEAN
  /\ writeopen \in BOOLEAN
  /\ freed \in BOOLEAN
  /\ lock \in Proc \cup {None}
  /\ fds \in SUBSET Proc
  /\ killed \in [Proc -> BOOLEAN]
  /\ pc \in [Proc -> Label]
  /\ i \in [Proc -> 0 .. MaxCount]
  /\ n \in [Proc -> 0 .. MaxCount]
  /\ got \in Byte \cup {None}
  /\ Count <= PIPESIZE

InFlight == [k \in 1 .. Count |-> data[(nread + k - 1) % PIPESIZE]]

BS == INSTANCE ByteStream WITH queue <- InFlight, Capacity <- PIPESIZE

\* The ring, its two free-running counters and their wrap-around implement a
\* bounded FIFO: no byte is lost, duplicated, reordered or overwritten, with
\* several readers and several writers.
Fifo == BS!Spec

\* What piperead() and pipewrite() wait for has not happened.
HasReason(p) ==
  \/ p \in Reader /\ Empty /\ writeopen
  \/ p \in Writer /\ Full /\ readopen

\* A reader sleeps only while the pipe is empty and a writer is left, a writer
\* only while it is full and a reader is left; otherwise the process that
\* changed that still holds p->lock and is going to call wakeup().  The one
\* exception is the early return of a killed writer, which has stored bytes
\* and does not call wakeup(&p->nread).
SleepersHaveAReason ==
  \A p \in Proc :
    /\ pc[p] = "gosleep" => HasReason(p)
    /\ pc[p] = "sleep" =>
         \/ p \in Reader /\ \E w \in Writer : killed[w]
         \/ HasReason(p)
         \/ \E q \in Proc : lock = q /\ pc[q] = "copy" /\ (q \in Reader <=> p \in Writer)

\* piperead() returns 0 for a positive count only at end of file: with two
\* readers, a woken reader retests the pipe before it copies.
NoSpuriousEof ==
  \A p \in Reader : pc[p] = "copy" /\ i[p] = 0 => ~Empty \/ ~writeopen

\* kfree() frees the pipe once, when no process can reach it: an end counts as
\* open while a process has a descriptor of it, whoever is in piperead() or
\* pipewrite() has one, and one process at a time is between acquire() and
\* release().
NoUseAfterFree ==
  /\ TypeOK
  /\ freed => lock = None /\ fds = {} /\ \A p \in Proc : pc[p] = "idle"
  /\ freed <=> ~readopen /\ ~writeopen
  /\ fds \cap Reader # {} => readopen
  /\ fds \cap Writer # {} => writeopen
  /\ \A p \in Proc : /\ pc[p] # "idle" => p \in fds
                     /\ pc[p] \in {"wait", "copy", "gosleep"} <=> lock = p
                     /\ pc[p] = "wait" => p \in Reader
                     /\ i[p] <= n[p]
=============================================================================
