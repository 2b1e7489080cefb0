------------------------------ MODULE LineInput ------------------------------
(***************************************************************************)
(* What the console promises: a line is edited until it ends; then its     *)
(* characters are read, each once and in the order they were typed.        *)
(***************************************************************************)
EXTENDS Naturals, Sequences

CONSTANTS
  Char,    \* characters that are kept
  Ends,    \* those that end a line
  Room     \* characters that fit

VARIABLES
  queue,   \* characters of the lines that have ended
  line     \* the line being edited

vars == <<queue, line>>

Init == queue = <<>> /\ line = <<>>

\* A full buffer ends the line as well.
Type(c) ==
  /\ Len(queue) + Len(line) < Room
  /\ IF c \in Ends \/ Len(queue) + Len(line) + 1 = Room
     THEN queue' = queue \o Append(line, c) /\ line' = <<>>
     ELSE line' = Append(line, c) /\ UNCHANGED queue

Erase ==
  /\ line # <<>>
  /\ line' = SubSeq(line, 1, Len(line) - 1)
  /\ UNCHANGED queue

Kill == line' = <<>> /\ UNCHANGED queue

Take ==
  /\ queue # <<>>
  /\ queue' = Tail(queue)
  /\ UNCHANGED line

Next == (\E c \in Char : Type(c)) \/ Erase \/ Kill \/ Take

Spec == Init /\ [][Next]_vars
=============================================================================
