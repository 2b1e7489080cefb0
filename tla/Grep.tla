-------------------------------- MODULE Grep ---------------------------------
(***************************************************************************)
(* The regular expressions of grep.c.  A pattern and a text are sequences  *)
(* of characters.                                                          *)
(***************************************************************************)
EXTENDS Naturals, Sequences

From(s, i) == SubSeq(s, i, Len(s))

RECURSIVE matchhere(_, _), matchstar(_, _, _), anywhere(_, _)

\* Faulty variant: a while loop, so that zero repetitions do not count.
matchstar_plus(c, re, text) ==
  /\ text # <<>> /\ c \in {text[1], "."}
  /\ matchhere(re, Tail(text)) \/ matchstar(c, re, Tail(text))

matchstar(c, re, text) ==
  \/ matchhere(re, text)
  \/ text # <<>> /\ (text[1] = c \/ c = ".") /\ matchstar(c, re, Tail(text))

matchhere(re, text) ==
  IF re = <<>> THEN TRUE
  ELSE IF Len(re) > 1 /\ re[2] = "*" THEN matchstar(re[1], From(re, 3), text)
  ELSE IF re = <<"$">> THEN text = <<>>
  ELSE /\ text # <<>> /\ (re[1] = "." \/ re[1] = text[1])
       /\ matchhere(Tail(re), Tail(text))

\* The loop of match().
anywhere(re, text) == matchhere(re, text) \/ (text # <<>> /\ anywhere(re, Tail(text)))

match(re, text) ==
  IF re # <<>> /\ re[1] = "^" THEN matchhere(Tail(re), text) ELSE anywhere(re, text)
-----------------------------------------------------------------------------
(***************************************************************************)
(* Reference: the pattern as a list of items, and the set of places in the *)
(* text that can be reached after each of them.                            *)
(***************************************************************************)
RECURSIVE Items(_)
Items(re) ==
  IF re = <<>> THEN <<>>
  ELSE IF Len(re) > 1 /\ re[2] = "*" THEN <<[c |-> re[1], star |-> TRUE]>> \o Items(From(re, 3))
  ELSE <<[c |-> re[1], star |-> FALSE]>> \o Items(Tail(re))

Fits(c, a) == c = "." \/ c = a

RECURSIVE Reached(_, _, _)
Reached(text, items, from) ==
  IF items = <<>> THEN from
  ELSE LET c == items[1].c
           ahead == {j \in 0 .. Len(text) : \E i \in from :
                       IF items[1].star THEN i <= j /\ \A k \in i + 1 .. j : Fits(c, text[k])
                       ELSE j = i + 1 /\ Fits(c, text[j])}
       IN  Reached(text, Tail(items), ahead)

Matches(re, text) ==
  LET start == re # <<>> /\ re[1] = "^"
      body == Items(IF start THEN Tail(re) ELSE re)
      n == Len(body)
      end == n > 0 /\ body[n] = [c |-> "$", star |-> FALSE]
      places == Reached(text, IF end THEN SubSeq(body, 1, n - 1) ELSE body,
                        IF start THEN {0} ELSE 0 .. Len(text))
  IN  IF end THEN Len(text) \in places ELSE places # {}
=============================================================================
