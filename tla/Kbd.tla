--------------------------------- MODULE Kbd ---------------------------------
(***************************************************************************)
(* kbdgetc() of kbd.c: from the bytes of the keyboard to characters.  A    *)
(* key is a scan code of 7 bits, or one after the escape byte 0xE0; the    *)
(* byte of a release has bit 0x80 set.  shift is the set of bits.          *)
(***************************************************************************)
EXTENDS Naturals, Sequences, FiniteSets

E0 == 224
HIGH == 128

LCTL == 29      \* 0x1D; the right one is 0xE0 0x1D
LSHIFT == 42    \* 0x2A; 0xE0 0x2A comes with the arrow keys and is no shift
CAPS == 58      \* 0x3A
KEY_A == 30     \* 0x1E
Escaped(code) == code + HIGH

shiftcode(data) == CASE data \in {LCTL, Escaped(LCTL)} -> {"CTL"}
                     [] data = LSHIFT -> {"SHIFT"}
                     [] OTHER -> {}
togglecode(data) == IF data = CAPS THEN {"CAPSLOCK"} ELSE {}
Xor(S, T) == (S \ T) \cup (T \ S)

\* charcode[shift & (CTL | SHIFT)][data], for the key of a letter.
charcode(shift, data) ==
  IF data # KEY_A THEN "none"
  ELSE IF "CTL" \in shift THEN "C(A)" ELSE IF "SHIFT" \in shift THEN "A" ELSE "a"
Swapped(c) == CASE c = "a" -> "A" [] c = "A" -> "a" [] OTHER -> c

\* One byte: the bits of shift afterwards, and the character.
kbdgetc(shift, byte) ==
  LET esc == "E0ESC" \in shift
      up == IF esc THEN byte ELSE byte - HIGH
      down == IF esc THEN byte + HIGH ELSE byte
      s == Xor((shift \ {"E0ESC"}) \cup shiftcode(down), togglecode(down))
      c == charcode(s, down)
  IN  IF byte = E0 THEN [shift |-> shift \cup {"E0ESC"}, c |-> "none"]
      ELSE IF byte >= HIGH
      THEN [shift |-> shift \ (shiftcode(up) \cup {"E0ESC"}), c |-> "none"]
      ELSE [shift |-> s, c |-> IF "CAPSLOCK" \in s THEN Swapped(c) ELSE c]

\* The bytes of an event, and the state after a sequence of bytes.
Bytes(e) == (IF e.escaped THEN <<E0>> ELSE <<>>) \o <<e.code + (IF e.up THEN HIGH ELSE 0)>>

RECURSIVE Feed(_, _)
Feed(r, bytes) == IF bytes = <<>> THEN r ELSE Feed(kbdgetc(r.shift, Head(bytes)), Tail(bytes))

RECURSIVE Typed(_, _)
Typed(r, events) == IF events = <<>> THEN r ELSE Typed(Feed(r, Bytes(Head(events))), Tail(events))
-----------------------------------------------------------------------------
(***************************************************************************)
(* Reference: a modifier is on if the last event of one of its keys was a  *)
(* press; the caps lock, if it was pressed an odd number of times.         *)
(***************************************************************************)
LastPressed(events, Is(_)) ==
  \E i \in DOMAIN events : /\ Is(events[i]) /\ ~events[i].up
                           /\ \A j \in i + 1 .. Len(events) : ~Is(events[j])

Control(e) == e.code = LCTL
Shift(e) == e.code = LSHIFT /\ ~e.escaped
CapsDown(events) == {i \in DOMAIN events : events[i].code = CAPS /\ ~events[i].escaped /\ ~events[i].up}

\* No modifier sticks or is lost, whatever the order of the keys; the escape
\* byte has no effect beyond its key; and a letter has the case they say.
KeysUnderstood(events) ==
  LET r == Typed([shift |-> {}, c |-> "none"], events)
      e == events[Len(events)]
      caps == Cardinality(CapsDown(events)) % 2 = 1 IN
  /\ r.shift = (IF LastPressed(events, Control) THEN {"CTL"} ELSE {})
               \cup (IF LastPressed(events, Shift) THEN {"SHIFT"} ELSE {})
               \cup (IF caps THEN {"CAPSLOCK"} ELSE {})
  /\ r.c = IF e.code # KEY_A \/ e.escaped \/ e.up THEN "none"
           ELSE IF LastPressed(events, Control) THEN "C(A)"
           ELSE IF LastPressed(events, Shift) # caps THEN "A" ELSE "a"
=============================================================================
