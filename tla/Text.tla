-------------------------------- MODULE Text ---------------------------------
(***************************************************************************)
(* Numbers and strings: printint() and the two printf()s (printf.c and     *)
(* console.c), atoi() (ulib.c), memmove() and safestrcpy() (string.c).     *)
(* Machine words have W bits, ints are two's complement.                   *)
(***************************************************************************)
EXTENDS Integers, Sequences, FiniteSets, FiniteSetsExt, SequencesExt

CONSTANT W

uint(n) == n % 2^W
int(x) == IF uint(x) >= 2^(W - 1) THEN uint(x) - 2^W ELSE uint(x)

\* printint(): the digits from the lowest, then the sign, then all of it
\* backwards.  A digit is its value, the sign is -1.
RECURSIVE Digits(_, _)
Digits(x, base) == <<x % base>> \o (IF x \div base = 0 THEN <<>> ELSE Digits(x \div base, base))

printint(xx, base, sign) ==
  LET neg == sign /\ int(xx) < 0
      x == IF neg THEN uint(-int(xx)) ELSE uint(xx) IN
  Reverse(Digits(x, base) \o (IF neg THEN <<-1>> ELSE <<>>))

\* atoi(): up to the first character that is not a digit.
RECURSIVE atoi(_, _)
atoi(s, n) == IF s = <<>> \/ Head(s) \notin 0 .. 9 THEN int(n) ELSE atoi(Tail(s), uint(n * 10 + Head(s)))

\* What a directive prints: a number in base 10 or 16, a string, or itself.
\* Output is a sequence of pairs (what, the argument or the character).
Directive(c, arg) ==
  CASE c = "d" -> <<<<"signed", arg>>>>
    [] c \in {"x", "p"} -> <<<<"hex", arg>>>>
    [] c = "s" -> <<<<"string", arg>>>>
    [] c = "%" -> <<<<"char", "%">>>>
    [] OTHER -> <<<<"char", "%">>, <<"char", c>>>>
Takes(c) == c \in {"d", "x", "p", "s"}

\* printf.c: one character at a time, in the state 0 or '%'; ap counts the
\* arguments taken.  "%c" prints one argument.
RECURSIVE uprintf(_, _, _)
uprintf(fmt, state, ap) ==
  IF fmt = <<>> THEN <<>>
  ELSE LET c == Head(fmt)
           on(out, s, n) == out \o uprintf(Tail(fmt), s, n) IN
       IF state = 0
       THEN IF c = "%" THEN on(<<>>, 1, ap) ELSE on(<<<<"char", c>>>>, 0, ap)
       ELSE IF c = "c" THEN on(<<<<"argchar", ap>>>>, 0, ap + 1)
       ELSE on(Directive(c, ap), 0, IF Takes(c) THEN ap + 1 ELSE ap)

\* console.c: a '%' takes the character after it, if there is one.
RECURSIVE cprintf(_, _)
cprintf(fmt, argp) ==
  IF fmt = <<>> THEN <<>>
  ELSE IF Head(fmt) # "%" THEN <<<<"char", Head(fmt)>>>> \o cprintf(Tail(fmt), argp)
  ELSE IF Len(fmt) = 1 THEN <<>>
  ELSE Directive(fmt[2], argp)
       \o cprintf(SubSeq(fmt, 3, Len(fmt)), IF Takes(fmt[2]) THEN argp + 1 ELSE argp)

\* memmove() of string.c, on a memory of bytes: backwards if dst is inside src.
RECURSIVE copy(_, _, _, _, _)
copy(mem, d, s, n, step) ==
  IF n = 0 THEN mem ELSE copy([mem EXCEPT ![d] = mem[s]], d + step, s + step, n - 1, step)

memmove(mem, d, s, n) ==
  IF s < d /\ s + n > d THEN copy(mem, d + n - 1, s + n - 1, n, -1) ELSE copy(mem, d, s, n, 1)

\* memmove() of ulib.c copies forwards only.
umemmove(mem, d, s, n) == copy(mem, d, s, n, 1)

\* safestrcpy(s, t, n): at most n - 1 bytes of t, and a NUL (0).
RECURSIVE safestrcpy(_, _, _)
safestrcpy(s, t, n) ==
  IF n <= 0 THEN s
  ELSE IF n = 1 \/ t = <<>> THEN <<0>> \o Tail(s)
  ELSE <<Head(t)>> \o safestrcpy(Tail(s), Tail(t), n - 1)
-----------------------------------------------------------------------------
(***************************************************************************)
(* Reference.                                                              *)
(***************************************************************************)

\* The number a string of digits stands for.
Value(s, base) ==
  LET neg == s # <<>> /\ s[1] = -1
      ds == IF neg THEN Tail(s) ELSE s
      v == MapThenSumSet(LAMBDA i : ds[i] * base^(Len(ds) - i), DOMAIN ds)
  IN  IF neg THEN -v ELSE v

\* printint() prints the number, without leading zeros, in the 16 bytes of its
\* buffer (W + 1 here); atoi() reads it back if it is not negative.
NumberPrinted(xx, base, sign) ==
  LET s == printint(xx, base, sign)
      ds == IF s[1] = -1 THEN Tail(s) ELSE s IN
  /\ Value(s, base) = IF sign THEN int(xx) ELSE uint(xx)
  /\ ds[1] = 0 => Len(ds) = 1
  /\ Len(s) <= W + 1
  /\ base = 10 /\ sign /\ int(xx) >= 0 => atoi(s, 0) = int(xx)

\* memmove() copies what was there before, and changes nothing else.
Moved(mem, d, s, n) ==
  [a \in DOMAIN mem |-> IF a \in d .. d + n - 1 THEN mem[s + (a - d)] ELSE mem[a]]

MovesCopy(mem, d, s, n) ==
  /\ memmove(mem, d, s, n) = Moved(mem, d, s, n)
  /\ d <= s \/ s + n <= d => umemmove(mem, d, s, n) = Moved(mem, d, s, n)

\* safestrcpy() leaves a string: a prefix of t and a NUL within n bytes.
StringCopied(s, t, n) ==
  LET r == safestrcpy(s, t, n) IN
  /\ Len(r) = Len(s)
  /\ n <= 0 => r = s
  /\ n > 0 => LET len == Min({Len(t), n - 1}) IN
              SubSeq(r, 1, len) = SubSeq(t, 1, len) /\ r[len + 1] = 0
                /\ SubSeq(r, len + 2, Len(r)) = SubSeq(s, len + 2, Len(s))

\* The printf()s agree on every format without "%c", which only printf.c knows.
FormatsAgree(fmt) ==
  (\A i \in 2 .. Len(fmt) : ~(fmt[i] = "c" /\ fmt[i - 1] = "%")) => uprintf(fmt, 0, 1) = cprintf(fmt, 1)
=============================================================================
