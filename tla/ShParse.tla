------------------------------- MODULE ShParse -------------------------------
(***************************************************************************)
(* The recursive-descent parser of sh.c.  A line is a sequence of          *)
(* characters; a pointer is an index, and the index after the last is es,  *)
(* where the NUL is.  A parsing function returns the pointer it leaves in  *)
(* *ps and the command it built; a panic() is a command of type PANIC.     *)
(***************************************************************************)
EXTENDS Naturals, Sequences, FiniteSets, FiniteSetsExt, SequencesExt

CONSTANT MAXARGS

Whitespace == {" "}
Symbols == {"<", "|", ">", "&", ";", "(", ")"}
NUL == "NUL"

es(b) == Len(b) + 1
At(b, i) == IF i < es(b) THEN b[i] ELSE NUL

\* The loops of gettoken() and peek() over whitespace, and over a word.
Skip(b, ps) == Min({i \in ps .. es(b) : At(b, i) \notin Whitespace})
WordEnd(b, ps) == Min({i \in ps .. es(b) : At(b, i) \in Whitespace \cup Symbols \cup {NUL}})

\* The token at q: its kind and the index after it.
Kind(b, q) ==
  IF At(b, q) = ">" /\ At(b, q + 1) = ">" THEN "+"
  ELSE IF At(b, q) \in Symbols \cup {NUL} THEN At(b, q) ELSE "a"

TokenEnd(b, q, tok) ==
  CASE tok = NUL -> q
    [] tok = "a" -> WordEnd(b, q)
    [] tok = "+" -> q + 2
    [] OTHER -> q + 1

gettoken(b, ps) ==
  LET token(q, tok, eq) == [tok |-> tok, word |-> <<q, eq>>, ps |-> Skip(b, eq)]
      at(q) == token(q, Kind(b, q), TokenEnd(b, q, Kind(b, q)))
  IN  at(Skip(b, ps))

peek(b, ps, toks) == At(b, Skip(b, ps)) \in toks
-----------------------------------------------------------------------------
Panic == [type |-> "PANIC"]
Failed(r) == r.cmd.type = "PANIC"
Fail(r) == [r EXCEPT !.cmd = Panic]

execcmd(argv) == [type |-> "EXEC", argv |-> argv]
redircmd(sub, file, fd) == [type |-> "REDIR", cmd |-> sub, file |-> file, fd |-> fd]
pipecmd(left, right) == IF right.type = "PANIC" THEN Panic
                        ELSE [type |-> "PIPE", left |-> left, right |-> right]
listcmd(left, right) == IF right.type = "PANIC" THEN Panic
                        ELSE [type |-> "LIST", left |-> left, right |-> right]
backcmd(sub) == [type |-> "BACK", cmd |-> sub]

RECURSIVE parseredirs(_, _), args(_, _), backs(_, _), parseline(_, _), parsepipe(_, _)

parseredirs(b, r) ==
  LET next(redir, file) ==
        IF file.tok # "a" THEN Fail(r)
        ELSE parseredirs(b, [ps |-> file.ps,
                             cmd |-> redircmd(r.cmd, file.word, IF redir.tok = "<" THEN 0 ELSE 1)])
      from(redir) == next(redir, gettoken(b, redir.ps)) IN
  IF Failed(r) \/ ~peek(b, r.ps, {"<", ">"}) THEN r ELSE from(gettoken(b, r.ps))

\* The argument is added to the EXEC command inside the redirections so far.
RECURSIVE argument(_, _)
argument(cmd, word) ==
  IF cmd.type = "REDIR" THEN [cmd EXCEPT !.cmd = argument(@, word)]
  ELSE execcmd(Append(cmd.argv, word))

RECURSIVE argc(_)
argc(cmd) == IF cmd.type = "REDIR" THEN argc(cmd.cmd) ELSE Len(cmd.argv)

\* The loop of parseexec().
args(b, r) ==
  LET next(t) ==
        IF t.tok = NUL THEN r
        ELSE IF t.tok # "a" \/ argc(r.cmd) + 1 >= MAXARGS THEN Fail(r)
        ELSE args(b, parseredirs(b, [ps |-> t.ps, cmd |-> argument(r.cmd, t.word)])) IN
  IF Failed(r) \/ peek(b, r.ps, {"|", ")", "&", ";"}) THEN r ELSE next(gettoken(b, r.ps))

parseblock(b, ps) ==
  LET close(r) ==
        IF Failed(r) \/ ~peek(b, r.ps, {")"}) THEN Fail(r)
        ELSE parseredirs(b, [r EXCEPT !.ps = gettoken(b, r.ps).ps])
  IN  close(parseline(b, gettoken(b, ps).ps))

parseexec(b, ps) ==
  IF peek(b, ps, {"("}) THEN parseblock(b, ps)
  ELSE args(b, parseredirs(b, [ps |-> ps, cmd |-> execcmd(<<>>)]))

parsepipe(b, ps) ==
  LET join(l, r) == [ps |-> r.ps, cmd |-> pipecmd(l.cmd, r.cmd)]
      rest(l) == IF Failed(l) \/ ~peek(b, l.ps, {"|"}) THEN l
                 ELSE join(l, parsepipe(b, gettoken(b, l.ps).ps))
  IN  rest(parseexec(b, ps))

\* The loop of parseline() over "&".
backs(b, r) ==
  IF Failed(r) \/ ~peek(b, r.ps, {"&"}) THEN r
  ELSE backs(b, [ps |-> gettoken(b, r.ps).ps, cmd |-> backcmd(r.cmd)])

parseline(b, ps) ==
  LET join(l, r) == [ps |-> r.ps, cmd |-> listcmd(l.cmd, r.cmd)]
      rest(l) == IF Failed(l) \/ ~peek(b, l.ps, {";"}) THEN l
                 ELSE join(l, parseline(b, gettoken(b, l.ps).ps))
  IN  rest(backs(b, parsepipe(b, ps)))

\* nulterminate(): the line with a NUL at the end of every word.
RECURSIVE nulterminate(_, _)
nulterminate(b, cmd) ==
  CASE cmd.type = "EXEC" ->
         LET ends == {cmd.argv[i][2] : i \in DOMAIN cmd.argv} IN
         [i \in DOMAIN b |-> IF i \in ends THEN NUL ELSE b[i]]
    [] cmd.type = "REDIR" ->
         [i \in DOMAIN b |-> IF i = cmd.file[2] THEN NUL ELSE nulterminate(b, cmd.cmd)[i]]
    [] cmd.type \in {"PIPE", "LIST"} -> nulterminate(nulterminate(b, cmd.left), cmd.right)
    [] cmd.type = "BACK" -> nulterminate(b, cmd.cmd)

\* The string a word's pointer is, once the line is terminated.
String(b, q) == SubSeq(b, q, Min({i \in q .. es(b) : At(b, i) = NUL}) - 1)

\* The command with the strings runcmd() will see.
RECURSIVE Seen(_, _)
Seen(b, cmd) ==
  CASE cmd.type = "EXEC" -> execcmd([i \in DOMAIN cmd.argv |-> String(b, cmd.argv[i][1])])
    [] cmd.type = "REDIR" -> redircmd(Seen(b, cmd.cmd), String(b, cmd.file[1]), cmd.fd)
    [] cmd.type \in {"PIPE", "LIST"} ->
         [cmd EXCEPT !.left = Seen(b, @), !.right = Seen(b, @)]
    [] cmd.type = "BACK" -> backcmd(Seen(b, cmd.cmd))

\* parsecmd()
parsecmd(b) ==
  LET end(r) == IF Failed(r) \/ Skip(b, r.ps) # es(b) THEN Panic
                ELSE Seen(nulterminate(b, r.cmd), r.cmd)
  IN  end(parseline(b, 1))
-----------------------------------------------------------------------------
(***************************************************************************)
(* Reference: the command of a line, by splitting its tokens at operators  *)
(* outside parentheses, loosest first.                                     *)
(***************************************************************************)
\* Tokens: a word or a symbol, each a sequence of characters; ">>" is ">".
RECURSIVE Tokens(_)
Tokens(b) ==
  LET ends == {i \in DOMAIN b : b[i] \in Whitespace \cup Symbols}
      word == IF ends = {} THEN Len(b) ELSE Min(ends) - 1 IN
  IF b = <<>> THEN <<>>
  ELSE IF b[1] \in Whitespace THEN Tokens(Tail(b))
  ELSE IF Len(b) > 1 /\ b[1] = ">" /\ b[2] = ">" THEN <<<<">">>>> \o Tokens(SubSeq(b, 3, Len(b)))
  ELSE IF word = 0 THEN <<SubSeq(b, 1, 1)>> \o Tokens(Tail(b))
  ELSE <<SubSeq(b, 1, word)>> \o Tokens(SubSeq(b, word + 1, Len(b)))

Is(t, k, c) == t[k] = <<c>>
Word(t, k) == \A c \in Symbols : ~Is(t, k, c)
Count(t, k, c) == Cardinality({i \in 1 .. k : Is(t, i, c)})

\* Where the operator c is outside parentheses, and where the first "(" closes.
Outside(t, c) == {k \in DOMAIN t : Is(t, k, c) /\ Count(t, k, "(") = Count(t, k, ")")}
Closing(t) == {k \in DOMAIN t : Is(t, k, ")") /\ Count(t, k, "(") = Count(t, k, ")")}

Before(t, k) == SubSeq(t, 1, k - 1)
After(t, k) == SubSeq(t, k + 1, Len(t))

Both(make(_, _), l, r) == IF Panic \in {l, r} THEN Panic ELSE make(l, r)

RECURSIVE RefLine(_), RefBack(_), RefPipe(_), Redirected(_, _)

RefLine(t) ==
  LET ks == Outside(t, ";") IN
  IF ks = {} THEN RefBack(t)
  ELSE Both(listcmd, RefBack(Before(t, Min(ks))), RefLine(After(t, Min(ks))))

RefBack(t) ==
  IF t = <<>> \/ ~Is(t, Len(t), "&") THEN RefPipe(t)
  ELSE LET c == RefBack(Before(t, Len(t))) IN IF c = Panic THEN Panic ELSE backcmd(c)

\* A command or a block: words, and redirections each followed by a file; the
\* first redirection is the innermost.
Redirected(c, files) ==
  IF c = Panic \/ files = <<>> THEN c
  ELSE Redirected(redircmd(c, files[1].file, files[1].fd), Tail(files))

\* k: where the block ends, 0 if it is a command; rs: the redirections.
RefArgs(t, k, rs, words) ==
  LET argv == [n \in 1 .. Len(words) |-> t[words[n]]]
      redirs == [n \in 1 .. Len(rs) |->
                   [file |-> t[rs[n] + 1], fd |-> IF Is(t, rs[n], "<") THEN 0 ELSE 1]]
  IN  IF \/ \E n \in DOMAIN rs : rs[n] = Len(t) \/ ~Word(t, rs[n] + 1)
         \/ \E n \in DOMAIN words : ~Word(t, words[n])
         \/ k > 0 /\ words # <<>>
         \/ Len(words) >= MAXARGS
      THEN Panic
      ELSE Redirected(IF k = 0 THEN execcmd(argv) ELSE RefLine(SubSeq(t, 2, k - 1)), redirs)

RefExec(t) ==
  LET split(k, rs) ==
        RefArgs(t, k, SetToSortSeq(rs, <),
                SetToSortSeq((k + 1 .. Len(t)) \ (rs \cup {i + 1 : i \in rs}), <))
      from(k) == split(k, {i \in k + 1 .. Len(t) : Is(t, i, "<") \/ Is(t, i, ">")})
  IN  from(IF t # <<>> /\ Is(t, 1, "(") /\ Closing(t) # {} THEN Min(Closing(t)) ELSE 0)

RefPipe(t) ==
  LET ks == Outside(t, "|") IN
  IF ks = {} THEN RefExec(t)
  ELSE Both(pipecmd, RefExec(Before(t, Min(ks))), RefPipe(After(t, Min(ks))))

RefCmd(b) == RefLine(Tokens(b))
=============================================================================
