----------------------------- MODULE MCPrograms ------------------------------
(***************************************************************************)
(* The way of a typed line, and what works on the user's side: the console *)
(* (Console), the shell's processes (ShRun), the allocator (Umalloc), the  *)
(* image builder (Mkfs), the log use of write() (LogBudget), and           *)
(* algorithms from an input to a result, each against a reference.         *)
(*                                                                         *)
(* They share no state.  A behaviour is one of one of them: part says      *)
(* which, and the others stay as they were initially.  For part "job" the  *)
(* variable job is the input of an algorithm.                              *)
(***************************************************************************)
EXTENDS Console, Integers

VARIABLES
  part, job,
  hdr, freep, brk, core, busy,                          \* Umalloc
  proc, lines, lost,                                    \* ShRun
  sb, inodes, tables, sectors, freeblock, usedblocks,
  freeinode, fault, bitmap,                             \* Mkfs
  size, have, next, panic                               \* LogBudget

U == INSTANCE Umalloc WITH Top <- 9, CORE <- 3, Request <- {1, 2, 4}

\* Commands: pipes in pipes, lists and backgrounds in pipes and around them,
\* redirections inside and outside, and a line that does not parse.
Prog == [type |-> "EXEC", argv |-> <<"prog">>]
Pipe(l, rr) == [type |-> "PIPE", left |-> l, right |-> rr]
List(l, rr) == [type |-> "LIST", left |-> l, right |-> rr]
Back(c) == [type |-> "BACK", cmd |-> c]
Redir(c, file, fd) == [type |-> "REDIR", cmd |-> c, file |-> file, fd |-> fd]
Commands ==
  {Pipe(Prog, Pipe(Prog, Prog)), Pipe(List(Prog, Back(Prog)), Prog), List(Back(Pipe(Prog, Prog)), Prog),
   Back(List(Prog, Prog)), Redir(Redir(Pipe(Prog, Redir(Prog, "f", 1)), "g", 0), "h", 1),
   [type |-> "PANIC"]}

S == INSTANCE ShRun WITH MaxPid <- 8, NOFILE <- 7, Command <- Commands, MaxLines <- 1

K == INSTANCE Mkfs WITH
       BSIZE <- 4, NDIRECT <- 2, NINDIRECT <- 3, IPB <- 4, BPB <- 32, DESIZE <- 2, nlog <- 2,
       Geometry <- {<<4, 20>>, <<4, 70>>, <<6, 64>>, <<7, 63>>}, FileSize <- {0, 4, 9, 17, 21}, MaxFiles <- 3

\* The numbers of param.h; block sizes are scaled, and one block of bitmap
\* covers everything.
B == INSTANCE LogBudget WITH
       LOGSIZE <- 10, NBUF <- 10, NDIRECT <- 2, NINDIRECT <- 4, BSIZE <- 2, BPB <- 99,
       MaxBlocks <- 16, First <- {0}
-----------------------------------------------------------------------------
\* Inputs of the algorithms.
Sequences(A, n) == UNION {[1 .. k -> A] : k \in 0 .. n}

P == INSTANCE ShParse WITH MAXARGS <- 3
Lines == Sequences({"a", " ", "<", "|", ">", "&", ";", "(", ")"}, 5)

G == INSTANCE Grep
Patterns == Sequences({"a", "^", ".", "*", "$"}, 3)
Texts == Sequences({"a", "b", "$"}, 3)

N == INSTANCE Path WITH DIRSIZ <- 2
Paths == Sequences({"a", "b", ".", "/"}, 5)
De(inum, name) == [inum |-> inum, name |-> N!strncpy(name)]
Dirs ==
  <<  \* inode 1, the root, and inode 2
    <<De(1, <<".">>), De(2, <<"a">>), De(0, <<>>), De(3, <<"a", "b">>)>>,
    <<De(2, <<".">>), De(1, <<"b", "b">>), De(4, <<"a", "b">>)>> >>
DirCalls == [call : {"link", "unlink"}, name : {<<"a">>, <<"a", "b">>, <<"a", "b", "b">>, <<"b">>}]

T == INSTANCE Text WITH W <- 6

KB == INSTANCE Kbd
Events == [code : {KB!LCTL, KB!LSHIFT, KB!CAPS, KB!KEY_A}, escaped : BOOLEAN, up : BOOLEAN]

IsJob ==
  \/ job \in [of : {"parse"}, line : Lines]
  \/ job \in [of : {"grep"}, re : Patterns, text : Texts]
  \/ job \in [of : {"path"}, path : Paths, parent : BOOLEAN, cwd : {1, 2}]
  \/ job \in [of : {"directory"}, calls : Sequences(DirCalls, 3)]
  \/ job \in [of : {"number"}, xx : -32 .. 31, base : {10, 16}, sign : BOOLEAN]
  \/ job \in [of : {"format"}, fmt : Sequences({"%", "d", "s", "c", "q"}, 4)]
  \/ job \in [of : {"move"}, d : 1 .. 5, s : 1 .. 5, n : 0 .. 3]
  \/ job \in [of : {"copy"}, t : Sequences({1, 2}, 4), n : 0 .. 4]
  \/ job \in [of : {"keys"}, events : Sequences(Events, 3) \ {<<>>}]
Nothing == [of |-> "nothing"]
-----------------------------------------------------------------------------
\* The variables of the parts that do not move.
consolevars == vars
mallocvars == <<hdr, freep, brk, core, busy>>
shellvars == <<proc, lines, lost>>
mkfsvars == <<sb, inodes, tables, sectors, freeblock, usedblocks, freeinode, fault, bitmap>>
budgetvars == <<size, have, next, panic>>

MCInit ==
  /\ Init /\ U!Init /\ S!Init /\ K!Init /\ B!Init
  /\ part \in {"console", "malloc", "shell", "mkfs", "budget", "job"}
  /\ part # "mkfs" => sb.size = 70
  /\ IF part = "job" THEN IsJob ELSE job = Nothing

MCNext ==
  /\ \/ part = "console" /\ Next /\ UNCHANGED <<mallocvars, shellvars, mkfsvars, budgetvars>>
     \/ part = "malloc" /\ U!Next /\ UNCHANGED <<consolevars, shellvars, mkfsvars, budgetvars>>
     \/ part = "shell" /\ S!Next /\ UNCHANGED <<consolevars, mallocvars, mkfsvars, budgetvars>>
     \/ part = "mkfs" /\ K!Next /\ UNCHANGED <<consolevars, mallocvars, shellvars, budgetvars>>
     \/ part = "budget" /\ B!Next /\ UNCHANGED <<consolevars, mallocvars, shellvars, mkfsvars>>
  /\ UNCHANGED <<part, job>>

MCSpec ==
  /\ MCInit
  /\ [][MCNext]_<<part, job, consolevars, mallocvars, shellvars, mkfsvars, budgetvars>>
  /\ S!Fairness
-----------------------------------------------------------------------------
(***************************************************************************)
(* Properties.                                                             *)
(***************************************************************************)

\* The names dirlink() and unlink() leave are those of a map, cut to DIRSIZ.
RECURSIVE Linked(_, _), Mapped(_, _)
Linked(dir, calls) ==
  IF calls = <<>> THEN dir
  ELSE Linked(IF calls[1].call = "link" THEN N!dirlink(dir, calls[1].name, Len(calls))
              ELSE N!unlink(dir, calls[1].name), Tail(calls))
Mapped(map, calls) ==
  IF calls = <<>> THEN map
  ELSE LET name == N!Cut(calls[1].name)
           others == {x \in map : x[1] # name} IN
       Mapped(IF calls[1].call = "unlink" THEN others
              ELSE IF others # map THEN map ELSE map \cup {<<name, Len(calls)>>}, Tail(calls))

\* Every algorithm returns what its reference says: match() of grep.c (Grep.tla),
\* namex(), dirlookup() and dirlink() (Path.tla), printint(), printf(),
\* cprintf(), atoi(), memmove() and safestrcpy() (Text.tla), kbdgetc() (Kbd.tla);
\* and parsecmd() of sh.c builds the command that the grammar gives a line, or
\* rejects the line if the grammar has none, with the words of the line although
\* nulterminate() overwrites the characters after them (ShParse.tla).
AlgorithmsMatch ==
  CASE job.of = "parse" -> P!parsecmd(job.line) = P!RefCmd(job.line)
    [] job.of = "grep" -> G!match(job.re, job.text) <=> G!Matches(job.re, job.text)
    [] job.of = "path" ->
         LET found == N!namex(Dirs, job.cwd, job.path, job.parent, <<"a", "b">>) IN
         /\ found.ip = N!Resolved(Dirs, job.cwd, job.path, job.parent)
         /\ job.parent /\ found.ip # 0 => N!String(found.name) = N!Last(N!Elements(job.path))
    [] job.of = "directory" -> N!Entries(Linked(<<>>, job.calls)) = Mapped({}, job.calls)
    [] job.of = "number" -> T!NumberPrinted(job.xx, job.base, job.sign)
    [] job.of = "format" -> T!FormatsAgree(job.fmt)
    [] job.of = "move" -> T!MovesCopy([i \in 1 .. 8 |-> i], job.d, job.s, job.n)
    [] job.of = "copy" -> T!StringCopied(<<7, 7, 7, 7>>, job.t, job.n)
    [] job.of = "keys" -> KB!KeysUnderstood(job.events)
    [] OTHER -> TRUE

\* The free list is one sorted circle and the blocks tile the heap (Umalloc.tla).
HeapIsSound == part = "malloc" => U!HeapIsSound

\* Programs get the standard streams of their place in the line, and nothing
\* else; the shell prompts when the foreground is done (ShRun.tla).
ShellKeepsOrder == part = "shell" => S!ProgramsGetTheirStreams /\ S!ForegroundIsDone

\* Every line leads to another prompt (ShRun.tla).
PromptReturns == S!PromptReturns

\* The image is one the kernel can mount, if the files fit into it and no file
\* needs more than the indirect block (Mkfs.tla).
ImageIsConsistent == part = "mkfs" => K!ImageIsConsistent

\* No transaction of filewrite() outgrows the log or the cache, if one block of
\* the bitmap covers what it allocates (LogBudget.tla).
WriteFitsInLog == part = "budget" => B!WriteFitsInLog
=============================================================================
