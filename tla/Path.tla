-------------------------------- MODULE Path ---------------------------------
(***************************************************************************)
(* Path names and directories: skipelem(), namex(), dirlookup() and        *)
(* dirlink() of fs.c, with the string functions of string.c they use.      *)
(*                                                                         *)
(* A path is a sequence of characters.  A name is a buffer of DIRSIZ       *)
(* bytes, which holds a NUL only if the name is shorter; what is after the *)
(* NUL is what was there before.  A directory is the sequence of its       *)
(* entries; inum 0 is a free one.                                          *)
(***************************************************************************)
EXTENDS Naturals, Sequences, FiniteSets, FiniteSetsExt, SequencesExt

CONSTANT DIRSIZ

NUL == "NUL"
From(s, i) == SubSeq(s, i, Len(s))
Byte(s, i) == IF i <= Len(s) THEN s[i] ELSE NUL
Blank == [i \in 1 .. DIRSIZ |-> NUL]

\* strncmp(p, q, DIRSIZ) = 0
namecmp(p, q) ==
  \A i \in 1 .. DIRSIZ : (\A j \in 1 .. i - 1 : Byte(p, j) # NUL) => Byte(p, i) = Byte(q, i)

\* strncpy(s, t, DIRSIZ) pads with NULs.
strncpy(t) == [i \in 1 .. DIRSIZ |-> Byte(t, i)]

\* The loops of skipelem() over slashes, and over an element.
Slashes(path) == From(path, Min({i \in 1 .. Len(path) + 1 : Byte(path, i) # "/"}))
Length(path) == Min({i \in 0 .. Len(path) : Byte(path, i + 1) \in {"/", NUL}})

\* memmove() of len bytes into name, and the NUL if there is room.
Element(s, len, name) ==
  [i \in 1 .. DIRSIZ |-> IF i <= len THEN s[i] ELSE IF i = len + 1 THEN NUL ELSE name[i]]

\* more is FALSE if skipelem() returns 0.
skipelem(path, name) ==
  LET s == Slashes(path)
      len == Length(s) IN
  IF s = <<>> THEN [more |-> FALSE, path |-> s, name |-> name]
  ELSE [more |-> TRUE, path |-> Slashes(From(s, len + 1)), name |-> Element(s, len, name)]

\* dirlookup(): the inode of the first entry of that name, 0 if there is none;
\* *poff is the entry.
Found(dir, name) == {i \in DOMAIN dir : dir[i].inum # 0 /\ namecmp(name, dir[i].name)}
dirlookup(dir, name) ==
  IF Found(dir, name) = {} THEN 0 ELSE dir[Min(Found(dir, name))].inum

\* dirlink(): the first free entry, or a new one at the end.
dirlink(dir, name, inum) ==
  LET free == {i \in DOMAIN dir : dir[i].inum = 0}
      de == [inum |-> inum, name |-> strncpy(name)] IN
  IF dirlookup(dir, name) # 0 THEN dir
  ELSE IF free = {} THEN Append(dir, de) ELSE [dir EXCEPT ![Min(free)] = de]

\* sys_unlink() clears the entry dirlookup() found.
unlink(dir, name) ==
  IF Found(dir, name) = {} THEN dir
  ELSE [dir EXCEPT ![Min(Found(dir, name))] = [inum |-> 0, name |-> Blank]]

\* namex(): dirs is the contents of the inodes that are directories.
RECURSIVE Walk(_, _, _, _, _)
Walk(dirs, ip, parent, path, name) ==
  LET e == skipelem(path, name) IN
  IF ~e.more THEN [ip |-> IF parent THEN 0 ELSE ip, name |-> name]
  ELSE IF ip \notin DOMAIN dirs THEN [ip |-> 0, name |-> e.name]
  ELSE IF parent /\ e.path = <<>> THEN [ip |-> ip, name |-> e.name]
  ELSE LET next == dirlookup(dirs[ip], e.name) IN
       IF next = 0 THEN [ip |-> 0, name |-> e.name]
       ELSE Walk(dirs, next, parent, e.path, e.name)

ROOTINO == 1

namex(dirs, cwd, path, parent, name) ==
  Walk(dirs, IF Byte(path, 1) = "/" THEN ROOTINO ELSE cwd, parent, path, name)
-----------------------------------------------------------------------------
(***************************************************************************)
(* Reference: a path is the list of its elements, and a directory a        *)
(* function from names, cut to DIRSIZ characters, to inodes.               *)
(***************************************************************************)
Cut(s) == SubSeq(s, 1, IF Len(s) < DIRSIZ THEN Len(s) ELSE DIRSIZ)

Elements(path) ==
  LET starts == {i \in DOMAIN path : path[i] # "/" /\ (i = 1 \/ path[i - 1] = "/")}
      end(i) == Max({j \in i .. Len(path) : \A k \in i .. j : path[k] # "/"})
      nth(n) == CHOOSE i \in starts : Cardinality({j \in starts : j <= i}) = n
  IN  [n \in 1 .. Cardinality(starts) |-> Cut(SubSeq(path, nth(n), end(nth(n))))]

\* The string in a name buffer or an entry.
String(name) == SubSeq(name, 1, Min({i \in 0 .. DIRSIZ : i = DIRSIZ \/ name[i + 1] = NUL}))

\* The map a directory stands for.
Entries(dir) == {<<String(dir[i].name), dir[i].inum>> : i \in {j \in DOMAIN dir : dir[j].inum # 0}}

RECURSIVE Resolve(_, _, _)
Resolve(dirs, ip, names) ==
  IF names = <<>> THEN ip
  ELSE IF ip \notin DOMAIN dirs THEN 0
  ELSE LET next == {e[2] : e \in {f \in Entries(dirs[ip]) : f[1] = names[1]}} IN
       IF next = {} THEN 0 ELSE Resolve(dirs, Min(next), Tail(names))

Resolved(dirs, cwd, path, parent) ==
  LET es == Elements(path)
      ip == IF path # <<>> /\ path[1] = "/" THEN ROOTINO ELSE cwd
      dir == Resolve(dirs, ip, Front(es)) IN
  IF ~parent THEN Resolve(dirs, ip, es)
  ELSE IF es = <<>> \/ dir \notin DOMAIN dirs THEN 0 ELSE dir
=============================================================================
