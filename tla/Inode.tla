-------------------------------- MODULE Inode --------------------------------
(***************************************************************************)
(* fs.c and sysfile.c: the inode cache under concurrent system calls.      *)
(* Processes open, create, mkdir, link, unlink, symlink, readlink, chdir,  *)
(* exec and close entries of one directory, the root; every call is the    *)
(* sequence of iget, ilock, iunlock, iput and transaction steps of the     *)
(* code.  The log is the abstract one: one transaction at a time.          *)
(*                                                                         *)
(* A step ends where the code can sleep for a lock (ilock, begin_trans) or *)
(* where another process can see a difference.  The root inode is always   *)
(* cached and valid, because it is the current directory of init, so only  *)
(* its lock is modelled.                                                   *)
(***************************************************************************)
EXTENDS Naturals, FiniteSets, FiniteSetsExt

CONSTANTS
  Proc,      \* processes
  Name,      \* names in the root directory
  NINODE,    \* inode cache entries, the root's excluded
  ninodes,   \* inodes on disk, the root excluded
  MAXHOPS,   \* links followed before the panic of sys_open (16)
  MaxCalls,  \* bound: system calls made
  None

ASSUME InodeAssumption ==
  /\ NINODE \in Nat \ {0}
  /\ ninodes \in Nat \ {0}
  /\ MAXHOPS \in Nat
  /\ MaxCalls \in Nat
  /\ None \notin Proc \cup Name \cup (1 .. NINODE)

VARIABLES
  dinode,    \* disk inodes: type ("free" is 0), nlink, and the target of a link
             \* if that is what the addresses hold
  dir,       \* the root directory: inum of each name, 0 if absent
  root,      \* the process that has the root inode locked, or None
  inode,     \* icache.inode[]
  trans,     \* the process between begin_trans and commit_trans, or None
  pc,        \* where each process is
  l,         \* its locals
  fd,        \* its open file: the cache entry f->ip, or None
  cwd,       \* proc->cwd: a cache entry, or None for the root
  symfile,   \* per cache entry: FD_SYMLNK files that sys_symlink left behind
  calls,     \* system calls made so far
  panic      \* the panic() reached, or "none"

vars == <<dinode, dir, root, inode, trans, pc, l, fd, cwd, symfile, calls, panic>>
disk == <<dinode, dir>>
files == <<fd, cwd, symfile>>

Inum == 1 .. ninodes
Slot == 1 .. NINODE

FreeInode == [type |-> "free", nlink |-> 0, target |-> None]

\* A cache entry with ref 0: iget() overwrites all that is looked at later.
Unused == [inum |-> 0, ref |-> 0, busy |-> FALSE, valid |-> FALSE, sym |-> FALSE,
           type |-> "free", nlink |-> 0, target |-> None]

\* op: the call; path, new: its arguments; name: what namei() looks for; ip:
\* the inode it works on; nip: the last result of namei() or ialloc(); hops:
\* links followed; walk: inside readlink; ret: where iput() returns to.
NoLocals == [op |-> "none", path |-> None, new |-> None, name |-> None, ip |-> None,
             nip |-> None, hops |-> 0, walk |-> FALSE, ret |-> "idle"]

Init ==
  /\ dinode = [i \in Inum |-> FreeInode]
  /\ dir = [n \in Name |-> 0]
  /\ root = None
  /\ inode = [s \in Slot |-> Unused]
  /\ trans = None
  /\ pc = [p \in Proc |-> "idle"]
  /\ l = [p \in Proc |-> NoLocals]
  /\ fd = [p \in Proc |-> None]
  /\ cwd = [p \in Proc |-> None]
  /\ symfile = [s \in Slot |-> 0]
  /\ calls = 0
  /\ panic = "none"
-----------------------------------------------------------------------------
At(p, label) == panic = "none" /\ pc[p] = label

\* The locals are dead once only commit_trans() and the return are left.
Goto(p, label) ==
  /\ pc' = [pc EXCEPT ![p] = label]
  /\ l' = IF label \in {"idle", "commit"} THEN [l EXCEPT ![p] = NoLocals] ELSE l

Panic(why) ==
  panic' = why /\ UNCHANGED <<disk, root, inode, trans, pc, l, files, calls>>

\* Faulty variant: an entry with one reference is not found.
Cached_shared(i) == {s \in Slot : inode[s].ref > 1 /\ inode[s].inum = i}

Cached(i) == {s \in Slot : inode[s].ref > 0 /\ inode[s].inum = i}

Empty == {s \in Slot : inode[s].ref = 0}

\* iget(i) by p, which keeps the entry in nip and goes to label; what the
\* caller does to the disk and to the root's lock comes before.
Iget(p, i, label) ==
  IF Cached(i) \cup Empty = {}
  THEN panic' = "iget: no inodes" /\ UNCHANGED <<inode, trans, pc, l, files, calls>>
  ELSE LET s == IF Cached(i) # {} THEN Min(Cached(i)) ELSE Min(Empty) IN
         /\ inode' = [inode EXCEPT ![s] =
                        IF Cached(i) # {} THEN [@ EXCEPT !.ref = @ + 1]
                        ELSE [Unused EXCEPT !.inum = i, !.ref = 1]]
         /\ l' = [l EXCEPT ![p].nip = s]
         /\ pc' = [pc EXCEPT ![p] = label]
         /\ UNCHANGED <<trans, files, calls, panic>>

\* ilock(s) has found the entry not busy: what it reads from disk.
Loaded(s) ==
  LET e == inode[s] IN
  IF e.valid THEN e
  ELSE [e EXCEPT !.valid = TRUE, !.type = dinode[e.inum].type,
                 !.nlink = dinode[e.inum].nlink, !.target = dinode[e.inum].target]

\* iupdate(): type, nlink and addresses of the cached entry e go to the disk.
iupdate(e) == dinode' = [dinode EXCEPT ![e.inum] = [type |-> e.type, nlink |-> e.nlink, target |-> e.target]]

Iunlock(s) == inode' = [inode EXCEPT ![s].busy = FALSE]

\* Faulty variant: other references are ignored.
Orphan_shared(e) == e.valid /\ e.nlink = 0

\* The test of iput(): the last reference to an inode without links.
Orphan(e) == e.ref = 1 /\ e.valid /\ e.nlink = 0

\* iput(s), then to label.  The last reference to an unlinked inode frees it.
Iput(p, s, label) ==
  LET e == inode[s]
      last == Orphan(e) IN
  IF last /\ e.busy THEN Panic("iput busy")
  ELSE /\ inode' = [inode EXCEPT
                      ![s] = IF last THEN [e EXCEPT !.busy = TRUE]
                             ELSE IF e.ref = 1 THEN Unused
                             ELSE [e EXCEPT !.ref = @ - 1]]
       /\ IF last
          THEN /\ l' = [l EXCEPT ![p].ip = s, ![p].nip = None, ![p].ret = label]
               /\ pc' = [pc EXCEPT ![p] = "itrunc"]
          ELSE Goto(p, label)
       /\ UNCHANGED <<disk, root, trans, symfile, calls, panic>>

\* iput(): itrunc(ip); ip->type = 0; iupdate(ip).  log_write() panics outside
\* of a transaction.
itrunc(p) ==
  /\ At(p, "itrunc")
  /\ IF trans = None THEN Panic("write outside of trans")
     ELSE /\ dinode' = [dinode EXCEPT ![inode[l[p].ip].inum] = FreeInode]
          /\ Goto(p, "iput")
          /\ UNCHANGED <<dir, root, inode, trans, files, calls, panic>>

\* iput(): ip->flags = 0; wakeup(ip); ip->ref--.
iput_end(p) ==
  /\ At(p, "iput")
  /\ inode' = [inode EXCEPT ![l[p].ip] =
                 IF @.ref = 1 THEN Unused
                 ELSE [Unused EXCEPT !.inum = inode[l[p].ip].inum,
                                     !.ref = inode[l[p].ip].ref - 1]]
  /\ Goto(p, l[p].ret)
  /\ UNCHANGED <<disk, root, trans, files, calls, panic>>

begin_trans(p, from, label) ==
  /\ At(p, from)
  /\ trans = None
  /\ trans' = p
  /\ Goto(p, label)
  /\ UNCHANGED <<disk, root, inode, files, calls, panic>>

commit_trans(p, from, label) ==
  /\ At(p, from)
  /\ trans' = None
  /\ Goto(p, label)
  /\ UNCHANGED <<disk, root, inode, files, calls, panic>>

Counted == calls < MaxCalls /\ calls' = calls + 1

\* A system call with path n (and m) begins.
Call(p, op, n, m, label) ==
  /\ At(p, "idle")
  /\ Counted
  /\ op \in {"open", "create"} => fd[p] = None
  /\ l' = [l EXCEPT ![p].op = op, ![p].path = n, ![p].name = n, ![p].new = m,
                    ![p].walk = (op \in {"readlink", "chdir", "exec"})]
  /\ pc' = [pc EXCEPT ![p] = label]
  /\ UNCHANGED <<disk, root, inode, trans, files, panic>>

\* Locals change and control moves on.
Set(p, locals, label) == l' = [l EXCEPT ![p] = locals] /\ pc' = [pc EXCEPT ![p] = label]
-----------------------------------------------------------------------------
\* readlink is over and n is the path to use: sys_readlink() returns, sys_chdir()
\* and exec() go on with namei(n).  No iput(): the references are dropped.
EndWalk(p, n) ==
  IF l[p].op = "readlink" THEN Goto(p, "idle")
  ELSE Set(p, [l[p] EXCEPT !.walk = FALSE, !.name = n, !.ip = None, !.nip = None, !.hops = 0],
           "namei")

\* namei(name): the root is locked, searched and unlocked.
namei(p) ==
  /\ At(p, "namei")
  /\ root = None
  /\ LET i == dir[l[p].name] IN
       IF i # 0 THEN Iget(p, i, IF l[p].ip = None THEN "found" ELSE "hop") /\ UNCHANGED <<disk, root>>
       ELSE /\ IF l[p].ip # None THEN Iunlock(l[p].ip) ELSE UNCHANGED inode
            /\ IF l[p].walk THEN EndWalk(p, l[p].path) ELSE Goto(p, "idle")
            /\ UNCHANGED <<disk, root, trans, files, calls, panic>>

\* sys_open(): ilock(ip); a directory opened for writing is put back at once.
open_lock(p, writing) ==
  /\ At(p, "found") /\ l[p].op = "open"
  /\ LET s == l[p].nip
         reject == writing /\ l[p].hops = 0 /\ Loaded(s).type = "T_DIR" IN
       /\ ~inode[s].busy
       /\ inode' = [inode EXCEPT ![s] = [Loaded(s) EXCEPT !.busy = ~reject]]
       /\ Set(p, [l[p] EXCEPT !.ip = s, !.nip = None], IF reject THEN "put" ELSE "opened")
  /\ UNCHANGED <<disk, root, trans, files, calls, panic>>

\* sys_open(): ip is a symbolic link: namei(ip->addrs), with ip still locked.
open_link(p) ==
  /\ At(p, "opened")
  /\ inode[l[p].ip].sym
  /\ Set(p, [l[p] EXCEPT !.op = "open", !.name = inode[l[p].ip].target], "namei")
  /\ UNCHANGED <<disk, root, inode, trans, files, calls, panic>>

\* sys_open(): iunlock(ip); ip = sym_ip.  Its callers panic after MAXHOPS links.
open_hop(p) ==
  /\ At(p, "hop") /\ ~l[p].walk
  /\ IF l[p].hops + 1 >= MAXHOPS THEN Panic("symbolic link exceeds 16 links")
     ELSE /\ Iunlock(l[p].ip)
          /\ Set(p, [l[p] EXCEPT !.ip = None, !.hops = @ + 1], "found")
          /\ UNCHANGED <<disk, root, trans, files, calls, panic>>

\* sys_open(): not a link; filealloc() and fdalloc() succeed.
open_file(p) ==
  /\ At(p, "opened")
  /\ ~inode[l[p].ip].sym
  /\ fd' = [fd EXCEPT ![p] = l[p].ip]
  /\ Iunlock(l[p].ip)
  /\ Goto(p, "idle")
  /\ UNCHANGED <<disk, root, trans, cwd, symfile, calls, panic>>

\* sys_open(), sys_symlink(): no file structure is left: iunlockput(ip).
no_file(p) ==
  /\ At(p, "symlink") \/ (At(p, "opened") /\ ~inode[l[p].ip].sym)
  /\ Iunlock(l[p].ip)
  /\ Goto(p, "put")
  /\ UNCHANGED <<disk, root, trans, files, calls, panic>>

\* sys_readlink(), k_readlink(): ilock(ip); go on only if it is a link.
readlink_lock(p) ==
  /\ At(p, "found") /\ l[p].walk
  /\ LET s == l[p].nip IN
       /\ ~inode[s].busy
       /\ inode' = [inode EXCEPT ![s] = [Loaded(s) EXCEPT !.busy = inode[s].sym]]
       /\ IF inode[s].sym
          THEN Set(p, [l[p] EXCEPT !.ip = s, !.nip = None, !.name = inode[s].target], "namei")
          ELSE EndWalk(p, l[p].path)
  /\ UNCHANGED <<disk, root, trans, files, calls, panic>>

\* sys_readlink(), k_readlink(): follow one more link, or return this one's target.
readlink_hop(p) ==
  /\ At(p, "hop") /\ l[p].walk
  /\ IF inode[l[p].nip].sym /\ l[p].hops + 1 >= MAXHOPS
     THEN Panic("symbolic link exceeds 16 links")
     ELSE /\ Iunlock(l[p].ip)
          /\ IF inode[l[p].nip].sym
             THEN Set(p, [l[p] EXCEPT !.ip = None, !.hops = @ + 1], "found")
             ELSE EndWalk(p, inode[l[p].ip].target)
          /\ UNCHANGED <<disk, root, trans, files, calls, panic>>

\* sys_chdir(), exec(): ilock(ip), check or read it, iunlock(ip).
use(p) ==
  /\ At(p, "found") /\ ~l[p].walk /\ l[p].op \in {"chdir", "exec"}
  /\ LET s == l[p].nip IN
       /\ ~inode[s].busy
       /\ inode' = [inode EXCEPT ![s] = Loaded(s)]
       /\ IF l[p].op = "chdir" /\ Loaded(s).type = "T_DIR"
          THEN /\ cwd' = [cwd EXCEPT ![p] = s]
               /\ IF cwd[p] = None THEN Goto(p, "idle")
                  ELSE Set(p, [l[p] EXCEPT !.ip = cwd[p], !.nip = None], "put")
          ELSE /\ Set(p, [l[p] EXCEPT !.ip = s, !.nip = None], "put")
               /\ UNCHANGED cwd
  /\ UNCHANGED <<disk, root, trans, fd, symfile, calls, panic>>

\* iput(ip) outside of, and inside, a transaction.
put(p) ==
  \/ At(p, "put") /\ Iput(p, l[p].ip, "idle") /\ UNCHANGED <<fd, cwd>>
  \/ At(p, "tput") /\ Iput(p, l[p].ip, "commit") /\ UNCHANGED <<fd, cwd>>
-----------------------------------------------------------------------------
\* create(): nameiparent, ilock(dp), dirlookup; ialloc if there is no such name.
create(p) ==
  /\ At(p, "create")
  /\ root = None
  /\ LET i == dir[l[p].name]
         free == {k \in Inum : dinode[k].type = "free"} IN
       IF i # 0 THEN Iget(p, i, "cr_found") /\ UNCHANGED <<disk, root>>
       ELSE IF free = {} THEN Panic("ialloc: no inodes")
       ELSE /\ dinode' = [dinode EXCEPT ![Min(free)] =
                            [FreeInode EXCEPT !.type = IF l[p].op = "mkdir" THEN "T_DIR" ELSE "T_FILE"]]
            /\ root' = p
            /\ Iget(p, Min(free), "cr_new")
            /\ UNCHANGED dir

\* create(): the name exists: ilock(ip), fine only if both are files.
create_found(p) ==
  /\ At(p, "cr_found")
  /\ LET s == l[p].nip
         ok == l[p].op # "mkdir" /\ Loaded(s).type = "T_FILE" IN
       /\ ~inode[s].busy
       /\ inode' = [inode EXCEPT ![s] = [Loaded(s) EXCEPT !.busy = ok]]
       /\ Set(p, [l[p] EXCEPT !.ip = s, !.nip = None], IF ok THEN "created" ELSE "tput")
  /\ UNCHANGED <<disk, root, trans, files, calls, panic>>

\* create(): ilock(ip) of the new inode; nlink = 1; dirlink; iunlockput(dp).
create_new(p) ==
  /\ At(p, "cr_new")
  /\ LET s == l[p].nip
         e == [Loaded(s) EXCEPT !.busy = TRUE, !.nlink = 1] IN
       /\ ~inode[s].busy
       /\ inode' = [inode EXCEPT ![s] = e]
       /\ iupdate(e)
       /\ dir' = [dir EXCEPT ![l[p].name] = inode[s].inum]
       /\ Set(p, [l[p] EXCEPT !.ip = s, !.nip = None], "created")
  /\ root' = None
  /\ UNCHANGED <<trans, files, calls, panic>>

\* sys_mkdir(): iunlockput(ip) before commit_trans().
mkdir(p) ==
  /\ At(p, "created") /\ l[p].op = "mkdir"
  /\ Iunlock(l[p].ip)
  /\ Goto(p, "tput")
  /\ UNCHANGED <<disk, root, trans, files, calls, panic>>

\* sys_symlink(): the target goes into the cached inode; the file structure is
\* never closed.
symlink(p) ==
  /\ At(p, "symlink")
  /\ inode' = [inode EXCEPT ![l[p].ip].sym = TRUE, ![l[p].ip].target = l[p].new,
                            ![l[p].ip].busy = FALSE]
  /\ symfile' = [symfile EXCEPT ![l[p].ip] = @ + 1]
  /\ Goto(p, "idle")
  /\ UNCHANGED <<disk, root, trans, fd, cwd, calls, panic>>

\* sys_unlink(): ilock(dp), dirlookup.
unlink(p) ==
  /\ At(p, "unlink")
  /\ root = None
  /\ LET i == dir[l[p].name] IN
       IF i = 0 THEN Goto(p, "commit") /\ UNCHANGED <<disk, root, inode, trans, files, calls, panic>>
       ELSE root' = p /\ Iget(p, i, "ul_lock") /\ UNCHANGED disk

\* sys_unlink(): ilock(ip) with dp locked; remove the entry, drop the link.
unlink_entry(p) ==
  /\ At(p, "ul_lock")
  /\ LET s == l[p].nip
         e == [Loaded(s) EXCEPT !.nlink = @ - 1] IN
       /\ ~inode[s].busy
       /\ IF Loaded(s).nlink < 1 THEN Panic("unlink: nlink < 1")
          ELSE /\ inode' = [inode EXCEPT ![s] = e]
               /\ iupdate(e)
               /\ dir' = [dir EXCEPT ![l[p].name] = 0]
               /\ root' = None
               /\ Set(p, [l[p] EXCEPT !.ip = s, !.nip = None], "tput")
               /\ UNCHANGED <<trans, files, calls, panic>>

\* sys_link(): ilock(ip); nlink++; iupdate(ip); iunlock(ip).
link(p) ==
  /\ At(p, "ln_lock")
  /\ LET s == l[p].nip
         isdir == Loaded(s).type = "T_DIR"
         e == IF isdir THEN Loaded(s) ELSE [Loaded(s) EXCEPT !.nlink = @ + 1] IN
       /\ ~inode[s].busy
       /\ inode' = [inode EXCEPT ![s] = e]
       /\ IF isdir THEN UNCHANGED dinode ELSE iupdate(e)
       /\ Set(p, [l[p] EXCEPT !.ip = s, !.nip = None], IF isdir THEN "tput" ELSE "ln_dir")
  /\ UNCHANGED <<dir, root, trans, files, calls, panic>>

\* sys_link(): dirlink(dp, new, ip->inum), which fails if the name exists: its
\* dirlookup() takes a reference to that inode, and it gives it back.
link_entry(p) ==
  /\ At(p, "ln_dir")
  /\ root = None
  /\ LET i == dir[l[p].new] IN
       IF i # 0 /\ Cached(i) \cup Empty = {} THEN Panic("iget: no inodes")
       ELSE /\ dir' = IF i = 0 THEN [dir EXCEPT ![l[p].new] = inode[l[p].ip].inum] ELSE dir
            /\ Goto(p, IF i = 0 THEN "tput" ELSE "ln_undo")
            /\ UNCHANGED <<dinode, root, inode, trans, files, calls, panic>>

\* Faulty variant: nlink is not taken back.
link_undo_skipped(p) ==
  /\ At(p, "ln_undo")
  /\ ~inode[l[p].ip].busy
  /\ Goto(p, "tput")
  /\ UNCHANGED <<disk, root, inode, trans, files, calls, panic>>

\* sys_link(), bad: ilock(ip); nlink--; iupdate(ip); iunlock(ip).
link_undo(p) ==
  /\ At(p, "ln_undo")
  /\ LET e == [inode[l[p].ip] EXCEPT !.nlink = @ - 1] IN
       /\ ~e.busy
       /\ inode' = [inode EXCEPT ![l[p].ip] = e]
       /\ iupdate(e)
  /\ Goto(p, "tput")
  /\ UNCHANGED <<dir, root, trans, files, calls, panic>>

\* sys_close() -> fileclose(), last reference to the file.
close(p) ==
  /\ At(p, "idle")
  /\ Counted
  /\ fd[p] # None
  /\ fd' = [fd EXCEPT ![p] = None]
  /\ Set(p, [NoLocals EXCEPT !.op = "close", !.ip = fd[p]], "cl_begin")
  /\ UNCHANGED <<disk, root, inode, trans, cwd, symfile, panic>>

Begin(p) ==
  \/ begin_trans(p, "cr_begin", "create")
  \/ begin_trans(p, "ul_begin", "unlink")
  \/ l[p].op = "link" /\ begin_trans(p, "found", "ln_lock")
  \/ begin_trans(p, "cl_begin", "tput")

Commit(p) ==
  \/ commit_trans(p, "commit", "idle")
  \/ l[p].op = "create" /\ commit_trans(p, "created", "opened")
  \/ l[p].op = "symlink" /\ commit_trans(p, "created", "symlink")

Step(p) ==
  \/ itrunc(p) \/ iput_end(p) \/ put(p) \/ Begin(p) \/ Commit(p)
  \/ namei(p) \/ (\E w \in BOOLEAN : open_lock(p, w)) \/ open_link(p) \/ open_hop(p)
  \/ open_file(p) \/ no_file(p) \/ readlink_lock(p) \/ readlink_hop(p) \/ use(p)
  \/ create(p) \/ create_found(p) \/ create_new(p) \/ mkdir(p) \/ symlink(p)
  \/ unlink(p) \/ unlink_entry(p) \/ link(p) \/ link_entry(p) \/ link_undo(p)

Start(p) ==
  \E n, m \in Name :
    \/ \E op \in {"open", "readlink", "chdir", "exec"} : Call(p, op, n, None, "namei")
    \/ Call(p, "link", n, m, "namei")
    \/ \E op \in {"create", "mkdir"} : Call(p, op, n, None, "cr_begin")
    \/ Call(p, "symlink", n, m, "cr_begin")
    \/ Call(p, "unlink", n, None, "ul_begin")

Next == \E p \in Proc : Start(p) \/ close(p) \/ Step(p)

Spec == Init /\ [][Next]_vars
-----------------------------------------------------------------------------
(***************************************************************************)
(* Properties.                                                             *)
(***************************************************************************)

Label == {"idle", "namei", "found", "hop", "opened", "put", "tput", "itrunc", "iput",
          "cr_begin", "create", "cr_found", "cr_new", "created", "symlink", "ul_begin",
          "unlink", "ul_lock", "ln_lock", "ln_dir", "ln_undo", "cl_begin", "commit"}

\* Type invariant.
TypeOK ==
  /\ dinode \in [Inum -> [type : {"free", "T_FILE", "T_DIR"}, nlink : 0 .. (Cardinality(Name) + 1),
                           target : Name \cup {None}]]
  /\ dir \in [Name -> Inum \cup {0}]
  /\ root \in Proc \cup {None}
  /\ \A s \in Slot : inode[s].inum \in Inum \cup {0} /\ inode[s].ref \in Nat
  /\ trans \in Proc \cup {None}
  /\ calls \in 0 .. MaxCalls
  /\ pc \in [Proc -> Label]
  /\ \A p \in Proc : {l[p].ip, l[p].nip, fd[p], cwd[p]} \subseteq Slot \cup {None}

\* In-memory pointers to cache entry s.
Pointers(s) ==
  Cardinality({p \in Proc : l[p].ip = s}) + Cardinality({p \in Proc : l[p].nip = s})
  + Cardinality({p \in Proc : fd[p] = s}) + Cardinality({p \in Proc : cwd[p] = s}) + symfile[s]

\* ip->ref never falls below the number of pointers to the entry, so iget()
\* never recycles an entry that a call, an open file or a current directory
\* still uses, whatever iput()s race with it.
RefsCoverPointers == \A s \in Slot : inode[s].ref >= Pointers(s)

\* An inode has one cache entry, and the type and link count of one that is valid
\* and unlocked are those on disk: link(), unlink() and create() of two processes
\* do not lose each other's updates.  What sys_symlink() writes over the
\* addresses is the exception: it is in memory only, until a link() or unlink() of
\* the same inode takes it to the disk; no other inode's addresses differ.
CacheCoherent ==
  /\ \A s, t \in Slot : inode[s].ref > 0 /\ inode[t].ref > 0 /\ s # t => inode[s].inum # inode[t].inum
  /\ \A s \in Slot :
       LET e == inode[s] IN
       e.ref > 0 /\ e.valid /\ ~e.busy =>
         /\ dinode[e.inum].type = e.type /\ dinode[e.inum].nlink = e.nlink
         /\ e.sym \/ dinode[e.inum].target = e.target

Entries(i) == {n \in Name : dir[n] = i}

\* Between transactions the link count of every inode is the number of its
\* directory entries, and no entry names a free inode: the image a commit
\* makes durable is consistent.
LinksMatchEntries ==
  trans = None =>
    \A i \in Inum :
      /\ dinode[i].nlink = Cardinality(Entries(i))
      /\ Entries(i) # {} => dinode[i].type # "free"

\* An inode that an open file or a current directory refers to is not freed,
\* even when its last link goes away meanwhile.
OpenIsAllocated ==
  \A p \in Proc :
    \A s \in {fd[p], cwd[p]} \ {None} : dinode[inode[s].inum].type # "free"

\* The panics that would mean a corrupted cache are never reached; only
\* exhausted tables, link loops and writes outside a transaction stop the kernel.
\* ilock() never reads an inode of type 0 (panic "ilock: no type"), and itrunc()
\* is never given a link: the file structure sys_symlink() leaves behind keeps it.
NoCorruptionPanic ==
  /\ panic \notin {"iput busy", "unlink: nlink < 1"}
  /\ \A s \in Slot : inode[s].ref > 0 /\ inode[s].valid => inode[s].type # "free"
  /\ \A p \in Proc : pc[p] = "itrunc" => ~inode[l[p].ip].sym

\* The inode cache is sound under concurrent calls: entries in use are not
\* recycled, agree with the disk, and no call meets a corrupted one.
CacheIsSound == TypeOK /\ RefsCoverPointers /\ CacheCoherent /\ NoCorruptionPanic

\* log.c: "Each system call that might write the file system should be
\* surrounded with begin_trans() and commit_trans() calls": iput() frees an
\* inode only within the transaction of its own call.
FreesInTransaction == \A p \in Proc : pc[p] = "itrunc" => trans = p
=============================================================================
