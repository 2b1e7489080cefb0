--------------------------------- MODULE Vm ---------------------------------
(***************************************************************************)
(* kalloc.c, vm.c, exec.c and the parts of proc.c that manage memory: the  *)
(* page allocator, two-level page tables, and the calls that build, copy,  *)
(* grow, replace and free the address space of a process.                  *)
(*                                                                         *)
(* A call is one step: only the free list is shared, and its lock is held  *)
(* for one kalloc() or kfree() at a time, so other processes can only make *)
(* a call find fewer free pages, as it does here in other states.          *)
(***************************************************************************)
EXTENDS Naturals, Sequences, FiniteSets, SequencesExt

CONSTANTS
  NPROC,       \* process slots
  NPAGES,      \* pages that kinit1() and kinit2() put on the free list
  PGSIZE,      \* units in which sizes are counted, per page
  NPTENTRIES,  \* entries of a page table
  UPDE, KPDE,  \* entries of a page directory below and above KERNBASE
  Touched,     \* bound: the user pages that programs store to
  MaxCalls     \* bound: stores and calls made

VARIABLES
  freelist,  \* kmem.freelist, as a set
  data,      \* pages as memory: junk, zero or what was put there
  tab,       \* pages as tables: the entries
  proc,      \* ptable.proc[]: what concerns memory
  calls,     \* stores and calls made so far
  exhausted, \* the last call met an empty free list
  panic      \* "none" or why the system stopped

vars == <<freelist, data, tab, proc, calls, exhausted, panic>>

Page == 1 .. NPAGES
Slot == 1 .. NPROC
KERNBASE == UPDE * NPTENTRIES * PGSIZE
Entry == 0 .. (IF NPTENTRIES > UPDE + KPDE THEN NPTENTRIES ELSE UPDE + KPDE) - 1

\* An entry of a table: the page it points to, 0 if it is not present, and PTE_U.
NoEntry == [pa |-> 0, u |-> FALSE]
ZeroTable == [e \in Entry |-> NoEntry]

\* A table of the bytes kfree() writes: present entries, for one and the same page.
JunkTable == [e \in Entry |-> [pa |-> 1, u |-> FALSE]]

\* Contents of a page: 0 after memset(), p after a store by the process in slot p.
Junk == NPROC + 1
Initcode == NPROC + 2
TextPage == NPROC + 3
Arguments == NPROC + 4
NoPage == NPROC + 5

\* esp: the page of the user stack.
Unused == [state |-> "UNUSED", kstack |-> 0, pgdir |-> 0, sz |-> 0, esp |-> 0]

PGROUNDUP(sz) == (sz + PGSIZE - 1) \div PGSIZE
PDX(va) == va \div NPTENTRIES
PTX(va) == va % NPTENTRIES

\* Pages from, from + 1, ..., to - 1, in the order of a loop.
Upto(from, to) == [i \in 1 .. (IF to > from THEN to - from ELSE 0) |-> from + i - 1]
-----------------------------------------------------------------------------
\* The operators below work on the memory m = [free, data, tab, out, panic].

Stop(m, why) == [m EXCEPT !.panic = IF @ = "none" THEN why ELSE @]

\* kfree(): filled with junk.  The code does not notice a page freed twice.
kfree(m, pa) ==
  IF pa \in m.free THEN Stop(m, "page freed twice")
  ELSE [m EXCEPT !.free = @ \cup {pa}, !.data[pa] = Junk, !.tab[pa] = JunkTable]

\* kalloc(): a free page, or 0.  Which one does not matter.
kalloc(m) ==
  IF m.free = {} THEN [m |-> [m EXCEPT !.out = TRUE], pa |-> 0]
  ELSE LET pa == CHOOSE x \in m.free : \A y \in m.free : x <= y
       IN  [m |-> [m EXCEPT !.free = @ \ {pa}], pa |-> pa]

\* Faulty variant: a page of memory keeps what it holds.
memset_skipped(m, pa) == [m EXCEPT !.tab[pa] = ZeroTable]

memset(m, pa) == [m EXCEPT !.data[pa] = 0, !.tab[pa] = ZeroTable]

\* walkpgdir(): the table for directory entry x, made if there is none and alloc.
walkpgdir(m, d, x, alloc) ==
  LET make(k) ==
        IF k.pa = 0 THEN k
        ELSE [m |-> [memset(k.m, k.pa) EXCEPT !.tab[d][x] = [pa |-> k.pa, u |-> TRUE]], pa |-> k.pa]
  IN  IF m.tab[d][x].pa # 0 \/ ~alloc THEN [m |-> m, pa |-> m.tab[d][x].pa] ELSE make(kalloc(m))

\* The entry for user page va, NoEntry if there is no table.
Pte(m, d, va) ==
  LET t == m.tab[d][PDX(va)].pa IN IF t = 0 THEN NoEntry ELSE m.tab[t][PTX(va)]

\* mappages() of one user page.
mappages(m, d, va, pa) ==
  LET map(w) ==
        IF w.pa = 0 THEN [m |-> w.m, ok |-> FALSE]
        ELSE IF w.m.tab[w.pa][PTX(va)].pa # 0 THEN [m |-> Stop(w.m, "remap"), ok |-> FALSE]
        ELSE [m |-> [w.m EXCEPT !.tab[w.pa][PTX(va)] = [pa |-> pa, u |-> TRUE]], ok |-> TRUE]
  IN  map(walkpgdir(m, d, PDX(va), TRUE))

\* setupkvm(): a directory with the kernel's tables; pgdir 0 if one of them
\* cannot be had, and then the ones before it are not given back.
setupkvm(m) ==
  LET tables(k) ==
        LET kernel(s, x) == IF s.pa = 0 THEN s ELSE walkpgdir(s.m, k.pa, x, TRUE) IN
        FoldLeft(kernel, [m |-> memset(k.m, k.pa), pa |-> k.pa], Upto(UPDE, UPDE + KPDE))
      done(k, s) == [m |-> s.m, pgdir |-> IF s.pa = 0 THEN 0 ELSE k.pa]
      make(k) == IF k.pa = 0 THEN [m |-> k.m, pgdir |-> 0] ELSE done(k, tables(k))
  IN  make(kalloc(m))

\* Faulty variant: *pte = 0 is missing.
deallocuvm_stale(m, d, oldsz, newsz) ==
  LET drop(s, va) ==
        IF va < s.next THEN s
        ELSE IF s.m.tab[d][PDX(va)].pa = 0 THEN [s EXCEPT !.next = va + NPTENTRIES]
        ELSE IF Pte(s.m, d, va).pa = 0 THEN s
        ELSE [s EXCEPT !.m = kfree(s.m, Pte(s.m, d, va).pa)]
  IN  FoldLeft(drop, [m |-> m, next |-> 0], Upto(PGROUNDUP(newsz), PGROUNDUP(oldsz))).m

\* deallocuvm(): where a table is missing the loop goes on NPTENTRIES pages later.
deallocuvm(m, d, oldsz, newsz) ==
  LET drop(s, va) ==
        IF va < s.next THEN s
        ELSE IF s.m.tab[d][PDX(va)].pa = 0 THEN [s EXCEPT !.next = va + NPTENTRIES]
        ELSE IF Pte(s.m, d, va).pa = 0 THEN s
        ELSE [s EXCEPT !.m = [kfree(s.m, Pte(s.m, d, va).pa) EXCEPT
                                !.tab[s.m.tab[d][PDX(va)].pa][PTX(va)] = NoEntry]]
  IN  FoldLeft(drop, [m |-> m, next |-> 0], Upto(PGROUNDUP(newsz), PGROUNDUP(oldsz))).m

\* allocuvm(): zeroed pages, all given back when one cannot be had.  The result
\* of mappages() is not looked at.
allocuvm(m, d, oldsz, newsz) ==
  LET page(s, k, va) ==
        IF k.pa = 0 THEN [m |-> k.m, full |-> TRUE]
        ELSE [s EXCEPT !.m = mappages(memset(k.m, k.pa), d, va, k.pa).m]
      add(s, va) == IF s.full THEN s ELSE page(s, kalloc(s.m), va)
      done(s) == IF s.full THEN [m |-> deallocuvm(s.m, d, newsz, oldsz), sz |-> 0]
                 ELSE [m |-> s.m, sz |-> newsz]
  IN  IF newsz >= KERNBASE THEN [m |-> m, sz |-> 0]
      ELSE IF newsz < oldsz THEN [m |-> m, sz |-> oldsz]
      ELSE done(FoldLeft(add, [m |-> m, full |-> FALSE], Upto(PGROUNDUP(oldsz), PGROUNDUP(newsz))))

\* freevm(): user pages, tables, directory.
freevm(m, d) ==
  LET tables(user) ==
        LET free(s, x) == IF user.tab[d][x].pa = 0 THEN s ELSE kfree(s, user.tab[d][x].pa) IN
        FoldLeft(free, user, Upto(0, UPDE + KPDE))
  IN  kfree(tables(deallocuvm(m, d, KERNBASE, 0)), d)

\* copyuvm(): a page whose mapping fails is not given back.
copyuvm(m, pgdir, sz) ==
  LET page(s, k, d, va) ==
        IF k.pa = 0 THEN [m |-> k.m, ok |-> FALSE]
        ELSE mappages([k.m EXCEPT !.data[k.pa] = s.m.data[Pte(s.m, pgdir, va).pa]], d, va, k.pa)
      pages(new) ==
        LET copy(s, va) ==
              IF ~s.ok \/ s.m.panic # "none" THEN s
              ELSE IF Pte(s.m, pgdir, va).pa = 0 THEN [s EXCEPT !.m = Stop(@, "copyuvm")]
              ELSE page(s, kalloc(s.m), new.pgdir, va) IN
        FoldLeft(copy, [m |-> new.m, ok |-> TRUE], Upto(0, PGROUNDUP(sz)))
      done(d, s) == IF s.ok THEN [m |-> s.m, pgdir |-> d] ELSE [m |-> freevm(s.m, d), pgdir |-> 0]
      make(new) == IF new.pgdir = 0 THEN new ELSE done(new.pgdir, pages(new))
  IN  make(setupkvm(m))
-----------------------------------------------------------------------------
\* The file exec() reads is one page of text: with the guard page and the stack
\* the image has three pages, the stack last.
Text == 1
Stack == Text + 1

\* Faulty variant: no freevm(pgdir).
bad_leak(s) == [m |-> s.m, pgdir |-> 0]

\* exec() up to the commit, from the image s = [m, d, sz] with m and sz as
\* allocuvm() left them; bad: the image is given up.  fault: what is wrong with
\* the file or the arguments, "none" if nothing.  pgdir is 0 if the call fails.
bad(s) == [m |-> freevm(s.m, s.d), pgdir |-> 0]
Stops(m, why) == [m |-> Stop(m, why), pgdir |-> 0]
Allocated(r, d) == [m |-> r.m, d |-> d, sz |-> r.sz]

\* clearpteu() of the guard page, and the arguments on the stack page.
Pushed(s, guard, fault) ==
  LET guarded == [s.m EXCEPT !.tab[s.m.tab[s.d][PDX(guard)].pa][PTX(guard)].u = FALSE]
      top == Pte(s.m, s.d, Stack).pa
      pushed == [guarded EXCEPT !.data[top] = Arguments] IN
  IF s.sz = 0 THEN bad(s)
  ELSE IF top = 0 THEN Stops(guarded, "uva2ka: no table")
  ELSE IF fault = "args" THEN bad([s EXCEPT !.m = pushed])
  ELSE [m |-> pushed, pgdir |-> s.d]

\* loaduvm(), then two pages for the guard and the stack.
Loaded(s, fault) ==
  LET loaded == [s.m EXCEPT !.data[Pte(s.m, s.d, 0).pa] = TextPage] IN
  IF s.sz = 0 THEN bad(s)
  ELSE IF Pte(s.m, s.d, 0).pa = 0 THEN Stops(s.m, "loaduvm: address should exist")
  ELSE IF fault = "load" THEN bad([s EXCEPT !.m = loaded])
  ELSE Pushed(Allocated(allocuvm(loaded, s.d, s.sz, s.sz + 2 * PGSIZE), s.d), Text, fault)

Load(m, fault) ==
  LET make(new) ==
        IF new.pgdir = 0 THEN new
        ELSE IF fault = "header" THEN bad([m |-> new.m, d |-> new.pgdir])
        ELSE Loaded(Allocated(allocuvm(new.m, new.pgdir, 0, Text * PGSIZE), new.pgdir), fault)
  IN  IF fault = "elf" THEN [m |-> m, pgdir |-> 0] ELSE make(setupkvm(m))

\* kvmalloc(): the kernel's own directory.  userinit() and allocproc(): the
\* first process, with a kernel stack and one page of initcode.
Booted ==
  LET empty == [free |-> Page, data |-> [x \in Page |-> Junk],
                tab |-> [x \in Page |-> JunkTable], out |-> FALSE, panic |-> "none"]
      process(kstack, d, r) ==
        [m |-> r.m, p |-> [state |-> "RUNNABLE", kstack |-> kstack, pgdir |-> d, sz |-> PGSIZE, esp |-> 0]]
      inituvm(kstack, d, k) ==
        process(kstack, d, mappages([k.m EXCEPT !.data[k.pa] = Initcode], d, 0, k.pa))
      user(kstack, new) == inituvm(kstack, new.pgdir, kalloc(new.m))
      allocproc(k) == user(k.pa, setupkvm(k.m))
  IN  allocproc(kalloc(setupkvm(empty).m))

Init ==
  /\ freelist = Booted.m.free
  /\ data = Booted.m.data
  /\ tab = Booted.m.tab
  /\ proc = [s \in Slot |-> IF s = 1 THEN Booted.p ELSE Unused]
  /\ calls = 0
  /\ exhausted = FALSE
  /\ panic = "none"

\* The memory at the beginning of a call, and after it.
Memory == [free |-> freelist, data |-> data, tab |-> tab, out |-> FALSE, panic |-> "none"]

\* A call ends with memory m and process table table, unless it panics.
Ends(m, table) ==
  /\ calls < MaxCalls /\ calls' = calls + 1
  /\ panic' = m.panic
  /\ IF m.panic # "none" THEN UNCHANGED <<freelist, data, tab, proc, exhausted>>
     ELSE /\ freelist' = m.free
          /\ data' = m.data
          /\ tab' = m.tab
          /\ exhausted' = m.out
          /\ proc' = table

At(p, va) == Pte(Memory, proc[p].pgdir, va)

\* p executes user code: its text and its stack are there.  Otherwise it can
\* only fault, and trap() kills it.
Runs(p) ==
  /\ panic = "none"
  /\ proc[p].state = "RUNNABLE"
  /\ At(p, 0).u /\ At(p, proc[p].esp).u

\* All that initcode does is exec("/init").
Initcoded(p) == proc[p].esp = 0

\* A store to a page that the process may use.
store(p, va) ==
  /\ Runs(p) /\ ~Initcoded(p)
  /\ At(p, va).u
  /\ Ends([Memory EXCEPT !.data[At(p, va).pa] = p], proc)

\* fork() and allocproc() in slot q.
fork(p, q) ==
  /\ Runs(p) /\ ~Initcoded(p)
  /\ proc[q].state = "UNUSED"
  /\ \E k \in {kalloc(Memory)} :
       IF k.pa = 0 THEN Ends(k.m, proc)
       ELSE \E new \in {copyuvm(k.m, proc[p].pgdir, proc[p].sz)} :
              IF new.pgdir = 0 THEN Ends(kfree(new.m, k.pa), proc)
              ELSE Ends(new.m, [proc EXCEPT ![q] = [proc[p] EXCEPT !.kstack = k.pa, !.pgdir = new.pgdir]])

\* exec(): the old image is freed only after the commit.
exec(p, fault) ==
  /\ Runs(p)
  /\ Initcoded(p) => fault = "none"
  /\ \E new \in {Load(Memory, fault)} :
       IF new.pgdir = 0 THEN Ends(new.m, proc)
       ELSE Ends(freevm(new.m, proc[p].pgdir),
                 [proc EXCEPT ![p].pgdir = new.pgdir, ![p].esp = Stack, ![p].sz = (Stack + 1) * PGSIZE])

\* sbrk() with n > 0.
grow(p, n) ==
  /\ Runs(p) /\ ~Initcoded(p)
  /\ \E r \in {allocuvm(Memory, proc[p].pgdir, proc[p].sz, proc[p].sz + n)} :
       Ends(r.m, IF r.sz = 0 THEN proc ELSE [proc EXCEPT ![p].sz = r.sz])

\* sbrk() with n < 0.  Going down to 0 returns -1 after the pages are freed.
shrink(p, n) ==
  /\ Runs(p) /\ ~Initcoded(p)
  /\ n <= proc[p].sz
  /\ Ends(deallocuvm(Memory, proc[p].pgdir, proc[p].sz, proc[p].sz - n),
          IF proc[p].sz = n THEN proc ELSE [proc EXCEPT ![p].sz = @ - n])

\* exit(), by itself or because it was killed: the memory stays until wait().
exit(p) ==
  /\ panic = "none"
  /\ proc[p].state = "RUNNABLE" /\ p # 1
  /\ Ends(Memory, [proc EXCEPT ![p].state = "ZOMBIE"])

\* wait() of the parent finds the zombie p.
wait(p) ==
  /\ panic = "none"
  /\ proc[p].state = "ZOMBIE"
  /\ Ends(freevm(kfree(Memory, proc[p].kstack), proc[p].pgdir), [proc EXCEPT ![p] = Unused])

Next ==
  \E p \in Slot :
    \/ \E va \in Touched : store(p, va)
    \/ \E q \in Slot : fork(p, q)
    \/ \E fault \in {"none", "elf", "header", "load", "args"} : exec(p, fault)
    \/ \E n \in {1, PGSIZE} : grow(p, n)
    \/ \E n \in {1, PGSIZE, proc[p].sz} : shrink(p, n)
    \/ exit(p)
    \/ wait(p)

Spec == Init /\ [][Next]_vars
-----------------------------------------------------------------------------
(***************************************************************************)
(* Properties.                                                             *)
(***************************************************************************)

\* Pages a process holds, one element per pointer to a page.
Tables(d) == {<<d, x, tab[d][x].pa>> : x \in {y \in Entry : tab[d][y].pa # 0}}
Held(p) ==
  LET d == proc[p].pgdir
      tables == Tables(d)
      user == UNION {Tables(t[3]) : t \in tables}
  IN  {<<p, 0, proc[p].kstack>>, <<p, 1, d>>} \cup tables \cup user

Alive == {p \in Slot : proc[p].state # "UNUSED"}
Pointers == UNION {Held(p) : p \in Alive}
Used == {h[3] : h \in Pointers}

\* A page has one owner: it is on the free list, or exactly one entry of one
\* page table, or one process, points to it, through every failed or completed
\* fork(), exec(), sbrk(), exit() and wait().
PagesHaveOneOwner ==
  /\ Cardinality(Used) = Cardinality(Pointers)
  /\ Used \cap freelist = {}
  /\ panic \notin {"page freed twice", "remap"}

\* Pages that nothing leads to any more: kpgdir and its tables, and lost ones.
Lost == Page \ (Used \cup freelist)

\* Pages get lost only in a call that found the free list empty: every other
\* failure of exec() or sbrk(), and every wait(), gives back all it took.
LosesOnlyWhenExhausted == panic' = "none" /\ Lost' # Lost => exhausted'
LostOnlyWhenExhausted == [][LosesOnlyWhenExhausted]_vars

Space(p) ==
  IF proc[p].state = "UNUSED" THEN <<>>
  ELSE [k \in 1 .. PGROUNDUP(proc[p].sz) |->
          IF At(p, k - 1).pa = 0 THEN NoPage ELSE data[At(p, k - 1).pa]]

AS == INSTANCE AddressSpaces WITH
        space <- [p \in Slot |-> Space(p)], Stored <- Slot, Hole <- NoPage,
        First <- <<Initcode>>, Image <- <<TextPage, 0, Arguments>>

\* Every process sees a memory of its own: fork() copies it, exec() replaces it
\* all or not at all, sbrk() adds zeroed pages, and nothing another process
\* does shows in it, whatever pages are recycled in between.
PrivateMemory == AS!Spec
=============================================================================
