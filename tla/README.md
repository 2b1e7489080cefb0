# A TLA+ model of the OS122-4 kernel

This directory holds a TLA+ model of the system in `src/`: xv6 (the 2011/12
edition) with three extensions marked "A&T" in the source: symbolic links,
double-indirect blocks, and file tags. The kernel is modelled first, then the
shell, the user allocator and the image builder. TLC checks the model on small instances.
TLAPS proves the results about the redo log, the buffer cache, the process
table, the scheduler, pipes and the console's input for every instance.

`PROJECT.json` has the machine-readable side: which lines each definition
models, the runs, the mutants, the findings, the hazards and the theorems.

## 1. The system and its parts

| Part | Source | What it does | Module |
|---|---|---|---|
| redo log | log.c | makes a system call's block writes atomic across crashes | Log, TransDisk, LogProofs |
| buffer cache | bio.c | one locked copy per disk sector, LRU recycling | BufferCache, BlockStore, BufferCacheLemmas, BufferCacheProofs |
| IDE driver | ide.c | request queue, completion interrupt | BufferCache |
| pipes | pipe.c | bounded byte ring, blocking reads and writes | Pipe, ByteStream, PipeProofs |
| process life cycle | proc.c, init.c | fork, exit, wait, kill over the process table | Proc, ProcProofs |
| scheduling, sleep/wakeup | proc.c, trap.c | per-CPU scheduler loop, swtch, interrupts | Sched, SchedProofs |
| spinlocks | spinlock.c | acquire/release, pushcli/popcli | Sched, SchedProofs |
| inode cache, names, symlinks | fs.c, sysfile.c | iget/ilock/iput and the file system calls | Inode |
| block map, allocator, tags | fs.c | balloc/bfree, bmap, itrunc, fs_ftag and friends | Blocks, FileContents |
| file table | file.c, sysfile.c | struct file, descriptors, shared offsets | FileTable |
| write's log use | file.c, fs.c, log.c | how many blocks one write() logs | LogBudget |
| path names, directories | fs.c, string.c | skipelem, namex, dirlookup, dirlink | Path |
| memory | kalloc.c, vm.c, exec.c, proc.c | free pages, page tables, image switch | Vm, AddressSpaces |
| console, keyboard | console.c, kbd.c | input ring edited by interrupts, scan codes | Console, LineInput, Kbd, ConsoleProofs |
| shell | sh.c | parser; processes and descriptors of a command | ShParse, ShRun |
| user allocator | umalloc.c | circular free list | Umalloc |
| image builder | mkfs.c | first image of the file system | Mkfs |
| library, grep | printf.c, ulib.c, string.c, grep.c | numbers, formats, copies, patterns | Text, Grep |
| boot, devices, other programs | main.c, lapic.c, ls.c, ... | start-up, registers, clients | not modelled |

The parts meet as follows. A system call of fs.c brackets its writes with
begin_trans and commit_trans. Inside, it obtains blocks with bread, changes them
and hands them to log_write. The log pins those buffers with B_DIRTY until it
has written them home through bwrite and iderw. All blocking goes through
sleep and wakeup on ptable.lock. Interrupt handlers run on top of whatever
their CPU was doing.

The models are composed by contract. `TransDisk` is what log.c promises; Inode
and Blocks assume it (one transaction at a time, durable as a whole).
`BlockStore` is what bio.c promises; Log assumes it (bread returns the latest
contents, a dirty or held buffer is not recycled). Sched shows that sleep and
wakeup lose nothing; Log, BufferCache, Pipe and Proc take a critical section
followed by sleep as one step. FileTable counts the pipe ends and inode
references whose users Pipe and Inode model. ShRun executes the commands that
ShParse builds.

## 2. Modules, state and actions

Definitions keep the names of the C functions they model. A step ends where
the code gives another actor a chance: it releases a lock, sleeps, writes the
disk, or writes shared memory without a lock. An operator marked "Faulty
variant" is a plausible bug of the definition below it. No specification uses
it; it exists to show that a property notices the bug.

**Log** (log.c). On disk: `home` (home sectors), `blk` (log data blocks), `head`
(header). In memory: `busy`, `lh` (log.lh), `cache` and `dirty` (buffers),
`tail` (install_trans's loop), `pc` and `cur` per process. `begin_trans` and
`begin_wait`; `modify` (bread and a change); `log_write` and `log_append` (the
two halves around the write of the log block, absorption in `StopsAt`), with
`log_write_panic`; `commit_head` (the commit point) or `commit_empty`;
`install_trans` (one sector per step); `reset`, `erase`, `commit_done`;
`read_head` at boot; `bread` and `evict` by others; `Crash` at any point,
recovery included. A write of one sector is atomic.

**BufferCache** (bio.c, ide.c). `buf` (sector, flags, data), `lru`, `idequeue`,
`cmd` (what the drive executes). `bget_hit`, `bget_wait`, `bget_recycle`,
`bget_panic`, `iderw`, `iderw_test`, `ideintr`, `bwrite`, `pin` (what log_write
does to a buffer), `brelse`. A process holds one buffer at a time. With
`ReadErrors` the drive may fail a read.

**Pipe** (pipe.c). The ring, `nread` and `nwrite` modulo `Width` (2^32 in the
code), the two open flags, `lock`, and per process its place, its loop variable
and `killed`. One action per iteration and per exit of pipewrite and piperead,
`close` for pipeclose, and `kill`, which does not take the pipe's lock.

**Proc** (proc.c). `state`, `pid`, `parent`, `killed`, `nextpid`. `allocproc`,
`fork` and `fork_fail`, `exit_files` and `exit`, `wait_reap`, `wait_none`,
`wait_sleep`, `kill`. RUNNABLE stands for RUNNABLE and RUNNING. wait is the only
call in which a process of this model sleeps.

**Sched** (spinlock.c, proc.c, trap.c). `cpus` is struct cpu with the interrupt
flag and the thread in control; `stack` holds what traps return to. Each
acquire attempt and each release is a step. The processes run the two sides of
the sleep/wakeup idiom (`consume`, `produce`); a device interrupt runs
`produce` on any CPU that has interrupts on. The panics of acquire, release,
popcli and sched are modelled.

**Inode** (fs.c, sysfile.c, the lookup of exec.c). `dinode`, `dir` (one
directory), `inode` (icache), `trans`, and per process its place and locals.
open, create, mkdir, link, unlink, symlink, readlink, chdir, exec and close are
sequences of iget, ilock, iput and transaction steps; a step ends at each ilock
and begin_trans. Of a disk inode it keeps the type, the link count and, where
the addresses hold one, the target of a link. `iupdate` writes all three;
`symlink` changes the target in the cached entry only, as sys_symlink does.

**Blocks** (fs.c). `bitmap`, the blocks seen as pointer tables, data or tag
tables, `dinode` and the cached copies. These run with the inode locked, inside
a transaction, so an operation is one step: `create`, `open`, `close`,
`writei` (one block), `remove` (itrunc), `symlink`, `fs_ftag`, `fs_funtag`,
`fs_gettag`. `symlink` overwrites the cached addresses of an existing file;
`lost` remembers the blocks they led to. `stuck` holds the blocks whose buffers
itrunc does not release: bzero of such a block sleeps for ever. The blocks
after the data are the log's. balloc takes them when the data blocks are used
up. The model stops there, at a scan that leaves the tags block, and at a write
through a descriptor that is older than a link, because the rest is undefined.

**FileTable** (file.c, sysfile.c, pipealloc of pipe.c, fork and exit of proc.c).
`file` (ftable.file), `ofile` per process, `pipe` (open ends), `iref` and `busy`
(inodes), per process its place and locals. `dup` and `dup_ref` (the descriptor
is visible before the count), `close`, `fileclose` and `release` (the count
under ftable.lock, what follows without it), `open` and `open_file`, `symlink`
(which keeps a structure and gives no descriptor), `pipealloc`, `pipe_nomem`,
`pipe_install` with the error paths, `fork` and `fork_dup`, `exit` and
`exit_next`, `reap`, and `io`, `io_lock`, `io_done`, `io_none` for the offset.

**LogBudget** (file.c, fs.c, log.c). `size`, `have` (blocks allocated) and
`next` (where balloc is). `filewrite` runs writei, bmap, balloc, bzero and
iupdate and lists the log_write calls in order, each with the table that bmap
holds at the time; `Fits` is the two panics.

**Vm** (kalloc.c, vm.c, exec.c, proc.c, sysproc.c). `freelist`, `data` (contents
of pages), `tab` (directories and tables), `proc`. fork, exec, sbrk, exit, wait
and a store are one step each, built from kalloc, kfree, walkpgdir, mappages,
setupkvm, copyuvm, allocuvm, deallocuvm, freevm, loaduvm and clearpteu, each of
which can run out of pages at any point. exec can also fail at the ELF header, a
program header, loading, or copying its arguments. A free page holds kfree's junk,
which as a table is a row of present entries, until somebody clears it.

**Console** (console.c). The ring with `r`, `w`, `e` modulo `Width`, the lock,
and per process the state of consoleread. `consoleintr` handles one character:
erase, kill line, end of file, end of line, others.

**ShRun** (sh.c). `proc` holds a process's place in runcmd or main, its command
and descriptors. Every fork1, pipe, dup, close, open, wait and exec is a step of
its own. A program reads and writes its standard streams and exits; open, pipe, fork and
exec may fail.

**Umalloc** (umalloc.c). `hdr` (headers by address), `freep`, `brk`. `malloc`,
`free`, `morecore`, and an `sbrk` of the program's own, which leaves a gap.

**Mkfs** (mkfs.c). One step per file of the command line, then the root's size
and the bitmap. `fault` is set where the assertion of iappend fails or where a
file is too long for its one indirect table, and mkfs goes no further.

**ShParse, Grep, Path, Text, Kbd** are algorithms: recursive operators that
follow the C functions, beside a reference definition of another shape (a
grammar, a language of strings, a map, a numeral, a history of keys).

**TransDisk, BlockStore, ByteStream, FileContents, LineInput, AddressSpaces**
are the abstract specifications that Log, BufferCache, Pipe, Blocks, Console and
Vm implement.

**MCBufferCache, MCInode, MCPipe, MCSched** add symmetry sets for TLC.
**MCResources** puts Blocks, FileTable and Vm side by side, **MCPrograms**
Console, Umalloc, ShRun, Mkfs, LogBudget and the algorithms. These parts share no
state; in a behaviour the variable `part` names the one that moves, so that
the states of a run are the sum, not the product, of theirs.

## 3. Runs

| Run | Instance | Distinct states |
|---|---|---|
| log | 2 processes, 2 sectors, 2 contents, LOGSIZE 2 | 74,304 |
| buffer_cache | 3 processes, 2 buffers, 3 sectors, 2 contents | 21,158 |
| pipe | 2 readers, 2 writers, 2 bytes, PIPESIZE 2, Width 4, counts up to 2 | 1,544,697 |
| proc | 4 slots, 4 pids | 20,624 |
| sched | 2 CPUs, 2 processes | 187,994 |
| inode | 2 processes, 2 names, 2 cache entries, 3 inodes, 4 calls | 558,982 |
| resources | blocks: 1 direct, 2 indirect, 4 double-indirect entries, 10 data and 2 log blocks, 2 inodes, 2 cache entries; files: 2 processes, 3 structures, 3 descriptors each, 6 calls; memory: 2 slots, 19 pages, 8 calls | 359,307 |
| programs | console: 2 readers, ring of 2, 4 characters; heap of 9 units; 6 command lines; 4 disk geometries; writes to 16 blocks; inputs of the algorithms | 294,155 |

What each passing run shows:

- **log**. `LogInvariant` (the inductive invariant, types included).
  `Atomicity`: log.c implements TransDisk. `UnwrittenIsPinned`: a cached block
  newer than its home sector cannot be recycled. `CommittedLogIsFrozen`: nothing
  overwrites a committed log before it is erased. `SleepersHaveAWaker` and
  `WaiterWakes`: begin_trans loses no wakeup. `RecoveryCompletes`: recovery ends
  unless crashes go on for ever. Deadlock is checked.
- **buffer_cache**. `CacheIsSound`: one buffer per sector although bget sleeps
  and rescans, and bread returns the sector's contents. `SleepersHaveAWaker` on
  the channel that bget and iderw share. `OneCopy`: the cache implements
  BlockStore.
- **pipe**. `Fifo`: the ring implements ByteStream across wrap-around.
  `SleepersHaveAReason`: nobody sleeps on a pipe that has what they wait for.
  `NoSpuriousEof`, `NoUseAfterFree`.
- **proc**. `TableIsConsistent`: pids are distinct, every process descends from
  init, an embryo has one forker, no parent sleeps in wait beside a zombie, and
  each process's place in the code fits its state.
  `OrphansReaped`, `KilledDies`.
- **sched**. `NoPanic`, `OneCpuPerProcess`, `NoMissedWakeup`, and
  `CpuAccounting`: ncli counts the locks held and interrupts are on only
  where the code says. Deadlock is checked. An instance with three processes
  (2,118,620 states) also finished without error.
- **inode**. `CacheIsSound`: reference counts cover the pointers; type and link
  count of a cached inode are those on disk, and so is the target of a link, but
  for what sys_symlink has put into memory only; no corruption panic is reached,
  and no link reaches itrunc. Sizes and block maps are in Blocks.
  `LinksMatchEntries`, `OpenIsAllocated`.
- **resources**. `BlocksHaveOneOwner`: no block has two places, and the bitmap
  marks exactly the blocks of files, the tags blocks (which stay allocated after
  their file is gone, as in the code) and those that sys_symlink made unreachable.
  balloc hands out no block of the log while a data block is free.
  `FilesReadBack`: Blocks implements FileContents, with a link as an empty file.
  Neither claims anything once a block of the log is in use.
  `RefsCountDescriptors`, `ResourcesFollowFiles`: f->ref, pipe ends
  and inode references under concurrent dup, fork, close, exit and failing calls.
  The structure that sys_symlink leaves behind counts as a reference; that it is
  never given back is not a violation here.
  `OffsetsTile`: sharers of a file transfer at consecutive offsets.
  `PagesHaveOneOwner`, `PrivateMemory` (Vm implements AddressSpaces), and
  `LostOnlyWhenExhausted`: pages leak only in a call that found no free page. That
  does happen in the code: setupkvm drops its directory, copyuvm the page it
  could not map, and allocuvm does not look at mappages.
- **programs**. `InputIsSound`: a full ring can be read, no reader sleeps beside
  input, a read returns at most a line. `TypedIsRead`: Console implements
  LineInput. `HeapIsSound`: the free list is one sorted circle without adjacent
  blocks. `ShellKeepsOrder`: a program has its streams and no other descriptor,
  and the prompt follows the foreground. `PromptReturns`: every line leads to
  another prompt. `ImageIsConsistent`: bitmap, layout and contents of the first
  image, if no file needs more than the direct blocks and one indirect table and
  all fit in the data blocks; mkfs checks neither. `WriteFitsInLog`: with one
  bitmap block, a write fits in log and cache.
  `AlgorithmsMatch`: each algorithm against its reference.

Four runs end in a violation, each of one sentence of the repository:

| Run | Statement | What the code does |
|---|---|---|
| buffer_cache_read_error | bio.c:95, bread returns the sector's contents | ide.c:106-110 sets B_VALID although the read failed |
| inode_transactions | log.c:8-9, calls that may write run in a transaction | the last iput in open, chdir, symlink or exec frees the inode outside one |
| tags_stale | fs.c:131-132, ilock reads the inode from disk | tags and tags_counter are not read; iupdate then writes the stale ones |
| write_log_budget | file.c:129-132, chunks avoid exceeding the log | an unaligned chunk that crosses two pointer tables and two bitmap blocks logs 10 blocks; log_write panics after 9 |

Known behaviours that no run states, because the code does not rule them out:

- A kill between the test at pipe.c:106 and the sleep wakes nothing. `KilledDies`
  is about Proc, where wait is the only sleep.
- tags_counter (fs.c:747) counts replaced values too.
- copyuvm gives the child access to the page below its stack that exec made
  inaccessible.
- balloc (fs.c:61) scans up to sb.size, and mkfs does not mark the log: on a full
  disk it hands out blocks of the log, which the next commit overwrites.
- itrunc (fs.c:463-481) does not release the buffer of the double-indirect block.
  The next bread of that block sleeps for ever, and the cache has a buffer less.
- sys_symlink (sysfile.c:491) overwrites the addresses of a file that exists. Its
  blocks stay allocated. The disk keeps the old map until a link, unlink or tag
  call writes the inode. The file structure is never closed, so the inode keeps a
  reference, and the branch of itrunc for links (fs.c:432-440) is never reached.
- readlink, chdir and exec keep references to the inodes of the links they follow.
- mkfs: the assertion at mkfs.c:263 admits double-indirect blocks, which iappend
  does not have; a file that long overruns its table on the stack. Nothing
  compares the blocks taken with the data blocks there are.

### Bounds

- log: two processes give contention for log.busy; two sectors and LOGSIZE 2
  give absorption, a full log, the panic, and a crash between two installs.
- buffer_cache: more sectors than buffers forces recycling, more processes than
  buffers forces waiting and the no-buffers panic. Buffers are interchangeable,
  because the list starts in any order.
- pipe: `Width` must be a multiple of `PIPESIZE` and larger, as 2^32 and 512
  are; 4 and 2 give a wrap after two rounds of the ring. Two processes per side
  race for a byte or a place.
- proc: four slots give a grandchild and a sibling under init. `MaxPid` bounds
  the forks.
- sched: two CPUs are enough for every pairwise race on the two locks.
- inode: `MaxCalls` bounds the system calls of a behaviour. Four calls reach
  an open file without links, the panic on a link loop, the panic of a free
  outside of a transaction, and the panic of iget with a full cache, which needs
  one inode more than there are entries. An instance with one cache entry and
  two inodes (195,077 states) also finished without error. `MAXHOPS` is 16 in
  the code.
- resources: the smallest map with more than one entry at each indirect level
  (`MaxGets` bounds the calls of iget, `MaxOpen` the inodes in use at a time,
  links not counted, `MaxTags` the counter). The largest
  file has 7 blocks and 4 tables, one more than the 10 data blocks: a file reaches
  both tables below the double-indirect block, and two files, or the largest one,
  reach the blocks of the log. File
  structures and descriptors that run out in the middle of a pipe; two-level
  tables of two entries, and few enough pages that every kalloc of a fork or exec
  can be the one that fails.
- programs: four characters wrap the ring of two and the indices modulo 4. The
  command lines nest pipes, lists, backgrounds and redirections; one line is
  typed (`MaxLines` 1), as the shell's state at the next prompt is the same but
  for background processes. The geometries include inode counts and sizes on both
  sides of a block, and a disk too small for the files; one file is too long for
  its indirect table. LOGSIZE and NBUF are those of param.h; files reach past the
  second table below the double-indirect block. Words have 6 bits, names 2 bytes;
  lines up to 5 characters, patterns and texts up to 3.
- write_log_budget: as in programs, with 9 blocks per bitmap block, so that an
  allocation can straddle two.

`CHECK_DEADLOCK FALSE` appears where a behaviour may really end: a panic
(BufferCache, Proc, Inode, Blocks), every descriptor closed (Pipe), or a bound
used up (Inode, MCResources, MCPrograms, LogBudget).

### Fairness

- Log: weak fairness of each process's next kernel step, because a runnable
  process is scheduled and the disk answers; strong fairness of leaving a
  transaction, because a call makes finitely many log_writes before
  commit_trans. Nothing is assumed about Crash.
- ShRun: weak fairness of each process's next step; the shell itself only has to
  leave wait, since lines come from the user. The scheduler runs every
  runnable process, and a program is assumed to exit once its input has ended and
  its output is taken.
- Proc: weak fairness of a process inside fork, exit or wait and of a killed
  process reaching exit; strong fairness of init reaping a zombie, because
  init.c loops on wait.

The other runs check safety only.

## 4. Proofs

Nineteen theorems, each for every value of the constants that the named assumption of
its module allows.

### The redo log

LogProofs proves five theorems for any set of processes, sectors and contents and
any log size. They rest on
`LogAssumption`: LOGSIZE is positive, nlog is a natural number, there is a
process, and the two markers are not data or sectors.

- `LogInvariantHolds`: `Spec => []LogInvariant`.
- `SleepersHaveAWakerHolds`, `UnwrittenIsPinnedHolds`: consequences of it.
- `CommittedLogIsFrozenHolds`: an action property, from the invariant.
- `LogIsAtomic`: `Spec => Atomicity`, the refinement of TransDisk.

The properties are not inductive by themselves. That a crash loses nothing
depends on how far each phase of a commit has got. `LogInvariant` therefore
says: one process at most owns the log (`OneOwner`); entries of a header are
distinct home sectors (`WellFormed`); a held buffer belongs to the open
transaction (`HeldBuffer`); a cached block equals its home sector unless it is
dirty or held (`CacheCoherent`); and, per phase, what the log blocks, the header
and the home sectors have in common (`ByPhase`). Each action has a lemma that
it preserves the invariant. For the refinement, the durable image is
`Recovered`, the home sectors overlaid with the header's entries. The lemmas
show that it changes only in `commit_head`, and there becomes the view.

### The process table

ProcProofs proves `TableIsConsistentHolds`: `Spec => []TableIsConsistent`, for
any NPROC and any number of forks. `ProcAssumption` says that NPROC and MaxPid are
positive, that init has slot 0, and that the marker for no process is not a slot.

The parts of `TableIsConsistent` support each other. Distinct pids need
`PhasesFitStates`, by which every pid in the table is below nextpid. That exit
wakes the right parent needs the parent to be alive, which is part of
`AncestryReachesInit`. Descent from init is stated without recursion: in every
nonempty set of other processes, some process has its parent outside the set. A
cycle or a cut-off subtree would be a counterexample. fork adds a leaf; exit gives
its children to init, which is outside of every such set; wait removes a leaf.
Each action has a lemma. `LowestIn` shows that the search of the table stops at
a slot it looks for.

### Pipes

PipeProofs proves four theorems for any disjoint sets of readers and writers.
`PipeAssumption` says that PIPESIZE is positive and that Width is a larger
multiple of it. The code's 512 and 2^32 are one instance.

- `NoUseAfterFreeHolds`, `SleepersHaveAReasonHolds`, `NoSpuriousEofHolds`: the
  three invariants, whose conjunction `PipeInvariant` is inductive.
- `PipeIsFifo`: `Spec => Fifo`, the refinement of ByteStream.

The argument has two layers. The first is arithmetic: the counters wrap at Width
and the slot is their remainder by PIPESIZE. `WrapKeepsSlot` shows that a wrap
does not move the slot, which is where the multiple is needed. `SlotsDiffer` shows
that fewer than PIPESIZE consecutive counts have different slots. `DistanceGrows`
and `DistanceShrinks` turn a step of a counter into one more or one less byte in
flight. The second layer is the protocol: an open end has a descriptor, whoever is
in a call has one, and the lock has one holder. For the refinement, a store
changes no slot in flight and appends (`WriteByteAppends`), and a copy takes the
head (`ReadByteTakes`).

### The buffer cache and the disk driver

BufferCacheLemmas (one lemma per action) and BufferCacheProofs prove three
theorems for any processes, sectors and contents and any finite set of buffers.
`CacheAssumption` says that and that the marker is none of them.

- `SleepersHaveAWakerHolds`: `Spec => []SleepersHaveAWaker`, read errors or not.
- `CacheIsSoundHolds`: `~ReadErrors => (Spec => []CacheIsSound)`.
- `CacheIsOneCopy`: `~ReadErrors => (Spec => OneCopy)`, the refinement of
  BlockStore. With read errors bread may return something else than the sector:
  buffer_cache_read_error.

`Coherent` is inductive: the list holds every buffer once, a sector has one
buffer, B_BUSY has one holder (`CacheStructure`), and a sleeper has a waker. The
two halves need each other. That ideintr may clear B_DIRTY needs the head of the
queue to be held by the process waiting for it; that this process is woken needs
the buffer to be the one it asked for. `CleanIsCurrent`, that a valid and clean
buffer equals the disk, is inductive next to it, and is where a failing read
breaks the proof. For the refinement a block's contents are those of its buffer if
one is valid or dirty, else the disk's. Recycling keeps them, because a recycled
buffer is clean.

### Scheduling and locks

SchedProofs proves four theorems for any set of CPUs and any number of processes.
`SchedAssumption` says that NPROC is a natural number and that CPUs, slots and the
marker differ.

- `NoPanicHolds`, `OneCpuPerProcessHolds`, `CpuAccountingHolds`,
  `NoMissedWakeupHolds`: the four invariants of the run.

Their conjunction `SchedInv` is inductive; the proof works with an equivalent
form, `Inv`, that speaks of one CPU (`CpuOk`) and of one thread (`StackOk`) at a
time. In that form ncli is a sum of two terms, one per lock, not a cardinality
(`CountIsSum`). The steps fall into a few shapes, each with a lemma: acquire,
release, sched, a trap that pushes a frame, a return that pops one, and a move
within a thread. The argument for wakeups is the order of the two locks:
`OneHolder` shows that nobody sets the condition between the test and the
change to SLEEPING.

### The console

ConsoleProofs proves two theorems for any readers, any ring and any index width
that is a larger multiple of the ring (`ConsoleAssumption`; 128 and 2^32 in the
code), and for reads of any bounded length.

- `InputIsSoundHolds`: `Spec => []InputIsSound`, which is inductive.
- `ConsoleImplementsLineInput`: `Spec => TypedIsRead`, the refinement of LineInput.

As for pipes, the first layer is arithmetic modulo Width, here with three indices:
the distance from r to e is the sum of those from r to w and from w to e
(`Through`), and never exceeds the ring. `LineStartIsW` shows that the kill-line
loop stops at w, because the line being typed holds no end of line. Then an
interrupt appends to the line or moves it to the queue (`IntrRefines`), editing
takes from the line only (`EditRefines`), and a reader takes the head of the queue
(`CharRefines`).

### Only model-checked

Inode, Blocks, FileTable, Vm, ShRun, Umalloc, Mkfs and LogBudget. The liveness
properties `WaiterWakes`, `RecoveryCompletes`, `OrphansReaped`, `KilledDies` and
`PromptReturns` also stay with TLC, because TLAPS does not reason about fairness
and ENABLED. So do the algorithms, which are recursive: what a recursive
definition computes needs induction over data.

## 5. Abstractions and what is not modelled

- Block contents, bytes, names and tag keys are members of small sets. Tag
  values, wording and layout are left out.
- Inode has one directory, the root, which stays cached. Directories made by
  mkdir stay empty, so isdirempty and nested paths are absent. mknod takes the
  path of mkdir and is not a separate call. exit's iput(cwd) is absent. The
  model sets cwd before it drops the old one; nobody else can see the order.
- Blocks works on whole blocks written at or before the end of the file. It has
  no reboot: all tag and link state is seen through one cache. The number of
  buffers, which itrunc's missing brelse uses up, is not in it.
- RefsCountDescriptors sees the references of FileTable's calls; those that
  readlink, chdir and exec keep are in Inode, whose counts may exceed the pointers.
- readi, stati, filestat and fileread change nothing the models keep. A read
  over a hole would allocate; writei never leaves a hole.
- Sched's consumers leave out the killed test; Pipe and Proc have it.
- Write errors of the drive, which ideintr does not look at, are not modelled.
- memide.c completes a request in one memmove and is left out.
- FileTable has no blocking reads of pipes (Pipe has) and empties a structure
  when it is freed; in the code f->ip stays, and a tag call on a pipe uses it.
- Vm takes a call as one step. Other processes could change the free list in
  between; the call would then see more or fewer pages, as it does in other
  states of the model. PTE_U guards exec's and the
  program's own accesses; no property is about it.
- Path has the lookups without locks; Inode has the locks with one directory.
- LogBudget counts the transactions of filewrite only.
- ShRun leaves out cd, which starts no process. A program reads its input to the
  end or not at all, writes, and exits.
- Text compares the two printf()s on what each directive prints and which
  argument it takes, not on characters; gets and stat are left out.
- Not modelled: boot code, segment set-up, interrupt controllers, timer, CGA and
  serial registers, swtch.S and the trap entry code (hardware protocols whose
  state the rest does not share); argument fetching in syscall.c (bounds checks);
  the user programs other than sh and grep (straight-line clients of the system
  calls); usertests (read for what it expects).

## 6. What could follow

- Namespace: nested directories with locks, isdirempty, ".." and mkdir against
  unlink, and the lock order between a link and its directory.
- LogBudget for create, unlink and the tag calls.
- Proofs about FileTable (f->ref under dup, fork, close and exit) and Inode.
