# Q+: models, checks and proofs

This directory holds TLA+ models of the Q+ repository: of the kernel library
that is written in Q+ (`src/Q+/stdlib`), and of `qpc`, the compiler that
translates it to C (`src/Q+/compiler`). TLC checks the models on small
instances, and TLAPS proves the most important of their properties for every
value of the constants. Paths below are relative to `src/Q+/` unless they start
with `src/`.

    tlc -workers 2 -config Mutex.cfg MCMutex.tla      # a run
    tlapm KernelProofs.tla                            # the proofs of a module

`PROJECT.json` lists the components, the runs with their properties, for every
property a mutant of the code that violates it, the source lines each
definition stands for, the hazards, the findings and the theorems.

## The system

### Kernel library (`stdlib`)

| Component | State | Operations | Used by, interacts with |
|---|---|---|---|
| Scheduler (`kernel/scheduler.qp`) | table of tasks, their states and contexts, `current` | `add_task`, `schedule`, `block_current`, `unblock`, `exit_current` | `switch_context` of `cpu/regs.qp`, on the contexts in the table. Cooperative: the timer handler does not call it |
| Spinlock, Semaphore, Mutex (`kernel/ipc.qp`) | a lock word, a count, an owner | `acquire`/`release`, `wait`/`signal`/`try_wait`, `lock`/`unlock`/`try_lock` | Mutex contains Semaphore, which contains Spinlock |
| Channel (`kernel/ipc.qp`) | a spinlock and a ring buffer | `send`, `recv` | any threads and interrupt handlers |
| RingBuffer (`collections/ringbuffer.qp`) | slots, `head`, `tail`, `len` | `push`, `pop`, `peek`, `clear` | Channel, Keyboard |
| Keyboard (`drivers/keyboard.qp`) | an event buffer, held modifiers | `handle_irq`; `poll`, `getchar` | the interrupt handler and one reader share the buffer |
| Allocators (`mem/allocator.qp`) | a cursor; a free list | `alloc`, `reset`; `alloc`, `free` | both hand out physical memory |
| Virtual memory (`mem/vmm.qp`) | four levels of page tables | `map_page`, `unmap_page`, `translate`, `activate` | takes pages from an allocator given by the caller |
| Paging helpers (`mem/paging.qp`) | none | bit fields, TLB instructions | - |
| Processes (`kernel/process.qp`) | id counters, lists of threads | create, destroy, add a thread | allocator functions the library does not have |
| System calls (`kernel/syscall_table.qp`) | a table of handlers | register, dispatch | the entry stub in `boot.S` |
| Interrupts (`cpu/interrupts.qp`) | the interrupt table | set a gate, mask, acknowledge | the drivers |
| Disk and FAT32 (`drivers/disk.qp`, `fs/fat32.qp`) | the drive and its command; geometry, a cluster chain being walked | `identify`, `read_sectors`, `write_sectors`; `mount`, `lookup_root`, `read_file` | fat32 reads sectors through disk, and walks chains that a damaged volume may hold |
| Virtual file system (`fs/vfs.qp`) | a table of descriptors | `alloc`, `get`, `close` | nothing implements its trait |
| Timer, display, serial (`drivers/`) | a tick count, a cursor | tick, print | ports |
| Formatting, strings (`util/`) | none | pure conversions | - |

`os_demo` boots a demonstration kernel on it.

### Compiler (`compiler/src`)

`main.c` runs the stages one after another: `source.c` loads the file and notes
where its lines start, `lexer.c` cuts it into tokens when `parser.c` asks for
the next one, the parser builds a tree, `sema.c` and `security.c` walk it and
report, `codegen.c` walks it and writes C. The stages share the tree and the
global error count of `diagnostic.c`, which finds the line of a span and draws
carets under it. Each stage keeps its own state: the lexer a cursor, the parser
the current token, the previous one and `panic_mode`, `sema` a chain of scopes
and the flags `in_loop` and `in_unsafe`, `security` its own `in_unsafe` and a
counter of assignments to globals, `codegen` a stack of deferred expressions.

`ai_engine/server.py` (an analysis server over HTTP) and `qplus-vscode` (an
editor extension) are glue around the compiler.

### What is hard here, and what makes each part correct

- **Interleaving.** `Mutex` checks and clears its owner outside the lock of its
  semaphore; the keyboard handler pushes between the `peek` and the `pop` of
  `getchar` and in the middle of either; senders and receivers share `len`. Correct
  means: a count without lost updates, one holder, its own unlock never refused, one
  FIFO queue.
- **Boundaries.** A full buffer, indices that wrap at 2^32, the end of a
  region, a table that fills up, a page allocation that fails half-way.
- **Order of calls.** A scheduler whose table of tasks any order of calls permutes,
  and which hands the CPU from one flow to another through their saved contexts; a
  slab whose free list is permuted by any order of frees.
- **Progress.** A ready task runs, a call returns, a mutex that is waited for is
  got, an event that is counted is read.
- **Faults.** A drive that fails or is late at any sector, and a table of
  clusters that runs in a circle: what is handed out has to be the file.
- **Any input.** The lexer and the parser get every text there is. Correct means:
  they end, tokens lie in the text one after the other, what is accepted is
  balanced and was read to its end, operators bind as the table says. The parser
  does not do all of this (see the disagreements below).
- **Nesting.** The analysers set a flag when they enter a construct and have to
  restore it when they leave, at any depth; the code generator has to write at
  the end of each block what was deferred in it and nothing else, while what it
  writes has blocks of its own.

The hazards in `PROJECT.json` list 40 of them at their lines, with the
properties that cover them, or the reason why none does.

## The models

One module per component; a module `MC...` gives TLC what a `.cfg` cannot
express. Definitions commented "Mutant:" are not part of any specification: each is
a plausible bug that a property must notice.

| Module | Models | Notes |
|---|---|---|
| `Scheduler` | `scheduler.qp` | the table of tasks: an action per operation; `Reschedule` is `schedule()` with the states it sees |
| `Semaphore`, `Mutex` | `ipc.qp:9-145` | a step per access to shared memory; `Mutex` extends `Semaphore` and drives its steps |
| `Ring` | `ringbuffer.qp`, the fields | what the next two have in common: the fields, the slot of an index |
| `RingBuffer` | `ringbuffer.qp` | each operation one step: one user at a time. Its `push` is a part of `Keyboard`; the rest is proved about and not run |
| `BoundedFifo` | (abstract) | the abstract specification: a queue of bounded length with answers |
| `RingAccess` | `ringbuffer.qp` | `push` and `pop` one field access at a time |
| `Channel` | `ipc.qp:147-183` | `RingAccess` behind a spinlock; implements `BoundedFifo` |
| `Keyboard` | `keyboard.qp` | extends `RingBuffer`, whose `push` is the handler's; the reader's `peek` and `pop` take a step for each access to a field, and the handler comes in anywhere |
| `BumpAllocator`, `SlabAllocator`, `Vmm` | `allocator.qp`, `vmm.qp` | `map_page` takes a step per level |
| `Memory` | the three together | the slab lives on a piece of the bump allocator and is given up with its `reset`, page tables too |
| `Disk`, `Fat32` | `disk.qp`, `fat32.qp` | a step per sector; `Fat32` extends `Disk`, whose drive fails, is late, and loses a command that it gets while it is busy |
| `Source` | `source.c`, `diagnostic.c` | the table of lines is filled a character at a time; a round of the binary search is a step |
| `Lexer` | `lexer.c`, `token.h` | extends `Source`; an action per branch of `lexer_next_token` and per round of the loops over comments and strings |
| `Parser` | `parser.c` | a stack of what the called functions still have to do, and the token they look at, chosen as it is read |
| `Walk` | `parser.c`, the constructs of a right program | the program is chosen node by node; `path` is what is open at the node |
| `Selection` | - | the part of a sequence that a property is about |
| `Sema`, `Security` | `sema.c`, `security.c` | what each does when a construct is entered or left, and at a node |
| `Codegen` | the defer stack of `codegen.c` | chooses its tree as the generator walks it: a deferred expression when it is written, at the end of the block |
| `Build` | `cmd_build` in `main.c` | composes `Sema`, `Security` and `Codegen`; judges every node by the rules of the language |

How state and actions correspond to the code is said at each definition and, line
by line, in `map`. The decisions behind them:

- **Library code.** `asm!` is taken as a full barrier, as the language describes
  it. A locked store (`ipc.qp:39`) is a plain store. `try_acquire` and
  `SpinlockGuard` have no caller and are left out. A thread that unlocks a mutex
  it does not own is refused by the code, and is in the model; one that locks a
  mutex it holds spins for ever, and is not.
- **Scheduler.** `Scheduler` is about the table of tasks and takes it that the
  operations are called in the flow of the slot `current`, as they are if every
  switch resumes the flow of the new slot. The call of `switch_context` at the end of
  `schedule` is left out: its body (`regs.qp:107-131`) does not do that (see the
  disagreements below), so that what is said of the table is said of the
  scheduler's own code, for a switch that works. `context_switch` of `boot.S` has
  another layout and no caller.
- **Keyboard.** The handler runs on the reader's CPU and is not interrupted: it is
  one step. The reader is interrupted between any two accesses to the buffer. The
  update of `len` in `pop` may start from any value that `len` has had since
  `is_empty` was called (the build may keep the value it has loaded), so that
  increments of the handler get lost. `missed` counts them; once as many events are
  outstanding as there are slots, the handler overwrites one that was not read
  (`overrun`), and the two properties about the order of events say nothing more.
- **Ring size.** The indices of `Ring` wrap at `IndexLimit`. The buffers of the
  repository have 64 slots, which divide 2^32, and so do those of the models
  (`WrapAssumption`, `KeyboardAssumption`).
- **Single users.** `Vmm` has no lock and is used by one caller at a time.
- **Memory.** The sums of `alloc` wrap at `AddressLimit`, as in the code. In
  `Memory` nobody asks for so much that they do (`MemoryAssumption`). Alignments are powers of two (`RequestAssumption`), for
  which masking bits (`allocator.qp:32`) is to take a remainder away. A block is
  freed only while it is in use: `free` does not check. `reset` comes when nothing
  is in use, and the slab goes with it.
- **Disk.** An error ends a command. A poll that runs out (`disk.qp:57-65` returns
  true all the same) puts junk into the buffer, and the drive, when it is ready at
  last, delivers the sector it was asked for first. A buffer holds the numbers of
  the sectors that were put into it: the reader's interpretation of a sector that
  is not where it should be is any. `identify` issues a command like any other. The
  sector count it stores (`lba28_sectors`) has no reader, and `write_sectors` no
  caller: both are left out.
- **FAT32.** A directory has one entry in a sector, which stands for the fifteen or
  sixteen that are passed over alike. The clusters fit into the buffers and onto
  the drive, and the table has an entry for each of them (`GeometryAssumption`;
  `mount` checks none of this). An entry of the table may be any number, and so may
  the first cluster of a file: zero, a cluster of the volume, one behind its end,
  an end mark. The number of a sector is what the command takes of it
  (`LbaLimit`). While the volume is mounted the drive is in time.
- **Lexer.** Characters that the code treats alike have one representative; a word
  is a rank in the order of the table of keywords. The values of literals are left
  out. `keyword_lookup` needs its table in order (`token.h:232`, "Must remain
  sorted alphabetically!"), and `alloc` stands before `alias` in it: `alias` is
  never found. `KeywordsInPlace` says that no other word suffers.
- **Parser.** Tokens that the code treats alike have one representative, and the
  tree is left out. Of its arrays the parser bounds two, the statements of a block
  and the declarations of a file, which have two places here; the others are taken
  to be large enough. The specification lets a block end with an expression
  (`SPEC.md:68`); the code asks for a semicolon after it, an `if` or a loop
  included (`parser.c:678`), and the model follows the code. This, and that it
  knows no `impl`, `trait` and `enum`, makes it refuse most `.qp` files of the
  repository.
- **Analysers.** They run one after the other over the same tree in the same order;
  as they share nothing but the tree and the verdict, they are walked side by side,
  and what the later one does after the earlier one has failed does not count. The
  parser never builds a match, an enum, an impl, a trait, a static or a struct
  literal, so that these are not in the model. `name!(...)` is an assembly node
  whatever the name is. A name here is one in the scope chain, never a keyword. A
  `port::` is the callee of a call, below an operator that is called, or not called
  (`PortForms`): the parser puts a unary operator below the call that follows it
  (`parser.c:368-378`), and `AST_CALL` looks at the first form only.
  Left out are array lengths outside of blocks.
- **Code generator.** It starts when the analysers are done, and walks the tree in
  another order than they do. `Codegen` therefore chooses its tree anew, which is
  sound as nothing it does depends on what the analysers have seen. Of the tree
  there are blocks and defers; a block in a deferred expression is entered while
  the loop over the stack is at that expression, with the entries below still on
  it. Statements that leave a block early are written without its defers and leave
  the stack alone, as all other nodes do. An expression that is deferred at the top
  level stays on the stack for good (`loose`). The parser gives a block no final
  expression. Left out are blocks in the end of a range, in the repeat count of an
  array and in the object of a method call, which `codegen.c` passes over or writes
  twice.

## The runs

| Run | Instance | Shows |
|---|---|---|
| `scheduler` | 4 slots | at most the current slot runs, the next ready slot in the table's order is taken, every ready task runs in the end |
| `mutex` | 3 threads, count up to 2 | no update of the count is lost, one holder, the owner check of `unlock` is never stale, the holder's unlock is never refused, calls return, somebody gets a mutex that is free |
| `keyboard` | ring of 2, indices modulo 4, 5 scan codes, a letter, a silent key, two shift keys | `getchar` pops what it has peeked at; characters come once and in order, also when increments of `len` are lost, until the buffer is overrun; what `len` counts is taken in the end; no modifier stays held |
| `storage` | 4 clusters of 2 sectors, 108 tables, 5 directories, one late poll, any faults | until the drive was late or a table sector could not be read, `read_file` hands out the first bytes of the file and `lookup_root` finds the first entry of the name that no end mark precedes; `read_file` returns whatever the table and the drive do, `lookup_root` if its chain ends and the drive is sound |
| `lexer` | every text of 3 characters; comments, strings and operators of up to 7 | tokens lie in order and are the longest that stand there, the keywords at their place in the table are found, diagnostics name the right line and column, the lexer ends |
| `parser` | every sequence of tokens, nesting of 3, two statements in a block, two declarations | a loop that makes no progress comes after a reported error only; precedence; what is accepted is balanced |
| `channel` | 3 threads, ring of 2, 2 values | a channel implements an atomic bounded FIFO queue, and `send` and `recv` return |
| `memory` | a region of 24 bytes, 3 blocks, pages of 4, indices 0 and 1 | for requests whose sums do not wrap: pieces lie in the region and apart, tables and live blocks share no memory, the free list is exact, mappings are what was asked for, also when pages run out half-way |
| `build` | nesting of 5, a name, 3 declared names and assignments; in the generator 3 blocks open, 4 defers, a stack of 3 | the analysers report at each node what is wrong there and nothing else, a `port::` that is not called directly excepted; a build succeeds without a fault they know or fails for one; a block in the C file ends with those of its own deferred expressions that found room, in reverse, also when they have blocks with defers in them |

*Why the bounds are enough.* Three slots other than slot 0 are needed for a wrong
search to starve a task. Three threads are needed for one to come between the
check of another and the signal of a third. A ring of two is empty, full and in
between; with indices modulo 4 they wrap, and five scan codes fill it, overflow it,
overrun it after a lost increment, and empty it again. The region runs out in the middle of a mapping of four levels. Five
levels hold a loop or an unsafe block inside of another one inside of a function,
or an array length inside of them. Three open blocks are a block, one in an expression
that it defers, and one in that; three places for four defers run out in each of
them. Three characters
are the longest operator and more than any branch of the lexer looks ahead; the
loops over comments and strings get longer texts over their own characters. An
expression in brackets in a block, an index or a call in a statement, or a driver's
method fits into a nesting of three, and the list of tokens read is not bounded.
Two entries in a sector of the table and four clusters make a file cross from one
of its sectors to another; its chain runs in a circle, into the directory's, or into
cluster 7, which the volume does not have, that of the directory in a circle or into
the clusters 0 and 6; and a file of 20 bytes ends inside of its second cluster. In
`Build`, `NoFaultYet` stops opening constructs after the first error: what
follows would repeat what is reached without it.

The other runs refute what a document or a comment says. Each is a finding in
`PROJECT.json`:

| Run | Says | The code |
|---|---|---|
| `keyboard_spsc` | "SPSC-safe (Single Producer Single Consumer)" (`ringbuffer.qp:7`) | `push` and `pop` both update `len`: an increment of the handler is lost inside of `pop` (`ringbuffer.qp:42`) |
| `channel_irq` | "interrupt-safe" (`ipc.qp:9`) | `acquire` does not disable interrupts |
| `build_port` | "`port::` access outside `unsafe {}`" is an error (`SPEC.md:361`) | only a call whose callee is itself a path is looked at (`security.c:134`) |

Further disagreements were met in the code while it was modelled. The models do
what the code does wherever they reach it, and the properties above say what they
except; no run is about these alone:

| Says | The code |
|---|---|
| "Block caller task" (`SPEC.md:492`) | `schedule` marks the slot it leaves Ready, also when it was just blocked (`scheduler.qp:98`); the same line revives a task that has exited |
| "returns to new.rip" (`regs.qp:104`) | the `ret` takes the word on top of the new stack, which is 0 for a new task (`regs.qp:127`) |
| "loads from *new" (`regs.qp:104`) | `r12` holds the address of the new context and is loaded before `r13`, `r14`, `r15` (`regs.qp:123`) |
| "power-of-2 size recommended" (`ringbuffer.qp:6`) | with a size that does not divide 2^32 the order is lost when an index wraps (`ringbuffer.qp:33`) |
| "Allocate `size` bytes with alignment" (`SPEC.md:435`) | `aligned + size` wraps, and the request is granted (`allocator.qp:33`) |
| "read `count` sectors starting at LBA `lba`" (`disk.qp:106`) | `wait_ready` returns true after 100000 polls of a busy drive (`disk.qp:59`) |
| "Read file contents" (`fat32.qp:189`) | `fat_next` takes a sector it could not read for zeros (`fat32.qp:132`) |
| "or (0, 0) if not found" (`fat32.qp:150`) | a directory chain that runs in a circle is followed for ever (`fat32.qp:184`) |
| "Must remain sorted alphabetically!" (`token.h:232`) | `alloc` stands before `alias`, which is never found |
| "Parse an entire Q+ source file" (`parser.h:30`) | after 1024 declarations the rest is dropped (`parser.c:981`) |
| "→ AST_PROGRAM node" (`parser.h:30`) | after an error some loops turn for ever (`parser.c:732`) |
| "`defer` statement runs cleanup at scope exit" (`SPEC.md:166`) | `return`, `break` and `continue` leave without (`codegen.c:522-537`), and the 257th deferred expression is dropped (`codegen.c:541`) |

Also, and said by no document: a page mapped
with `PAGE_USER` under tables made without it cannot be reached from user mode
(`vmm.qp:81`); constants, top-level statements and array lengths are not analysed
(`security.c:376`, `sema.c:462`); the loop for a range is written with the start
of the range in the place of its end (`codegen.c:382`, `codegen.c:258`); `Task::new`
takes the stack pointer of a local that its caller copies (`scheduler.qp:44`).

### Fairness

- `Scheduler`: weak fairness of `Schedule`. The system is cooperative, and each
  flow is expected to yield; a flow in the `hlt` loop of `exit_current` never
  does, and `ReadyRuns` excepts it. Deadlock is not checked, as a halted CPU does
  nothing more.
- `Mutex`, `Channel`: weak fairness of each thread's steps, as threads run on
  CPUs of their own or are scheduled; strong fairness of the exchange in
  `acquire` that finds the lock free, since a thread that polls a lock that is
  free again and again gets it in the end. The exchange itself promises no
  order; without this assumption a thread can be overtaken for ever. Nothing is
  assumed about when a holder unlocks: `SomebodyGetsIt` speaks of a mutex whose
  holders do.
- `Keyboard`: interrupts are delivered, the timer ticks, the reader runs unless it
  is halted, and the program goes on calling `getchar`. The tick is essential: an
  event that arrives between the peek and the `hlt` (`keyboard.qp:112-114`) wakes
  nobody, and waits for the next interrupt.
- `Fat32`: weak fairness of the driver's steps, and nothing about the drive: a sector
  may be bad for ever.
- `Lexer`: weak fairness of all steps; it is one sequential loop.
- `Parser`, `Build`, `Memory` state no liveness. A parse and a build end, so that
  deadlock is not checked there, and neither is it for the lexer.

## The proofs

| Module | Proves, for every value of the constants |
|---|---|
| `KernelProofs` | of the scheduler: types, `OnlyCurrentRuns`, `SwitchToNextReady`; of the semaphore and of the mutex on top of it: mutual exclusion, the exact count, the owner check that is never stale |
| `RingProofs` | the ring buffer implements `BoundedFifo`, for every size and every index width it divides; the channel does so, one field access at a time, for any number of contexts (`ChannelIsFifo`); of the keyboard, with the handler between any two accesses of the reader, `PopsWhatItPeeked`, `NoStuckModifier`, `CharsInOrder` |
| `MemoryProofs` | `PiecesDisjoint`, `FreeListExact`, `TranslateExact`, `UsersApart`: the three allocators alone and together |
| `Fat32Proofs` | `FileDataOnly`, `FoundIsThere`, for every geometry, every table and directory, and any number of faults and late answers of the drive |
| `LexerProofs` | `LocationExact`, `CaretsWithinLine`, `SpansInOrder`, `LongestTokens`, `KeywordsInPlace`, for every text |
| `ParserProofs` | `LoopsProgress`, `PrecedenceKept`, `AcceptedIsBalanced`, for every sequence of tokens and every nesting |
| `BuildProofs` | `BuiltIsGuarded`, `ReportsExact`, `FailsForCause`, for programs of any depth; `DefersAtBlockEnd`, for blocks of any nesting and a stack of any size |
| `BasicLemmas` | what the others share: least elements, induction over the naturals and what a definition by recursion denotes, remainders, the part of a sequence that is in a set |

With these, every invariant and every step property that a passing run checks is
proved for all values of the constants. `DefersAtBlockEnd` is proved of `Build`'s
`Spec`. The two theorems about `RingBuffer` itself (`RingCountersAgree`,
`RingBufferImplementsFifo`) are about one caller at a time and are proved only: no run
checks them, as the buffers of the repository are used by several, under the lock
of a channel or next to a handler.

*Arguments.* Each component has one inductive invariant, the conjunction of its
named parts, of which the properties follow.

- `SchedInv` says that the current slot is in use once any slot is, and that no
  other is marked Running; `schedule` needs the first to find the current slot among
  those it searches. `SwitchToNextReady` is about one step: the slot that the search
  in `schedule` finds is at the least distance from the current one, which exists
  because the search found something.
- `SemInv` says that a thread between the load and the store of the count holds
  the spinlock, so that what it loaded is still there. `MutexInv` says that the
  unit is in the semaphore or with exactly one thread, and that only this thread
  may be the owner, so that between the check and the reset in `unlock` nobody
  else writes it.
- `RingInv` needs only that `head` is `tail` plus `len` modulo the index limit
  and that the size divides that limit; the queue is then the sequence of `len`
  slots from `tail`, and every operation maps to one of the abstract queue.
  `ChInv` follows the one context that is inside of `push` or `pop`, which is
  the holder of the spinlock: until its update of `len` the queue is the old
  one, also when the index has moved already, the length that it tested is still
  there, and what it copied is in its slot. `KbInv` has no such holder: the handler
  pushes between any two accesses of the reader, and increments of `len` may get lost.
  What stays true is that `head` is `len` *and* the lost increments after the index of
  the oldest event (`CountInv`), the pop counting as made with its update of `len`.
  The handler writes the slot of that event only when these are as many as the slots;
  until then it stays what was peeked at and copied (`OldestInv`). The last part is
  that a modifier that is held has its key down, or the release of the key is latched
  in the port. `CharsInv` adds what `CharsInOrder` needs: the characters queued so far
  are those handed out, followed by the characters among the events from the oldest
  one to `head`.
- `MemoryInv`: the pieces of the bump allocator end at its cursor, one after the
  other. The page tables are a tree: no table is reached by two paths, so that a
  write for one address changes the walk of no other; without this,
  `TranslateExact` is not inductive. The slab and every table lie on pieces of
  their own, and the free list names each block that is not in use once. That no sum wraps
  (`MemoryAssumption`) is what keeps the cursor from going back.
- Of the volume there are three. `IoInv` says which sector the driver wants, and
  that without a late answer the drive delivers it and the ones after it. Then
  `FileInv` ties the place in the loop of `read_file` to the chain of the file: while
  the copies are sound and the chain is in the volume, the next cluster after n is the
  n-th of the chain (`OnChain`), and while bytes are missing all of them were copied
  whole (`Handed`). `LookupInv` does this for `lookup_root`, with the clusters that
  were passed without a decision, up to where the chain leaves the volume. A chain
  may loop: a cluster that did not decide the first time does not decide the
  second time either, and as the clusters until then are different ones, there
  are no more than the volume has.
- `LexerInv`: the table of lines is right for the text scanned so far; the two
  ends of the binary search keep the line of their offset between them; the
  tokens end at or before the cursor, and a literal or comment that is open
  began in the text. `TokensInv`, on top of it, is about the characters: a string
  that is being read has an escaped quote only behind it, and its cursor is
  never inside of an escape sequence. What decides whether a quote is escaped is
  the number of backslashes before it, odd or even, which each round of the loop
  preserves (`StringGoesOn`). An operator has at most three characters, so that
  `LongestOperator` is a case for each length. The rest is about the binary
  search: a word at its place is in the range that is searched in each round,
  and the two entries that are not in order mislead the search for `alias` only.
- `ParserInv` is about the stack of what the called functions still have to do.
  `Shape` says which entries can stand on which. A loop that is in a round that
  has read nothing so far has above it an entry that will read a token or report
  an error (`Moves`), and recovering from an error does not keep the parser
  where it was (`Recovers`). Whoever waits for the right operand of an operator
  has above it only what binds tighter (`Binds`). The brackets that are open are
  those whose closing ones the stack waits for, in its order (`Matched`), so
  that an empty stack leaves none open. The invariant was first checked on all
  6.4 million states of the run.
- `BuildInv`: the flags of the analysers are true exactly when a construct of
  their kind is around the node *and* each local variable of the calls under way
  holds what was around its construct. Only with the second part is leaving a
  construct inductive. A fault in walked code then finds the flag down, its
  analyser has an error, errors are never taken back, and the driver goes on
  without errors only. `ReportInv` adds that the chain of scopes has one scope
  for each construct around the node that opens one, and that the counter is
  above zero exactly when an assignment of its own function has been counted:
  then what is reported at a node is what is wrong there, and a build that fails
  has a fault to blame.
- `DeferInv` says of each block that is open in the generator which part of the stack
  is its own, from its mark on as far as the stack reaches, and that these parts lie
  one behind the other in the order of the blocks, also if the block around is
  being written: then what it has written so far and what is still on its part are
  together all that it deferred. A block inside of an entry that is being written
  leaves the stack as it was found, so that the loop goes on with the entry below.

*Assumptions.* Those named `...Assumption` in the modules, each evaluated by TLC
in a run. The ones that a reader should know of: the region ends below 2^64
(`RegionAssumption`), alignments are powers of two (`RequestAssumption`), and in
`Memory` no request is so large that a sum of `alloc` wraps, and the top-level table
is outside of the region (`MemoryAssumption`); the number of slots of a channel's and
the keyboard's buffer divides the number of index values (`WrapAssumption`,
`KeyboardAssumption`), which the theorem about `RingBuffer` takes from there; a
volume is as described under FAT32 (`GeometryAssumption`, `VolumesAssumption`); the
keyboard's buffer holds key events, and the modifier keys are among those of the
driver (`KeyboardAssumption`); texts are shorter than 2^32 characters
(`TextAssumption`); no token has the name of a function of the parser
(`TokenAssumption`). The mutex starts with one unit, a semaphore with any
number.

The table of keywords is no parameter: `KeywordsInPlace` is proved of the 72 words of
`token.h` in the order they have there.

*How recursion is proved about.* The chain of clusters, the binary search and the
part of a sequence that is in a set are recursive functions. None of the library's induction theorems can be
used, as they take an operator as a parameter. `BasicLemmas` goes another way:
a function on the naturals that makes the steps of the recursion exists, as the
limit of finite ones (`IterationExists`), is unique, and is therefore what the
definition chooses (`RecursionOnNat`); each induction is over a set of naturals
without a least element outside of it (`BoundedInduction`). The binary search is
taken by the size of its range.

*Only model-checked*: liveness (`ReadyRuns`, `CallsReturn`, `SomebodyGetsIt`,
`EventsTaken`, `LexEnds`), as fairness and ENABLED are beyond the prover. The
runs that refute a document check a property the code does not have.

## What is not modelled

- The switch of the registers: `switch_context` leaves the code of all flows.
- Paging helpers, formatting, strings, timer, display and serial: no state that
  several steps or several actors share; tests reach them.
- Processes and threads: nothing calls them, and they call allocator functions that
  the library does not have, so that what their steps do is not defined.
- System calls, interrupt table, virtual file system: tables that are filled once or
  by one caller at a time. The demonstration kernel calls library functions that do
  not exist.
- The analysis server answers each request by a pure function; the editor
  extension is user interface.
- The values of literals, the tree of the parser, the types in `sema`, the wording
  of diagnostics, the C text of expressions and the preamble: pure functions of the
  input, of which the properties here tell nothing apart.

## State of the project

Modelled: the library's concurrent core, memory and storage; the compiler from the
text to the verdict of its analysers, and the defer stack of its code generator. Proved: the table above.
What would come next is outside of these: the tree that the parser builds, which
`Walk` takes as given and `Parser` leaves out, and the C text of `codegen.c`.
