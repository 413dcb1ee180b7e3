# Vector Forth: a verification project

TLA+ models of the Vector Forth kernel (a 64-bit hobby operating system whose
user interface is a Forth system), TLC configurations that check them on small
instances, and TLAPS proofs of their most important properties for every
instance.  Every definition is translated from the C and assembly sources;
`PROJECT.json` maps definitions to source lines.

## 1. The system and its components

| Component | Source | State | Operations |
|---|---|---|---|
| Scheduler | `kernel/scheduler/task.c`, `switch.asm` | ring of `task_t`, `current_task`, `next_pid`, a stack per task | `scheduler_init`, `task_create`, `yield`, `task_exit`, `switch_context` |
| FORK, YIELD | `vm/core/forth.c` | `fork_target_xt` | `w_fork`, `forth_thread_wrapper` |
| Timer | `kernel/drivers/timer.c` | `kernel_ticks` | IRQ 0 handler |
| Keyboard | `kernel/drivers/keyboard.c` | ring of characters, modifier flags | IRQ 1 handler, `keyboard_available`, `keyboard_getchar` |
| Block cache | `fs/block_device.c`, `kernel/drivers/ata.c` | eight buffers, `most_recent_buffer`; the disk | `block_get`, `block_update`, `block_flush` |
| Block words, editor | `vm/core/forth.c` | addresses into buffers | BLOCK, UPDATE, FLUSH, LOAD, EDIT |
| Stacks | `vm/stack/stack.c` | data stack, return stack, `ip` | push, pop, peek, pick |
| Dictionary | `vm/dictionary/dictionary.c` | linked entries, `dict_here`, `dict_latest` | create, comma, find |
| Forth | `vm/core/forth.c` | `forth_state`, `parse_ptr` | `forth_eval`, `forth_execute`, `forth_inner`, the words |
| Filesystem | `fs/filesystem.c` | superblock and bitmap, in blocks 1 and 2 | `fs_init`, `fs_format`, `fs_alloc_block` (which has no caller yet) |
| Heap, PMM, VMM | `kernel/memory/` | block list; page bitmap; page tables | allocate, free, map |
| Interrupts | `kernel/interrupts/` | IDT, the 8259's masks and registers | `pic_init`, `irq_handler_c`, `pic_send_eoi`, `isr_handler_c` |
| Text console | `kernel/drivers/vga.c` | screen cells, cursor, colour | `vga_putchar`, `vga_scroll`, `vga_clear`, `vga_put_at` |
| Numbers | `kernel/utils/stdlib.c` | none | `itoa`, `utoa`, `ltoa`, `ultoa`, `strtol` |
| Boot task, worker | `kernel/core/kernel.c` | | `kernel_main`, `background_worker` |
| Serial, PCI, e1000, boot loader | `kernel/`, `boot/` | output and probing | |

How they interact.  There is one CPU and no preemption: a task runs until it
calls `yield` (the REPL on an empty keyboard ring, the editor while it waits for
a key, the background worker on every turn, the Forth word YIELD) or exits.
Interrupt handlers run whole between two instructions of a task.  The REPL task
reads the keyboard ring that IRQ 1 fills, evaluates lines, and through the words
reaches the block cache (which takes its clock from IRQ 0) and the scheduler
(FORK).  All tasks share the Forth stacks, `ip`, the dictionary,
`most_recent_buffer` and `fork_target_xt`.

What is hard here: state shared by tasks across a `yield` (the token of FORK,
the buffer UPDATE means, addresses into evicted buffers); interrupts between two
steps of a reader; crashes between two sector writes; threaded code whose
instruction pointer and return stack are shared by nested C activations; limits
of stacks, ring and cache.  `PROJECT.json` lists the hazards line by line.

## 2. Modules

| Module | Models | Notes |
|---|---|---|
| `Scheduler` | scheduler, FORK, worker, IRQ 0 | `pc[t]` is where the code on task t's stack stands, `cpu` the stack `rsp` is in |
| `SchedulerProofs` | | theorems about `Scheduler` |
| `BlockDevice` | block cache, ATA, block words, editor, crashes | `job` is the cache operation under way, stopped between sector transfers |
| `BlockDeviceProofs` | | theorems about `BlockDevice` |
| `MCBlockDevice` | | symmetry for TLC |
| `BlockStore` | what the cache promises: blocks got, changed, marked, written back sector by sector, forgotten by a crash | abstract specification, implemented by `BlockDevice` |
| `Filesystem` | superblock and bitmap, their users, crashes | composed with `BlockStore` |
| `FilesystemProofs` | | theorems about `Filesystem` |
| `KeyQueue` | what the keyboard promises: a bounded FIFO | abstract specification |
| `Keyboard` | keyboard driver, readers in `forth_run` and `run_editor` | implements `KeyQueue` |
| `Terminal` | 8042, 8259, `pic_init`, `keyboard_init`, `sti`, `irq_handler_c` | composes interrupts, `Keyboard` and `Console`; implements `Keyboard` |
| `TerminalProofs` | | theorems about `Keyboard` and `Terminal`, both refinements among them |
| `Console` | text screen, the echo of `forth_run`, the worker's spinner | operators |
| `ForthStack` | both stacks, 43 computing primitives | operators |
| `Dictionary` | dictionary entries with their cut names, HERE, FIND | operators |
| `Numbers` | printing and parsing numbers | operators |
| `Heap` | kernel heap | memory in units of 16 bytes, stale headers included |
| `HeapProofs` | | theorems about `Heap` |
| `Pages` | PMM bitmap, page tables | composes `pmm.c` and `vmm.c`, from boot on |
| `MCPages` | | memory maps for TLC |
| `PagesProofs` | | theorems about `Pages` |
| `Forth` | outer and inner interpreter, defining words, control flow, LOAD, return-stack words, FORK, YIELD and the tasks | composes `ForthStack`, `Dictionary`, `Numbers` and the task ring |
| `NumberProofs` | | lemmas about cells, `ForthStack` and `Numbers` |
| `ForthProofs` | | theorems about `Forth` and `Dictionary` |
| `MCForth` | | vocabularies and blocks for TLC |

**Scheduler.**  A `task_t` pointer is its pid (a `task_t` is never freed).  The
loop of `yield` takes one step per task it looks at, the assignments before
`switch_context` are one step, the switch is another, so that IRQ 0 and the
history variables see the states in between.  `exiting` distinguishes the yield
of `task_exit`.  `passed`, `want`, `ran` and `overlapped` are history.

**BlockDevice.**  A block is its header's CRC and two halves of data, one per
sector; the header travels with the first.  CRC-32 is taken to tell any two
contents apart.  `WriteSector0` and `WriteSector1` are the two writes of
`write_buffer_to_disk`, `LoadBlock` the reads and the take-over at the end of
`block_get`; `Crash` may come between any two.  Clients hold addresses
(`handle`) as BLOCK pushed them or as the editor keeps them in `blk`.
`promised`, `versions`, `typed` and `disturbed` are history.  `ImplementsStore`
maps the buffers to `BlockStore`: a block is in memory where its buffer is,
marked where that buffer is dirty, `writing` between its two sectors.

**Filesystem.**  The cache is `BlockStore`, so that every eviction and
write-back order is possible that the real one allows, and more.  `step` is
where the code that runs stands: none of it gives up the CPU.  Block words of
other tasks get, mark and flush blocks between two calls.  Half a block is the
set of its one bits; which sector a bit lies in decides what a crash between two
sector writes leaves.  `TotalBlocks` is the number the superblock records,
larger than the number of bits in block 2, as in the code.  `handed`, `ever`,
`kept` and `cut` are history.

**Keyboard.**  `Check`, `GetRead`, `GetAdvance`, `Use`, `Halt` are the steps of
`forth_run` and of `run_editor` around the driver; IRQ 1 may come between any
two.  A line that the REPL evaluates, or a forked word, may YIELD and may run
the editor (`WordSwitches`), the REPL thereby becoming a reader of the second
kind.  One key of each kind stands for the scancode tables.

**Terminal.**  `obf`, `sent` are the keyboard controller, which holds one byte
and raises IRQ 1 while it does; `irr`, `in_service` the interrupt controller,
which latches edges and blocks lines of lower priority until the EOI.  They are
external: modelled as the data sheets and the code's use of them have it, down
to the spurious IRQ 7 that is answered when a latched line fell again.  `irq` is
the handler that runs (with interrupts off) and whether its EOI is still to
come.  `boot` is where `kernel_main` is: a key may be hit before `pic_init`,
between it and `keyboard_init`, or after.  `ImplementsKeyboard` is
`Keyboard!Spec` itself, fairness included, so that what is proved of
`Keyboard` holds of the terminal.

**Console.**  A console is its cells and the cursor.  `LinesAfter` are all lines
that a number of keys leads to, with their screens; `Shows` compares the two.

**Forth.**  `frames` is the C call stack of the running task: `forth_execute`
about to run an entry, `forth_inner`, the `forth_eval` of a line and of a LOAD,
`forth_thread_wrapper`; `tasks` keeps those of suspended tasks, in the order of
the ring.  Tasks switch in YIELD, in `forth_run` and in `task_exit`; `ip`, `rs`,
`ds`, the parse pointer and the dictionary are global, as in the code.
Addresses count cells; the dictionary is a small region, kernel functions have
small addresses outside it, which is what `forth_inner`'s range check sees.
`Ops` expands threaded code into the primitives and literals it runs through, in
as many rounds as the region has cells: the reference `forth_inner` is compared
with.  A store of THEN, ELSE or REPEAT may land in the dictionary
(`EmitPatch`), in low memory where nothing of Forth lies (`EmitLow`), or where
it ends the model (`WildStore`).  `nested`, `lost`, `misused`,
`borrowed` and `expect` are history: they say when the code itself broke the
discipline a property relies on (R> took a return address, THEN patched a
finished word).

**Heap.**  `mem` is the heap unit by unit: a header is a link cell (size, next)
and a tag cell (magic, free), everything else data.  The list walks of `kmalloc`
and `heap_coalesce` take one step per block; calls of clients come only between
calls, as in the kernel, where no interrupt handler allocates.  `chain` (the
blocks in the list), `live` (who holds what, with which contents) and `freed`
are history.  Clients may free a pointer twice; they do not free pointers of
`kmalloc_aligned`, for which the code has no way.  Contents of memory that
nobody holds are forgotten, except for tags, which `kfree` might read.

**Pages.**  `pmm_init` marks the regions of the memory map one by one
(`MarkRegion`), then the kernel allocates, frees, maps and unmaps.  A page holds
a small page table, or `Garbage` once a client has had it.  `vmm_map_range` goes
down the four levels step by step (`GetTable`, `CreateTable`, `SetEntry`).  One
huge page stands for those of the boot loader.  `expected` is history.

## 3. What TLC checks

| Run | Instance | Result |
|---|---|---|
| `scheduler` | up to 5 tasks, two tokens and the null token | passes, 91 000 states |
| `blocks` | 3 blocks, 2 buffers, 2 tasks, 1 tick, 1 store, 1 crash | passes, 1.1 million states |
| `editor` | the same without crash | `EscSaves` violated (finding) |
| `filesystem` | 8 bits of bitmap over two sectors, one user block, 10 blocks recorded, 3 crashes | passes, 192 000 states |
| `filesystem_full` | the same without crash | `DiskFullTrue` violated (finding) |
| `forth` | 11 units of typing over 31 primitives, four names, a block, 2 tasks | passes, 345 000 states |
| `forth_nested` | EXECUTE in a colon word | `IpInWord` violated (finding) |
| `forth_branch` | a word with IF | `NextJumps` violated (finding) |
| `terminal` | ring of 3 slots, line of 1, two keys, REPL and one editor, 1 YIELD or EDIT in each line or forked word; a 4 by 3 screen, lines of up to 8 keys | passes, 224 000 states |
| `heap` | 9 units, requests of 1 and 3 units, double frees | passes, 300 000 states |
| `pages` | 3 memory maps, 9 pages, 4 virtual pages, 2 held pages | passes, 250 000 states |
| `pages_full` | 9 pages, words of 4 bits | `OutOfMemoryTrue` violated (finding) |

Scheduler: the ring keeps every task in order (`RingOrder`), task states agree
with who is on the CPU (`OneRunning`, `CpuOnCurrent`), `task_exit` never returns
(`ExitNeverReturns`), nobody is overtaken twice, a forked task runs its token, or
that of a later FORK that came before its first run (`ForkRunsItsToken`: never an
older one, and never none), and each READY task runs.

Blocks: one copy per block, data vouched for by UPDATE is never lost, a torn
write is noticed by its CRC, the buffer handed out last is evicted only on a tie
of the clock, an undisturbed editor saves, and the whole is an implementation of
`BlockStore`.

Filesystem: no block is handed out twice unless a crash came before the flush
that would have kept it (`NoDoubleAlloc`); the reserved blocks 0 to 4 are handed
out only after a crash inside the flush of `fs_format`, which writes the
superblock before the bitmap (`ReservedKept`).  When "Disk Full!" stops the machine, exactly the recorded blocks without
a bit in block 2 are neither handed out nor reserved (`FullLeaves`), and there
are such blocks (`DiskFullTrue` fails).

Terminal: no byte in the keyboard controller is left without an interrupt to
read it (`ByteIsNoticed`: the reason why `keyboard_init` must empty it after
`pic_init`); every interrupt is ended, so that keyboard and timer go on and the
driver behaves as `Keyboard` says (`ImplementsKeyboard`).  The ring is a FIFO
queue under all interleavings with its handler (`DeliversInOrder`); a reader that
saw a character never blocks in `keyboard_getchar` (`GetNeverWaits`), although
lines and forked words switch tasks at will, for no switch falls between the test
and the read; every character is read (`KeysAreRead`).  What stands on the screen
is the line Enter will evaluate, as long as no rubout crossed the start of a row
(`EchoShowsLine`, which compares the screens and lines that up to eight keys lead
to, at the line length the REPL has reached).

Forth: from the call of a word until it ends or tasks switch, threaded code
computes what the word's definition says (`ThreadedMeaning`; `expect` becomes
`Unknown` at every task switch, and nothing is said of a word that goes on after
one: see the observations below).  It leaves `rs` and `ip` clean (`PromptClean`,
switches included, unless a return address was lost); finished words are
terminated, keep their meaning and are found by their name, unless a branch word
was misused.  `PrintedReadsBack`: `try_parse_number`, in the base the
interpreter is in, reads what . and U. print in it, what STATUS and LOAD print
in base 10 and DUMP in base 16, as the same number.  It compares texts and
numbers, for all cells and ints of a small width; `forth_eval` asks
`try_parse_number` only about words that `dict_find` does not find.

Heap: blocks tile the heap (`Tiling`), clients own their memory and it keeps its
contents (`Owned`, `Intact`), `heap_used` is exact, free neighbours are always
merged and no block is lost (`NothingLost`), a second `kfree` is caught, panics
are justified, calls return.  Pages: the counter is exact, only usable and
unreserved pages are handed out, tables are not shared, lookups find what was
mapped.

Bounds.  Five tasks allow two forked tasks to die while a third waits and a
fourth is created; three blocks on two buffers force evictions of dirty, clean
and just-used buffers; one tick gives both ties and differences; one store and
one crash suffice because contents are compared, not counted.  Three ring slots
hold two characters: empty, full and wrapped rings all occur.  Two kinds of
keys suffice for the run, one with a character for the line and Enter, which has
it evaluated.  ESC is not among them: an editor, once entered, competes for the
keys for good.  ESC and the modifiers are covered by the theorems, which hold for
all keys.  `MaxSwitches` bounds the YIELDs and EDITs of one line or forked word:
one lets the REPL become an editor or yield inside its line.  Eight keys on a screen of 4 by 3 wrap, rub out across a row's end and
scroll, with the spinner's cell in the first row.  Eight bits, five of them
reserved, fill the disk after three allocations, and the bitmap's two sectors
both hold free bits; ten blocks recorded leave two without a bit, as 10000 leave
1936 behind 8064; three crashes allow one in the format, one before and one
after a flush.  Nine units hold three blocks, so that a freed block has free,
used or no neighbours on each side, `krealloc` moves, and remainders too small
to split occur.  Nine pages run out when one virtual page needs three new
tables.  Words cost units of typing (`Cost`), so that the ones that build calls
and tasks reach longer programs than the others: eleven units make a definition
with a call, a LOAD of the block whose words EXECUTE and YIELD between >R and
the end, and a FORK of one of them.  Cells have 12 bits, enough for `Numbers` to
tell int and long apart, and stacks few slots so that overflow of both happens.
`Room` bounds HERE, `MaxFrames` recursion, `MaxTasks` the tasks; a LOAD does not
start while another task's LOAD is suspended, whose buffer could then be gone.
The Forth runs and `filesystem` do not check deadlock because these bounds, CPU
faults (`wild`) and "Disk Full!" stop the machine, nor does `blocks`, where the
counters run out.

Fairness.  `CooperativeSpec`: the CPU executes the code it is in, and each task
on the CPU eventually yields or exits, as `forth_run`, `run_editor` and
`background_worker` do on every turn.  `Keyboard!Spec`: the running task goes on
(the Forth code of a line or a forked word has finitely many YIELDs and EDITs,
and ends: without branches, which `forth_inner` refuses, it does unless it is
recursive), and IRQ 0 keeps coming (`timer_init` starts it, nothing masks it).  `TerminalSpec`
assumes less of the software and more of the hardware: handlers run on,
controllers raise what they latched, the timer pulses; that IRQ 1 and the tasks
get their turn (SF) is a matter of speed, as a tick every 10 ms leaves the rest
of the time; and nobody types so fast that `keyboard_init`'s loop never finds
the controller empty.  `Keyboard!Spec`'s fairness is then checked, not assumed.
`Heap!Spec`: a call under way is executed (the CPU runs it; nothing in it
waits).

## 4. Findings

* The editor's "(Press ESC to Save/Exit)" (`forth.c:502`) fails when another
  task calls BLOCK while the editor waits for a key: UPDATE marks that task's
  buffer.
* EXECUTE of a colon word inside a colon word runs the rest of the outer word in
  the nested `forth_inner` and leaves the outer one with `ip` = 0
  (`stack.c:100`, `forth.c:103`).
* `forth_inner` refuses the branch cells that IF, ELSE, UNTIL, AGAIN, WHILE,
  REPEAT, DO and LOOP compile (`stack.c:101`, `forth.c:113`).
* `fs_alloc_block` searches the 8064 bits of block 2 only, and panics with "Disk
  Full!" although the layout gives the bitmap blocks 2 and 3 and `fs_format`
  records 10000 blocks (`filesystem.c:8`, `filesystem.c:20`, `filesystem.c:45`).
* `pmm_alloc_page` never finds the up to 31 pages behind the last whole word of
  the bitmap and panics with "Out of physical memory!" while they are free
  (`pmm.c:29`, `pmm.c:110`).

Observations that are no violated property of a run:

* A name of 32 to 63 characters is stored cut to 31 and can never be found
  again; it may instead shadow a word whose name is these 31 characters
  (`dictionary.c:89`, `dictionary.c:183`; `FindsItsName` states what is found).
* Tasks that run colon words around a YIELD share `ip` and the return stack
  (`stack.c:65`, `stack.c:105`, `forth.c:83`).  After `: W YIELD ;  ' W FORK  W`
  the task that was suspended first pops the other's return address, and the
  other fetches from address 0: `IpInWord` fails on the vocabulary
  `: ; ' YIELD FORK` with two tasks and 17 units of typing as well.
* After a crash inside the flush of `fs_format` the superblock is valid and the
  bitmap empty: the first blocks handed out are 0 to 4, which `filesystem.c:23`
  marks as used (`filesystem.c:29`).
* `fs_free_block` (`filesystem.h:10`) and `scheduler_tick` (`task.h:26`) are
  declared and not defined; nothing calls them.  The timer handler only counts: a READY task runs
  because the others yield.
* A character that wrapped to the next row stays on the screen when it is rubbed
  out from there (`forth.c:672`, `vga.c:90`).
* `kmalloc`ed stacks of dead tasks are never freed (`task.c:31`).

## 5. What is proved

All theorems hold for every value of the constants that satisfies the named
assumptions of the module (non-empty sizes, distinct markers).

* `SchedulerProofs`: `IInv` adds to `TypeOK` and `RingOrder` where each task's
  code can stand (`Control`), how states go with it (`States`), that the tasks
  the scan of `yield` has skipped are DEAD (`Skipped`), that tasks switched to
  since t became READY lie behind t in the ring's order (`PassedBehind`), and
  the bookkeeping of FORK.  `Skipped` is why `task_exit` cannot return,
  `PassedBehind` is why nobody is overtaken.  From it: the six safety
  invariants, `DeadStaysDead`, `NoOvertaking`.
* `BlockDeviceProofs`: `IInv` says what the operation under way has established
  (`JobInv`: a block being got is in no buffer; after the first sector, disk and
  buffer agree on it and the whole data are among the versions), that a CRC on
  disk names data once written as a whole (`DiskInv`), `Kept` (the promise,
  buffer by buffer), and that the buffer got last was used last (`Recent`).
  From it: `NoDuplicate`, `PromiseKept`, `TornDetected`,
  `RecentEvictedOnlyOnTie`, and the refinement `ImplementsStore`, whose mapping
  picks the one buffer that holds a block.  `EditorSaves` needs one more
  invariant: an undisturbed editor's buffer still holds its block and what was
  typed, and is the one UPDATE means; while ESC is under way it is dirty or
  already written.
* `FilesystemProofs`: `IInv` says where memory and platter agree (`Synced`),
  where the superblock's magic number is at each step (`Super`), that blocks in
  use are set in the bitmap that `fs_alloc_block` would read and those a flush
  has seen to are set on the disk (`Remembered`), that the reserved bits are set
  wherever the superblock is, unless a crash cut a format short (`Guarded`), and
  that each bit stands for a block (`Accounted`).  From it: `NoDoubleAlloc`,
  `ReservedKept`, `FullLeaves`, for any bitmap, any place where its second
  sector begins and any number of crashes.
* `TerminalProofs`, the ring: `IInv` says that only the running reader is past its test
  (`Alone`), that a reader past it finds a character (`Present`), and that a
  sleeping CPU's task is back at its test (`Asleep`).  From it `GetNeverWaits`
  and the refinement `DeliversInOrder`: each step of the ring is a step of
  `KeyQueue` or a stutter.
* `TerminalProofs`, the whole terminal: `TInv` says that the line in service is the one whose
  handler runs (`Serving`), so that the EOI ends the right one, and that no
  handler runs before `sti`.  From it `ByteIsNoticed` and `ImplementsDriver`,
  the safety part of `ImplementsKeyboard`: every step of controllers, handlers
  and boot is a step of `Keyboard` or a stutter.  `GetNeverWaits` and
  `DeliversInOrder` therefore hold of the terminal too.  `EchoShowsLine` is
  proved by induction on the keys, for every size of screen and of line: each
  line they lead to is good (`GoodLine`: the screen is one, nothing stands after
  the cursor, and unless a rubout crossed a row's end, `Shows`).  That a
  character printed keeps this, at the end of a row and of the screen too, is
  `PutShows`, with `MovedShows` for the scroll that moves the line and the
  cursor up together.
* `HeapProofs`: `IInv` adds to `Tiling`, `Owned` and `Intact` what the call under
  way knows (`Arguments`, `Position`: no block behind the walk fits, or free
  blocks behind it are merged), that free blocks never touch between calls
  (`Spaced`), that each used block has a holder (`Holders`), and where a tag
  that reads "in use" can lie in memory: at a block of the list or just below a
  pointer that is held (`Tags`, `Freeable`).  The last is why a second `kfree`
  is caught although headers of merged blocks stay in memory.  `UsedExact` takes
  lemmas about the sum over the blocks in use (`SumSplit`, `SumAgrees`; that the
  fold has a value at all rests on the least number without one), and that every
  step leaves the books even, charges one block or refunds one.  From it: all
  safety invariants of `Heap`.
* `PagesProofs`: for the bitmap, that regions are freed before any is reserved
  and a reserved one is still to come or in force (`Marks`), and that free and
  held pages are covered by usable memory (`Bits`, `Covered`); for the tables,
  that they form a tree (`Tree`: two paths meet in a table only where they
  agree), that huge entries occur at the third level only (`HugeAtThree`), that
  no table is held or free (`Private`), what a lookup finds (`Lookup`), and
  where the walk of `vmm_map_range` stands (`Walking`).  From it: `CountExact`,
  `OnlyUsable`, `TablesOwned`, `MapExact`.  The proof showed a condition that
  `pmm_mark_region_used` depends on and does not check: the base of a reserved
  region must be a multiple of the page size, else the page its end lies in
  stays free.  `RegionAssumption` states it; the regions of `pmm.c:91` to
  `pmm.c:95` and of `heap.c:29` meet it.
* `ForthProofs`: of the dictionary, `IInv` says that headers and code fields do
  not overlap and lie below HERE (`Placed`), that the links lead from LATEST
  through all entries, newest first (`Linked`), and that entries keep the names
  they were given, cut (`KeepsNames`); `Ended` that the body of a visible colon
  word holds an EXIT before the next header.  Of the tasks, that the ring holds
  proper call stacks and the terminal is never dead (`TasksInv`).  Of the return
  stack (`ReturnInv`), as long as nothing was lost: every return address but the
  oldest lies in the region, so does `ip` while there is one, and then some task
  is in `forth_inner` (`Threaded`); while no colon word was entered below a
  running one, there is at most one activation, and the null that ends it is on
  the stack (`Single`).  Every word is shown to extend the dictionary, or to add
  one entry to it (`Extends`, `Adds`), and neither disturbs the rest; the search
  of `dict_find` is shown to return the newest match by the least entry for
  which it would not.  From it: `FindsItsName`, `VisibleTerminated`,
  `PromptClean`, for every text typed or LOADed, every set of names and every
  number of tasks and depth of calls; and, of steps, that the dictionary only
  grows (`AppendOnly`).  The proof showed that the last cell of the region
  matters: code that runs past it, or whose last cell is a literal's head,
  faults (`InnerFault`), and that a branch resolved twice must count as misuse
  (`misused`), for its target may be overwritten.
* `ForthProofs`, what words mean: a meaning that one round of `Ops` finds, all
  later ones find (`RoundsGo`), so that meanings satisfy the recursive equation
  one would write down (`OpsEquation`).  A step leaves every cell
  that a defined meaning is read from (`Firm`: the only cells overwritten below
  HERE are the zeros behind a branch, and a branch has no meaning), so that by
  induction on the rounds the meaning stays (`OpsStable`).  Two parts of
  `Sound` are there for this: above HERE the region is blank (`Blank`), and a
  constant has its cell (`Filled`), else a later comma would change them.  From
  it: `MeaningStable`.
* `ForthProofs`, threaded code: `ThreadedMeaning` is not inductive.  `MInv` adds
  that a call or a new thread is always the innermost frame (`Tidy`), so that at
  most one word is pending, and that what is left to do is itself defined
  (`Meant`): without it a step could leave a rest that has no meaning.  One turn
  of `forth_inner` then takes the first operation off the rest: `RunLit` and
  `RunPrim` for literals and primitives, `CallerPush` and `CallerPop` for DOCOL
  and EXIT, which move code between `ip` and the return stack and leave the rest
  as it is.
* `NumberProofs` and `ForthProofs`, numbers: `Wrap` keeps a number's class modulo the cell's range
  (`WrapIs`, `WrapSame`), so that `strtol`'s running result is congruent to the
  digits' value (`DigitsRead`, by the least number whose digits would read back
  wrongly); the class has one member among the cells, which is the number
  printed, for `ltoa`'s minus sign and for unsigned digits alike.  From it:
  `PrintedReadsBack`, for cells of every width.
* `NumberProofs` and `ForthProofs`, types: `TypeOK` is not inductive, for
  numbers move between stacks, dictionary and program.  `CellsInv` says that both
  stacks (`Stacks`: no longer than their arrays), `ip` and every cell of the region
  are numbers a cell can hold (`Values`, `Celled`), and that each constant has
  its value in the region (`Held`).  `EffectFits` is the lemma about all computing primitives: whatever
  they find on the stack, too little included, they leave a stack of cells no
  longer than the array; the shifts, AND, OR, XOR, the division with remainder
  and `strtol` rest on lemmas about `Wrap`, `Bits` and quotients.  `Held` stays
  because nothing written below HERE is anything but an address (`Patched`).
  From it and `IInv`: `TypeOK`.

The other named assumptions say that sizes are not zero, that a cell has at
least two bits (it holds two C ints), that the markers
(`NoBlock`, `Nobody`) are none of the values they stand apart from, that the
boot loader's tables are distinct pages of reserved memory, that the first 31
characters of a name are no long name (`First31Assumption`), and that the names
of primitives are short, that they fit into the region, and that it lies above
the kernel's code (`PrimitivesAssumption`): 0xFFFF800010000000 in
`dictionary.h`, the code from 0xFFFF800000100000 on.  That a cell is wide enough
for the addresses of the region, for pids, for the mark of an EXIT
(`CellsAssumption`) and for the depth of the data stack (`DepthAssumption`), and
that digits are below 36 and words cost a natural number to type
(`WordsAssumption`), is needed for `TypeOK` alone.

Only model-checked: the liveness properties (`ReadyRuns`, `KeysAreRead`,
`CallsReturn`) and the fairness part of `ImplementsKeyboard`, which need
fairness and ENABLED.  Every invariant and every action property that a passing
run checks is also proved; `TypeOK` of `Forth` is proved and no run checks it.

## 6. Not modelled

Not modelled: serial, PCI, e1000 and boot code keep no state that others depend
on; the `network`, `research` and `docs` files are empty.  Of `string.c`, copies
and comparisons are assignments and equality in the models.  Within Forth: words
that only print (. EMIT TYPE .S WORDS SEE STATUS DUMP and so on; what . prints
is in `Numbers`), @ ! C@ C! +! and ALLOT C, which write any byte anywhere and
would need memory byte by byte, BYE, and the parsing of ." and (.  The model
ends (`wild`) when a store of THEN, ELSE or REPEAT hits a header of the
dictionary or the kernel's own code and data, and when `ip`, in low memory,
meets a cell where such a store left HERE.  Of the
console, colours and `vga_set_cursor`, which nobody calls.  Of the interrupts,
the second controller, all of whose lines are masked, and what the exception
screen shows.

`fs_alloc_block` and `krealloc` have no caller in the kernel yet: they are
modelled as their code has them, called at any time.

Left out on purpose: sizes near 2^64 in `heap.c`, which no caller passes, and
the range of the identity mapping that `vmm.c` clears new tables through
(`paging.asm` maps 4 MB, the comment in `vmm.c:45` says 1 GB).
