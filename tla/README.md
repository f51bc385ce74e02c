# Lizard-OS in TLA+

Lizard-OS is a single-CPU x86-64 hobby kernel (`src/lizard`), with a UEFI loader
(`src/boot`), a small kernel library (`src/nolibc`) and a user-space C library and
shell (`src/userspace`). This directory models the system from the hand-over by the
firmware to a command typed at the shell: memory at boot, page frames, heap and address
spaces; tasks and their scheduler; console, screen and text; the file system down to the
sectors of the disk; the clocks; and the user library and shell on top. TLC checks the
models on small instances; TLAPS proves the safety properties of the scheduler, the frame
allocator, the heap, the boot memory, the console's rings, the block cache, sleeping and
the user allocator and sort for every value of their constants.

## 1. The system

### What makes it concurrent

There is one CPU and no lock worth the name (only `tty_lock`); mutual exclusion is
the interrupt flag IF.

* A system call enters through an interrupt gate (`syscall.c:506`) and runs with IF
  clear until it returns or executes `int 48`, the scheduler. Interrupt handlers run
  with IF clear too. Each such stretch is one step of a model.
* User mode and the idle context run with IF set, and hold no kernel state.
* The kernel task `init` runs `spawn`, `load_elf`, `task_waitpid`, `task_block` and
  `kprintf` with IF **set** (`RFLAGS_DEFAULT`). The same functions that are atomic
  in a system call are a sequence of steps here, with ticks, switches and other
  tasks' system calls in between. Most of what the runs find is in this asymmetry.

### Components

| part | state | operations | hard behaviour | what makes it correct |
|---|---|---|---|---|
| tasks, process tree (`task.c`, `main.c`, `spawn` in `loader.c`) | `task_list`, per task: state, wait kind, wake-up time, quantum, parent, children | create, ready, sleep, block, wake, exit, waitpid | creation and waiting of `init` interleaved with everything; re-parenting; zombies | no dangling tree pointer, every zombie collectable, no lost wake-up, a shell is kept alive |
| scheduler, tick (`sched.c`, `pit.c`) | `current_task`, quantum | reap, pick, switch; wake sleepers | list changes under the rotation | only a dispatched task runs, nobody starves, the dead are reaped |
| page frames (`buddy.c`, `free_init_sections`) | page flags, one free list per order | group at boot, allocate and split, free (unmerged) | no lock; long call sequences | blocks disjoint, aligned, none lost |
| console (`tty.c`, `keyboard.c`) | line buffer, input ring, scancode ring, raw mode, cursor, `tty_lock` | keyboard interrupt, read, write, key_get, exit, kill | overflow and index wrap, mode left behind, lock against interrupts | rings are queues, the mode is handed back, nobody spins for ever, the cursor stays in the grid |
| framebuffer (`framebuffer.c`) | pixels, pitch | clear, draw, scroll, show an image | index arithmetic in widths and pitches | the memory shows the picture |
| system calls (`syscall.c`) | descriptor tables, cwd | 21 calls | blocking calls, clean-up on exit | covered with the part each call works on |
| program loader (`loader.c`) | page tables of the new task | ELF walk, stack layout | partial failure, preemption, dirty frames | frames private to the task, failed loads leave nothing behind, the image is the file's |
| kernel heap (`slab.c`, `kmalloc.c`) | slabs on three lists per cache | allocate, free, grow, destroy | list transitions, release threshold | an object has one owner, no slab lost |
| address spaces (`pgtable.c`, `vmm.c`) | four-level tables | map, create, free tree | shared kernel half, tear-down | tear-down frees each private frame once and no shared one |
| VFS, dentries, inodes (`vfs.c`, `dentry.c`, `inode.c`) | dentry cache, reference counts, open files | open, close, read, write, seek, mkdir, unlink, rmdir, readdir | references on every error path, removal while open, aliases | counts exact, the cached copy is the entry |
| FAT16 (`fat16.c`, `fat16_helpers.c`) | FAT copies and their cache, directory entries, chains | find, create, grow, truncate, remove | several writes, each may fail | chains disjoint, cache equals disk, neighbours untouched |
| block layer (`blk_dev.c`, `blkdev_manager.c`, `mbr.c`, `ata.c`) | sector cache, devices, partitions | cached read and write, register | stale lines, aliases, transfers cut short | a valid line is the disk's sector |
| memory at boot (`boot/main.c`, `boot.c`, `early_alloc.c`, `buddy_init`) | firmware map and key, bump pointer, page flags | allocate, take the map, exit boot services, reserve | the map changes under the loader; reserved range computed once | free pages are the unused ones |
| clocks (`ktime.c`, `rtc.c`, `pit.c`) | ticks, wall clock | tick, convert | registers read one by one, calendar edges | the calendar is the chip's, stamps never go back |
| user library (`stdlib.c`, `stdio_file.c`, `printf.c`, `scanf.c`) | arena, streams | malloc, sort, read, write, print, scan | long call sequences, pushed-back bytes, width limits | arena sound, what is read is what was written |
| shell (`sh.c`) | line buffer, last status | read a line, split, run, wait | reads that cut or join lines | the command is the line typed |
| descriptor tables, interrupt entry, CPU identification, compiler runtime, scripts | | | hardware set-up, pure functions | not modelled |

Components call each other directly. `isr_pit` drives `task_tick` and `scheduler`;
`reap_terminated` calls into `buddy`, `pgtable` and `kmalloc`; `spawn` calls the VFS,
the heap, `task_create` and `load_elf`; Enter in `tty_handler_input` wakes readers
through `task_wake_all`. `PROJECT.json` lists the hazards line by line.

## 2. Modules

| module | models | shape |
|---|---|---|
| `TaskSched` | `task.c`, `sched.c`, `isr_pit`, `spawn`, blocking system calls, `init_loop` | full state machine with fairness |
| `ProcTree` | the promise of spawn, exit and waitpid | abstract; `TaskSched` refines it |
| `TaskSchedProofs` | | inductive invariant and its proof, refinement of `ProcTree` |
| `Buddy` | `buddy.c`, `free_init_sections`, callers with IF clear | state machine |
| `FramePool` | the promise of a frame allocator | abstract; `Buddy` refines it |
| `BuddyProofs` | | inductive invariant, refinement, alignment |
| `BuddyPreempt` | `Buddy` plus `init` interrupted inside `buddy_alloc` | extends `Buddy` |
| `Heap` | `slab.c`, `kmalloc.c`, over the promise of `FramePool` | state machine |
| `HeapProofs` | | inductive invariants of `Heap` and of `AddrSpace` and their proofs |
| `Console` | keyboard interrupt, line editor, rings, raw mode, `tty_lock` | state machine with history variables |
| `TtyCursor` | cursor arithmetic of `tty.c` with its wrap-around | state machine |
| `Boot` | `efi_main` from its allocations to the hand-over, `boot.c`, `early_alloc.c`, the marking in `buddy_init` | state machine with an external firmware |
| `AddrSpace` | `pgtable.c`, `vmm.c`, `load_elf`, task creation and reaping as far as memory goes | state machine over words of frames |
| `Fat16` | `fat16.c`, `fat16_helpers.c` | operators on a call state |
| `Files` | `vfs.c`, `dentry.c`, `inode.c`, the file calls of `syscall.c`, `spawn`, exit and kill | state machine; extends `Fat16` |
| `Streams` | `stdio_file.c` | state machine; extends `Files` |
| `BlkCache` | `blk_dev.c`, `mbr.c`, `blkdev_manager.c`, `ata.c` | state machine |
| `Clock` | `rtc.c`, `ktime.c`, the stamps of FAT16 | state machine with the chip beside it |
| `Sleep` | `task_sleep` and `task_tick` with the width of `sleep_until` | state machine |
| `UserLib` | `malloc`, `free`, `calloc`, `realloc`, `qsort` | state machine |
| `Text` | `printf.c`, `scanf.c`, `strtol`, the kernel's `kvprintf` and `sprintf` | functions, driven by a small state machine |
| `Screen` | `framebuffer.c`, the drawing half of `tty.c`, `SYS_fb_blit` | state machine with the picture beside it |
| `Shell` | `sh.c`, the argument copy in `sys_spawn` | state machine |
| `NatFacts` | | induction over sets of numbers, recursive functions, `\div` and `%` |
| `TerminalProofs` | | `Console`: types and rings; `Screen`: the picture; `Text`: printing; `Shell`: commands and words |
| `BootProofs` | | `Boot`: inductive invariant and its proof |
| `IoProofs` | | `Sleep`, `BlkCache`, `UserLib` |
| `FilesProofs` | | `Files` over `Fat16`: inductive invariant of the reference counts |
| `MC*` | constants, symmetry, bounds on behaviours | |

Parts that share no state are checked in one run where that saves nothing but time:
`MCMemory` (`Buddy`, `Boot`, `Heap`, `AddrSpace`), `MCIo` (`Streams`,
`BlkCache`, `UserLib`, `Clock`, `Sleep`) and `MCTerminal` (`Console`, `Screen`, `Text`, `Shell`)
have a variable `part` that says which part a behaviour exercises; the others stay in
an initial state. Every state of every part is visited, and none of their products.

Several modules carry a *history variable* that records that the code has done, or
met, something it does not guard against. The properties hold until then, and the
variable is as narrow as the code allows; each is set at one named place and listed as
a hazard: `hurt` (a transfer failed, a removed file was written, two dentries for one
entry, ...: the list is at the head of `Files`), `stale` (sectors written under another key or by a
failing transfer), `torn` (the chip moved while it was read), `leaked` (a frame
replaced by an overlapping segment), `noMap` (the kernel entered without the last map), `skewed` (a padded screen
was scrolled), `stray` (an image was written outside the framebuffer), `slip` (bytes a
stream skipped because `fseek` dropped a pushed-back byte), `lost` (references of killed tasks in `Files`, overflow of the ring in
`Shell`).

### TaskSched

`task_list` is a circular list that only `list_add` and `list_del` change, so it is
kept as the set of members and `behind[t]`, the tasks after `t`: `list_add` puts a
task in front of all others, `list_del` removes it everywhere. That is the order
`next_ready_task` walks, and it makes the list provable without sequences.
`sleep_left` is `sleep_until - pit_ticks` (the absolute tick count would make the
state space infinite; `Sleep` has it, with its 32 bits). `"FREE"` is a structure `kmalloc` can hand out: the number of
task structures bounds the live tasks. A children list is a set; its order only
decides which of two zombies is collected first, and the model allows both.

`pc[t]` says where a task is. `"user"` is user mode. `"sleep"`, `"waitpid"`, `"read"`
and `"exit"` are inside a system call that executed `int 48`; when such a task is
dispatched again IF is still clear, so only its own continuation is enabled
(`InterruptsOn`). The remaining places are those of `init`, one for each store that
others can see: `task_create` lists the task (with state 0, which is RUNNING) before
it stores NEW; `spawn` stores the parent, links the child, makes it READY;
`task_waitpid` scans, unlinks, hands over; `task_block` stores the wait kind, stores
WAITING, executes `int 48`.

`scheduler` takes the task fields as the caller left them, so that a system call and
the scheduler it triggers are one step: reap, spend a tick, pick, dispatch. `sys_exit`
and a killing exception both end in `task_exit`; a failing `load_elf` leaves the task
TERMINATED and unparented.

### Buddy

A block is `<<pfn, order>>`. `Size[k]` is `1UL << k`, a constant with the facts about
powers of two as an assumption, because the provers know no exponentiation; TLC
evaluates the assumption on the instance. `buddy_init` takes one turn of the grouping
loop per step, `BootMaps` is the set of markings it may start from. `held` is what
callers have; it is the callers' state, not the allocator's. A failing allocation
changes nothing. `page->order` and `free_count` are written and never read.

`BuddyPreempt` cuts one call of `init` in two: `list_del` has loaded the page and its
neighbours, and has not stored yet. In between, everything in `Buddy` may happen.

### Heap

A slab is named by its block, since it lives at the block's start. `cache[b]` is its
cache while the magic number is valid, `on[b]` the list it is on (`list_move` keeps it
on one), `freelist[b]` its free objects as a set: the order on the freelist only decides
which object is handed out, and the model allows each. `in_use`, `free` and
`free_slab_count` are the code's counters, kept beside what they count. The frames come
from `FramePool`, which `Buddy` implements, so `slab_create` and `slab_destroy` are its
`Give` and `TakeBack`; `OtherAlloc` and `OtherFree` are the rest of the kernel using the
same frames. The caches exist from the start, with any number of objects per slab
(`kmemcache_create` and `slab_create` compute the same number, because the slab header is
a multiple of the alignment). A failing allocation changes nothing, and a size no cache
fits is a kernel panic. Callers free what they were given, once. Each call is a step: it
is one in system calls and interrupts; `init` preempted inside a call is not in this
module.

### Console and TtyCursor

Rings keep their array and free-running indices modulo `IndexMod` (2^32 in the code),
so overflow and wrap-around are real. A cell that was read is blanked, which only
merges states. `typed` and `pressed` are history variables: what a queue that drops
its oldest element would hold. `tty_lock` matters because `init` prints with IF set;
`spinning` is the CPU in `spinlock_lock` with IF clear, after which nothing happens.
`TtyCursor` has the row and column as unsigned values modulo `SizeMod` (2^64).

`Screen` draws what `tty_putchar` draws, scrolling included; the backspace of the line
editor is in `TtyCursor`. `mem` is one word per pixel and every routine reaches it with
the code's own index expression; `picture` is kept by rules that know columns and rows
only. An image may be larger than the screen, up to `BLIT_MAX`: the offsets that centre it
wrap at `U32_LIMIT` as they do in the code, so that of a taller image the middle rows fall
on the screen and of a wider one nothing does; `stray` records that the rest was written
somewhere else, and that memory has no contents in the model.

### Boot

What each physical page is used for is the firmware's state; its map is one descriptor
per run of equal pages. The firmware may change it between any two calls of the loader,
within `MaxEvents`. `GetMemoryMap`, `BuildMap` and `ExitBootServices` are the three
stages of an attempt; the kernel's side copies at most `BI_MMAP_MAX` entries, places the
early heap in the first run that fits and marks pages.

### AddrSpace

A frame is `FANOUT` words and a word is a table entry or data, so that a frame that is
freed and used again as a page still holds what was in it, and a table that is not
cleared has entries. `pgtable_free_level` is the recursion of the code as the set of
cells it reaches. A program may write any word of its pages between loads.

### Fat16, Files, Streams

A file-system call runs with IF clear and is one step; what makes it hard is that each
of its transfers and allocations may fail. So a routine is an operator from a *call
state* to a call state, and the call state has a `fuse`: the number of the transfer that
fails, chosen when the call starts, with `landed` for a write that failed after it reached
the medium, `dead` for a disk of which every later transfer of the call fails too, and
`oom` for the allocation that fails. `Fault` is what may happen to a call, chosen anew for
each from `FaultIn`; a disk that is not `worn` fails no transfer. `Then` and `Otherwise` are the two ways the code goes on
after a routine: `if (... != 0) return -1` and the clean-up at an error label.

`Files` adds dentries, reference counts and descriptor tables. A removed file that is
still open keeps its dentry, a killed task keeps its references for ever (`lost`). `spawn`
has the file open over the allocation of the task and over `load_elf`, whose reads may
fail or come up short, and closes it on each way out; the child starts in its parent's
working directory. The 8.3 form of a name is a constant function, with a name whose stored form compares unequal to
it, because the code treats the two forms differently.

`Streams` is a stream of a program above that, down to bytes: `ref` and `rpos` are the
contents and the position by the C library's rules. The program departs from them in one
place. `fseek` forgets a pushed-back byte and then seeks from the kernel's offset, which is
one byte past the position of the stream (`stdio_file.c:111-113`), so a relative seek goes
one byte too far, and so does a seek that is refused. `slip` counts these bytes until an
absolute seek, or an append, puts the stream where it should be; the properties say that it
is ahead by exactly `slip`. The model's programs do not write while a byte is pushed back,
which C leaves to the library to define.

### BlkCache, Clock, UserLib, Text, Shell

`BlkCache` keeps the key of a line as the code does, device and sector *of that device*,
and transfers that stop at any sector. `Clock` runs the chip, with its registers in BCD
and its own calendar, beside the kernel's seconds; the units of time are constants so
that TLC's integers hold a century. A drive may be absent or have no sectors, and only
devices with sectors of the cache's size are cached. `UserLib` has addresses in the arena and
sizes that wrap; its `qsort` returns at once for elements wider than its buffer (`TMP_SIZE`,
256 in the code), as `stdlib.c:255` does. `Text` takes a format as already parsed items and spells out numbers, padding,
precision, the sink with its 128 bytes, and the one character of push-back of `sscanf`;
TLC compares printing with reading. `Shell` reads from the queue that `RingsAreQueues`
shows the ring to be; what the file system and the loader answer is any answer.

## 3. What TLC checks

| run | instance | result |
|---|---|---|
| `sched_safety` | idle, init, 3 user tasks (symmetric), quantum 2, sleeps of 0 or 1 ms | holds: `TypeOK`, `OnlyCurrentRuns`, `TreeIntact`, `ZombieHasCollector`, `NoLostWakeup` (566 000 states) |
| `sched_live` | idle, init, 2 user tasks | holds: `ReadyRuns`, `SleeperRuns`, `TerminatedReaped`, `ImplementsTree` |
| `shell_kept_alive` | idle, init, 2 user tasks, quantum 1 | **violated** |
| `memory` | 9 pages, orders 0 to 2, four maps, three with holes, one init page; 14 physical pages, two firmware maps, two attempts; a heap of 6 pages, a cache of one-page two-object slabs and one of two-page one-object slabs, at most 2 free slabs; two tasks, four images, 32 frames of 2 words, 4 levels, 6 steps | holds: `NoOverlap`, `NoPageLost`, `Aligned`, `ImplementsPool`, `MapIsCurrent`, `FreeIsUnused`, `ObjectsSplit`, `SlabsListed`, `ObjectsPrivate`, `FreeSlabsCounted`, `FramesAccounted`, `KernelMapped`, `ImageExact` (223 000 states) |
| `load_preempted` | 4 pages | **violated** |
| `console` | 2 tasks, line of 2, rings of 3 and 2, indices modulo 6; screens of 3 by 5, 2 by 4 (padded) and none, 8 operations; ints of 8 bits, every set of flags; a line buffer of 9, 3 lines typed out of 10 | holds: `TypeOK`, `RingsAreQueues`, `ScreenIsPicture`, `NumbersSurvive`, `BufferHoldsPrefix`, `CommandIsLine` (504 000 states) |
| `files` | 4 clusters, 2 FATs, an empty and a populated volume, 5 names, 6 paths, 2 descriptors; 4 calls, any allocation failing; on a worn disk 3 calls, any transfer failing | holds: `RefsExact`, `VolumeSound`, `CachedIsCopy`, `NeighboursKept` (80 000 states) |
| `io` | a file of up to 2 clusters of 2 sectors without FAT cache, 6 calls; a disk of 3 sectors, 2 lines; an arena of 22 bytes; 100 years of month ends, 5 ticks; arrays of up to 4; 19 ticks of 2 sleepers with a counter of 3 bits | holds: `ReadsWhatWasWritten`, `TellIsPosition`, `CacheCoherent`, `ArenaSound`, `QsortSorts`, `CalendarIsChips`, `StampsNeverGoBack`, `SleepsAsAsked` |
| `keyboard_handed_back` | as above | **violated** |
| `never_spins` | as above | **violated** |
| `screen_fits` | as `console` | **violated** |
| `cursor_in_grid` | 4 by 3 cells | **violated** |

Bounds. Three user tasks give a parent, a child and a grandchild, or two siblings and
a bystander, or one task being created by `init` while two others exit and wait: every
rule of the tree involves at most a task, its parent and its children. A quantum of 2
has both "quantum not up" and "quantum up". Nine pages are two blocks of the largest
order and one page that no such block can hold; one map is a single block, the others break alignment, leave holes
at the start and runs that are no power of two. Six heap pages are more slabs than may
be kept free, so slabs are destroyed and their frames used again, and a one-object slab
passes from full to free in one call. The rings are smaller than a line with its newline plus
what is unread, and `IndexMod` is a small multiple of their size, so that overflow and
wrap happen within a few keys.

Two boot attempts are one that is retried and the last one. Four levels of two entries
are the smallest tables with a user and a kernel half at the top, and six steps load two
programs and reap one while the other runs. On the volume a directory of two clusters,
a file and two free clusters are enough to fill the disk, to extend a directory and to
reuse what was freed; four calls create, open, remove and write. The longest call of this
instance makes 24 transfers and 6 allocations (`MaxFuse`, `MaxOom`: two more of either reach no further
state), so each call breaks off at each of them: at the FAT copies, the entry, the dots of
a new directory, the clearing of a linked cluster. A failing transfer is tried alone and with
all after it, as a write that landed and one that did not, and together with a failing first
allocation. A behaviour on a worn disk has three calls and ends with the first that meets
a fault: what the properties say of later calls is excepted by `hurt`, but for `RefsExact`, which is
proved for any number of calls and any faults. With one task a spawned child has no table of its own in this
run, so its working directory is a matter for the proof. The stream's volume is
smaller and its calls more: a file crosses sector and cluster ends and meets a full disk; its
allocations fail and its transfers do not, because what is said of streams ends there.
The arena has room for two blocks and their headers. Texts of two conversions are there
because `sscanf`'s push-back couples one conversion to the next.

Deadlock is checked where the system cannot stop. It is off where a behaviour ends by
itself or by a bound: a machine that spins on `tty_lock` has stopped, `load_preempted`
ends at the first shared frame, and the part runs end at `MaxCalls`, `MaxSteps`,
`MaxDraws`, `MaxTicks`, `MaxTyped`, or with the machine booted.

Fairness (`TaskSched!Fairness`). `SF(isr_pit)`: the timer keeps its request pending
until IF is set, and it is masked for the length of a system call again and again, so
weak fairness would not do. `WF(Resume(u))`: a system call that was dispatched again
executes; nothing can take the CPU from it. `SF(InitStep)`: each time `init` has the
CPU it executes; a tick can take the CPU away in between, so strong fairness is what
"it gets on with its code whenever it is dispatched" means. Nothing is assumed of user
tasks or of the keyboard: a task may loop in user mode for ever.

### What the violated runs show

* `shell_kept_alive`. `main.c:29` promises that init keeps a login shell alive. `init`
  scans its children with IF set; the quantum ends after the scan; the shell exits and
  finds `init` not WAITING, so it wakes nobody; `init` then parks (`task.c:339`) with its
  shell already a zombie. `NoLostWakeup` holds for user tasks because the gate keeps
  IF clear.
* `load_preempted`. `loader.c:140` calls the load preemption-safe. `buddy_alloc` has no
  lock, and a tick between the read of the free list and `list_del`'s stores lets
  another task allocate the same block.
* `keyboard_handed_back`. The Doom notes (`userspace/doom/README.lizard.md:30`) say that
  task exit leaves raw mode. `sys_exit` does; the exception path (`exception.c:118`) goes
  to `task_exit` directly.
* `never_spins`. `init` may be interrupted inside `tty_putchar` with `tty_lock` held; the
  keyboard echo and every write of another task then spin with IF clear.
* `screen_fits`. `framebuffer.c:368` says that the destination rectangle is guaranteed to
  fit. The search for the factor never tests the factor 1, and `sys_fb_blit` takes images
  of up to 8192 by 8192: rows of a larger image are copied outside the framebuffer.
* `cursor_in_grid`. `tty_backspace` takes column 0 for "before the first column": it
  stores the width as the column and lowers the row, from row 0 too.

## 4. What is proved

`TaskSchedProofs`, from `TaskAssumption` (idle and init are two tasks, NULL and ANY are
none, the quantum is positive): `TypeCorrect`, `OnlyCurrentRunsAlways`,
`TreeIntactAlways`, `ZombieHasCollectorAlways`, `NoLostWakeupAlways`, all from
`Inductive`. None of the properties is inductive alone. `IInv` adds

* `Listed`: a task is on the list exactly when it is not FREE, and a current user task
  is RUNNING, so that a system call starts from a known state;
* `ChildrenKept`: a task with a real parent is never TERMINATED, so the reaper
  never takes a child from under a parent's list;
* `InitLocals`: what `init`'s local variables refer to at each place, in particular that
  the task it is creating is NEW and untouched, and that the zombie it has found stays a
  zombie while `init` is preempted.

The proof has one lemma for what `scheduler` preserves, because every blocking call,
tick and exit ends in it, and one step per action on top of that.

`TreeImplemented` is the refinement of `ProcTree`: the initial state maps to an initial
state and each step to a step of the tree or to a stutter. It needs `PlacesKept` (a free
structure has no place, nor has one that `init` is still filling in) besides `IInv`. That
`scheduler` is invisible in the tree is one lemma, `SchedulerStutters`.

`BuddyProofs`, from `SizeAssumption` and `BootAssumption` (the init sections are
reserved at boot): `NoOverlapAlways`, `NoPageLostAlways` and `BuddyImplementsPool`, the
refinement of `FramePool`. `IInv` adds `Booting`: nothing reaches past the cursor of the
grouping loop and nothing is handed out before it ends. The central lemmas are
`SplitCovers` (the halves put back by a split and the block handed out partition the
block that was taken) and `BlockPair`.

`HeapProofs`, from `HeapAssumption` (finitely many blocks, at least one object per slab):
`ObjectsSplitAlways`, `SlabsListedAlways`, `ObjectsPrivateAlways`, `FreeSlabsCountedAlways`.
The properties need each other: that a slab about to be destroyed holds no live object
follows from `in_use` being the number of its live objects, and that `free_slab_count` is
exact from the list a slab is on. `HeapInv` adds `FramesDisjoint`: blocks in use share no page
and every live slab is one. `TakeStep` covers the common end of the three ways to
allocate, `FreeStep` splits on whether the slab is kept.

The same module holds `FramesStayAccounted`, `KernelStaysMapped` and `ImagesStayExact`, about
`AddrSpace`, from

* `AddrSpaceAssumption`: an even number of words in a page, at least two levels, images that
  are sequences of segments;
* `UserHalfAssumption`: the stack and the programs lie below the kernel's half. `load_elf` takes
  `p_vaddr` as it is, so this is a promise of the linker: `userspace/Makefile:14` says
  `-Ttext 0x400000`, and `USER_STACK_BASE` (`task.h:14`) is 0x700000000000;
* `BootSpaceAssumption`: at boot there is memory for the kernel's tables and for idle.

None of the properties is inductive: teardown is a walk over words of memory, and nothing in the
properties says what it meets there. `SpaceInv` gives every live space a level for each
frame of it (`Tree`): the root has the top level, every entry of a table leads one level down, each
frame below the root has exactly one entry, and each is reached from the root. No two spaces,
kernel tables, kernel stacks or lost frames share a frame; the kernel's tables are as
`vmm_init` left them, and the upper half of every root is a copy. `SetEntry` (a tree with one
entry more is a tree) carries `pgtable_map` down its levels (`Descent`, `MapUser`, `MapKernel`).
`CellsAre` and `TreeFrames` say that teardown visits exactly the tree, `CellsCounted` that it
visits each frame once. `Built` is the invariant of a space under construction, through
`task_create_space`, each `LoadPage` and `setup_user_stack`; `KernelSeen` follows a kernel page
through the shared tables. `SpaceInv` quantifies over functions from frames to levels: TLC checks what follows from it
(`FramesAccounted`, `KernelMapped`), not it.

`ImagesStayExact` follows each word of a page through the loader. `Shows(m, root, C)` says that the user
half of a space maps exactly the pages `C` has, with those words: the indices of all levels tell
a page (`IndicesTell`), so no frame shows at two pages (`KvaOneToOne`), making tables on the way shows nothing
new (`GrownShows`), and `pgtable_map` changes what its own page shows and no other (`MapShows`). After n pages of a load, the
last entry of the list for a page is what it shows, or it is a stack page and 0, or it is not mapped
(`Listed`). `Matches` relates that list to the file: the last entry for a page comes from the last segment
that covers it and from the right place in it (`SegmentCovers` for one segment, `PagesMatch` for the
concatenation). `ArgsShown` lays the argument block over it, word by word. From then until the program
runs, nobody else writes its frames, since they are its own (`SpaceInv`, `ExactKept`).

The type invariants of `Buddy` and `Heap` are conjuncts of the proved `IInv` and `HeapInv` and are not
checked again by a run.

`AlignedAlways` (in `BuddyProofs`) rests on `AllAt`: every block the allocator knows, free
or handed out, lies at a multiple of its size, written as "some number times `Size[k]`",
since `%` and products of two variables are beyond the solver. The facts about `\div` and
`%` are lemmas of `NatFacts`.

`BootProofs`, from `BootMemAssumption` (positive sizes, maps over the pages there are): `MapStaysCurrent` and `FreeStaysUnused` from
`BootInductive`. `BootInv` is `BootTypes`, `MapGuarded` (the key is never newer than the firmware's, and when
they are equal the loader's map is the map of now), `KernelPlaced` (the kernel's pages are
the loader's, in every map) and `EarlyPlaced` (where the early heap begins, how much of
it is used, and what was marked free). Half of the proof is about `BuildMap`: that the
n-th descriptor exists, is uniform, and that the descriptors cover the memory (`RankExists`,
`RunIsUniform`).

`TerminalProofs`, from `ConsoleAssumption` (the range of the indices is a multiple of each
ring's size, as 2^32 is): `ConsoleTypes`, `ConsoleRingsAreQueues`. `IsQueue` says, besides what
`RingsAreQueues` says, in which cell each element of the queue lies; pushing at the wrap-around of
an index and dropping the oldest element are a lemma each, pushing a whole line is an
induction over its length.

Three more theorems of `TerminalProofs`:

* `ScreenStaysPicture`, from `ScreenAssumption`. `ScreenInv` says, besides the types, that the
  cursor is on the grid, so that every glyph lies inside the memory, and that pixel `<<x, y>>`
  of the picture is word `y * stride + x`. A lemma shows that
  two pixels share no word (the stride is at least the width), which makes each drawing
  routine one step of the picture; scrolling is proved for a stride equal to the width, and
  `skewed` is set otherwise. Images of every size that `sys_fb_blit` takes are covered: the words of
  a row whose offset wrapped lie past the last line, so they touch no pixel. The assumption asks for more than one row of text: with one row
  `scroll_framebuffer` would copy nothing. Firmware modes start at 640 by 480.
* `TextStaysWhole`, from `TextAssumption` (an argument has the type its conversion asks for, and
  text holds no NUL: a NUL printed with `%c` ends a C string before its end). `VfmtOk` shows
  that every conversion yields characters. Into a buffer the sink after `i` characters has a closed form (`Stored`);
  for a descriptor `Gathers` says that the pieces written, joined, followed by what is
  gathered, are the first `i` characters. `HoldsPrefix` is the property for any job.
* `ShellRunsWhatIsTyped`, from `ShellAssumption`. `ShInv` says that the line buffer followed by what waits in the
  queue is what is owed of the typing, that this ends at a line end, and
  that the buffer has room whenever the shell reads. `TokenizeFindsWords` is about the splitting: for every line
  the loop of `tokenize` finds its words, cut off at `MAX_ARGS - 1`; it is an induction over the
  position from the end of the line, with the two inner scans as lemmas.

`IoProofs`:

* `SleepsEndAsAsked`, from `SleepAssumption`. `SleepInv` says that a sleeper beyond its first
  tick has an end that did not wrap and is still ahead.
* `CacheStaysCoherent`, from `BlkAssumption`. `BlkInv` adds to `CacheCoherent` that devices lie
  within the disk and valid lines within their device; without it a partition's write could
  miss the line it makes stale. The loops over the sectors of a transfer are inductions.
* `ArenaStaysSound` and `SortsAlways`, from `UserLibAssumption` (sizes positive, an array is
  a sequence of elements with integer keys). `Arena` restates `ArenaSound` on a list of blocks given as an
  argument (`Tiles`, `MergedBut`, `Held`), so that each routine of `stdlib.c` has a lemma of
  its own: splitting, absorbing a neighbour, `free`'s loop, `malloc`, and `realloc` as their
  composition. `MergedBut` names the places where two free blocks may be
  neighbours while `free` is at work. `InOrder` is qsort's loop invariant; for an element wider
  than `TMP_SIZE` the theorem says that the array comes back as it was.

`FilesProofs`, from `FilesAssumption` and `GeometryAssumption` (finitely many tasks; a path in a
call is a sequence of names, what is written a sequence of bytes; a volume has a sector of
directory slots or data wherever the geometry says): `RefsStayExact`, from `FilesInductive`. The
volume may be anything else: chains that loop, cross or leave the volume are not excluded. The
argument has five layers.

* Driver. `Kin(s, r)`: a routine of `fat16.c` takes a call state to one with the same dentries,
  names, links and references. One lemma per routine; those that loop are inductions, and the
  routines that search show that what they find is an entry in use, so that an inode's size
  stays a number.
* Dentry cache. `Good(s, h)`: every dentry has as many references as `h` says, plus one when it
  is cached; the root is cached; a parent is there as long as a child is. `dentry_get`, `dentry_put`, `dentry_add`
  and `dentry_remove` each change `h` in one place.
* VFS. `Held(r, h)`: a routine that succeeds hands out exactly one reference more than it
  found, one that fails none. The hard case is `vfs_mknod`: it asks `dentry_lookup`
  whether the name is cached and never gives back the reference of a hit. It leaks none
  because its callers have looked up the whole path first, and failed. `Trail` is the path of cached dentries to a name, `Blocked` says there is none:
  a failed lookup leaves the path blocked, and the second lookup, of the parent, only adds dentries
  short of the name.
* Loader. `spawn` holds a reference over the load and returns with none, whichever of its
  steps fails (`SpawnGood`).
* System calls. `UsersOf` counts the descriptors open on a dentry and the references of killed
  tasks; `FilesInv` is `Good` with those counts, and the types of the tables. `task_close_all_fds` is an
  induction over the descriptors, `exception_kill` moves every use to `lost`.

Induction. The library's induction theorems have an operator as parameter, which no
installed prover instantiates. `NatFacts` derives from the well-foundedness of the numbers
that a *set* closed under successor is everything, and from that what a
recursive function computes (`RecursionExists`): so loops written as recursive functions
are within reach, one set per induction.

Only model-checked: liveness (`ReadyRuns`, `SleeperRuns`, `TerminatedReaped`), which the
prover cannot do; `CalendarIsChips`, which holds for the years of the instance only (the
chip takes 2100 for a leap year); `StampsNeverGoBack`; `VolumeSound`,
`CachedIsCopy` and `NeighboursKept` of `Files` (they speak of chains and of the bytes of sectors after every
partial failure); `NumbersSurvive` of `Text`; and everything about `Streams`.

## 5. Plan

1. A proof of `NumbersSurvive`.
2. A pointer-level model of `task_list` and of the slab freelist under the preemption of
   `init`: the hazards in `PROJECT.json` without a property.

### Not modelled

* Descriptor tables, interrupt stubs, the PIC and port I/O (`gdt.c`, `tss.c`, `idt.c`,
  `isr_vector.asm`, `pic.c`, `head.S`, `io.c`): hardware set-up; the models take from them
  that gates clear IF.
* CPU identification and one-time set-up (`cpuid.c`, `setup.c`), the serial mirror, register
  dumps, the font table: output or data.
* `src/runtime/cc-runtime.c`: third-party arithmetic support. Scripts and headers of
  constants.
* String and memory routines of both libraries are taken for what they compute; `atof`,
  `rand` and the wrappers around system calls are not modelled.
