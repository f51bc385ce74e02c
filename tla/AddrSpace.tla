----------------------------- MODULE AddrSpace -----------------------------
(***************************************************************************)
(* Address spaces: the page tables (lizard/pgtable.c, lizard/vmm.c), the   *)
(* memory task_create and load_elf build for a program (lizard/task.c,     *)
(* lizard/loader.c) and its teardown by the reaper (lizard/sched.c).       *)
(*                                                                         *)
(* A frame is FANOUT words (512 in the hardware) and holds a page table or *)
(* data; a word is a frame number when it is a present table entry, 0, or  *)
(* a negative number when it is data.  A virtual address is a number of    *)
(* words; the upper half belongs to the kernel and its tables are shared   *)
(* by all spaces.  Frames come from the page-frame allocator, which        *)
(* promises distinct ones (module FramePool): the lowest free one stands   *)
(* for any.  A failed buddy_alloc is not looked at: the kernel faults on   *)
(* address 0 and stops.                                                    *)
(***************************************************************************)
EXTENDS Integers, Sequences, FiniteSets

CONSTANTS
    FANOUT,             \* words of a page, entries of a table
    LEVELS,             \* 4: PML4, PDPT, PD, PT
    NFrames,            \* frames of the allocator
    Slots,              \* user tasks, numbers from 1
    STACK_PAGES,        \* USER_STACK_PAGES
    Images,             \* ELF files: sequences of segments
    ArgWords,           \* sizes of the argument block
    MaxReads            \* which read of a load may fail

ASSUME AddrSpaceAssumption ==
    /\ {FANOUT, LEVELS, STACK_PAGES} \subseteq Nat \ {0} /\ NFrames \in Nat
    /\ FANOUT % 2 = 0 /\ LEVELS > 1
    /\ Slots \subseteq Nat \ {0}
    /\ ArgWords \subseteq Nat /\ \A n \in ArgWords : n <= STACK_PAGES * FANOUT
    /\ Images \subseteq Seq([load : BOOLEAN, va : Nat, memsz : Nat, filesz : Nat, offset : Nat])

VARIABLES
    mem,                \* the words of every frame
    taken,              \* frames in use
    leaked,             \* history: frames whose last mapping was overwritten
    pml4,               \* pml4[t]: task->pml4, 0 when there is no such task
    kstack,             \* kstack[t]: its kernel stack, one block
    tstate,             \* "none", "new" (ready, not run yet), "ran", "dead"
    loaded,             \* history: the image and the argument size of a task
    current,            \* current_task; 0 is idle
    halted              \* the kernel has stopped

spaceVars == <<mem, taken, leaked, pml4, kstack, tstate, loaded, current, halted>>

Frame == 1 .. NFrames
Word == 0 .. FANOUT - 1
TaskId == {0} \cup Slots
Reach[l \in 0 .. LEVELS] == IF l = 0 THEN 1 ELSE FANOUT * Reach[l - 1]   \* pages below an entry of level l
NPages == Reach[LEVELS]
KERNEL_PML4_INDEX == FANOUT \div 2
KernelPage == {(FANOUT - 1) * Reach[LEVELS - 1], NPages - 1}
StackBase == (NPages \div 2) - STACK_PAGES       \* USER_STACK_BASE, in pages
StackTop == (StackBase + STACK_PAGES) * FANOUT

\* The stack fits below the kernel, and programs are linked there: load_elf
\* takes the addresses of a file as they are.
ASSUME UserHalfAssumption ==
    /\ STACK_PAGES <= NPages \div 2
    /\ \A img \in Images : \A i \in DOMAIN img : img[i].va + img[i].memsz <= (NPages \div 2) * FANOUT

DIRTY == -1000      \* what programs leave in their memory
ARG == -2000
FileWord(k) == -1 - k
Present(e) == e > 0
PhysOf(vp) == NFrames + 1 + vp      \* what a kernel page maps: not from the allocator

\* Index of virtual page vp in a table of level l (3 = PML4 ... 0 = PT).
IndexAt(vp, l) == (vp \div Reach[l]) % FANOUT

-----------------------------------------------------------------------------
(* Page tables.  s carries mem, taken, leaked, whether the kernel still runs *)
(* (ok), and in f and t the frame and table at hand.                         *)

AndThen(s, Op(_)) == IF s.ok THEN Op(s) ELSE s

buddy_alloc_frame(s) ==
    LET room == Frame \ s.taken
        f == CHOOSE x \in room : \A y \in room : x <= y
    IN  IF room = {} THEN [s EXCEPT !.ok = FALSE] ELSE [s EXCEPT !.taken = @ \cup {f}, !.f = f]

Zeroed(s) == [s EXCEPT !.mem[s.f] = [w \in Word |-> 0]]
pgtable_alloc_table(s) == AndThen(buddy_alloc_frame(s), Zeroed)

\* The kernel half is copied.
pgtable_create(s, kernel) ==
    AndThen(pgtable_alloc_table(s), LAMBDA r :
        [r EXCEPT !.mem[r.f] = [w \in Word |-> IF w >= KERNEL_PML4_INDEX THEN r.mem[kernel][w] ELSE 0]])

\* Tables on the way are made when missing; an entry that is there already is
\* overwritten.
pgtable_map(s, root, vp, frame) ==
    LET down[k \in 0 .. LEVELS - 1] ==
            IF k = 0 THEN [s EXCEPT !.t = root]
            ELSE AndThen(down[k - 1], LAMBDA r :
                LET i == IndexAt(vp, LEVELS - k)
                IN  IF Present(r.mem[r.t][i]) THEN [r EXCEPT !.t = r.mem[r.t][i]]
                    ELSE AndThen(pgtable_alloc_table(r), LAMBDA q :
                             [q EXCEPT !.mem[r.t][i] = q.f, !.t = q.f]))
    IN  AndThen(down[LEVELS - 1], LAMBDA r :
            [r EXCEPT !.mem[r.t][IndexAt(vp, 0)] = frame,
                      !.leaked = @ \cup ({r.mem[r.t][IndexAt(vp, 0)]} \ {0})])

\* The frame vp maps to, 0 when it maps to none.
pgtable_kva(m, root, vp) ==
    LET walk[k \in 0 .. LEVELS] ==
            IF k = 0 THEN root
            ELSE IF walk[k - 1] = 0 THEN 0 ELSE m[walk[k - 1]][IndexAt(vp, LEVELS - k)]
    IN  walk[LEVELS]

\* A frame at page vp of a space; s.f is the frame.
vmm_alloc(s, root, vp) ==
    AndThen(buddy_alloc_frame(s), LAMBDA r :
        [pgtable_map(r, root, vp, r.f) EXCEPT !.f = r.f])

\* The entries teardown visits, level by level: cells[k] those k levels below
\* the root, of the root only the user half.
CellsBelow(m, root, end) ==
    LET cells[k \in 0 .. LEVELS - 1] ==
            IF k = 0 THEN {<<root, w>> : w \in {x \in Word : x < end /\ Present(m[root][x])}}
            ELSE {d \in {m[c[1]][c[2]] : c \in cells[k - 1]} \X Word : Present(m[d[1]][d[2]])}
    IN  UNION {cells[k] : k \in 0 .. LEVELS - 1}

\* The frames of the leaves and of the tables, each freed once per entry.
pgtable_free_level_all(m, root) == {m[c[1]][c[2]] : c \in CellsBelow(m, root, FANOUT)} \cap Frame
pgtable_free_level_tables(m, root) ==
    {m[c[1]][c[2]] : c \in {x \in CellsBelow(m, root, KERNEL_PML4_INDEX) :
                               \E w \in Word : Present(m[m[x[1]][x[2]]][w])}}
pgtable_free_level(m, root) == {m[c[1]][c[2]] : c \in CellsBelow(m, root, KERNEL_PML4_INDEX)}

pgtable_free_tree(m, root) == pgtable_free_level(m, root) \cup {root}

\* Boot: the kernel's own table, every kernel page mapped.
Blank == [mem |-> [f \in Frame |-> [w \in Word |-> DIRTY]], taken |-> {}, leaked |-> {}, ok |-> TRUE,
          f |-> 0, t |-> 0, root |-> 0, ks |-> 0, rc |-> 0, read |-> 0]
kernel_pml4 == pgtable_alloc_table(Blank).f
vmm_init ==
    LET map[p \in 0 .. NPages] ==
            IF p = 0 THEN pgtable_alloc_table(Blank)
            ELSE IF p - 1 \in KernelPage THEN pgtable_map(map[p - 1], kernel_pml4, p - 1, PhysOf(p - 1))
            ELSE map[p - 1]
    IN  map[NPages]

\* There is memory for the kernel's tables and for idle.
ASSUME BootSpaceAssumption == buddy_alloc_frame(pgtable_create(vmm_init, kernel_pml4)).ok

-----------------------------------------------------------------------------
(* A new program. *)

\* The stack pages, zeroed.  s.root is the new space, s.ks the kernel stack.
task_create_space(s) ==
    LET made == pgtable_create(s, kernel_pml4)
        ks == AndThen(made, LAMBDA r : [buddy_alloc_frame(r) EXCEPT !.t = r.f])
        stack[n \in 0 .. STACK_PAGES] ==
            IF n = 0 THEN [ks EXCEPT !.root = ks.t, !.ks = ks.f]
            ELSE AndThen(stack[n - 1], LAMBDA r :
                     AndThen(vmm_alloc(r, r.root, StackBase + n - 1), Zeroed))
    IN  stack[STACK_PAGES]

\* The pages of the loadable segments in file order; a segment that is not page
\* aligned ends the list.
PagesOf(img) ==
    LET page(seg, j) == [vp |-> (seg.va \div FANOUT) + j, from |-> seg.offset + j * FANOUT,
                         fill |-> seg.filesz - j * FANOUT, bad |-> FALSE]
        of(seg) == IF ~seg.load \/ seg.memsz = 0 THEN <<>>
                   ELSE IF seg.va % FANOUT # 0 THEN <<[vp |-> 0, from |-> 0, fill |-> 0, bad |-> TRUE]>>
                   ELSE [j \in 1 .. (seg.memsz + FANOUT - 1) \div FANOUT |-> page(seg, j - 1)]
        all[i \in 0 .. Len(img)] == IF i = 0 THEN <<>> ELSE all[i - 1] \o of(img[i])
    IN  all[Len(img)]

\* One page: a frame, zeroed, then the part of it the file has.  s.read counts
\* down to the read that fails.
LoadPage_dirty(s, root, p) ==
    AndThen(vmm_alloc(s, root, p.vp), LAMBDA r :
        [r EXCEPT !.mem[r.f] = [w \in Word |-> IF w < p.fill THEN FileWord(p.from + w) ELSE @[w]],
                  !.read = IF p.fill > 0 THEN @ - 1 ELSE @])
LoadPage(s, root, p) ==
    AndThen(vmm_alloc(s, root, p.vp), LAMBDA q :
        LET r == Zeroed(q)
        IN  IF p.fill <= 0 THEN r
            ELSE IF s.read = 1 THEN [r EXCEPT !.rc = -1]
            ELSE [r EXCEPT !.mem[r.f] = [w \in Word |-> IF w < p.fill THEN FileWord(p.from + w) ELSE 0],
                           !.read = @ - 1])

\* The argument block at the top of the stack, through the page tables.
setup_user_stack(s, root, n) ==
    LET put[k \in 0 .. n] ==
            IF k = 0 THEN s
            ELSE LET va == StackTop - k
                 IN  [put[k - 1] EXCEPT
                         !.mem[pgtable_kva(s.mem, root, va \div FANOUT)][va % FANOUT] = ARG]
    IN  put[n]

\* Two reads for the headers; then page by page until one fails.
load_elf(s, root, img, args) ==
    LET pages == PagesOf(img)
        step[n \in 0 .. Len(pages)] ==
            IF n = 0 THEN [s EXCEPT !.read = @ - 2, !.rc = IF s.read \in {1, 2} THEN -1 ELSE 0]
            ELSE LET r == step[n - 1]
                 IN  IF ~r.ok \/ r.rc # 0 THEN r
                     ELSE IF pages[n].bad THEN [r EXCEPT !.rc = -1]
                     ELSE LoadPage(r, root, pages[n])
        end == step[Len(pages)]
    IN  IF end.ok /\ end.rc = 0 THEN setup_user_stack(end, root, args) ELSE end

\* A load that fails leaves a dead task to the reaper.
spawn(t, img, args, read) ==
    LET s == [Blank EXCEPT !.mem = mem, !.taken = taken, !.leaked = leaked, !.read = read]
        made == task_create_space(s)
        r == AndThen(made, LAMBDA x : load_elf(x, x.root, img, args))
    IN  /\ tstate[t] = "none"
        /\ \/ /\ r.ok
              /\ mem' = r.mem /\ taken' = r.taken /\ leaked' = r.leaked
              /\ pml4' = [pml4 EXCEPT ![t] = r.root]
              /\ kstack' = [kstack EXCEPT ![t] = r.ks]
              /\ tstate' = [tstate EXCEPT ![t] = IF r.rc = 0 THEN "new" ELSE "dead"]
              /\ loaded' = [loaded EXCEPT ![t] = [img |-> img, args |-> args]]
              /\ UNCHANGED <<current, halted>>
           \/ /\ ~r.ok
              /\ halted' = TRUE
              /\ UNCHANGED <<mem, taken, leaked, pml4, kstack, tstate, loaded, current>>

-----------------------------------------------------------------------------
(* Running and ending. *)

NoImage == [img |-> <<>>, args |-> 0]
exit_task ==
    /\ current # 0
    /\ tstate[current] = "ran"
    /\ tstate' = [tstate EXCEPT ![current] = "dead"]
    /\ UNCHANGED <<mem, taken, leaked, pml4, kstack, loaded, current, halted>>

\* The pages of the user half a program can write.
UserFrames(m, root) == {pgtable_kva(m, root, vp) : vp \in 0 .. (NPages \div 2) - 1} \ {0}

\* scheduler: the reaper first, which spares the current task, then the switch;
\* the program that runs now writes all over its memory.
schedule(next) ==
    LET dead == {t \in Slots \ {current} : tstate[t] = "dead"}
        gone == UNION {pgtable_free_tree(mem, pml4[t]) \cup {kstack[t]} : t \in dead}
        user == IF next = 0 THEN {} ELSE UserFrames(mem, pml4[next])
    IN  /\ next = 0 \/ tstate[next] \in {"new", "ran"}
        /\ taken' = taken \ gone
        /\ mem' = [f \in Frame |-> IF f \in user THEN [w \in Word |-> DIRTY] ELSE mem[f]]
        /\ pml4' = [t \in TaskId |-> IF t \in dead THEN 0 ELSE pml4[t]]
        /\ kstack' = [t \in TaskId |-> IF t \in dead THEN 0 ELSE kstack[t]]
        /\ tstate' = [t \in TaskId |-> IF t \in dead THEN "none" ELSE IF t = next /\ t # 0 THEN "ran" ELSE tstate[t]]
        /\ loaded' = [t \in Slots |-> IF t \in dead THEN NoImage ELSE loaded[t]]
        /\ current' = next
        /\ UNCHANGED <<leaked, halted>>

\* idle has a space of its own, with the kernel half only.
SpaceInit ==
    LET s == pgtable_create(vmm_init, kernel_pml4)
        ks == buddy_alloc_frame(s)
    IN  /\ mem = s.mem
        /\ taken = ks.taken
        /\ leaked = {}
        /\ pml4 = [t \in TaskId |-> IF t = 0 THEN s.f ELSE 0]
        /\ kstack = [t \in TaskId |-> IF t = 0 THEN ks.f ELSE 0]
        /\ tstate = [t \in TaskId |-> IF t = 0 THEN "ran" ELSE "none"]
        /\ loaded = [t \in Slots |-> NoImage]
        /\ current = 0
        /\ halted = FALSE

SpaceNext ==
    /\ ~halted
    /\ \/ \E t \in Slots, img \in Images, args \in ArgWords, read \in 0 .. MaxReads : spawn(t, img, args, read)
       \/ exit_task
       \/ \E t \in TaskId : schedule(t)

SpaceSpec == SpaceInit /\ [][SpaceNext]_spaceVars

-----------------------------------------------------------------------------

LiveSpaces == {t \in TaskId : pml4[t] # 0}
CellsOf(t) == CellsBelow(mem, pml4[t], KERNEL_PML4_INDEX)
Owned(t) == {mem[c[1]][c[2]] : c \in CellsOf(t)} \cup {pml4[t], kstack[t]}
KernelTables == vmm_init.taken

\* The frames in use are those of the kernel and of the live tasks, and each
\* has one owner and one entry that names it: nothing is lost when a load fails
\* half way or a task is reaped, nothing is freed while mapped, no frame is in
\* two spaces.  Only a segment that covers a page of an earlier one or of the
\* stack loses the frame it replaces.
FramesAccounted ==
    /\ taken = KernelTables \cup leaked \cup UNION {Owned(t) : t \in LiveSpaces}
    /\ \A t \in LiveSpaces : Cardinality(Owned(t)) = Cardinality(CellsOf(t)) + 2
    /\ \A t, u \in LiveSpaces : t # u => Owned(t) \cap Owned(u) = {}
    /\ \A t \in LiveSpaces : Owned(t) \cap KernelTables = {}

\* Whatever was reaped, the space the processor runs in still maps the kernel,
\* and so does every other: the shared tables are never freed or changed.
KernelMapped ==
    /\ \A t \in LiveSpaces, vp \in KernelPage : pgtable_kva(mem, pml4[t], vp) = PhysOf(vp)
    /\ KernelTables \cup {pml4[current]} \subseteq taken

\* The segments that cover a page; the last of them counts.
Covers(seg, vp) == /\ seg.load /\ seg.memsz > 0
                   /\ seg.va \div FANOUT <= vp
                   /\ vp * FANOUT < seg.va + seg.memsz
Over(img, vp) == {i \in DOMAIN img : Covers(img[i], vp)}

\* What word w of page vp has to hold when the program starts.
Due(img, args, vp, w) ==
    LET at == vp * FANOUT + w
        last == img[CHOOSE i \in Over(img, vp) : \A j \in Over(img, vp) : j <= i]
    IN  IF at >= StackTop - args THEN ARG
        ELSE IF Over(img, vp) # {} /\ at - last.va < last.filesz THEN FileWord(last.offset + at - last.va)
        ELSE 0
Exact(m, root, img, args) ==
    \A vp \in 0 .. (NPages \div 2) - 1 :
        LET frame == pgtable_kva(m, root, vp)
        IN  IF Over(img, vp) = {} /\ vp < StackBase THEN frame = 0
            ELSE frame # 0 /\ \A w \in Word : m[frame][w] = Due(img, args, vp, w)

\* A program starts with what its file says: each word of a loaded page from
\* the file or 0, the stack 0 below the arguments; nothing a dead program left
\* in a frame shows, and no other page is mapped.
ImageExact == \A t \in Slots : tstate[t] = "new" => Exact(mem, pml4[t], loaded[t].img, loaded[t].args)

=============================================================================
