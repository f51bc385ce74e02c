-------------------------------- MODULE Boot --------------------------------
(***************************************************************************)
(* Memory at boot: the UEFI loader (boot/main.c) allocates the kernel's    *)
(* memory, takes the firmware's memory map and leaves boot services; the   *)
(* kernel copies the map (lizard/boot.c), places the early heap            *)
(* (lizard/early_alloc.c) and buddy_init (lizard/buddy.c) marks the pages  *)
(* that become free.                                                       *)
(*                                                                         *)
(* The firmware is external: what each page is used for, and a map that is *)
(* one descriptor per run of pages of one use.  It may change the map at   *)
(* any time; ExitBootServices refuses a key that is older than the last    *)
(* change, and GetMemoryMap may fail.  Addresses are pages, those of the   *)
(* early heap bytes.                                                       *)
(***************************************************************************)
EXTENDS Integers, Sequences, FiniteSets

CONSTANTS
    NPhys,              \* pages of physical memory
    FirmwareMaps,       \* uses of the pages at power-up: [0 .. NPhys - 1 -> use]
    LOW,                \* pages below 1 MiB
    KernelSpan,         \* pages of the kernel image
    KALIGN,             \* pages of its alignment
    ATTEMPTS,           \* 8
    BI_MMAP_MAX,        \* entries the kernel copies
    PAGE_BYTES,
    PAGE_STRUCT,        \* sizeof(struct buddy_page)
    MaxEvents           \* changes of the map by the firmware

Use == {"conventional", "services", "loader", "reserved"}

ASSUME BootMemAssumption ==
    /\ {NPhys, KernelSpan, KALIGN, ATTEMPTS, BI_MMAP_MAX, PAGE_BYTES, PAGE_STRUCT} \subseteq Nat \ {0}
    /\ LOW \in Nat
    /\ FirmwareMaps \subseteq [0 .. NPhys - 1 -> Use]

VARIABLES
    step,               \* "load", "map", "exit", "kernel", "early", "buddy", "up", "dead"
    use,                \* firmware: what each page is used for
    events,             \* firmware: changes so far, the map key
    exited,             \* boot services are over
    attempt,
    key,                \* map_key of the last map taken
    mmap,               \* bi->mmap: <<[base, len, usable], ...>>
    kernel,             \* bi->kernel_phys_base, in pages
    early,              \* [base, end, current] of the early heap, in bytes
    free_pages,         \* pages buddy_init marks free
    noMap               \* history: the last attempt could not read the map

bootVars == <<step, use, events, exited, attempt, key, mmap, kernel, early, free_pages, noMap>>

Pages == 0 .. NPhys - 1
Up(n, a) == ((n + a - 1) \div a) * a

-----------------------------------------------------------------------------
(* The firmware. *)

Runs(n) == {p \in Pages : \A q \in p .. p + n - 1 : q \in Pages /\ use[q] = "conventional"}
Taken(u, p, n) == [q \in Pages |-> IF q \in p .. p + n - 1 THEN "loader" ELSE u[q]]

\* The descriptors in address order.
Descriptors(u) ==
    LET starts == {p \in Pages : p = 0 \/ u[p] # u[p - 1]}
        at[i \in 1 .. Cardinality(starts)] ==
            CHOOSE p \in starts : Cardinality({q \in starts : q < p}) = i - 1
        after(p) == {q \in starts \cup {NPhys} : q > p}
        end(p) == CHOOSE q \in after(p) : \A r \in after(p) : q <= r
    IN  [i \in 1 .. Cardinality(starts) |->
            [start |-> at[i], pages |-> end(at[i]) - at[i], type |-> u[at[i]]]]

\* A driver allocates or frees a page of its own.
FirmwareEvent(p) ==
    /\ ~exited /\ step \in {"map", "exit"}
    /\ events < MaxEvents
    /\ use[p] \in {"conventional", "reserved"}
    /\ use' = [use EXCEPT ![p] = IF @ = "reserved" THEN "conventional" ELSE "reserved"]
    /\ events' = events + 1
    /\ UNCHANGED <<step, exited, attempt, key, mmap, kernel, early, free_pages, noMap>>

-----------------------------------------------------------------------------
(* The loader. *)

\* The kernel's segments need KernelSpan pages from an aligned page on, within
\* an allocation that is larger by the alignment; then one page stands for
\* boot_info with the map, one for head.S's tables.
load_kernel ==
    /\ step = "load"
    /\ \E raw \in Runs(KernelSpan + KALIGN) :
         LET u1 == Taken(use, raw, KernelSpan + KALIGN)
         IN  \E info \in Pages, scratch \in Pages :
               /\ info < scratch
               /\ u1[info] = "conventional" /\ u1[scratch] = "conventional"
               /\ use' = Taken(Taken(u1, info, 1), scratch, 1)
               /\ kernel' = Up(raw, KALIGN)
    /\ step' = "map"
    /\ UNCHANGED <<events, exited, attempt, key, mmap, early, free_pages, noMap>>

xlate_type_loader(type) == type # "reserved"
xlate_type(type) == type \in {"conventional", "services"}

\* What the kernel is told: a usable descriptor that starts in low memory is
\* withheld.
BuildMap(u) ==
    LET d == Descriptors(u)
    IN  [i \in DOMAIN d |-> [base |-> d[i].start, len |-> d[i].pages,
                             usable |-> xlate_type(d[i].type) /\ d[i].start >= LOW]]

\* One attempt up to ExitBootServices.  When GetMemoryMap fails the attempt is
\* over, and after the last one the loader goes on all the same.
GetMemoryMap ==
    /\ step = "map"
    /\ \/ /\ mmap' = BuildMap(use)
          /\ key' = events
          /\ step' = "exit"
          /\ UNCHANGED <<attempt, noMap>>
       \/ /\ attempt' = attempt + 1
          /\ noMap' = (attempt' = ATTEMPTS)
          /\ step' = IF attempt' = ATTEMPTS THEN "kernel" ELSE "map"
          /\ UNCHANGED <<mmap, key>>
    /\ UNCHANGED <<use, events, exited, kernel, early, free_pages>>

ExitBootServices_again ==
    /\ step = "exit"
    /\ \/ /\ key = events
          /\ exited' = TRUE /\ step' = "kernel"
          /\ UNCHANGED <<attempt, key>>
       \/ /\ key # events
          /\ attempt' = attempt + 1
          /\ step' = IF attempt' = ATTEMPTS THEN "dead" ELSE "exit"
          /\ key' = events
          /\ UNCHANGED exited
    /\ UNCHANGED <<use, events, mmap, kernel, early, free_pages, noMap>>
ExitBootServices ==
    /\ step = "exit"
    /\ \/ /\ key = events
          /\ exited' = TRUE /\ step' = "kernel"
          /\ UNCHANGED attempt
       \/ /\ key # events
          /\ attempt' = attempt + 1
          /\ step' = IF attempt' = ATTEMPTS THEN "dead" ELSE "map"
          /\ UNCHANGED exited
    /\ UNCHANGED <<use, events, key, mmap, kernel, early, free_pages, noMap>>

-----------------------------------------------------------------------------
(* The kernel. *)

boot_info_relocate ==
    /\ step = "kernel"
    /\ mmap' = SubSeq(mmap, 1, IF Len(mmap) < BI_MMAP_MAX THEN Len(mmap) ELSE BI_MMAP_MAX)
    /\ step' = "early"
    /\ UNCHANGED <<use, events, exited, attempt, key, kernel, early, free_pages, noMap>>

Usable == {i \in DOMAIN mmap : mmap[i].usable}
detect_page_count ==
    LET ends == {mmap[i].base + mmap[i].len : i \in Usable} \cup {0}
    IN  CHOOSE e \in ends : \A x \in ends : x <= e

\* The first of the largest usable regions; without a map the kernel stops.
early_alloc_init ==
    /\ step = "early"
    /\ IF Len(mmap) = 0
       THEN step' = "dead" /\ UNCHANGED early
       ELSE LET largest == {i \in Usable : \A j \in Usable : mmap[j].len <= mmap[i].len}
                i == CHOOSE x \in largest : \A y \in largest : x <= y
            IN  /\ early' = IF Usable = {} THEN [base |-> 0, end |-> 0, current |-> 0]
                            ELSE [base |-> mmap[i].base * PAGE_BYTES,
                                  end |-> (mmap[i].base + mmap[i].len) * PAGE_BYTES,
                                  current |-> mmap[i].base * PAGE_BYTES]
                /\ step' = "buddy"
    /\ UNCHANGED <<use, events, exited, attempt, key, mmap, kernel, free_pages, noMap>>

\* The pages of the early heap, up to its current end.
EarlyPages_down(e) == (e.base \div PAGE_BYTES) .. (e.current \div PAGE_BYTES) - 1
EarlyPages(e) == (e.base \div PAGE_BYTES) .. (Up(e.current, PAGE_BYTES) \div PAGE_BYTES) - 1

\* The page structures come from the early heap, which stops the kernel when it
\* is full.  Free: the usable pages outside the kernel and the early heap.
buddy_init_marks ==
    LET next == early.current + detect_page_count * PAGE_STRUCT
        e == [early EXCEPT !.current = next]
        kernelPages == kernel .. kernel + KernelSpan - 1
    IN  /\ step = "buddy"
        /\ IF next > early.end
           THEN step' = "dead" /\ UNCHANGED <<early, free_pages>>
           ELSE /\ early' = e
                /\ free_pages' = (UNION {mmap[i].base .. mmap[i].base + mmap[i].len - 1 : i \in Usable})
                                 \ (kernelPages \cup EarlyPages(e))
                /\ step' = "up"
        /\ UNCHANGED <<use, events, exited, attempt, key, mmap, kernel, noMap>>

BootMemInit ==
    /\ step = "load"
    /\ use \in FirmwareMaps
    /\ events = 0 /\ exited = FALSE /\ attempt = 0 /\ key = -1
    /\ mmap = <<>> /\ kernel = 0 /\ early = [base |-> 0, end |-> 0, current |-> 0]
    /\ free_pages = {} /\ noMap = FALSE

BootMemNext ==
    \/ load_kernel
    \/ \E p \in Pages : FirmwareEvent(p)
    \/ GetMemoryMap
    \/ ExitBootServices
    \/ boot_info_relocate
    \/ early_alloc_init
    \/ buddy_init_marks

BootMemSpec == BootMemInit /\ [][BootMemNext]_bootVars

-----------------------------------------------------------------------------

\* The map the kernel gets is the firmware's at the moment it let go, however
\* often it changed in between; only a last attempt whose GetMemoryMap fails
\* enters the kernel with an older map or none (boot/main.c:316).
MapIsCurrent == step \in {"kernel", "early", "buddy", "up"} /\ ~noMap =>
    /\ exited
    /\ \A i \in DOMAIN mmap : mmap[i] = BuildMap(use)[i]

InEarly(p) == p * PAGE_BYTES < early.current /\ early.base < (p + 1) * PAGE_BYTES

\* The pages that become free are the ones nobody uses: not the kernel image, not
\* the early heap with the page structures, not what the loader handed over
\* (boot_info, the map), not the firmware's, not low memory.  And every page that
\* nobody uses becomes free, unless the run of pages it is in begins in low
\* memory or lies past the entries the kernel copies (efi_main, boot_info_relocate,
\* early_alloc_init, buddy_init).
FreeIsUnused == step = "up" /\ exited =>
    /\ \A p \in kernel .. kernel + KernelSpan - 1 : use[p] = "loader"
    /\ \A p \in free_pages : use[p] \in {"conventional", "services"} /\ p >= LOW /\ ~InEarly(p)
    /\ LET d == Descriptors(use)
           told == {i \in DOMAIN d : i <= BI_MMAP_MAX /\ d[i].start >= LOW /\ d[i].type \in {"conventional", "services"}}
       IN  \A i \in told : \A p \in d[i].start .. d[i].start + d[i].pages - 1 : p \in free_pages \/ InEarly(p)
=============================================================================
