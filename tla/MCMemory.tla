------------------------------ MODULE MCMemory ------------------------------
(* Memory, in four parts.  Buddy: nine pages, orders 0 to 2, four boot maps.  *)
(* Boot: fourteen pages, two of them low.  Heap: six pages, a cache of        *)
(* two-object one-page slabs and one of one-object two-page slabs.  AddrSpace:*)
(* pages of two words under four levels of tables.  They share no state; a    *)
(* behaviour exercises one of them, the others rest.                          *)
EXTENDS Buddy, Boot, Heap, AddrSpace

CONSTANT MaxSteps           \* steps of a behaviour of the address spaces
VARIABLES part, steps

MCSize == [k \in Order |-> 2^k]
\* Memory with holes: one run of pages, a hole that breaks alignment, and two
\* runs that are not a power of two long; and memory that is one block.
MCBootMaps == { 0..3, {1, 2, 3, 4, 5, 6, 7}, {0, 1, 2, 3, 5, 6, 7}, {2, 3, 5, 6, 7} }

\* A hole at the end of low memory and pages the firmware gives back; a run that
\* begins in low memory.
MCFirmwareMaps ==
    {[p \in 0..13 |-> IF p = 2 THEN "reserved" ELSE IF p = 3 THEN "services" ELSE "conventional"],
     [p \in 0..13 |-> IF p = 11 THEN "reserved" ELSE "conventional"]}

MCBlock == {<<p, 0>> : p \in 0..5} \cup {<<0, 1>>, <<2, 1>>, <<4, 1>>}
MCspan == [b \in MCBlock |-> b[1]..(b[1] + 2^b[2] - 1)]
MCCache == {"small", "large"}
MCobject_size == [c \in MCCache |-> IF c = "small" THEN 8 ELSE 32]
MCobjects_per_slab == [c \in MCCache |-> IF c = "small" THEN 2 ELSE 1]
MCslab_blocks ==
    [c \in MCCache |-> {b \in MCBlock : b[2] = IF c = "small" THEN 0 ELSE 1}]

\* A file with a hole between segments and a .bss tail, one whose segments
\* overlap in a page, one that is not page aligned, one that covers the stack.
Seg(va, memsz, filesz, offset) ==
    [load |-> TRUE, va |-> va, memsz |-> memsz, filesz |-> filesz, offset |-> offset]
MCImages == {<<Seg(0, 3, 3, 1), [Seg(2, 1, 1, 0) EXCEPT !.load = FALSE], Seg(4, 4, 1, 4)>>,
             <<Seg(2, 3, 2, 1), Seg(4, 1, 1, 3)>>,
             <<Seg(0, 2, 2, 0), Seg(3, 1, 1, 2)>>,
             <<Seg(8, 6, 0, 2)>>}

\* A part that rests starts in one of its initial states.
MCInit ==
    /\ Init /\ BootMemInit /\ HeapInit /\ SpaceInit
    /\ part \in {"buddy", "boot", "heap", "space"} /\ steps = 0
    /\ part # "boot" => use = CHOOSE u \in FirmwareMaps : TRUE
    /\ part # "buddy" => {p \in Page : flags[p] = "FREE"} = 0..3
MCNext ==
    /\ UNCHANGED part
    /\ \/ part = "buddy" /\ Next /\ UNCHANGED <<bootVars, heapVars, spaceVars, steps>>
       \/ part = "boot" /\ BootMemNext /\ UNCHANGED <<vars, heapVars, spaceVars, steps>>
       \/ part = "heap" /\ HeapNext /\ UNCHANGED <<vars, bootVars, spaceVars, steps>>
       \/ part = "space" /\ steps < MaxSteps /\ SpaceNext /\ steps' = steps + 1
          /\ UNCHANGED <<vars, bootVars, heapVars>>
MCSpec == MCInit /\ [][MCNext]_<<vars, bootVars, heapVars, spaceVars, part, steps>>
=============================================================================
