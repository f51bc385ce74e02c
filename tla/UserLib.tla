------------------------------ MODULE UserLib ------------------------------
(***************************************************************************)
(* The allocator and the sort of the user library (userspace/lib/stdlib.c) *)
(* in one program.  Addresses are offsets into the static arena g_heap; a  *)
(* size_t wraps at SIZE_LIMIT.  uheap is the block list in address order,  *)
(* empty before the first malloc.                                          *)
(***************************************************************************)
EXTENDS Integers, Sequences, FiniteSets

CONSTANTS
    HEAP_SIZE,
    HDR,            \* bytes of a block header
    ALIGN,          \* 16
    SIZE_LIMIT,     \* 2^64
    Request,        \* sizes programs ask for
    Arrays,         \* what programs sort: sequences of [key, id]
    ElementSize,    \* the sizes of what they sort
    TMP_SIZE        \* 256: bytes of qsort's buffer for one element

\* What is sorted: the key the caller's comparison looks at, and which one it is.
Element == [key : Int, id : Int]

ASSUME UserLibAssumption ==
    /\ {HEAP_SIZE, HDR, ALIGN, SIZE_LIMIT} \subseteq Nat \ {0}
    /\ HEAP_SIZE > HDR /\ HEAP_SIZE < SIZE_LIMIT
    /\ HDR % ALIGN = 0 /\ HEAP_SIZE % ALIGN = 0 /\ SIZE_LIMIT % ALIGN = 0
    /\ Request \subseteq 0 .. SIZE_LIMIT - 1
    /\ \A a \in Arrays : a \in Seq(Element)
    /\ ElementSize \cup {TMP_SIZE} \subseteq Nat

VARIABLES
    uheap,      \* <<[at, size, free], ...>>
    ulive,      \* history: the pointers the program holds: [ptr -> bytes asked for]
    sorted      \* the last array sorted: [in, out, size]

libVars == <<uheap, ulive, sorted>>

ALIGN_UP(n) == (((n + ALIGN - 1) % SIZE_LIMIT) \div ALIGN) * ALIGN

heap_init == <<[at |-> 0, size |-> HEAP_SIZE - HDR, free |-> TRUE]>>

\* The first block that is large enough, split when the rest can hold a header
\* and a little more.  ptr is -1 when there is none.
malloc(h, asked) ==
    LET want == ALIGN_UP(IF asked = 0 THEN 1 ELSE asked)
        blocks == IF h = <<>> THEN heap_init ELSE h
        fits == {i \in DOMAIN blocks : blocks[i].free /\ blocks[i].size >= want}
        i == CHOOSE x \in fits : \A y \in fits : x <= y
        b == blocks[i]
        cut == IF b.size >= want + HDR + ALIGN
               THEN <<[at |-> b.at, size |-> want, free |-> FALSE],
                      [at |-> b.at + HDR + want, size |-> b.size - want - HDR, free |-> TRUE]>>
               ELSE <<[b EXCEPT !.free = FALSE]>>
    IN  IF fits = {} THEN [h |-> blocks, ptr |-> -1]
        ELSE [h |-> SubSeq(blocks, 1, i - 1) \o cut \o SubSeq(blocks, i + 1, Len(blocks)), ptr |-> b.at + HDR]

BlockOf(h, ptr) == CHOOSE i \in DOMAIN h : h[i].at = ptr - HDR

\* Block i absorbs the one behind it.
Absorb(h, i) ==
    SubSeq(h, 1, i - 1) \o <<[h[i] EXCEPT !.size = @ + HDR + h[i + 1].size]>> \o SubSeq(h, i + 2, Len(h))

\* Every free block behind it, then the one in front of it.
free_forward_only(h, ptr) ==
    LET i == BlockOf(h, ptr)
        marked == [h EXCEPT ![i].free = TRUE]
    IN  IF i < Len(marked) /\ marked[i + 1].free THEN Absorb(marked, i) ELSE marked
free(h, ptr) ==
    LET i == BlockOf(h, ptr)
        forward[n \in 0 .. Len(h)] ==
            IF n = 0 THEN [h EXCEPT ![i].free = TRUE]
            ELSE LET p == forward[n - 1]
                 IN  IF i < Len(p) /\ p[i + 1].free THEN Absorb(p, i) ELSE p
        merged == forward[Len(h)]
    IN  IF i > 1 /\ merged[i - 1].free THEN Absorb(merged, i - 1) ELSE merged

\* A product that wraps is refused.
calloc(h, n, size) ==
    LET total == (n * size) % SIZE_LIMIT
    IN  IF size # 0 /\ total \div size # n THEN [h |-> h, ptr |-> -1] ELSE malloc(h, total)

\* The program's calls.

Hold(ptr, asked) == [p \in DOMAIN ulive \cup {ptr} |-> IF p = ptr THEN asked ELSE ulive[p]]
Drop(f, ptr) == [p \in DOMAIN f \ {ptr} |-> f[p]]

CallMalloc(asked) ==
    LET r == malloc(uheap, asked)
    IN  /\ uheap' = r.h
        /\ ulive' = IF r.ptr = -1 THEN ulive ELSE Hold(r.ptr, asked)
        /\ UNCHANGED sorted

CallCalloc(n, size) ==
    LET r == calloc(uheap, n, size)
    IN  /\ uheap' = r.h
        /\ ulive' = IF r.ptr = -1 THEN ulive ELSE Hold(r.ptr, n * size)
        /\ UNCHANGED sorted

CallFree(ptr) ==
    /\ uheap' = free(uheap, ptr)
    /\ ulive' = Drop(ulive, ptr)
    /\ UNCHANGED sorted

\* In place when the block is large enough, else a new block and the old one freed.
realloc(ptr, size) ==
    LET big == uheap[BlockOf(uheap, ptr)].size >= ALIGN_UP(size)
        new == malloc(uheap, size)
    IN  /\ UNCHANGED sorted
        /\ \/ /\ size = 0
              /\ uheap' = free(uheap, ptr)
              /\ ulive' = Drop(ulive, ptr)
           \/ /\ size # 0 /\ big
              /\ ulive' = Hold(ptr, size)
              /\ UNCHANGED uheap
           \/ /\ size # 0 /\ ~big /\ new.ptr = -1
              /\ UNCHANGED <<uheap, ulive>>
           \/ /\ size # 0 /\ ~big /\ new.ptr # -1
              /\ uheap' = free(new.h, ptr)
              /\ ulive' = Drop(Hold(new.ptr, size), ptr)

\* Insertion: element i goes behind the last element of the sorted part that is
\* not greater.  Elements that do not fit the buffer are left as they are.
qsort_off_by_one(a, size) ==
    LET place[i \in 1 .. Len(a)] ==
            IF i = 1 THEN <<a[1]>>
            ELSE LET s == place[i - 1]
                     low == {j \in 1 .. i - 1 : s[j].key <= a[i].key} \cup {1}
                     at == CHOOSE j \in low : \A k \in low : k <= j
                 IN  SubSeq(s, 1, at) \o <<a[i]>> \o SubSeq(s, at + 1, i - 1)
    IN  IF size > TMP_SIZE \/ a = <<>> THEN a ELSE place[Len(a)]
qsort(a, size) ==
    LET place[i \in 1 .. Len(a)] ==
            IF i = 1 THEN <<a[1]>>
            ELSE LET s == place[i - 1]
                     low == {j \in 1 .. i - 1 : s[j].key <= a[i].key} \cup {0}
                     at == CHOOSE j \in low : \A k \in low : k <= j
                 IN  SubSeq(s, 1, at) \o <<a[i]>> \o SubSeq(s, at + 1, i - 1)
    IN  IF size > TMP_SIZE \/ a = <<>> THEN a ELSE place[Len(a)]

CallQsort(a, size) ==
    /\ sorted' = [in |-> a, out |-> qsort(a, size), size |-> size]
    /\ UNCHANGED <<uheap, ulive>>

LibInit ==
    /\ uheap = <<>>
    /\ ulive = <<>>
    /\ sorted = [in |-> <<>>, out |-> <<>>, size |-> 0]

\* A sort touches no block: it is tried before the first malloc only.
LibNext ==
    \/ \E asked \in Request : CallMalloc(asked)
    \/ \E n \in 1 .. 2, size \in Request : CallCalloc(n, size)
    \/ \E ptr \in DOMAIN ulive : CallFree(ptr)
    \/ \E ptr \in DOMAIN ulive, size \in Request : realloc(ptr, size)
    \/ uheap = <<>> /\ \E a \in Arrays, size \in ElementSize : CallQsort(a, size)

LibSpec == LibInit /\ [][LibNext]_libVars

-----------------------------------------------------------------------------

EndOf(b) == b.at + HDR + b.size

\* After any sequence of splits and merges the blocks tile the arena: no byte is
\* in two of them or in none; and two free neighbours are merged, so that a
\* program that frees everything has the whole arena again.
BlocksTile == uheap # <<>> =>
    /\ uheap[1].at = 0
    /\ \A i \in 1 .. Len(uheap) - 1 : EndOf(uheap[i]) = uheap[i + 1].at
    /\ EndOf(uheap[Len(uheap)]) = HEAP_SIZE
Coalesced == \A i \in 1 .. Len(uheap) - 1 : ~(uheap[i].free /\ uheap[i + 1].free)

\* A pointer the program holds is the payload of a block in use, with room for
\* what was asked; a request that wraps to 0 when it is rounded up
\* (stdlib.c:37) gets a block of no bytes.
HeldIsBacked ==
    \A p \in DOMAIN ulive : \E i \in DOMAIN uheap :
        /\ uheap[i].at + HDR = p
        /\ ~uheap[i].free
        /\ uheap[i].size >= ulive[p] \/ ulive[p] > SIZE_LIMIT - ALIGN

\* The arena is sound: the three together, for malloc, free, calloc and realloc.
ArenaSound == BlocksTile /\ Coalesced /\ HeldIsBacked

\* qsort leaves a rearrangement of the array in which no key is greater than
\* its successor's, if an element fits its buffer; an array of wider elements
\* comes back as it was, unsorted and without a word (stdlib.c:255).
QsortSorts ==
    /\ sorted.size <= TMP_SIZE => \A i \in 1 .. Len(sorted.out) - 1 : sorted.out[i].key <= sorted.out[i + 1].key
    /\ sorted.size > TMP_SIZE => sorted.out = sorted.in
    /\ Len(sorted.out) = Len(sorted.in)
    /\ {sorted.out[i] : i \in DOMAIN sorted.out} = {sorted.in[i] : i \in DOMAIN sorted.in}

=============================================================================
