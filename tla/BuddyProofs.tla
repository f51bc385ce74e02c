----------------------------- MODULE BuddyProofs -----------------------------
(* The page-frame allocator hands no frame out twice and loses none. *)
EXTENDS Buddy, NatFacts

\* Orders and sizes: a larger order is at least twice as large.
LEMMA SizeFacts ==
    /\ Order \subseteq Nat /\ Page \subseteq Nat /\ 0 \in Order
    /\ \A k \in Order : Size[k] \in Nat /\ Size[k] >= 1
    /\ \A j, k \in Order : j <= k => Size[j] <= Size[k]
<1>1. Order \subseteq Nat /\ Page \subseteq Nat /\ 0 \in Order
  BY SizeAssumption DEF Order, Page
<1>2. \A k \in Order : Size[k] \in Nat /\ Size[k] >= 1
  BY SizeAssumption
<1>3. ASSUME NEW j \in Order, NEW k \in Order, j <= k PROVE Size[j] <= Size[k]
  <2>1. j \in Nat /\ k \in Nat /\ Size[j] \in Nat /\ Size[k] \in Nat
    BY <1>1, <1>2
  <2>2. CASE j = k
    BY <2>1, <2>2
  <2>3. CASE j < k
    BY <2>1, <2>3, SizeAssumption
  <2> QED BY <1>3, <2>1, <2>2, <2>3
<1> QED BY <1>1, <1>2, <1>3

\* The pages of a block.
LEMMA SpanFacts ==
    ASSUME NEW p \in Page, NEW k \in Order, NEW q \in Page
    PROVE  q \in Span(p, k) <=> p <= q /\ q < p + Size[k]
BY SizeFacts DEF Span, Page

\* A block is a pair.
LEMMA BlockPair == ASSUME NEW h \in Block PROVE \E q \in Page, j \in Order : h = <<q, j>>
BY SMT DEF Block

\* The halves split off a block of order i, cut down to order k, cover what is
\* left of it.
LEMMA SplitCovers ==
    ASSUME NEW k \in Order, NEW i \in Order, k <= i,
           NEW n \in Nat, Size[k] <= n, n < Size[i]
    PROVE  \E j \in Order : k <= j /\ j < i /\ Size[j] <= n /\ n < 2 * Size[j]
<1>1. Size[i] <= Size[MAX_ORDER]
  BY SizeFacts, SizeAssumption DEF Order
<1>2. n \in 1..(Size[MAX_ORDER] - 1)
  BY <1>1, SizeFacts, SizeAssumption DEF Order
<1>3. PICK j \in Order : Size[j] <= n /\ n < 2 * Size[j]
  BY <1>2, SizeAssumption
<1>4. k <= j
  BY <1>3, SizeFacts, SizeAssumption
<1>5. j < i
  BY <1>3, SizeFacts, SizeAssumption
<1> QED BY <1>3, <1>4, <1>5

-----------------------------------------------------------------------------
\* One turn of the grouping loop keeps the invariant.
LEMMA GroupStep == ASSUME IInv, buddy_init PROVE IInv'
<1> USE SizeFacts
<1>0. TypeOK /\ NoOverlap /\ NoPageLost /\ Booting
  BY DEF IInv
<1>1. cursor \in Page /\ cursor < page_count /\ held = {} /\ ~init_freed
  BY <1>0, SizeAssumption DEF buddy_init, TypeOK, Booting, Page
<1>2. UNCHANGED <<flags, held, init_freed>>
  BY DEF buddy_init
<1>3. ASSUME NEW p \in Page, NEW k \in Order PROVE ~InUse(p, k) /\ ~InUse(p, k)'
  BY <1>1, <1>2 DEF InUse
<1>4. \A p \in Page, k \in Order : Listed(p, k) => p + Size[k] <= cursor
  BY <1>0 DEF Booting, Known
<1>5. CASE flags[cursor] # "FREE" /\ cursor' = cursor + 1 /\ UNCHANGED free_list
  <2>1. TypeOK'
    BY <1>0, <1>1, <1>2, <1>5, SizeAssumption DEF TypeOK, Page
  <2>2. \A p \in Page, k \in Order : Listed(p, k)' <=> Listed(p, k)
    BY <1>5 DEF Listed
  <2>3. NoOverlap'
    BY <1>0, <1>3, <2>2 DEF NoOverlap, Known
  <2>4. NoPageLost'
    <3>1. ASSUME NEW q \in Page, q < cursor'
          PROVE  flags'[q] = "FREE" <=> \E p \in Page, k \in Order : Listed(p, k)' /\ q \in Span(p, k)
      <4>1. CASE q < cursor
        BY <1>0, <1>2, <2>2, <4>1 DEF NoPageLost
      <4>2. CASE q = cursor
        BY <1>2, <1>4, <1>5, <2>2, <4>2, SpanFacts
      <4> QED BY <1>1, <1>5, <3>1, <4>1, <4>2
    <3>2. ASSUME NEW q \in Page
          PROVE  flags'[q] = "ALLOCATED" <=> \E p \in Page, k \in Order : InUse(p, k)' /\ q \in Span(p, k)
      BY <1>0, <1>2, <1>3 DEF NoPageLost
    <3> QED BY <3>1, <3>2 DEF NoPageLost, Span
  <2>5. Booting'
    BY <1>0, <1>1, <1>2, <1>3, <1>4, <1>5, <2>2 DEF Booting, Known
  <2> QED BY <2>1, <2>3, <2>4, <2>5 DEF IInv
<1>6. ASSUME NEW k \in Order, flags[cursor] = "FREE", Groups(cursor, k), GroupBlock(k)
      PROVE  IInv'
  <2>1. free_list' = [free_list EXCEPT ![k] = @ \cup {cursor}] /\ cursor' = cursor + Size[k]
    BY <1>6 DEF GroupBlock, buddy_add_block
  <2>2. cursor + Size[k] <= page_count
    BY <1>1, <1>6, SizeAssumption DEF Groups, Page
  <2>3. \A q \in Page : q \in Span(cursor, k) => flags[q] = "FREE"
    <3>1. CASE k = 0
      BY <1>1, <1>6, <3>1, SpanFacts, SizeAssumption
    <3>2. CASE k # 0
      BY <1>6, <3>2 DEF Groups
    <3> QED BY <3>1, <3>2
  <2>4. TypeOK'
    BY <1>0, <1>1, <1>2, <2>1, <2>2, SizeAssumption DEF TypeOK, Page
  <2>5. \A p \in Page, j \in Order :
           Listed(p, j)' <=> Listed(p, j) \/ (p = cursor /\ j = k)
    BY <1>0, <1>1, <2>1 DEF Listed, TypeOK, Block
  <2>6. NoOverlap'
    <3>1. ASSUME NEW p \in Page, NEW j \in Order, Known(p, j)'
          PROVE  p + Size[j] <= page_count
      BY <1>0, <1>3, <2>2, <2>5, <3>1 DEF Known, NoOverlap
    <3>2. ASSUME NEW p \in Page, NEW q \in Page, NEW j \in Order, NEW l \in Order,
                 Known(p, j)', Known(q, l)', <<p, j>> # <<q, l>>
          PROVE  p + Size[j] <= q \/ q + Size[l] <= p
      <4>1. Listed(p, j)' /\ Listed(q, l)'
        BY <1>3, <3>2 DEF Known
      <4>2. CASE Listed(p, j) /\ Listed(q, l)
        BY <1>0, <3>2, <4>2 DEF NoOverlap, Known
      <4>3. CASE ~(Listed(p, j) /\ Listed(q, l))
        BY <1>4, <2>5, <3>2, <4>1, <4>3
      <4> QED BY <4>2, <4>3
    <3> QED BY <1>3, <3>1, <3>2 DEF NoOverlap
  <2>7. NoPageLost'
    <3>1. ASSUME NEW q \in Page, q < cursor'
          PROVE  flags'[q] = "FREE" <=> \E p \in Page, j \in Order : Listed(p, j)' /\ q \in Span(p, j)
      <4>1. CASE q < cursor
        <5>1. q \notin Span(cursor, k)
          BY <1>1, <4>1, SpanFacts
        <5> QED BY <1>0, <1>2, <2>5, <4>1, <5>1 DEF NoPageLost
      <4>2. CASE cursor <= q
        <5>1. q \in Span(cursor, k)
          BY <1>1, <2>1, <3>1, <4>2, SpanFacts
        <5> QED BY <1>1, <1>2, <2>3, <2>5, <5>1
      <4> QED BY <1>1, <4>1, <4>2
    <3>2. ASSUME NEW q \in Page
          PROVE  flags'[q] = "ALLOCATED" <=> \E p \in Page, j \in Order : InUse(p, j)' /\ q \in Span(p, j)
      BY <1>0, <1>2, <1>3 DEF NoPageLost
    <3> QED BY <3>1, <3>2 DEF NoPageLost, Span
  <2>8. Booting'
    <3>1. ASSUME NEW p \in Page, NEW j \in Order, Known(p, j)' PROVE p + Size[j] <= cursor'
      BY <1>1, <1>3, <1>4, <2>1, <2>5, <3>1 DEF Known
    <3> QED BY <1>0, <1>1, <1>2, <3>1 DEF Booting
  <2> QED BY <2>4, <2>6, <2>7, <2>8 DEF IInv
<1> QED BY <1>5, <1>6 DEF buddy_init

\* buddy_alloc_vaddr keeps the invariant: what is handed out and the halves
\* that are put back make up the block that was taken.
LEMMA AllocStep == ASSUME IInv, NEW k \in Order, buddy_alloc(k) PROVE IInv'
<1> USE SizeFacts
<1>0. TypeOK /\ NoOverlap /\ NoPageLost /\ Booting
  BY DEF IInv
<1>1. PICK i \in Order, p \in Page :
         /\ p \in free_list[i]
         /\ FitOrder(k, i)
         /\ free_list' = Split(p, k, i)
         /\ flags' = Mark(p, k, "ALLOCATED")
         /\ held' = held \cup {<<p, k>>}
  BY <1>0 DEF buddy_alloc, TypeOK
<1>2. UNCHANGED <<cursor, init_freed>> /\ cursor = page_count
  BY DEF buddy_alloc, Booted
<1>3. k <= i /\ p \in Page /\ Listed(p, i)
  BY <1>0, <1>1 DEF FitOrder, TypeOK, Listed, Block
<1>4. p + Size[i] <= page_count /\ Size[k] <= Size[i]
  BY <1>0, <1>3 DEF NoOverlap, Known
<1>5. ASSUME NEW j \in Order, k <= j, j < i
      PROVE  p + Size[j] \in Page /\ p + Size[j] + Size[j] <= p + Size[i] /\ Size[k] <= Size[j]
  <2>1. Size[j] + Size[j] <= Size[i]
    BY <1>5, SizeAssumption
  <2> QED BY <1>3, <1>4, <1>5, <2>1, SizeAssumption DEF Page
<1>6. \A q \in Page, j \in Order :
         Listed(q, j)' <=> \/ Listed(q, j) /\ ~(q = p /\ j = i)
                           \/ k <= j /\ j < i /\ q = p + Size[j]
  BY <1>1, <1>3 DEF Listed, Block, Split
<1>7. \A q \in Page, j \in Order : InUse(q, j)' <=> InUse(q, j) \/ (q = p /\ j = k)
  BY <1>1 DEF InUse
\* A block of the new state is an old one other than <<p, i>>, or part of it.
<1>8. ASSUME NEW q \in Page, NEW j \in Order, Known(q, j)'
      PROVE  \/ Known(q, j) /\ ~(q = p /\ j = i)
             \/ k <= j /\ j < i /\ q = p + Size[j]
             \/ q = p /\ j = k
  <2>1. CASE Listed(q, j)'
    BY <1>6, <2>1 DEF Known
  <2>2. CASE InUse(q, j)'
    <3>1. InUse(q, j) => ~(q = p /\ j = i)
      BY <1>0, <1>3 DEF NoOverlap
    <3> QED BY <1>7, <2>2, <3>1 DEF Known
  <2> QED BY <1>8, <2>1, <2>2 DEF Known
<1>9. ASSUME NEW q \in Page, NEW j \in Order, Known(q, j), ~(q = p /\ j = i)
      PROVE  q + Size[j] <= p \/ p + Size[i] <= q
  BY <1>0, <1>3, <1>9 DEF NoOverlap, Known
<1>10. TypeOK'
  <2>1. flags' \in [Page -> {"FREE", "RESERVED", "ALLOCATED"}]
    BY <1>0, <1>1 DEF TypeOK, Mark
  <2>2. free_list' \in [Order -> SUBSET Page]
    BY <1>0, <1>1, <1>5 DEF TypeOK, Split
  <2>3. held' \in SUBSET Block
    BY <1>0, <1>1, <1>3 DEF TypeOK, Block
  <2> QED BY <1>0, <1>2, <2>1, <2>2, <2>3 DEF TypeOK
<1>11. ASSUME NEW q \in Page, NEW j \in Order, Known(q, j)' PROVE q + Size[j] <= page_count
  <2>1. CASE Known(q, j)
    BY <1>0, <2>1 DEF NoOverlap
  <2>2. CASE ~Known(q, j)
    <3>1. (k <= j /\ j < i /\ q = p + Size[j]) \/ (q = p /\ j = k)
      BY <1>8, <1>11, <2>2
    <3>2. CASE k <= j /\ j < i /\ q = p + Size[j]
      BY <1>4, <1>5, <3>2, SizeAssumption
    <3>3. CASE q = p /\ j = k
      BY <1>4, <3>3, SizeAssumption
    <3> QED BY <3>1, <3>2, <3>3
  <2> QED BY <2>1, <2>2
<1>12. NoOverlap'
  <2>1. ASSUME NEW q \in Page, NEW r \in Page, NEW j \in Order, NEW l \in Order,
               Known(q, j)', Known(r, l)', <<q, j>> # <<r, l>>
        PROVE  q + Size[j] <= r \/ r + Size[l] <= q
    <3>1. CASE Known(q, j) /\ ~(q = p /\ j = i) /\ Known(r, l) /\ ~(r = p /\ l = i)
      BY <1>0, <2>1, <3>1 DEF NoOverlap
    <3>2. CASE Known(q, j) /\ ~(q = p /\ j = i) /\ ~(Known(r, l) /\ ~(r = p /\ l = i))
      <4>1. q + Size[j] <= p \/ p + Size[i] <= q
        BY <1>9, <3>2
      <4>2. p <= r /\ r + Size[l] <= p + Size[i]
        BY <1>3, <1>4, <1>5, <1>8, <2>1, <3>2
      <4> QED BY <1>3, <4>1, <4>2
    <3>3. CASE ~(Known(q, j) /\ ~(q = p /\ j = i)) /\ Known(r, l) /\ ~(r = p /\ l = i)
      <4>1. r + Size[l] <= p \/ p + Size[i] <= r
        BY <1>9, <3>3
      <4>2. p <= q /\ q + Size[j] <= p + Size[i]
        BY <1>3, <1>4, <1>5, <1>8, <2>1, <3>3
      <4> QED BY <1>3, <4>1, <4>2
    <3>4. CASE ~(Known(q, j) /\ ~(q = p /\ j = i)) /\ ~(Known(r, l) /\ ~(r = p /\ l = i))
      <4>1. (k <= j /\ j < i /\ q = p + Size[j]) \/ (q = p /\ j = k)
        BY <1>8, <2>1, <3>4
      <4>2. (k <= l /\ l < i /\ r = p + Size[l]) \/ (r = p /\ l = k)
        BY <1>8, <2>1, <3>4
      <4>3. j < l => 2 * Size[j] <= Size[l]
        BY SizeAssumption
      <4>4. l < j => 2 * Size[l] <= Size[j]
        BY SizeAssumption
      <4>5. CASE q = p /\ j = k
        BY <1>3, <1>5, <2>1, <4>2, <4>5
      <4>6. CASE r = p /\ l = k
        BY <1>3, <1>5, <2>1, <4>1, <4>6
      <4>7. CASE q = p + Size[j] /\ r = p + Size[l]
        BY <1>3, <2>1, <4>3, <4>4, <4>7
      <4> QED BY <4>1, <4>2, <4>5, <4>6, <4>7
    <3> QED BY <3>1, <3>2, <3>3, <3>4
  <2>2. ASSUME NEW q \in Page, NEW j \in Order, Listed(q, j)', InUse(q, j)' PROVE FALSE
    <3>1. CASE InUse(q, j) /\ Listed(q, j)
      BY <1>0, <3>1 DEF NoOverlap
    <3>2. CASE InUse(q, j) /\ k <= j /\ j < i /\ q = p + Size[j]
      BY <1>3, <1>5, <1>9, <3>2 DEF Known
    <3>3. CASE q = p /\ j = k /\ Listed(q, j) /\ ~(q = p /\ j = i)
      BY <1>3, <1>4, <1>9, <3>3 DEF Known
    <3>4. CASE q = p /\ j = k /\ q = p + Size[j]
      BY <1>3, <3>4
    <3> QED BY <1>6, <1>7, <2>2, <3>1, <3>2, <3>3, <3>4
  <2> QED BY <1>11, <2>1, <2>2 DEF NoOverlap
<1>13. NoPageLost'
  <2>1. ASSUME NEW q \in Page
        PROVE  flags'[q] = IF p <= q /\ q < p + Size[k] THEN "ALLOCATED" ELSE flags[q]
    BY <1>1, <1>3, SpanFacts DEF Mark
  <2>2. ASSUME NEW q \in Page
        PROVE  flags'[q] = "FREE" <=> \E r \in Page, j \in Order : Listed(r, j)' /\ q \in Span(r, j)
    <3>1. CASE q < p \/ p + Size[i] <= q
      <4>1. flags'[q] = flags[q]
        BY <1>3, <1>4, <2>1, <3>1
      <4>2. q \notin Span(p, i)
        BY <1>3, <3>1, SpanFacts
      <4>3. \A j \in Order : k <= j /\ j < i => q \notin Span(p + Size[j], j)
        BY <1>3, <1>5, <3>1, SpanFacts
      <4> QED BY <1>0, <1>2, <1>6, <4>1, <4>2, <4>3, SizeAssumption DEF NoPageLost, Page
    <3>2. CASE p <= q /\ q < p + Size[k]
      <4>1. flags'[q] = "ALLOCATED"
        BY <2>1, <3>2
      <4>2. ASSUME NEW r \in Page, NEW j \in Order, Listed(r, j)', q \in Span(r, j) PROVE FALSE
        <5>1. r <= q /\ q < r + Size[j]
          BY <4>2, SpanFacts
        <5>2. CASE Listed(r, j) /\ ~(r = p /\ j = i)
          BY <1>3, <1>4, <1>9, <3>2, <5>1, <5>2 DEF Known
        <5>3. CASE k <= j /\ j < i /\ r = p + Size[j]
          BY <1>3, <1>5, <3>2, <5>1, <5>3
        <5> QED BY <1>6, <4>2, <5>2, <5>3
      <4> QED BY <4>1, <4>2
    <3>3. CASE p + Size[k] <= q /\ q < p + Size[i]
      <4>1. q \in Span(p, i) /\ q < cursor
        <5>1. p <= q /\ q < p + Size[i]
          BY <3>3
        <5>2. q \in Span(p, i)
          BY <5>1, SpanFacts
        <5>3. q < cursor
          BY <1>2, SizeAssumption DEF Page
        <5> QED BY <5>2, <5>3
      <4>2. flags[q] = "FREE"
        BY <1>0, <1>3, <4>1 DEF NoPageLost
      <4>3. PICK j \in Order : k <= j /\ j < i /\ Size[j] <= q - p /\ q - p < 2 * Size[j]
        <5>1. q - p \in Nat /\ Size[k] <= q - p /\ q - p < Size[i]
          BY <1>3, <3>3
        <5> QED BY <1>3, <5>1, SplitCovers
      <4>4. Listed(p + Size[j], j)' /\ q \in Span(p + Size[j], j)
        BY <1>3, <1>5, <1>6, <4>3, SpanFacts
      <4>5. flags'[q] = "FREE"
        BY <1>3, <2>1, <3>3, <4>2
      <4> QED BY <1>5, <4>3, <4>4, <4>5
    <3> QED BY <1>3, <1>4, <3>1, <3>2, <3>3
  <2>3. ASSUME NEW q \in Page
        PROVE  flags'[q] = "ALLOCATED" <=> \E r \in Page, j \in Order : InUse(r, j)' /\ q \in Span(r, j)
    <3>1. CASE p <= q /\ q < p + Size[k]
      BY <1>3, <1>7, <2>1, <3>1, SpanFacts
    <3>2. CASE ~(p <= q /\ q < p + Size[k])
      <4>1. q \notin Span(p, k)
        BY <1>3, <3>2, SpanFacts
      <4> QED BY <1>0, <1>7, <2>1, <3>2, <4>1 DEF NoPageLost
    <3> QED BY <3>1, <3>2
  <2> QED BY <2>2, <2>3 DEF NoPageLost, Span
<1>14. Booting'
  <2>1. ~init_freed' => \A q \in InitPages : flags'[q] = "RESERVED"
    <3> SUFFICES ASSUME ~init_freed, NEW q \in InitPages PROVE flags'[q] = "RESERVED"
      BY <1>2
    <3>1. q \in Page /\ flags[q] = "RESERVED"
      BY <1>0, BootAssumption DEF Booting
    <3>2. q \notin Span(p, i)
      BY <1>0, <1>2, <1>3, <3>1, SizeAssumption DEF NoPageLost, Page
    <3>3. q \notin Span(p, k)
      BY <1>3, <1>4, <3>1, <3>2, SpanFacts
    <3> QED BY <1>1, <3>1, <3>3 DEF Mark
  <2> QED BY <1>2, <1>11, <2>1, SizeAssumption DEF Booting
<1> QED BY <1>10, <1>12, <1>13, <1>14 DEF IInv

\* buddy_free keeps the invariant.
LEMMA FreeStep ==
    ASSUME IInv, NEW p \in Page, NEW k \in Order, buddy_free(p, k)
    PROVE  IInv'
<1> USE SizeFacts
<1>0. TypeOK /\ NoOverlap /\ NoPageLost /\ Booting
  BY DEF IInv
<1>1. /\ UNCHANGED <<cursor, init_freed>> /\ cursor = page_count /\ InUse(p, k)
      /\ flags' = Mark(p, k, "FREE")
  BY DEF buddy_free, Booted, InUse
<1>2. \A q \in Page, j \in Order : Listed(q, j)' <=> Listed(q, j) \/ (q = p /\ j = k)
  BY <1>0 DEF buddy_free, buddy_add_block, Listed, TypeOK, Block
<1>3. \A q \in Page, j \in Order : InUse(q, j)' <=> InUse(q, j) /\ ~(q = p /\ j = k)
  BY DEF buddy_free, InUse
<1>4. \A q \in Page, j \in Order : Known(q, j)' <=> Known(q, j)
  BY <1>1, <1>2, <1>3 DEF Known
<1>5. TypeOK'
  BY <1>0, <1>1 DEF buddy_free, buddy_add_block, TypeOK, Mark, Block
<1>6. NoOverlap'
  BY <1>0, <1>2, <1>3, <1>4 DEF NoOverlap
<1>7. ASSUME NEW q \in Page, q \in Span(p, k) PROVE flags[q] = "ALLOCATED"
  BY <1>0, <1>1, <1>7 DEF NoPageLost
<1>8. ASSUME NEW q \in Page, NEW j \in Order, NEW r \in Page,
             Known(r, j), q \in Span(r, j), q \in Span(p, k)
      PROVE  r = p /\ j = k
  <2>1. r <= q /\ q < r + Size[j] /\ p <= q /\ q < p + Size[k]
    BY <1>8, SpanFacts
  <2>2. Known(p, k)
    BY <1>1 DEF Known
  <2>3. <<r, j>> = <<p, k>> \/ r + Size[j] <= p \/ p + Size[k] <= r
    BY <1>0, <1>8, <2>2 DEF NoOverlap
  <2> QED BY <2>1, <2>3
<1>9. NoPageLost'
  <2>1. ASSUME NEW q \in Page
        PROVE  flags'[q] = IF q \in Span(p, k) THEN "FREE" ELSE flags[q]
    BY <1>1 DEF Mark
  <2>2. ASSUME NEW q \in Page
        PROVE  flags'[q] = "FREE" <=> \E r \in Page, j \in Order : Listed(r, j)' /\ q \in Span(r, j)
    <3>1. q < cursor
      BY <1>1, SizeAssumption DEF Page
    <3>2. CASE q \in Span(p, k)
      BY <1>2, <2>1, <3>2
    <3>3. CASE q \notin Span(p, k)
      BY <1>0, <1>2, <2>1, <3>1, <3>3 DEF NoPageLost
    <3> QED BY <3>2, <3>3
  <2>3. ASSUME NEW q \in Page
        PROVE  flags'[q] = "ALLOCATED" <=> \E r \in Page, j \in Order : InUse(r, j)' /\ q \in Span(r, j)
    <3>1. CASE q \in Span(p, k)
      BY <1>3, <1>8, <2>1, <3>1 DEF Known
    <3>2. CASE q \notin Span(p, k)
      BY <1>0, <1>3, <2>1, <3>2 DEF NoPageLost
    <3> QED BY <3>1, <3>2
  <2> QED BY <2>2, <2>3 DEF NoPageLost, Span
<1>10. Booting'
  <2>1. ~init_freed' => \A q \in InitPages : flags'[q] = "RESERVED"
    BY <1>0, <1>1, <1>7, BootAssumption DEF Booting, Mark
  <2>2. \A q \in Page, j \in Order : Known(q, j)' => q + Size[j] <= cursor'
    BY <1>0, <1>1, <1>4 DEF Booting
  <2> QED BY <1>1, <2>1, <2>2, SizeAssumption DEF Booting
<1> QED BY <1>5, <1>6, <1>9, <1>10 DEF IInv

\* free_init_sections keeps the invariant.
LEMMA SectionsStep == ASSUME IInv, free_init_sections PROVE IInv'
<1> USE SizeFacts
<1>0. TypeOK /\ NoOverlap /\ NoPageLost /\ Booting
  BY DEF IInv
<1>1. /\ UNCHANGED <<cursor, held>> /\ cursor = page_count /\ init_freed' = TRUE
      /\ flags' = [q \in Page |-> IF q \in InitPages THEN "FREE" ELSE flags[q]]
      /\ InitPages \subseteq Page
      /\ \A q \in InitPages : flags[q] = "RESERVED"
  BY <1>0, BootAssumption DEF free_init_sections, Booted, Booting
<1>2. \A q \in Page, j \in Order : Listed(q, j)' <=> Listed(q, j) \/ (q \in InitPages /\ j = 0)
  BY <1>0, <1>1 DEF free_init_sections, Listed, TypeOK, Block
<1>3. \A q \in Page, j \in Order : InUse(q, j)' <=> InUse(q, j)
  BY <1>1 DEF InUse
<1>4. ASSUME NEW r \in InitPages, NEW q \in Page, NEW j \in Order, Known(q, j)
      PROVE  r < q \/ q + Size[j] <= r
  <2>1. r \in Page /\ r \notin Span(q, j)
    <3>1. r \in Page /\ r < cursor /\ flags[r] = "RESERVED"
      BY <1>1, SizeAssumption DEF Page
    <3>2. Listed(q, j) => r \notin Span(q, j)
      BY <1>0, <3>1 DEF NoPageLost
    <3>3. InUse(q, j) => r \notin Span(q, j)
      BY <1>0, <3>1 DEF NoPageLost
    <3> QED BY <1>4, <3>1, <3>2, <3>3 DEF Known
  <2> QED BY <2>1, SpanFacts
<1>5. Size[0] = 1
  BY SizeAssumption
<1>6. TypeOK'
  BY <1>0, <1>1 DEF free_init_sections, TypeOK
<1>7. ASSUME NEW q \in Page, NEW j \in Order, Known(q, j)'
      PROVE  Known(q, j) \/ (q \in InitPages /\ j = 0)
  BY <1>2, <1>3, <1>7 DEF Known
<1>8. NoOverlap'
  <2>1. ASSUME NEW q \in Page, NEW j \in Order, Known(q, j)' PROVE q + Size[j] <= page_count
    BY <1>0, <1>5, <1>7, <2>1, SizeAssumption DEF NoOverlap, Page
  <2>2. ASSUME NEW q \in Page, NEW r \in Page, NEW j \in Order, NEW l \in Order,
               Known(q, j)', Known(r, l)', <<q, j>> # <<r, l>>
        PROVE  q + Size[j] <= r \/ r + Size[l] <= q
    <3>1. CASE Known(q, j) /\ Known(r, l)
      BY <1>0, <2>2, <3>1 DEF NoOverlap
    <3>2. CASE q \in InitPages /\ j = 0 /\ Known(r, l)
      BY <1>4, <1>5, <3>2
    <3>3. CASE r \in InitPages /\ l = 0 /\ Known(q, j)
      BY <1>4, <1>5, <3>3
    <3>4. CASE q \in InitPages /\ j = 0 /\ r \in InitPages /\ l = 0
      BY <1>5, <2>2, <3>4
    <3> QED BY <1>7, <2>2, <3>1, <3>2, <3>3, <3>4
  <2>3. ASSUME NEW q \in Page, NEW j \in Order, Listed(q, j)', InUse(q, j)' PROVE FALSE
    <3>1. CASE Listed(q, j)
      BY <1>0, <1>3, <2>3, <3>1 DEF NoOverlap
    <3>2. CASE q \in InitPages /\ j = 0
      BY <1>3, <1>4, <1>5, <2>3, <3>2 DEF Known
    <3> QED BY <1>2, <2>3, <3>1, <3>2
  <2> QED BY <2>1, <2>2, <2>3 DEF NoOverlap
<1>9. NoPageLost'
  <2>1. \A q \in Page : q \in Span(q, 0)
    BY <1>5, SpanFacts
  <2>2. ASSUME NEW q \in Page
        PROVE  flags'[q] = "FREE" <=> \E r \in Page, j \in Order : Listed(r, j)' /\ q \in Span(r, j)
    <3>1. CASE q \in InitPages
      BY <1>1, <1>2, <2>1, <3>1
    <3>2. CASE q \notin InitPages
      <4>1. \A r \in InitPages : q \notin Span(r, 0)
        BY <1>1, <1>5, <3>2, SpanFacts
      <4> QED BY <1>0, <1>1, <1>2, <3>2, <4>1, SizeAssumption DEF NoPageLost, Page
    <3> QED BY <3>1, <3>2
  <2>3. ASSUME NEW q \in Page
        PROVE  flags'[q] = "ALLOCATED" <=> \E r \in Page, j \in Order : InUse(r, j)' /\ q \in Span(r, j)
    BY <1>0, <1>1, <1>3 DEF NoPageLost
  <2> QED BY <2>2, <2>3 DEF NoPageLost, Span
<1>10. Booting'
  <2>1. ASSUME NEW q \in Page, NEW j \in Order, Known(q, j)' PROVE q + Size[j] <= cursor'
    BY <1>1, <1>8, <2>1 DEF NoOverlap
  <2>2. ~(cursor' < page_count)
    BY <1>1, SizeAssumption
  <2>3. init_freed'
    BY <1>1
  <2> QED BY <2>1, <2>2, <2>3, Zenon DEF Booting
<1> QED BY <1>6, <1>8, <1>9, <1>10 DEF IInv

-----------------------------------------------------------------------------
(* The theorems. *)

\* IInv is an inductive invariant of the allocator.
THEOREM Inductive == Spec => []IInv
<1>1. Init => IInv
  <2> SUFFICES ASSUME Init PROVE IInv
    OBVIOUS
  <2>1. \A p \in Page, k \in Order : ~Listed(p, k) /\ ~InUse(p, k)
    BY DEF Init, Listed, InUse, Block
  <2>2. PICK m \in BootMaps : flags = [p \in Page |-> IF p \in m THEN "FREE" ELSE "RESERVED"]
    BY DEF Init
  <2>3. TypeOK
    <3>1. flags \in [Page -> {"FREE", "RESERVED", "ALLOCATED"}]
      BY <2>2
    <3>2. cursor \in 0..page_count
      BY SizeAssumption DEF Init
    <3>3. free_list \in [Order -> SUBSET Page] /\ init_freed \in BOOLEAN /\ held \in SUBSET Block
      BY DEF Init
    <3> QED BY <3>1, <3>2, <3>3 DEF TypeOK
  <2>4. NoOverlap
    BY <2>1 DEF NoOverlap, Known
  <2>5. NoPageLost
    BY <2>1, <2>2, SizeFacts DEF Init, NoPageLost
  <2>6. Booting
    BY <2>1, <2>2, BootAssumption DEF Init, Booting, Known
  <2> QED BY <2>3, <2>4, <2>5, <2>6 DEF IInv
<1>2. IInv /\ [Next]_vars => IInv'
  <2> SUFFICES ASSUME IInv, [Next]_vars PROVE IInv'
    OBVIOUS
  <2>1. CASE UNCHANGED vars
    BY <2>1 DEF vars, IInv, TypeOK, NoOverlap, NoPageLost, Booting, Known, Listed, InUse
  <2> QED BY <2>1, GroupStep, AllocStep, FreeStep, SectionsStep DEF Next
<1> QED BY <1>1, <1>2, PTL DEF Spec

\* No page is ever in two blocks, for every memory map and number of orders.
THEOREM NoOverlapAlways == Spec => []NoOverlap
<1>1. IInv => NoOverlap
  BY DEF IInv
<1> QED BY <1>1, Inductive, PTL

\* No page is ever lost.
THEOREM NoPageLostAlways == Spec => []NoPageLost
<1>1. IInv => NoPageLost
  BY DEF IInv
<1> QED BY <1>1, Inductive, PTL

\* buddy.c implements FramePool: a frame never has two owners.
THEOREM BuddyImplementsPool == Spec => ImplementsPool
<1> DEFINE pl == {p \in Page : flags[p] # "RESERVED"}
           sp == [b \in Block |-> Span(b[1], b[2])]
<1>1. Init => Pool!Init
  BY DEF Init, Pool!Init
<1>2. IInv /\ [Next]_vars => [Pool!Next]_Pool!vars
  <2> SUFFICES ASSUME IInv, [Next]_vars PROVE [Pool!Next]_Pool!vars
    OBVIOUS
  <2> USE SizeFacts
  <2>0. TypeOK /\ NoOverlap /\ NoPageLost /\ Booting
    BY DEF IInv
  <2>1. CASE buddy_init
    BY <2>1 DEF buddy_init, Pool!vars
  <2>2. ASSUME NEW k \in Order, buddy_alloc(k) PROVE Pool!Next
    <3>1. PICK i \in Order, p \in Page :
             /\ p \in free_list[i]
             /\ FitOrder(k, i)
             /\ flags' = Mark(p, k, "ALLOCATED")
             /\ held' = held \cup {<<p, k>>}
      BY <2>0, <2>2 DEF buddy_alloc, TypeOK
    <3>2. p \in Page /\ Listed(p, i) /\ Size[k] <= Size[i] /\ cursor = page_count
      BY <2>0, <2>2, <3>1 DEF TypeOK, FitOrder, Listed, Block, buddy_alloc, Booted
    <3>3. ASSUME NEW q \in Span(p, k)
          PROVE  q \in Page /\ q \in Span(p, i) /\ flags[q] = "FREE"
      <4>1. p + Size[i] <= page_count
        BY <2>0, <3>2 DEF NoOverlap, Known
      <4>2. q \in Page /\ q \in Span(p, i) /\ q < cursor
        BY <3>2, <4>1, SizeAssumption DEF Span, Page
      <4> QED BY <2>0, <3>2, <4>2 DEF NoPageLost
    <3>4. <<p, k>> \in Block /\ sp[<<p, k>>] = Span(p, k)
      BY <3>2 DEF Block
    <3>5. sp[<<p, k>>] \subseteq pl
      BY <3>3, <3>4
    <3>6. ASSUME NEW h \in held PROVE sp[h] \cap sp[<<p, k>>] = {}
      <4>1. PICK q \in Page, j \in Order : h = <<q, j>>
        BY <2>0, BlockPair DEF TypeOK
      <4>2. InUse(q, j) /\ ~Listed(q, j) /\ sp[h] = Span(q, j)
        BY <2>0, <4>1 DEF InUse, NoOverlap, Block
      <4>3. q + Size[j] <= p \/ p + Size[i] <= q
        BY <2>0, <3>2, <4>2 DEF NoOverlap, Known
      <4>4. Span(q, j) \cap Span(p, k) = {}
        BY <3>2, <4>3 DEF Span
      <4> QED BY <3>4, <4>2, <4>4
    <3>7. pl' = pl
      BY <2>0, <3>1, <3>3 DEF Mark, TypeOK
    <3>8. Pool!Give(<<p, k>>)
      BY <3>1, <3>5, <3>6, <3>7 DEF Pool!Give
    <3> QED BY <3>4, <3>8 DEF Pool!Next
  <2>3. ASSUME NEW p \in Page, NEW k \in Order, buddy_free(p, k) PROVE Pool!Next
    <3>1. <<p, k>> \in held /\ held' = held \ {<<p, k>>} /\ <<p, k>> \in Block
      BY <2>3 DEF buddy_free, Block
    <3>2. \A q \in Page : q \in Span(p, k) => flags[q] = "ALLOCATED"
      BY <2>0, <3>1 DEF NoPageLost, InUse
    <3>3. pl' = pl
      BY <2>3, <3>2 DEF buddy_free, Mark
    <3>4. Pool!TakeBack(<<p, k>>)
      BY <3>1, <3>3 DEF Pool!TakeBack
    <3> QED BY <3>1, <3>4 DEF Pool!Next
  <2>4. CASE free_init_sections
    <3>1. pl \subseteq pl' /\ UNCHANGED held
      BY <2>4 DEF free_init_sections
    <3> QED BY <3>1 DEF Pool!Next, Pool!Grow
  <2>5. CASE UNCHANGED vars
    BY <2>5 DEF vars, Pool!vars
  <2> QED BY <2>1, <2>2, <2>3, <2>4, <2>5 DEF Next
<1> QED BY <1>1, <1>2, Inductive, PTL DEF Spec, ImplementsPool, Pool!Spec

-----------------------------------------------------------------------------
(* Alignment. *)

\* p is a multiple of the size of order k.
At(p, k) == \E m \in Int : p = Size[k] * m

\* The remainder test and the multiple say the same.
LEMMA AtIsMod ==
    ASSUME NEW p \in Nat, NEW k \in Order
    PROVE  p % Size[k] = 0 <=> At(p, k)
<1>1. Size[k] \in Nat \ {0}
  BY SizeAssumption
<1>2. p % Size[k] = 0 => At(p, k)
  <2>1. p \div Size[k] \in Int /\ p = Size[k] * (p \div Size[k]) + (p % Size[k])
    <3>1. p \in Int
      OBVIOUS
    <3> QED BY <1>1, <3>1, DivMod, Zenon
  <2> QED BY <1>1, <2>1 DEF At
<1>3. ASSUME At(p, k) PROVE p % Size[k] = 0
  <2>1. PICK m \in Int : p = Size[k] * m
    BY <1>3 DEF At
  <2>2. p = Size[k] * m + 0 /\ 0 \in 0 .. Size[k] - 1
    BY <1>1, <2>1
  <2> QED BY <1>1, <2>1, <2>2, DivModUnique
<1> QED BY <1>2, <1>3

\* The size of an order is a multiple of the size of every smaller one.
LEMMA SizeDivides ==
    ASSUME NEW j \in Order, NEW k \in Order, j <= k
    PROVE  At(Size[k], j)
<1> DEFINE T == {n \in Nat : j + n \in Order => At(Size[j + n], j)}
<1>1. j \in Nat /\ k \in Nat /\ MAX_ORDER \in Nat /\ \A i \in Order : Size[i] \in Nat
  BY SizeFacts, SizeAssumption
<1>2. 0 \in T
  <2>1. Size[j] = Size[j] * 1 /\ j + 0 = j
    BY <1>1
  <2> QED BY <2>1 DEF At
<1>3. ASSUME NEW n \in Nat, n \in T PROVE n + 1 \in T
  <2> SUFFICES ASSUME j + (n + 1) \in Order PROVE At(Size[j + (n + 1)], j)
    OBVIOUS
  <2>1. j + n \in Order /\ j + (n + 1) = (j + n) + 1
    BY <1>1 DEF Order
  <2>2. PICK m \in Int : Size[j + n] = Size[j] * m
    BY <1>3, <2>1 DEF At
  <2>3. Size[(j + n) + 1] = 2 * Size[j + n]
    BY <2>1, SizeAssumption
  <2>4. 2 * m \in Int /\ 2 * (Size[j] * m) = Size[j] * (2 * m)
    BY <1>1, <2>2
  <2> QED BY <2>1, <2>2, <2>3, <2>4 DEF At
<1>4. T = Nat
  <2> HIDE DEF T
  <2>1. T \in SUBSET Nat
    BY DEF T
  <2> QED BY <1>2, <1>3, <2>1, NatSetInduction
<1>5. k - j \in T /\ j + (k - j) = k
  <2>1. k - j \in Nat /\ j + (k - j) = k
    BY <1>1
  <2> HIDE DEF T
  <2> QED BY <1>4, <2>1
<1> QED BY <1>5

\* A multiple of a size is one of every smaller size, and so is the sum of two.
LEMMA AtSmaller ==
    ASSUME NEW p \in Nat, NEW j \in Order, NEW k \in Order, j <= k, At(p, k)
    PROVE  At(p, j) /\ At(p + Size[j], j)
<1>1. Size[j] \in Nat /\ Size[k] \in Nat
  BY SizeAssumption
<1>2. PICK m \in Int : p = Size[k] * m
  BY DEF At
<1>3. PICK n \in Int : Size[k] = Size[j] * n
  BY SizeDivides DEF At
<1>4. n * m \in Int /\ n * m + 1 \in Int /\ p = Size[j] * (n * m) /\ p + Size[j] = Size[j] * (n * m + 1)
  BY <1>1, <1>2, <1>3
<1> QED BY <1>4 DEF At

\* The invariant: every block starts at a multiple of its size.
AllAt == \A p \in Page, k \in Order : Known(p, k) => At(p, k)

\* Every step of the allocator keeps it: a group is tested for it, the halves of
\* a split lie at multiples of their own size, and a page is a block of order 0.
LEMMA AlignStep == ASSUME IInv, AllAt, [Next]_vars PROVE AllAt'
<1> USE SizeFacts
<1>0. TypeOK
  BY DEF IInv
<1> SUFFICES ASSUME NEW q \in Page, NEW j \in Order, Known(q, j)' PROVE At(q, j)
  BY DEF AllAt, At
<1>1. Known(q, j) => At(q, j)
  BY DEF AllAt
<1>2. At(q, 0)
  BY SizeAssumption DEF At
<1>3. CASE buddy_init
  <2>1. held' = held
    BY <1>3 DEF buddy_init
  <2>2. CASE UNCHANGED free_list
    BY <1>1, <2>1, <2>2 DEF Known, Listed, InUse
  <2>3. CASE ~UNCHANGED free_list
    <3>1. PICK k \in Order : Groups(cursor, k) /\ GroupBlock(k)
      BY <1>3, <2>3 DEF buddy_init
    <3>2. cursor \in Nat /\ free_list' = [free_list EXCEPT ![k] = @ \cup {cursor}]
      BY <1>0, <3>1, SizeAssumption DEF GroupBlock, buddy_add_block, TypeOK
    <3>3. Known(q, j) \/ (q = cursor /\ j = k)
      BY <1>0, <2>1, <3>2 DEF Known, Listed, InUse, TypeOK
    <3>4. k = 0 \/ cursor % Size[k] = 0
      BY <3>1 DEF Groups
    <3> QED BY <1>1, <1>2, <3>2, <3>3, <3>4, AtIsMod
  <2> QED BY <2>2, <2>3
<1>4. ASSUME NEW k \in Order, buddy_alloc(k) PROVE At(q, j)
  <2>1. PICK i \in Order, p \in Page :
           p \in free_list[i] /\ FitOrder(k, i) /\ free_list' = Split(p, k, i) /\ held' = held \cup {<<p, k>>}
    BY <1>0, <1>4 DEF buddy_alloc, TypeOK
  <2>2. At(p, i) /\ k <= i
    BY <2>1 DEF AllAt, Known, Listed, Block, FitOrder
  <2>3. Known(q, j) \/ (q = p /\ j = k) \/ (k <= j /\ j < i /\ q = p + Size[j])
    BY <1>0, <2>1 DEF Known, Listed, InUse, Split, TypeOK
  <2>4. CASE q = p /\ j = k
    BY <2>2, <2>4, AtSmaller
  <2>5. CASE k <= j /\ j < i /\ q = p + Size[j]
    <3>1. j <= i /\ p \in Nat
      BY <2>5
    <3> QED BY <2>2, <2>5, <3>1, AtSmaller
  <2> QED BY <1>1, <2>3, <2>4, <2>5
<1>5. ASSUME NEW p \in Page, NEW k \in Order, buddy_free(p, k) PROVE At(q, j)
  <2>1. InUse(p, k) /\ held' = held \ {<<p, k>>} /\ free_list' = [free_list EXCEPT ![k] = @ \cup {p}]
    BY <1>5 DEF buddy_free, buddy_add_block, InUse
  <2>2. At(p, k)
    BY <2>1 DEF AllAt, Known
  <2>3. Known(q, j) \/ (q = p /\ j = k)
    BY <1>0, <2>1 DEF Known, Listed, InUse, TypeOK
  <2> QED BY <1>1, <2>2, <2>3
<1>6. CASE free_init_sections
  <2>1. held' = held /\ free_list' = [free_list EXCEPT ![0] = @ \cup InitPages]
    BY <1>6 DEF free_init_sections
  <2>2. Known(q, j) \/ j = 0
    BY <1>0, <2>1 DEF Known, Listed, InUse, TypeOK
  <2> QED BY <1>1, <1>2, <2>2
<1>7. CASE UNCHANGED vars
  BY <1>1, <1>7 DEF Known, Listed, InUse, vars
<1> QED BY <1>3, <1>4, <1>5, <1>6, <1>7 DEF Next

\* Every block, free or handed out, starts at a multiple of its size: the
\* alignment test of buddy_init is enough, for the splits of buddy_alloc_vaddr
\* and the unmerged buddy_free keep it.
THEOREM AlignedAlways == Spec => []Aligned
<1>1. Init => AllAt
  BY DEF Init, AllAt, Known, Listed, InUse
<1>2. IInv /\ AllAt /\ [Next]_vars => AllAt'
  BY AlignStep
<1>3. AllAt => Aligned
  BY AtIsMod, SizeFacts DEF AllAt, Aligned
<1> QED BY <1>1, <1>2, <1>3, Inductive, PTL DEF Spec
=============================================================================
