--------------------------- MODULE TerminalProofs ---------------------------
(* The proofs about the terminal: the rings of module Console are queues,    *)
(* the framebuffer of module Screen shows its picture, what is printed by    *)
(* module Text arrives, and what is typed to module Shell is what it runs.   *)
EXTENDS Console, Screen, Text, Shell, NatFacts, SequenceTheorems, FiniteSetTheorems

-----------------------------------------------------------------------------
(* Rings *)

\* A size the code may use: it divides the range of the indices.
RingSize(size) ==
    size \in Nat \ {0} /\ IndexMod \in Nat /\ IndexMod % size = 0 /\ IndexMod > size

\* Ring r of values in V holds the queue q.
IsQueue(r, q, size, V) ==
    /\ r \in [buf : [0..(size - 1) -> V], head : Index, tail : Index]
    /\ q \in Seq(V)
    /\ Len(q) = Distance(r) /\ Len(q) <= size
    /\ \A i \in 1 .. Len(q) : q[i] = r.buf[(r.tail + i - 1) % size]

\* What Contents reads from a ring that holds q is q.
LEMMA ContentsOfQueue ==
    ASSUME NEW size, RingSize(size), NEW r, NEW q, NEW V, IsQueue(r, q, size, V)
    PROVE  Contents(r, size) = q
<1>1. /\ r.tail \in Int /\ Len(q) \in Nat /\ Distance(r) = Len(q)
      /\ \A i \in 1 .. Len(q) : q[i] = r.buf[(r.tail + i - 1) % size]
  BY DEF IsQueue, Index
<1>2. ASSUME NEW i \in 1 .. Len(q)
      PROVE  ((r.tail + i - 1) % IndexMod) % size = (r.tail + i - 1) % size
  <2>1. r.tail + i - 1 \in Int
    BY <1>1
  <2> QED
    BY <2>1, ModMod DEF RingSize
<1>3. q = [i \in 1 .. Len(q) |-> q[i]]
  BY LenProperties DEF IsQueue
<1>4. Contents(r, size) = [i \in 1 .. Len(q) |-> q[i]]
  BY <1>1, <1>2 DEF Contents
<1> QED
  BY <1>3, <1>4

\* The arithmetic of the indices: h and t are d apart, so h is d behind t.
LEMMA HeadIsBehind ==
    ASSUME NEW size, RingSize(size), NEW h \in Int, NEW t \in Int, NEW d \in Nat,
           (h - t) % IndexMod = d
    PROVE  /\ Congruent(h, t + d, size)
           /\ \A k \in Int : d + k \in 0 .. IndexMod - 1 => (h - t + k) % IndexMod = d + k
<1> DEFINE q == (h - t) \div IndexMod
<1>1. q \in Int /\ h - t = IndexMod * q + d
  BY DivMod DEF RingSize
<1> HIDE DEF q
<1>2. Congruent(h, t + d, size)
  <2> DEFINE x == h - t
  <2>1. x \in Int /\ size \in Nat \ {0} /\ IndexMod \in Nat \ {0} /\ IndexMod % size = 0
    BY DEF RingSize
  <2>2. x + t = h /\ (x % IndexMod) + t = t + d
    OBVIOUS
  <2> HIDE DEF x
  <2>3. Congruent((x % IndexMod) + t, x + t, size)
    BY <2>1, ModPlus, Zenon
  <2> QED
    BY <2>2, <2>3 DEF Congruent
<1>3. ASSUME NEW k \in Int, d + k \in 0 .. IndexMod - 1
      PROVE  (h - t + k) % IndexMod = d + k
  <2>1. h - t + k = IndexMod * q + (d + k) /\ h - t + k \in Int
    BY <1>1 DEF RingSize
  <2>2. IndexMod \in Nat \ {0}
    BY DEF RingSize
  <2> QED
    BY <1>1, <1>3, <2>1, <2>2, DivModUnique
<1> QED
  BY <1>2, <1>3

\* Cells of different places in the ring differ.
LEMMA CellsDiffer ==
    ASSUME NEW size, RingSize(size), NEW t \in Int, NEW i \in 1 .. size, NEW j \in 1 .. size, i # j
    PROVE  (t + i - 1) % size # (t + j - 1) % size
<1> DEFINE a == t + i - 1
           b == t + j - 1
<1>1. a \in Int /\ b \in Int /\ a < b + size /\ b < a + size /\ (a < b \/ b < a)
  BY DEF RingSize
<1> HIDE DEF a, b
<1>2. a % size # b % size
  BY <1>1, ModSeparates DEF RingSize
<1> QED
  BY <1>2 DEF a, b

\* stdin_push and kbd_ring_push append to the queue; a full one loses its head.
LEMMA PushQueue ==
    ASSUME NEW size, RingSize(size), NEW r, NEW q, NEW V, IsQueue(r, q, size, V), NEW c \in V
    PROVE  IsQueue(RingPush(r, c, size), LastOf(Append(q, c), size), size, V)
<1> DEFINE d == Len(q)
           h == r.head
           t == r.tail
           new == RingPush(r, c, size)
           ql == Append(q, c)
<1>1. /\ size \in Nat \ {0} /\ IndexMod \in Nat \ {0} /\ IndexMod % size = 0 /\ size < IndexMod
      /\ d \in 0 .. size /\ h \in 0 .. IndexMod - 1 /\ t \in 0 .. IndexMod - 1
      /\ (h - t) % IndexMod = d
  BY LenProperties DEF RingSize, IsQueue, Index, Distance
<1>2. /\ r.buf \in [0 .. size - 1 -> V]
      /\ q \in Seq(V) /\ \A i \in 1 .. d : q[i] = r.buf[(t + i - 1) % size]
  BY DEF IsQueue
<1>3. /\ ql \in Seq(V) /\ Len(ql) = d + 1 /\ ql[d + 1] = c
      /\ \A i \in 1 .. d : ql[i] = q[i]
  BY <1>2, AppendProperties
<1>4. h % size = (t + d) % size /\ h % size \in 0 .. size - 1
  <2> HIDE DEF h, t, d
  <2>1. h \in Int /\ t \in Int /\ d \in Nat
    BY <1>1
  <2>2. Congruent(h, t + d, size)
    BY <1>1, <2>1, HeadIsBehind, Zenon
  <2> QED
    BY <1>1, <2>1, <2>2, DivMod DEF Congruent
<1>5. d < size => (h - t + 1) % IndexMod = d + 1
  <2> HIDE DEF h, t, d
  <2>1. h \in Int /\ t \in Int /\ d \in Nat /\ 1 \in Int
    BY <1>1
  <2>2. d < size => d + 1 \in 0 .. IndexMod - 1
    BY <1>1
  <2> QED
    BY <1>1, <2>1, <2>2, HeadIsBehind
<1>6. /\ new.head = (h + 1) % IndexMod
      /\ new.tail = IF d >= size THEN (t + 1) % IndexMod ELSE t
      /\ new.buf = [r.buf EXCEPT ![h % size] = c]
      /\ new = [buf |-> new.buf, head |-> new.head, tail |-> new.tail]
  BY <1>1 DEF RingPush, Distance
<1>7. new.head \in Index /\ new.tail \in Index
  <2>1. h + 1 \in Int /\ t + 1 \in Int
    BY <1>1
  <2>2. (h + 1) % IndexMod \in Index /\ (t + 1) % IndexMod \in Index /\ t \in Index
    BY <2>1, <1>1, DivMod DEF Index
  <2> QED
    BY <2>2, <1>6
<1>8. new \in [buf : [0..(size - 1) -> V], head : Index, tail : Index]
  BY <1>2, <1>6, <1>7
<1> HIDE DEF d, h, t, new, ql
<1>9. CASE d < size
  <2>1. LastOf(ql, size) = ql
    BY <1>1, <1>3, <1>9 DEF LastOf
  <2>2. Distance(new) = d + 1
    <3>1. h + 1 \in Int /\ -t \in Int
      BY <1>1
    <3>2. Congruent(((h + 1) % IndexMod) + (-t), (h + 1) + (-t), IndexMod)
      BY <3>1, <1>1, ModAbsorbs, Zenon
    <3>3. ((h + 1) % IndexMod) + (-t) = new.head - new.tail /\ (h + 1) + (-t) = h - t + 1
      <4>1. (h + 1) % IndexMod \in Int
        BY <3>1, <1>1, DivMod
      <4> QED
        BY <4>1, <1>1, <1>6, <1>9
    <3> QED
      BY <3>2, <3>3, <1>5, <1>9 DEF Distance, Congruent
  <2>3. ASSUME NEW i \in 1 .. d + 1 PROVE ql[i] = new.buf[(new.tail + i - 1) % size]
    <3>1. new.tail = t
      BY <1>1, <1>6, <1>9
    <3>2. CASE i = d + 1
      <4>1. t + i - 1 = t + d
        BY <3>2, <1>1
      <4>2. new.buf[(t + d) % size] = c
        BY <1>2, <1>4, <1>6
      <4> QED
        BY <4>1, <4>2, <3>1, <3>2, <1>3
    <3>3. CASE i # d + 1
      <4>1. i \in 1 .. size /\ d + 1 \in 1 .. size /\ t \in Int /\ t + (d + 1) - 1 = t + d /\ i \in 1 .. d
        BY <3>3, <1>1, <1>9
      <4>2. (t + i - 1) % size # (t + d) % size
        BY <4>1, <3>3, CellsDiffer
      <4>3. (t + i - 1) % size \in 0 .. size - 1
        <5>1. t + i - 1 \in Int
          BY <4>1
        <5> QED
          BY <5>1, <1>1, DivMod
      <4> QED
        BY <4>1, <4>2, <4>3, <3>1, <1>2, <1>3, <1>4, <1>6
    <3> QED
      BY <3>2, <3>3
  <2>4. d + 1 <= size
    BY <1>1, <1>9
  <2> QED
    BY <2>1, <2>2, <2>3, <2>4, <1>3, <1>8 DEF IsQueue, new, ql
<1>10. CASE d = size
  <2> DEFINE qn == SubSeq(ql, 2, size + 1)
  <2>1. LastOf(ql, size) = qn
    <3>1. Len(ql) = size + 1 /\ ~ (Len(ql) <= size) /\ Len(ql) - size + 1 = 2
      BY <1>1, <1>3, <1>10
    <3> QED
      BY <3>1 DEF LastOf
  <2>2. qn \in Seq(V) /\ Len(qn) = size /\ \A i \in 1 .. size : qn[i] = ql[i + 1]
    <3>1. \A i \in 2 .. size + 1 : ql[i] \in V
      BY <1>1, <1>3, <1>10, ElementOfSeq
    <3>2. 2 \in Int /\ size + 1 \in Int /\ 2 <= size + 1 /\ (size + 1) - 2 + 1 = size
      BY <1>1
    <3>3. \A i \in 1 .. size : 2 + i - 1 = i + 1
      OBVIOUS
    <3> QED
      BY <3>1, <3>2, <3>3, SubSeqProperties
  <2> HIDE DEF qn
  <2>3. Distance(new) = size
    <3> DEFINE a == h + 1
               b == t + 1
               ha == a % IndexMod
    <3>1. a \in Int /\ b \in Int /\ ha \in Int /\ -b \in Int
      BY <1>1, DivMod
    <3>4. a + (-b) = h - t /\ ha + (-b) = ha - b
      BY <3>1, <1>1
    <3>5. new.head = ha /\ new.tail = b % IndexMod
      BY <1>1, <1>6, <1>10
    <3> HIDE DEF a, b
    <3>3. Congruent(ha + (-b), a + (-b), IndexMod)
      BY <3>1, <1>1, ModAbsorbs, Zenon
    <3> HIDE DEF ha
    <3>2. Congruent(ha - (b % IndexMod), ha - b, IndexMod)
      BY <3>1, <1>1, ModAbsorbs, Zenon
    <3> QED
      BY <3>2, <3>3, <3>4, <3>5, <1>1, <1>10 DEF Distance, Congruent
  <2>4. ASSUME NEW i \in 1 .. size PROVE qn[i] = new.buf[(new.tail + i - 1) % size]
    <3> DEFINE b == t + 1
               k == i - 1
               cell == (t + (i + 1) - 1) % size
    <3>1. b \in Int /\ k \in Int /\ b + k = t + (i + 1) - 1 /\ t + (i + 1) - 1 \in Int
      BY <1>1
    <3>2. Congruent((b % IndexMod) + k, b + k, size)
      <4> HIDE DEF b, k
      <4> QED
        BY <3>1, <1>1, ModPlus, Zenon
    <3>3. new.tail = b % IndexMod /\ new.tail + i - 1 = (b % IndexMod) + k
      <4>1. new.tail = b % IndexMod
        BY <1>1, <1>6, <1>10
      <4>2. b % IndexMod \in Int
        BY <3>1, <1>1, DivMod
      <4> QED
        BY <4>1, <4>2
    <3>4. (new.tail + i - 1) % size = cell
      BY <3>1, <3>2, <3>3 DEF Congruent
    <3>5. cell \in 0 .. size - 1
      BY <3>1, <1>1, DivMod
    <3>6. CASE i = size
      <4>1. cell = h % size
        <5>1. t + (i + 1) - 1 = t + d
          BY <3>6, <1>1, <1>10
        <5> QED
          BY <5>1, <1>4
      <4> QED
        BY <4>1, <3>4, <3>6, <2>2, <1>2, <1>3, <1>4, <1>6, <1>10
    <3>7. CASE i # size
      <4>1. i + 1 \in 1 .. d /\ i + 1 \in 2 .. size
        BY <3>7, <1>1, <1>10
      <4>2. cell # h % size
        <5> DEFINE u == t + (i + 1) - 1
                   w == t + size
        <5>1. u \in Int /\ w \in Int /\ u < w /\ w < u + size
          BY <4>1, <1>1
        <5> HIDE DEF u, w
        <5>2. u % size # w % size
          BY <5>1, <1>1, ModSeparates
        <5> QED
          BY <5>2, <1>4, <1>10 DEF u, w
      <4>3. new.buf[cell] = r.buf[cell]
        BY <4>2, <3>5, <1>2, <1>6
      <4> QED
        BY <4>1, <4>3, <3>4, <2>2, <1>2, <1>3
    <3> QED
      BY <3>6, <3>7
  <2> QED
    BY <2>1, <2>2, <2>3, <2>4, <1>8 DEF IsQueue, new, ql
<1> QED
  BY <1>1, <1>9, <1>10

\* tty_stdin_read, keyboard_pop_scancode and keyboard_set_raw take what they read
\* from the front of the queue, all of it when there is less.
LEMMA DropQueue ==
    ASSUME NEW size, RingSize(size), NEW r, NEW q, NEW V, IsQueue(r, q, size, V),
           "NONE" \in V, NEW n \in Nat
    PROVE  IsQueue(RingDrop(r, n, size), Without(q, n), size, V)
<1> DEFINE d == Len(q)
           h == r.head
           t == r.tail
           got == IF n < Distance(r) THEN n ELSE Distance(r)
           read == {((t + i - 1) % IndexMod) % size : i \in 1 .. got}
           new == RingDrop(r, n, size)
           qn == Without(q, n)
<1>1. /\ size \in Nat \ {0} /\ IndexMod \in Nat \ {0} /\ IndexMod % size = 0 /\ size < IndexMod
      /\ d \in 0 .. size /\ h \in 0 .. IndexMod - 1 /\ t \in 0 .. IndexMod - 1
      /\ (h - t) % IndexMod = d /\ Distance(r) = d
  BY LenProperties DEF RingSize, IsQueue, Index, Distance
<1>2. /\ r.buf \in [0 .. size - 1 -> V]
      /\ q \in Seq(V) /\ \A i \in 1 .. d : q[i] = r.buf[(t + i - 1) % size]
  BY DEF IsQueue
<1>3. got \in 0 .. d /\ got = (IF n < d THEN n ELSE d)
  BY <1>1
<1>4. /\ new.head = h /\ new.tail = (t + got) % IndexMod
      /\ new.buf = [i \in DOMAIN r.buf |-> IF i \in read THEN "NONE" ELSE r.buf[i]]
      /\ new = [buf |-> new.buf, head |-> new.head, tail |-> new.tail]
  BY DEF RingDrop
<1>5. /\ qn \in Seq(V) /\ Len(qn) = d - got
      /\ \A i \in 1 .. d - got : qn[i] = q[got + i]
  <2>1. \A i \in n + 1 .. d : q[i] \in V
    BY <1>1, <1>2, ElementOfSeq
  <2>2. n + 1 \in Int /\ d \in Int
    BY <1>1
  <2>3. /\ qn \in Seq(V) /\ Len(qn) = IF n + 1 <= d THEN d - (n + 1) + 1 ELSE 0
        /\ \A i \in 1 .. d - (n + 1) + 1 : qn[i] = q[(n + 1) + i - 1]
    BY <2>1, <2>2, SubSeqProperties DEF Without
  <2> HIDE DEF got, qn
  <2>4. CASE n < d
    <3>1. got = n /\ Len(qn) = d - got
      BY <1>1, <1>3, <2>3, <2>4
    <3>2. \A i \in 1 .. d - n : i \in 1 .. d - (n + 1) + 1 /\ (n + 1) + i - 1 = n + i
      BY <1>1
    <3> QED
      BY <3>1, <3>2, <2>3
  <2>5. CASE ~ (n < d)
    BY <1>1, <1>3, <2>3, <2>5
  <2> QED
    BY <2>4, <2>5
<1>6. new \in [buf : [0..(size - 1) -> V], head : Index, tail : Index]
  <2>1. t + got \in Int
    BY <1>1, <1>3
  <2>2. new.tail \in Index /\ new.head \in Index
    BY <2>1, <1>1, <1>4, DivMod DEF Index
  <2>3. new.buf \in [0..(size - 1) -> V]
    <3> HIDE DEF read, new
    <3> QED
      BY <1>2, <1>4
  <2> HIDE DEF new
  <2> QED
    BY <2>2, <2>3, <1>4
<1>7. Distance(new) = d - got
  <2> DEFINE b == t + got
             k == -got
  <2>1. b \in Int /\ k \in Int /\ h - b = h - t + k /\ d + k = d - got /\ d + k \in 0 .. IndexMod - 1
    <3> HIDE DEF h, t, d, got
    <3> QED
      BY <1>1, <1>3
  <2>2. h \in Int /\ t \in Int /\ d \in Nat
    BY <1>1
  <2>3. new.head - new.tail = h - (b % IndexMod)
    BY <1>4
  <2> HIDE DEF b, k, h, t, d, got, new
  <2>4. Congruent(h - (b % IndexMod), h - b, IndexMod)
    BY <2>1, <2>2, <1>1, ModAbsorbs, Zenon
  <2>5. (h - t + k) % IndexMod = d + k
    BY <2>1, <2>2, <1>1, HeadIsBehind
  <2> QED
    BY <2>1, <2>3, <2>4, <2>5 DEF Distance, Congruent
<1>8. ASSUME NEW i \in 1 .. d - got PROVE qn[i] = new.buf[(new.tail + i - 1) % size]
  <2> DEFINE b == t + got
             k == i - 1
             cell == (t + (got + i) - 1) % size
  <2>1. /\ b \in Int /\ k \in Int /\ b + k = t + (got + i) - 1 /\ t + (got + i) - 1 \in Int
        /\ got + i \in 1 .. d /\ got + i \in 1 .. size
    BY <1>1, <1>3
  <2>2. (new.tail + i - 1) % size = cell
    <3>1. new.tail = b % IndexMod /\ new.tail + i - 1 = (b % IndexMod) + k
      <4>1. b % IndexMod \in Int
        <5> HIDE DEF b, got
        <5> QED
          BY <2>1, <1>1, DivMod
      <4> QED
        BY <4>1, <1>4
    <3> HIDE DEF b, k, new, got
    <3>2. Congruent((b % IndexMod) + k, b + k, size)
      BY <2>1, <1>1, ModPlus, Zenon
    <3> QED
      BY <2>1, <3>1, <3>2 DEF Congruent
  <2>3. cell \in 0 .. size - 1
    BY <2>1, <1>1, DivMod
  <2>4. cell \notin read
    <3> SUFFICES ASSUME NEW j \in 1 .. got PROVE cell # ((t + j - 1) % IndexMod) % size
      OBVIOUS
    <3>1. t + j - 1 \in Int /\ t \in Int /\ j \in 1 .. size /\ got + i # j
      BY <1>1, <1>3
    <3>2. ((t + j - 1) % IndexMod) % size = (t + j - 1) % size
      BY <3>1, <1>1, ModMod
    <3>3. (t + (got + i) - 1) % size # (t + j - 1) % size
      <4> HIDE DEF t, got
      <4> QED
        BY <3>1, <2>1, CellsDiffer
    <3> QED
      BY <3>2, <3>3
  <2>5. new.buf[cell] = r.buf[cell]
    <3> HIDE DEF read, cell, new
    <3> QED
      BY <2>3, <2>4, <1>2, <1>4
  <2> QED
    BY <2>1, <2>2, <2>5, <1>2, <1>5
<1> HIDE DEF d, got, new, qn
<1>9. Len(qn) <= size
  BY <1>1, <1>3, <1>5
<1> QED
  BY <1>5, <1>6, <1>7, <1>8, <1>9 DEF IsQueue, new, qn

\* Keeping the last elements can wait until one more is appended.
LEMMA LastOfAppend ==
    ASSUME NEW V, NEW q \in Seq(V), NEW c \in V, NEW size \in Nat \ {0}
    PROVE  LastOf(Append(LastOf(q, size), c), size) = LastOf(Append(q, c), size)
<1> DEFINE L == Len(q)
           p == LastOf(q, size)
<1>1. L \in Nat /\ Append(q, c) \in Seq(V) /\ Len(Append(q, c)) = L + 1
  BY AppendProperties, LenProperties
<1>2. CASE L <= size
  BY <1>2 DEF LastOf
<1>3. CASE L > size
  <2>1. p \in Seq(V) /\ Len(p) = size /\ \A i \in 1 .. size : p[i] = q[L - size + i]
    <3>1. p = SubSeq(q, L - size + 1, L) /\ L - size + 1 \in Int /\ L \in Int
      BY <1>1, <1>3 DEF LastOf
    <3>2. \A i \in L - size + 1 .. L : q[i] \in V
      BY <1>1, <1>3, ElementOfSeq
    <3>3. L - (L - size + 1) + 1 = size /\ L - size + 1 <= L
      BY <1>1
    <3>4. \A i \in 1 .. size : L - size + 1 + i - 1 = L - size + i
      BY <1>1
    <3> HIDE DEF L, p
    <3> QED
      BY <3>1, <3>2, <3>3, <3>4, SubSeqProperties
  <2> DEFINE pc == Append(p, c)
             qc == Append(q, c)
  <2> HIDE DEF p
  <2>2. /\ pc \in Seq(V) /\ Len(pc) = size + 1 /\ pc[size + 1] = c
        /\ \A i \in 1 .. size : pc[i] = p[i]
    BY <2>1, AppendProperties
  <2>3. qc[L + 1] = c /\ \A i \in 1 .. L : qc[i] = q[i]
    BY AppendProperties
  <2> HIDE DEF pc, qc, L
  <2>4. LastOf(pc, size) = SubSeq(pc, 2, size + 1)
    <3>1. ~ (Len(pc) <= size) /\ Len(pc) - size + 1 = 2
      BY <2>2
    <3> QED
      BY <3>1, <2>2 DEF LastOf
  <2>5. LastOf(qc, size) = SubSeq(qc, L - size + 2, L + 1)
    <3>1. ~ (Len(qc) <= size) /\ Len(qc) - size + 1 = L - size + 2 /\ Len(qc) = L + 1
      BY <1>1, <1>3 DEF qc
    <3> QED
      BY <3>1 DEF LastOf
  <2>6. /\ SubSeq(pc, 2, size + 1) \in Seq(V) /\ Len(SubSeq(pc, 2, size + 1)) = size
        /\ \A i \in 1 .. size : SubSeq(pc, 2, size + 1)[i] = pc[i + 1]
    <3>1. \A i \in 2 .. size + 1 : pc[i] \in V
      BY <2>2, ElementOfSeq
    <3>2. size + 1 \in Int /\ 2 \in Int /\ (size + 1) - 2 + 1 = size /\ 2 <= size + 1
      OBVIOUS
    <3>3. \A i \in 1 .. size : 2 + i - 1 = i + 1
      OBVIOUS
    <3> QED
      BY <3>1, <3>2, <3>3, SubSeqProperties
  <2>7. /\ SubSeq(qc, L - size + 2, L + 1) \in Seq(V) /\ Len(SubSeq(qc, L - size + 2, L + 1)) = size
        /\ \A i \in 1 .. size : SubSeq(qc, L - size + 2, L + 1)[i] = qc[L - size + 1 + i]
    <3>1. \A i \in L - size + 2 .. L + 1 : qc[i] \in V
      <4>1. \A i \in L - size + 2 .. L + 1 : i \in 1 .. Len(qc)
        BY <1>1, <1>3 DEF qc
      <4> QED
        BY <4>1, <1>1, ElementOfSeq DEF qc
    <3>2. /\ L - size + 2 \in Int /\ L + 1 \in Int
          /\ (L + 1) - (L - size + 2) + 1 = size /\ L - size + 2 <= L + 1
      BY <1>1
    <3>3. \A i \in 1 .. size : L - size + 2 + i - 1 = L - size + 1 + i
      BY <1>1
    <3> QED
      BY <3>1, <3>2, <3>3, SubSeqProperties
  <2>8. ASSUME NEW i \in 1 .. size PROVE pc[i + 1] = qc[L - size + 1 + i]
    <3>1. CASE i = size
      <4>1. L - size + 1 + i = L + 1
        BY <3>1, <1>1
      <4> QED
        BY <4>1, <3>1, <2>2, <2>3
    <3>2. CASE i # size
      <4>1. i + 1 \in 1 .. size /\ L - size + (i + 1) = L - size + 1 + i /\ L - size + 1 + i \in 1 .. L
        BY <3>2, <1>1, <1>3
      <4> QED
        BY <4>1, <2>1, <2>2, <2>3
    <3> QED
      BY <3>1, <3>2
  <2>9. SubSeq(pc, 2, size + 1) = SubSeq(qc, L - size + 2, L + 1)
    BY <2>6, <2>7, <2>8, SeqEqual
  <2> QED
    BY <2>4, <2>5, <2>9 DEF pc, qc, p
<1> QED
  BY <1>1, <1>2, <1>3

\* tty_handler_input commits a line byte by byte: the recursion of PushAll keeps
\* the ring a queue of what was there and what was pushed so far.
LEMMA PushAllQueue ==
    ASSUME NEW size, RingSize(size), NEW r, NEW q, NEW V, IsQueue(r, q, size, V),
           NEW s \in Seq(V)
    PROVE  IsQueue(PushAll(r, s, size), LastOf(q \o s, size), size, V)
<1> DEFINE n == Len(s)
           X == {x \in [buf : [0..(size - 1) -> V], head : Index, tail : Index] :
                    \E p : IsQueue(x, p, size, V)}
           step == [i \in 1 .. n |-> [x \in X |-> RingPush(x, s[i], size)]]
           R(g) == [i \in 0 .. Len(s) |-> IF i = 0 THEN r ELSE RingPush(g[i - 1], s[i], size)]
           pushed == CHOOSE g : g = R(g)
<1>1. n \in Nat /\ \A i \in 1 .. n : s[i] \in V
  OBVIOUS
<1>2. \A x, p : IsQueue(x, p, size, V) => x \in X
  BY DEF IsQueue
<1>3. r \in X
  BY <1>2
<1>4. \A x \in X, c \in V : RingPush(x, c, size) \in X
  BY <1>2, PushQueue
<1> HIDE DEF X
<1>5. step \in [1 .. n -> [X -> X]]
  BY <1>1, <1>4
<1>6. \A i \in 1 .. n, x \in X : step[i][x] = RingPush(x, s[i], size)
  OBVIOUS
<1> HIDE DEF step, n
<1>7. PICK f : IsRecursion(f, n, X, r, step)
  BY <1>1, <1>3, <1>5, RecursionExists, Zenon
<1>8. f \in [0 .. n -> X] /\ f[0] = r /\ \A i \in 1 .. n : f[i] = step[i][f[i - 1]]
  BY <1>7 DEF IsRecursion
<1>9. ASSUME NEW i \in 1 .. n PROVE f[i] = RingPush(f[i - 1], s[i], size)
  <2>1. i - 1 \in 0 .. n /\ f[i - 1] \in X
    BY <1>1, <1>8
  <2> QED
    BY <2>1, <1>6, <1>8
<1>10. f = R(f)
  BY <1>1, <1>8, <1>9 DEF n
<1> HIDE DEF R
<1>11. pushed = R(pushed)
  BY <1>10, Zenon
<1>12. PushAll(r, s, size) = pushed[Len(s)]
  BY Zenon DEF PushAll, R
<1> HIDE DEF pushed
<1>13. pushed[0] = r /\ \A i \in 1 .. n : pushed[i] = RingPush(pushed[i - 1], s[i], size)
  BY <1>1, <1>11 DEF R, n
<1> DEFINE upto(i) == q \o SubSeq(s, 1, i)
           T == {i \in 0 .. n : IsQueue(pushed[i], LastOf(upto(i), size), size, V)}
<1>14. q \in Seq(V) /\ Len(q) <= size /\ size \in Nat \ {0}
  BY DEF IsQueue, RingSize
<1>15. upto(0) = q /\ upto(n) = q \o s
  <2>1. SubSeq(s, 1, 0) = << >> /\ SubSeq(s, 1, n) = s
    BY <1>1 DEF n
  <2>2. q \o << >> = q
    BY <1>14, ConcatEmptySeq
  <2> QED
    BY <2>1, <2>2
<1>16. ASSUME NEW i \in 1 .. n
       PROVE  upto(i - 1) \in Seq(V) /\ upto(i) = Append(upto(i - 1), s[i])
  <2>1. SubSeq(s, 1, i - 1) \in Seq(V) /\ SubSeq(s, 1, i) = Append(SubSeq(s, 1, i - 1), s[i])
    BY <1>1 DEF n
  <2> DEFINE u == SubSeq(s, 1, i - 1)
  <2> HIDE DEF u
  <2>2. q \o Append(u, s[i]) = Append(q \o u, s[i]) /\ q \o u \in Seq(V)
    BY <2>1, <1>1, <1>14 DEF u
  <2> QED
    BY <2>1, <2>2 DEF u
<1> HIDE DEF upto
<1>17. 0 \in T
  <2>1. LastOf(q, size) = q
    BY <1>14 DEF LastOf
  <2> QED
    BY <2>1, <1>1, <1>13, <1>15
<1>18. ASSUME NEW i \in 1 .. n, i - 1 \in T PROVE i \in T
  <2> DEFINE p == LastOf(upto(i - 1), size)
  <2>1. IsQueue(pushed[i - 1], p, size, V) /\ i \in 0 .. n /\ s[i] \in V
    BY <1>1, <1>18
  <2>2. IsQueue(RingPush(pushed[i - 1], s[i], size), LastOf(Append(p, s[i]), size), size, V)
    <3> HIDE DEF p
    <3> QED
      BY <2>1, PushQueue, Zenon
  <2>3. LastOf(Append(p, s[i]), size) = LastOf(Append(upto(i - 1), s[i]), size)
    BY <2>1, <1>14, <1>16, LastOfAppend, Zenon
  <2> QED
    BY <2>1, <2>2, <2>3, <1>13, <1>16
<1>19. n \in T
  <2> HIDE DEF T
  <2>1. 0 .. n \subseteq T
    BY <1>1, <1>17, <1>18, IntervalInduction
  <2> QED
    BY <2>1, <1>1
<1> QED
  BY <1>12, <1>15, <1>19 DEF n

\* keyboard_set_raw(0) empties a ring.
LEMMA WithoutAll ==
    ASSUME NEW V, NEW q \in Seq(V), NEW n \in Nat, Len(q) <= n
    PROVE  Without(q, n) = << >>
<1>1. Len(q) \in Nat /\ n + 1 > Len(q)
  BY LenProperties
<1> QED
  BY <1>1, SubSeqEmpty DEF Without

-----------------------------------------------------------------------------
(* The console *)

Bytes == Byte \cup {"NONE"}
Scancodes == Scancode \cup {"NONE"}

\* What RingsAreQueues needs to be inductive: the indices are u32, the queues are
\* no longer than their rings, and each element is at its place modulo the size of
\* the ring (not only modulo the range of the indices).
ConsoleInv ==
    /\ TypeOK
    /\ IsQueue(stdin, typed, STDIN_RING_SIZE, Bytes)
    /\ IsQueue(kbd, pressed, KBD_RING_SIZE, Scancodes)

\* Both rings have a size the index arithmetic works for.
LEMMA RingSizes == RingSize(STDIN_RING_SIZE) /\ RingSize(KBD_RING_SIZE)
BY ConsoleAssumption DEF RingSize

\* The rings are empty after boot.
LEMMA ConsoleInit == Init => ConsoleInv
<1> SUFFICES ASSUME Init PROVE ConsoleInv
  OBVIOUS
<1>1. ASSUME NEW size, RingSize(size), NEW V, "NONE" \in V
      PROVE  IsQueue(EmptyRing(size), << >>, size, V)
  <2>1. size \in Nat \ {0} /\ IndexMod \in Nat \ {0}
    BY <1>1 DEF RingSize
  <2>2. 0 \in Index /\ (0 - 0) % IndexMod = 0
    BY <2>1, ModSmall DEF Index
  <2> QED
    BY <1>1, <2>1, <2>2 DEF IsQueue, EmptyRing, Distance
<1>2. /\ IsQueue(stdin, typed, STDIN_RING_SIZE, Bytes)
      /\ IsQueue(kbd, pressed, KBD_RING_SIZE, Scancodes)
  BY <1>1, RingSizes DEF Init, Bytes, Scancodes
<1>3. TypeOK
  <2>1. << >> \in Seq(Char) /\ Len(<< >>) = 0
    OBVIOUS
  <2>2. tty_line \in Seq(Char) /\ Len(tty_line) < TTY_LINE_MAX
    BY <2>1, ConsoleAssumption DEF Init
  <2>3. kbd \in [buf : [0..(KBD_RING_SIZE - 1) -> Scancodes], head : Index, tail : Index]
    BY <1>2 DEF IsQueue
  <2>4. stdin \in [buf : [0..(STDIN_RING_SIZE - 1) -> Bytes], head : Index, tail : Index]
    BY <1>2 DEF IsQueue
  <2> QED
    BY <2>2, <2>3, <2>4 DEF Init, TypeOK, Bytes, Scancodes
<1> QED
  BY <1>2, <1>3 DEF ConsoleInv

\* A reader takes bytes; typed loses them at its front.
LEMMA ReadKeeps ==
    ASSUME ConsoleInv, NEW t \in Task, NEW where, NEW n \in 1 .. STDIN_RING_SIZE,
           sys_read(t, where, n)
    PROVE  ConsoleInv'
<1>1. n \in Nat /\ "NONE" \in Bytes
  BY ConsoleAssumption DEF Bytes
<1>2. IsQueue(stdin', typed', STDIN_RING_SIZE, Bytes)
  BY <1>1, DropQueue, RingSizes DEF ConsoleInv, sys_read
<1>3. TypeOK'
  BY <1>2 DEF ConsoleInv, TypeOK, sys_read, IsQueue, Bytes
<1> QED
  BY <1>2, <1>3 DEF ConsoleInv, sys_read

\* A key press.
LEMMA KeyKeeps ==
    ASSUME ConsoleInv, NEW sc \in Scancode, isr_keyboard(sc)
    PROVE  ConsoleInv'
<1>1. CASE RawKey(sc)
  <2>1. IsQueue(kbd', pressed', KBD_RING_SIZE, Scancodes)
    BY <1>1, PushQueue, RingSizes DEF ConsoleInv, RawKey, Scancodes
  <2>2. TypeOK'
    BY <1>1, <2>1 DEF ConsoleInv, TypeOK, RawKey, IsQueue, Scancodes
  <2> QED
    BY <1>1, <2>1, <2>2 DEF ConsoleInv, RawKey
<1>2. CASE Backspace
  <2>1. tty_line' \in Seq(Char) /\ Len(tty_line') < TTY_LINE_MAX
    <3>1. tty_line \in Seq(Char) /\ Len(tty_line) < TTY_LINE_MAX
      BY DEF ConsoleInv, TypeOK
    <3>2. CASE tty_line = << >>
      BY <1>2, <3>1, <3>2 DEF Backspace
    <3>3. CASE tty_line # << >>
      <4>1. tty_line' = SubSeq(tty_line, 1, Len(tty_line) - 1) /\ Len(tty_line) \in Nat \ {0}
        BY <1>2, <3>1, <3>3 DEF Backspace
      <4> QED
        BY <4>1, <3>1, ConsoleAssumption
    <3> QED
      BY <3>2, <3>3
  <2> QED
    BY <1>2, <2>1 DEF ConsoleInv, TypeOK, Backspace
<1>3. CASE Enter
  <2> DEFINE s == Append(tty_line, "NL")
  <2>1. s \in Seq(Bytes)
    BY DEF ConsoleInv, TypeOK, Bytes, Byte
  <2> HIDE DEF s
  <2>2. IsQueue(stdin', typed', STDIN_RING_SIZE, Bytes)
    <3>1. IsQueue(PushAll(stdin, s, STDIN_RING_SIZE), LastOf(typed \o s, STDIN_RING_SIZE),
                  STDIN_RING_SIZE, Bytes)
      BY <2>1, PushAllQueue, RingSizes DEF ConsoleInv
    <3> QED
      BY <3>1, <1>3 DEF Enter, s
  <2>3. TypeOK'
    BY <1>3, <2>2, ConsoleAssumption DEF ConsoleInv, TypeOK, Enter, IsQueue, Bytes
  <2> QED
    BY <1>3, <2>2, <2>3 DEF ConsoleInv, Enter
<1>4. CASE sc \in Char /\ (TypeChar(sc) \/ EchoSpins(sc))
  <2>1. tty_line' \in Seq(Char) /\ Len(tty_line') < TTY_LINE_MAX
    <3>1. /\ tty_line \in Seq(Char) /\ Len(tty_line) < TTY_LINE_MAX - 1
          /\ tty_line' = Append(tty_line, sc)
      BY <1>4 DEF ConsoleInv, TypeOK, TypeChar, EchoSpins
    <3>2. Len(tty_line) \in Nat /\ TTY_LINE_MAX \in Nat
      BY <3>1, ConsoleAssumption
    <3> QED
      BY <1>4, <3>1, <3>2, AppendProperties
  <2> QED
    BY <1>4, <2>1 DEF ConsoleInv, TypeOK, TypeChar, EchoSpins
<1> QED
  BY <1>1, <1>2, <1>3, <1>4 DEF isr_keyboard, tty_handler_input

\* sys_key_get and sys_exit: the raw ring changes hands.
LEMMA KeyboardCallsKeep ==
    ASSUME ConsoleInv, NEW t \in Task, sys_key_get(t) \/ sys_exit(t)
    PROVE  ConsoleInv'
<1>1. "NONE" \in Scancodes /\ 1 \in Nat /\ KBD_RING_SIZE \in Nat
  BY ConsoleAssumption DEF Scancodes
<1>2. IsQueue(kbd', pressed', KBD_RING_SIZE, Scancodes)
  <2>1. CASE sys_key_get(t)
    BY <1>1, <2>1, DropQueue, RingSizes DEF ConsoleInv, sys_key_get
  <2>2. CASE sys_exit(t)
    <3>1. pressed' = Without(pressed, KBD_RING_SIZE)
      BY <1>1, <2>2, WithoutAll DEF ConsoleInv, IsQueue, sys_exit
    <3> QED
      BY <1>1, <2>2, <3>1, DropQueue, RingSizes DEF ConsoleInv, sys_exit, keyboard_set_raw_off
  <2> QED
    BY <2>1, <2>2
<1>3. TypeOK'
  <2>1. kbd' \in [buf : [0..(KBD_RING_SIZE - 1) -> Scancode \cup {"NONE"}], head : Index, tail : Index]
    BY <1>2 DEF IsQueue, Scancodes
  <2>2. /\ kbd_raw' \in BOOLEAN /\ grabbed' \in SUBSET Task
        /\ task' \in [Task -> {"running", "reading", "woken", "gone"}]
    BY DEF ConsoleInv, TypeOK, sys_key_get, sys_exit
  <2>3. UNCHANGED <<stdin, tty_line, tty_locked, spinning>>
    BY DEF sys_key_get, sys_exit
  <2> QED
    BY <2>1, <2>2, <2>3, Zenon DEF ConsoleInv, TypeOK
<1> QED
  BY <1>2, <1>3 DEF ConsoleInv, sys_key_get, sys_exit

\* Every step of the interrupt handlers, readers and writers keeps the invariant.
LEMMA ConsoleStep == ConsoleInv /\ [Next]_vars => ConsoleInv'
<1> SUFFICES ASSUME ConsoleInv, [Next]_vars PROVE ConsoleInv'
  OBVIOUS
<1>1. ASSUME NEW sc \in Scancode, isr_keyboard(sc) PROVE ConsoleInv'
  BY <1>1, KeyKeeps
<1>2. CASE InitLocks \/ InitUnlocks
  BY <1>2 DEF ConsoleInv, TypeOK, InitLocks, InitUnlocks
<1>3. ASSUME NEW t \in Task, NEW n \in 1 .. STDIN_RING_SIZE,
             sys_read(t, "running", n) \/ sys_read(t, "woken", n)
      PROVE  ConsoleInv'
  BY <1>3, ReadKeeps
<1>4. ASSUME NEW t \in Task, sys_write(t) PROVE ConsoleInv'
  BY <1>4 DEF ConsoleInv, TypeOK, sys_write, Spin
<1>5. ASSUME NEW t \in Task, sys_key_get(t) \/ sys_exit(t) PROVE ConsoleInv'
  BY <1>5, KeyboardCallsKeep
<1>6. ASSUME NEW t \in Task, exception_handle(t) PROVE ConsoleInv'
  BY <1>6 DEF ConsoleInv, TypeOK, exception_handle, Spin
<1>7. ASSUME NEW t \in Task, Start(t) PROVE ConsoleInv'
  BY <1>7 DEF ConsoleInv, TypeOK, Start
<1>8. CASE UNCHANGED vars
  BY <1>8 DEF ConsoleInv, TypeOK, vars
<1> QED
  BY <1>1, <1>2, <1>3, <1>4, <1>5, <1>6, <1>7, <1>8 DEF Next

\* The console's variables keep their types: the ring indices of tty.c and
\* keyboard.c are u32, and the line buffer of tty.c never overflows.
THEOREM ConsoleTypes == Spec => []TypeOK
<1>1. ConsoleInv => TypeOK
  BY DEF ConsoleInv
<1> QED
  BY <1>1, ConsoleInit, ConsoleStep, PTL DEF Spec

\* For every ring size that divides the range of the indices, whatever the readers,
\* the typist and the tasks that grab the keyboard do: the two rings are queues that
\* lose their oldest element when full, also when the indices wrap.
THEOREM ConsoleRingsAreQueues == Spec => []RingsAreQueues
<1>1. ConsoleInv => RingsAreQueues
  BY ContentsOfQueue, RingSizes DEF ConsoleInv, RingsAreQueues
<1> QED
  BY <1>1, ConsoleInit, ConsoleStep, PTL DEF Spec

-----------------------------------------------------------------------------
(* The screen *)

\* A row and a column of a line of d words are the quotient and the remainder.
LEMMA RowColumn ==
    ASSUME NEW d \in Nat \ {0}, NEW a \in Int, NEW b \in Int, NEW x \in 0 .. d - 1, NEW y \in 0 .. d - 1,
           a * d + x = b * d + y
    PROVE  a = b /\ x = y
<1> DEFINE n == a * d + x
<1>1. n \in Int /\ n = d * a + x /\ n = d * b + y
  OBVIOUS
<1> HIDE DEF n
<1>2. n % d = x /\ n \div d = a
  BY <1>1, DivModUnique
<1>3. n % d = y /\ n \div d = b
  BY <1>1, DivModUnique
<1> QED BY <1>2, <1>3

\* What the firmware may hand over.
ModeOk ==
    /\ fb.w \in Nat /\ fb.h \in Nat /\ fb.stride \in Nat /\ fb.stride >= fb.w
    /\ fb.w = 0 \/ (fb.w >= FONT_WIDTH /\ fb.h > FONT_HEIGHT)

\* The framebuffer is small against 32 bits.
SizeOk == BLIT_MAX \in Nat /\ U32_LIMIT \in Nat /\ fb.h * fb.stride + BLIT_MAX <= U32_LIMIT

\* The word of a pixel.
WordOf(p) == p[2] * fb.stride + p[1]

\* Every pixel has a word of its own in the framebuffer.
LEMMA WordInMemory ==
    ASSUME ModeOk, NEW p \in Box(fb.w, fb.h)
    PROVE  /\ WordOf(p) \in 0 .. fb.h * fb.stride - 1
           /\ fb.stride \in Nat \ {0} /\ p[1] \in 0 .. fb.stride - 1 /\ p[2] \in Nat /\ p[1] \in Nat
<1>1. p[1] \in 0 .. fb.w - 1 /\ p[2] \in 0 .. fb.h - 1
  BY DEF Box
<1>2. PICK d \in Nat, h \in Nat : d = fb.stride /\ h = fb.h
  BY DEF ModeOk
<1>3. p[1] \in 0 .. d - 1 /\ d # 0 /\ p[2] \in Int /\ p[2] < h /\ p[2] >= 0
  BY <1>1, <1>2 DEF ModeOk
<1>4. d * p[2] + d <= d * h
  BY <1>3, ProductGap
<1>5. d * p[2] \in Nat
  BY <1>3
<1>6. p[2] * d = d * p[2] /\ h * d = d * h
  BY <1>3
<1>7. p[2] * d + p[1] \in 0 .. h * d - 1
  <2>1. PICK u \in Nat, v \in Int : u = d * p[2] /\ v = d * h
    BY <1>3, <1>5
  <2> QED BY <1>3, <1>4, <1>6, <2>1
<1> QED BY <1>2, <1>3, <1>7 DEF WordOf

\* A rectangle of w by h pixels at x, y lies on the screen.
Rect(m, x, y, w, h, colour) ==
    /\ w \in Nat /\ h \in Nat /\ x \in Nat /\ y \in Nat /\ x + w <= fb.w /\ y + h <= fb.h
    /\ DOMAIN m = 0 .. fb.h * fb.stride - 1 /\ DOMAIN colour = Box(w, h)

\* It is drawn: its pixels have its colours, and no other pixel changes.
LEMMA Drawn ==
    ASSUME ModeOk, NEW m, NEW x, NEW y, NEW w, NEW h, NEW colour, Rect(m, x, y, w, h, colour),
           NEW p \in Box(fb.w, fb.h)
    PROVE  draw_pixels(m, x, y, colour)[WordOf(p)] =
               IF <<p[1] - x, p[2] - y>> \in Box(w, h) THEN colour[<<p[1] - x, p[2] - y>>] ELSE m[WordOf(p)]
<1> w \in Nat /\ h \in Nat /\ x \in Nat /\ y \in Nat /\ x + w <= fb.w /\ y + h <= fb.h
    /\ DOMAIN m = 0 .. fb.h * fb.stride - 1 /\ DOMAIN colour = Box(w, h)
  BY DEF Rect
<1> DEFINE q == <<p[1] - x, p[2] - y>>
           at(z) == (y + z[2]) * fb.stride + x + z[1]
           i == WordOf(p)
<1>1. /\ i \in DOMAIN m /\ fb.stride \in Nat \ {0} /\ p[1] \in 0 .. fb.stride - 1 /\ p[2] \in Nat /\ p[1] \in Nat
  BY WordInMemory
<1>2. ASSUME NEW z \in Box(w, h), at(z) = i PROVE z = q
  <2>1. z[1] \in 0 .. w - 1 /\ z[2] \in 0 .. h - 1 /\ z = <<z[1], z[2]>>
    BY DEF Box
  <2>2. x + z[1] \in 0 .. fb.stride - 1 /\ y + z[2] \in Int /\ p[2] \in Int
    <3>1. PICK d \in Nat, v \in Nat : d = fb.stride /\ v = fb.w /\ d >= v
      BY DEF ModeOk
    <3>2. x + w <= v
      BY <3>1
    <3>3. x + z[1] \in 0 .. d - 1
      BY <2>1, <3>1, <3>2
    <3> QED BY <1>1, <2>1, <3>1, <3>3
  <2>3. (y + z[2]) * fb.stride + (x + z[1]) = p[2] * fb.stride + p[1]
    <3>1. PICK u \in Int : u = (y + z[2]) * fb.stride
      BY <1>1, <2>2
    <3> QED BY <1>2, <2>1, <3>1 DEF WordOf
  <2>4. y + z[2] = p[2] /\ x + z[1] = p[1]
    <3> HIDE DEF i, at, q
    <3>1. PICK d \in Nat \ {0} : d = fb.stride
      BY <1>1
    <3>2. PICK a \in Int, b \in 0 .. d - 1 : a = y + z[2] /\ b = x + z[1]
      BY <2>2, <3>1
    <3>3. a * d + b = p[2] * d + p[1]
      BY <2>3, <3>1, <3>2
    <3>4. PICK e \in Int, f \in 0 .. d - 1 : e = p[2] /\ f = p[1]
      BY <1>1, <3>1
    <3>5. a * d + b = e * d + f
      BY <3>3, <3>4
    <3>6. a = e /\ b = f
      BY <3>5, RowColumn
    <3> QED BY <3>2, <3>4, <3>6
  <2> QED BY <2>1, <2>4
<1>3. q \in Box(w, h) => at(q) = i
  <2>1. p[1] = x + q[1] /\ p[2] = y + q[2]
    BY <1>1
  <2>2. PICK u \in Int : u = p[2] * fb.stride
    BY <1>1
  <2> QED BY <1>1, <2>1, <2>2 DEF WordOf
<1>4. draw_pixels(m, x, y, colour)[i] = IF \E z \in Box(w, h) : at(z) = i
                                        THEN colour[CHOOSE z \in Box(w, h) : at(z) = i] ELSE m[i]
  BY <1>1 DEF draw_pixels
<1> HIDE DEF at, i, q
<1>5. CASE q \in Box(w, h)
  <2>1. (CHOOSE z \in Box(w, h) : at(z) = i) = q
    BY <1>2, <1>3, <1>5
  <2> QED BY <1>3, <1>4, <1>5, <2>1 DEF q, i
<1>6. CASE q \notin Box(w, h)
  BY <1>2, <1>4, <1>6 DEF q, i
<1> QED BY <1>5, <1>6

\* A column or row of pixels lies in cell c of width d.
LEMMA InCell ==
    ASSUME NEW d \in Nat \ {0}, NEW c \in Nat, NEW a \in Nat
    PROVE  /\ (a - c * d \in 0 .. d - 1) <=> (a \div d = c)
           /\ (a \div d = c) => (a % d = a - c * d)
<1>1. a \div d \in Int /\ a % d \in 0 .. d - 1 /\ a = d * (a \div d) + (a % d)
  BY DivMod
<1>2. c * d \in Int /\ c * d = d * c
  OBVIOUS
<1>3. ASSUME a - c * d \in 0 .. d - 1 PROVE a \div d = c
  <2>1. PICK r \in 0 .. d - 1 : r = a - c * d
    BY <1>3
  <2>2. a = d * c + r
    BY <1>2, <2>1
  <2> QED BY <2>2, DivModUnique
<1>4. ASSUME a \div d = c PROVE a % d = a - c * d
  <2>1. a = d * c + (a % d)
    BY <1>1, <1>4
  <2> QED BY <1>1, <1>2, <2>1
<1> QED BY <1>1, <1>3, <1>4

\* A cell of the text lies on the screen.
LEMMA CellFits ==
    ASSUME NEW d \in Nat \ {0}, NEW w \in Nat, NEW c \in Nat, c < w \div d
    PROVE  c * d \in Nat /\ c * d + d <= w
<1>1. w \div d \in Int /\ w % d \in 0 .. d - 1 /\ w = d * (w \div d) + (w % d)
  BY DivMod
<1>2. PICK k \in Int, r \in 0 .. d - 1 : k = w \div d /\ w = d * k + r
  BY <1>1
<1>3. d * c + d <= d * k
  BY <1>2, ProductGap
<1>4. d * c \in Nat /\ d * k \in Int /\ c * d = d * c
  BY <1>2
<1>5. PICK u \in Nat, v \in Int : u = d * c /\ v = d * k
  BY <1>4
<1> QED BY <1>2, <1>3, <1>4, <1>5

\* Memory m shows the picture pic.
Framed(m, pic) == DOMAIN m = 0 .. fb.h * fb.stride - 1 /\ DOMAIN pic = Box(fb.w, fb.h)
Displays(m, pic) == Framed(m, pic) /\ \A p \in Box(fb.w, fb.h) : m[WordOf(p)] = pic[p]

\* Without a framebuffer there is no pixel.
LEMMA NoPixels ==
    ASSUME ModeOk, fb.w = 0
    PROVE  Box(fb.w, fb.h) = {}
BY DEF Box

\* clear_framebuffer.
LEMMA ClearDisplays ==
    ASSUME ModeOk, NEW m, NEW pic, Framed(m, pic)
    PROVE  Displays(clear_framebuffer(m), Blank(pic))
<1> DEFINE c == [p \in Box(fb.w, fb.h) |-> BG]
<1>1. DOMAIN clear_framebuffer(m) = DOMAIN m /\ DOMAIN Blank(pic) = DOMAIN pic
  BY DEF clear_framebuffer, draw_pixels, Blank
<1>2. ASSUME NEW p \in Box(fb.w, fb.h) PROVE clear_framebuffer(m)[WordOf(p)] = BG
  <2>0. PICK o \in Nat : o = 0
    OBVIOUS
  <2>1. p = <<p[1] - o, p[2] - o>> /\ fb.w \in Nat /\ fb.h \in Nat /\ o + fb.w <= fb.w /\ o + fb.h <= fb.h
    BY <2>0 DEF Box, ModeOk
  <2>2. DOMAIN c = Box(fb.w, fb.h) /\ c[p] = BG
    OBVIOUS
  <2>3. clear_framebuffer(m) = draw_pixels(m, o, o, c)
    BY <2>0 DEF clear_framebuffer
  <2> HIDE DEF c
  <2> DEFINE q == <<p[1] - o, p[2] - o>>
  <2>4. draw_pixels(m, o, o, c)[WordOf(p)] = IF q \in Box(fb.w, fb.h) THEN c[q] ELSE m[WordOf(p)]
    <3>1. PICK e, x, y, w, h : e = c /\ x = o /\ y = o /\ w = fb.w /\ h = fb.h
      OBVIOUS
    <3>2. Rect(m, x, y, w, h, e)
      BY <2>1, <2>2, <3>1 DEF Rect, Framed
    <3>3. draw_pixels(m, x, y, e)[WordOf(p)] =
             IF <<p[1] - x, p[2] - y>> \in Box(w, h) THEN e[<<p[1] - x, p[2] - y>>] ELSE m[WordOf(p)]
      BY <3>2, Drawn
    <3> QED BY <3>1, <3>3
  <2>5. q = p
    BY <2>1
  <2> HIDE DEF q
  <2> QED BY <2>2, <2>3, <2>4, <2>5
<1> QED BY <1>1, <1>2 DEF Displays, Blank, Framed

\* tty_putentryat: a character in its cell.
LEMMA CharDisplays ==
    ASSUME ModeOk, NEW m, NEW pic, Displays(m, pic), NEW c, fb.w # 0,
           NEW col \in Nat, NEW row \in Nat, col < fb.w \div FONT_WIDTH, row < fb.h \div FONT_HEIGHT
    PROVE  Displays(draw_char(m, col * FONT_WIDTH, row * FONT_HEIGHT, c), WithChar(pic, col, row, c))
<1> DEFINE x == col * FONT_WIDTH
           y == row * FONT_HEIGHT
           r == draw_char(m, x, y, c)
<1>1. DOMAIN r = DOMAIN m /\ DOMAIN WithChar(pic, col, row, c) = DOMAIN pic
  BY DEF draw_char, draw_pixels, WithChar
<1>2. FONT_WIDTH \in Nat \ {0} /\ FONT_HEIGHT \in Nat \ {0} /\ fb.w \in Nat /\ fb.h \in Nat
  BY ScreenAssumption DEF ModeOk
<1>3. x \in Nat /\ y \in Nat /\ x + FONT_WIDTH <= fb.w /\ y + FONT_HEIGHT <= fb.h
  BY <1>2, CellFits
<1>4. ASSUME NEW p \in Box(fb.w, fb.h) PROVE r[WordOf(p)] = WithChar(pic, col, row, c)[p]
  <2> DEFINE q == <<p[1] - x, p[2] - y>>
  <2>1. p[1] \in Nat /\ p[2] \in Nat
    BY WordInMemory
  <2>2. DOMAIN Glyph(c) = Box(FONT_WIDTH, FONT_HEIGHT)
    BY DEF Glyph
  <2>3. r[WordOf(p)] = IF q \in Box(FONT_WIDTH, FONT_HEIGHT) THEN Glyph(c)[q] ELSE m[WordOf(p)]
    <3> HIDE DEF x, y
    <3>1. Rect(m, x, y, FONT_WIDTH, FONT_HEIGHT, Glyph(c))
      BY <1>2, <1>3, <2>2 DEF Rect, Displays, Framed
    <3> QED BY <3>1, Drawn DEF draw_char
  <2>4. /\ (p[1] - x \in 0 .. FONT_WIDTH - 1) <=> (p[1] \div FONT_WIDTH = col)
        /\ (p[1] \div FONT_WIDTH = col) => (p[1] % FONT_WIDTH = p[1] - x)
    BY <1>2, <2>1, InCell
  <2>5. /\ (p[2] - y \in 0 .. FONT_HEIGHT - 1) <=> (p[2] \div FONT_HEIGHT = row)
        /\ (p[2] \div FONT_HEIGHT = row) => (p[2] % FONT_HEIGHT = p[2] - y)
    BY <1>2, <2>1, InCell
  <2> HIDE DEF x, y, r
  <2>6. (q \in Box(FONT_WIDTH, FONT_HEIGHT)) <=> (p[1] \div FONT_WIDTH = col /\ p[2] \div FONT_HEIGHT = row)
    BY <2>4, <2>5 DEF Box
  <2>7. CASE q \in Box(FONT_WIDTH, FONT_HEIGHT)
    <3>1. q = <<p[1] % FONT_WIDTH, p[2] % FONT_HEIGHT>>
      BY <2>4, <2>5, <2>6, <2>7
    <3> HIDE DEF q
    <3> QED BY <2>3, <2>6, <2>7, <3>1 DEF Glyph, WithChar, Displays, Framed
  <2>8. CASE q \notin Box(FONT_WIDTH, FONT_HEIGHT)
    <3> HIDE DEF q
    <3> QED BY <2>3, <2>6, <2>8 DEF WithChar, Displays, Framed
  <2> QED BY <2>7, <2>8
<1> HIDE DEF r
<1> QED BY <1>1, <1>4 DEF Displays, r, Framed

\* scroll_framebuffer by a row of text, on lines as long as the screen is wide.
LEMMA ScrollDisplays ==
    ASSUME ModeOk, NEW m, NEW pic, Displays(m, pic), fb.w # 0, fb.stride = fb.w
    PROVE  Displays(scroll_framebuffer(m, FONT_HEIGHT), MovedUp(pic))
<1>1. PICK w \in Nat \ {0}, h \in Nat, k \in Nat \ {0} : w = fb.w /\ h = fb.h /\ k = FONT_HEIGHT /\ h > k
  BY ScreenAssumption DEF ModeOk
<1> DEFINE off == k * w
           move == (h - k) * w
           r == scroll_framebuffer(m, FONT_HEIGHT)
<1>2. off \in Nat /\ move \in Nat /\ h * w = move + off
  <2>1. h - k \in Nat /\ h = (h - k) + k
    BY <1>1
  <2>2. PICK n \in Nat : n = h - k
    BY <2>1
  <2>3. (n + k) * w = n * w + k * w /\ n * w \in Nat /\ k * w \in Nat
    OBVIOUS
  <2> QED BY <2>1, <2>2, <2>3
<1>3. r = [i \in DOMAIN m |-> IF i < move THEN m[i + off] ELSE IF i < move + off THEN BG ELSE m[i]]
  BY <1>1 DEF scroll_framebuffer
<1>4. DOMAIN r = DOMAIN m /\ DOMAIN MovedUp(pic) = DOMAIN pic
  BY <1>3 DEF MovedUp
<1> HIDE DEF r
<1>5. ASSUME NEW p \in Box(fb.w, fb.h) PROVE r[WordOf(p)] = MovedUp(pic)[p]
  <2>1. PICK x \in 0 .. w - 1, y \in 0 .. h - 1 : p = <<x, y>>
    BY <1>1 DEF Box
  <2>2. WordOf(p) \in DOMAIN m /\ WordOf(p) = y * w + x
    BY <1>1, <2>1, WordInMemory DEF WordOf, Displays, Framed
  <2>3. PICK v \in Nat : v = y * w /\ v = w * y
    BY <2>1
  <2>4. MovedUp(pic)[p] = IF y + k < h THEN pic[<<x, y + k>>] ELSE BG
    BY <1>1, <2>1 DEF MovedUp, Displays, Framed
  <2>5. CASE y + k < h
    <3>1. w * y + w <= w * (h - k)
      BY <1>1, <2>1, <2>5, ProductGap
    <3>2. w * (h - k) = move
      BY <1>1
    <3> HIDE DEF move
    <3>3. v + x < move
      BY <1>1, <1>2, <2>1, <2>3, <3>1, <3>2
    <3>4. r[WordOf(p)] = m[v + x + off]
      BY <1>3, <2>2, <2>3, <3>3
    <3> DEFINE q == <<x, y + k>>
    <3>5. q \in Box(fb.w, fb.h)
      BY <1>1, <2>1, <2>5 DEF Box
    <3>6. (y + k) * w = y * w + k * w
      BY <1>1, <2>1
    <3>7. WordOf(q) = v + x + off
      <4>1. WordOf(q) = (y + k) * w + x
        BY <1>1 DEF WordOf
      <4>2. (y + k) * w = v + off
        BY <3>6, <2>3
      <4> HIDE DEF off
      <4> QED BY <1>2, <2>1, <4>1, <4>2
    <3> HIDE DEF q, off
    <3>8. m[WordOf(q)] = pic[q]
      BY <3>5 DEF Displays, Framed
    <3> QED BY <2>4, <2>5, <3>4, <3>7, <3>8 DEF q
  <2>6. CASE ~(y + k < h)
    <3>1. PICK n \in Nat : y = (h - k) + n
      <4>1. y - (h - k) \in Nat /\ y = (h - k) + (y - (h - k))
        BY <1>1, <2>1, <2>6
      <4> QED BY <4>1
    <3>2. PICK g \in Nat : g = h - k
      BY <1>1
    <3>3. y * w = g * w + n * w /\ n * w \in Nat
      BY <3>1, <3>2
    <3>4. v >= move
      <4>1. move = g * w
        BY <3>2
      <4>2. PICK a \in Nat : a = n * w
        BY <3>3
      <4> HIDE DEF move
      <4>3. v = move + a
        BY <2>3, <3>3, <4>1, <4>2
      <4> QED BY <1>2, <4>3
    <3>5. WordOf(p) < move + off /\ ~(WordOf(p) < move)
      <4>1. WordOf(p) \in 0 .. h * w - 1
        BY <1>1, <2>2 DEF Displays, Framed
      <4> HIDE DEF move, off
      <4> QED BY <1>2, <2>1, <2>2, <2>3, <3>4, <4>1
    <3> HIDE DEF move, off
    <3> QED BY <1>3, <2>2, <2>4, <2>6, <3>5
  <2> QED BY <2>5, <2>6
<1> QED BY <1>4, <1>5 DEF Displays, r, Framed

\* Products grow.
LEMMA ProductGrows ==
    ASSUME NEW d \in Nat \ {0}, NEW a \in Nat, NEW b \in Nat, a <= b
    PROVE  d * a <= d * b /\ a <= d * a /\ d * a \in Nat /\ d * a = a * d
<1>1. PICK u \in Int, v \in Int : u = d * a /\ v = d * b
  OBVIOUS
<1>2. d * a \in Nat
  OBVIOUS
<1>3. CASE a = b
  <2>1. PICK e \in Nat : d = 1 + e
    <3>1. d - 1 \in Nat /\ d = 1 + (d - 1)
      OBVIOUS
    <3> QED BY <3>1
  <2>2. (1 + e) * a = a + e * a /\ e * a \in Nat
    OBVIOUS
  <2> QED BY <1>1, <1>2, <1>3, <2>1, <2>2
<1>4. CASE a < b
  <2>1. d * a + d <= d * b
    BY <1>4, ProductGap
  <2>2. PICK e \in Nat : d = 1 + e
    <3>1. d - 1 \in Nat /\ d = 1 + (d - 1)
      OBVIOUS
    <3> QED BY <3>1
  <2>3. (1 + e) * a = a + e * a /\ e * a \in Nat
    OBVIOUS
  <2> QED BY <1>1, <1>2, <2>1, <2>2, <2>3
<1> QED BY <1>3, <1>4

\* An image fits s times as large.
Fits(g, s) == g.w * s <= fb.w /\ g.h * s <= fb.h

\* The loop of fb_present_xrgb ends with the largest factor that fits, or with 1,
\* and that is the one the picture is described with.
LEMMA ScaleIsFactor ==
    ASSUME ModeOk, fb.w # 0, NEW g, g.w \in Nat \ {0}, g.h \in Nat \ {0}
    PROVE  /\ ScaleOf(g) \in Nat \ {0} /\ (ScaleOf(g) = 1 \/ Fits(g, ScaleOf(g)))
           /\ (CHOOSE s \in 1 .. fb.w : /\ s = 1 \/ (s * g.w <= fb.w /\ s * g.h <= fb.h)
                                        /\ (s + 1) * g.w > fb.w \/ (s + 1) * g.h > fb.h) = ScaleOf(g)
<1>1. PICK w \in Nat, h \in Nat, a \in Nat \ {0}, b \in Nat \ {0} : w = fb.w /\ h = fb.h /\ a = g.w /\ b = g.h
  BY DEF ModeOk
<1> DEFINE F(s) == a * s <= w /\ b * s <= h
           T == {s \in 1 .. w : s = 1 \/ F(s)}
<1>2. ASSUME NEW s \in Nat, NEW r \in Nat, r <= s, F(s) PROVE F(r)
  <2>1. a * r <= a * s /\ b * r <= b * s
    BY <1>2, ProductGrows
  <2>2. a * r \in Int /\ a * s \in Int /\ b * r \in Int /\ b * s \in Int
    OBVIOUS
  <2> QED BY <1>2, <2>1, <2>2
<1>3. 1 \in T
  <2>1. 1 <= w
    BY <1>1
  <2> QED BY <1>1, <2>1
<1>4. PICK S \in T : \A k \in T : k <= S
  <2>1. w \in Int /\ T \in SUBSET Int /\ T # {} /\ \A k \in T : k <= w
    <3>1. T \subseteq 1 .. w
      OBVIOUS
    <3>2. T # {}
      BY <1>3
    <3> HIDE DEF T
    <3> QED BY <3>1, <3>2
  <2> HIDE DEF T
  <2> QED BY <2>1, GreatestUpTo
<1>5. S \in 1 .. w /\ (S = 1 \/ F(S)) /\ S + 1 \in Nat
  BY <1>4
<1>6. ~F(S + 1)
  <2> SUFFICES ASSUME F(S + 1) PROVE FALSE
    OBVIOUS
  <2>1. S + 1 <= a * (S + 1) /\ a * (S + 1) \in Nat
    BY <1>5, ProductGrows
  <2>2. S + 1 \in 1 .. w
    BY <1>5, <2>1
  <2>3. S + 1 \in T
    BY <2>2
  <2> QED BY <1>4, <1>5, <2>3
<1> HIDE DEF F
<1>7. ASSUME NEW s \in Nat \ {0}, ~F(s + 1), s > 1 => F(s) PROVE s = S
  <2>1. CASE s < S
    <3>1. s + 1 \in Nat /\ s + 1 <= S /\ S \in Nat
      BY <1>5, <2>1
    <3> QED BY <1>2, <1>5, <1>7, <3>1
  <2>2. CASE s > S
    <3>1. S + 1 <= s /\ s > 1
      BY <1>5, <2>2
    <3>2. F(S + 1)
      BY <1>2, <1>5, <1>7, <3>1
    <3> QED BY <1>6, <3>2
  <2> QED BY <1>5, <2>1, <2>2
<1>8. ScaleOf(g) = S
  <2>1. ScaleOf(g) = CHOOSE s \in 1 .. w + 1 : ~F(s + 1) /\ \A k \in 2 .. s : F(k)
    BY <1>1 DEF ScaleOf, F
  <2>2. S \in 1 .. w + 1 /\ ~F(S + 1) /\ \A k \in 2 .. S : F(k)
    BY <1>2, <1>5, <1>6
  <2>3. ASSUME NEW s \in 1 .. w + 1, ~F(s + 1), \A k \in 2 .. s : F(k) PROVE s = S
    BY <1>7, <2>3
  <2> QED BY <2>1, <2>2, <2>3
<1>9. (CHOOSE s \in 1 .. fb.w : /\ s = 1 \/ (s * g.w <= fb.w /\ s * g.h <= fb.h)
                                /\ (s + 1) * g.w > fb.w \/ (s + 1) * g.h > fb.h) = S
  <2> DEFINE P(s) == /\ s = 1 \/ (s * g.w <= fb.w /\ s * g.h <= fb.h)
                     /\ (s + 1) * g.w > fb.w \/ (s + 1) * g.h > fb.h
  <2>1. ASSUME NEW s \in 1 .. w PROVE P(s) <=> ((s = 1 \/ F(s)) /\ ~F(s + 1))
    <3>1. s * a = a * s /\ s * b = b * s /\ (s + 1) * a = a * (s + 1) /\ (s + 1) * b = b * (s + 1)
      OBVIOUS
    <3>2. PICK c \in Int, d \in Int, e \in Int, f \in Int : c = a * s /\ d = b * s /\ e = a * (s + 1) /\ f = b * (s + 1)
      OBVIOUS
    <3>3. P(s) <=> ((s = 1 \/ (c <= w /\ d <= h)) /\ (e > w \/ f > h))
      BY <1>1, <3>1, <3>2
    <3>4. (F(s) <=> (c <= w /\ d <= h)) /\ (F(s + 1) <=> (e <= w /\ f <= h))
      BY <3>2 DEF F
    <3> QED BY <3>3, <3>4
  <2> HIDE DEF P
  <2>2. S \in 1 .. w /\ P(S)
    BY <1>5, <1>6, <2>1
  <2>3. ASSUME NEW s \in 1 .. w, P(s) PROVE s = S
    BY <1>7, <2>1, <2>3
  <2>4. (CHOOSE s \in 1 .. w : P(s)) = S
    BY <2>2, <2>3
  <2> QED BY <1>1, <2>4 DEF P
<1> QED BY <1>1, <1>5, <1>8, <1>9 DEF F, Fits

\* Half of what is left, on each side.
LEMMA Centred ==
    ASSUME NEW w \in Nat, NEW u \in Nat, u <= w
    PROVE  (w - u) \div 2 \in Nat /\ (w - u) \div 2 + u <= w
<1>1. PICK n \in Nat : n = w - u
  OBVIOUS
<1>2. n \div 2 \in Nat /\ n \div 2 <= n
  OBVIOUS
<1> QED BY <1>1, <1>2

\* The line a row of the image is copied to: 32 bits wrap once at most.
LEMMA LineWraps ==
    ASSUME NEW L \in Nat \ {0}, NEW o \in Int, NEW n \in Nat, o + L >= 0, o + n < L
    PROVE  ((o % L) + n) % L = IF o + n >= 0 THEN o + n ELSE o + n + L
<1>1. ASSUME NEW z \in 0 .. L - 1 PROVE z % L = z
  BY ModSmall
<1>2. CASE o >= 0
  <2>1. o \in 0 .. L - 1 /\ o + n \in 0 .. L - 1
    BY <1>2
  <2> QED BY <1>1, <1>2, <2>1
<1>3. CASE o < 0
  <2>1. o % L = o + L
    <3>1. PICK z \in 0 .. L - 1 : z = o + L
      BY <1>3
    <3>2. L * (-1) = -L
      OBVIOUS
    <3>3. o = L * (-1) + z /\ -1 \in Int
      BY <3>1, <3>2
    <3> QED BY <3>1, <3>3, DivModUnique
  <2>2. CASE o + n < 0
    <3>1. PICK z \in 0 .. L - 1 : z = o + L + n
      BY <1>3, <2>2
    <3>2. ((o % L) + n) = z
      BY <2>1, <3>1
    <3> QED BY <1>1, <2>2, <3>1, <3>2
  <2>3. CASE o + n >= 0
    <3>1. PICK z \in 0 .. L - 1 : z = o + n
      BY <2>3
    <3>2. PICK y \in Int : y = (o % L) + n /\ y = L * 1 + z
      BY <2>1, <3>1
    <3>3. y % L = z
      BY <3>2, DivModUnique
    <3> QED BY <2>3, <3>1, <3>2, <3>3
  <2> QED BY <2>2, <2>3
<1> QED BY <1>2, <1>3

\* A line of the widened image: the words of the pixels of one row.
LEMMA RowHit ==
    ASSUME NEW d \in Nat \ {0}, NEW x \in 0 .. d - 1, NEW y \in Int, NEW b \in Int, NEW o \in Nat, NEW u \in Nat,
           o + u <= d
    PROVE  (y * d + x) - (b * d + o) \in 0 .. u - 1 <=> (y = b /\ x - o \in 0 .. u - 1)
<1>1. PICK c \in Int, e \in Int : c = y * d /\ e = b * d
  OBVIOUS
<1>2. ASSUME (y * d + x) - (b * d + o) \in 0 .. u - 1 PROVE y = b /\ x - o \in 0 .. u - 1
  <2>1. PICK k \in 0 .. u - 1 : k = (c + x) - (e + o)
    BY <1>1, <1>2
  <2>2. o + k \in 0 .. d - 1 /\ c + x = e + (o + k)
    BY <1>1, <2>1
  <2>3. PICK z \in 0 .. d - 1 : z = o + k
    BY <2>2
  <2>4. y * d + x = b * d + z
    BY <1>1, <2>2, <2>3
  <2>5. y = b /\ x = z
    BY <2>4, RowColumn
  <2> QED BY <2>1, <2>3, <2>5
<1>3. ASSUME y = b, x - o \in 0 .. u - 1 PROVE (y * d + x) - (b * d + o) \in 0 .. u - 1
  <2>1. c = e
    BY <1>1, <1>3
  <2> QED BY <1>1, <1>3, <2>1
<1> QED BY <1>2, <1>3

\* fb_present_xrgb of an image that is not wider than the screen.
LEMMA ImageDisplays ==
    ASSUME ModeOk, SizeOk, fb.w # 0, NEW m, NEW pic, Displays(m, pic), NEW g, g.w \in Nat \ {0}, g.h \in Nat \ {0},
           g.w <= fb.w, g.h <= BLIT_MAX
    PROVE  Displays(fb_present_xrgb(m, g), WithImage(pic, g))
<1>1. /\ ScaleOf(g) \in Nat \ {0} /\ (ScaleOf(g) = 1 \/ Fits(g, ScaleOf(g)))
      /\ (CHOOSE s \in 1 .. fb.w : /\ s = 1 \/ (s * g.w <= fb.w /\ s * g.h <= fb.h)
                                   /\ (s + 1) * g.w > fb.w \/ (s + 1) * g.h > fb.h) = ScaleOf(g)
  BY ScaleIsFactor
<1> DEFINE s == ScaleOf(g)
           w == fb.w
           h == fb.h
           d == fb.stride
           L == U32_LIMIT
           a == g.w
           b == g.h
           u == a * s
           v == b * s
           ox == (w - u) \div 2
           oy == (h - v) \div 2
           wide(sy) == [n \in 0 .. u - 1 |-> g.px[sy * a + n \div s]]
           lineAt(sy) == ((oy % L) + sy * s) % L
           row(sy, k) == (lineAt(sy) + k) * d + (ox % L)
           Hit(i, sy, k) == i - row(sy, k) \in DOMAIN wide(sy)
           r == fb_present_xrgb(m, g)
           factor == CHOOSE t \in 1 .. fb.w : /\ t = 1 \/ (t * g.w <= fb.w /\ t * g.h <= fb.h)
                                              /\ (t + 1) * g.w > fb.w \/ (t + 1) * g.h > fb.h
           x0 == (w - factor * a) \div 2
           y0 == (h - factor * b) \div 2
<1>2. r = [i \in DOMAIN m |->
             IF \E sy \in 0 .. b - 1, k \in 0 .. s - 1 : Hit(i, sy, k)
             THEN LET hit == CHOOSE z \in (0 .. b - 1) \X (0 .. s - 1) : Hit(i, z[1], z[2])
                  IN  wide(hit[1])[i - row(hit[1], hit[2])]
             ELSE m[i]]
  BY DEF fb_present_xrgb, RowAt
<1>3. WithImage(pic, g) = [q \in DOMAIN pic |->
             IF q[1] - x0 \in 0 .. factor * a - 1 /\ q[2] - y0 \in 0 .. factor * b - 1
             THEN g.px[((q[2] - y0) \div factor) * a + (q[1] - x0) \div factor] ELSE pic[q]]
  <2>1. ~(g.w > fb.w)
    BY DEF ModeOk
  <2> QED BY <2>1 DEF WithImage
<1>4. /\ w \in Nat /\ h \in Nat /\ d \in Nat \ {0} /\ w <= d /\ a \in Nat \ {0} /\ b \in Nat \ {0}
      /\ s \in Nat \ {0} /\ factor = s
  BY <1>1 DEF ModeOk
<1>5. u \in Nat /\ v \in Nat /\ u <= w /\ (v <= h \/ (s = 1 /\ v = b))
  <2>1. a * 1 = a /\ b * 1 = b
    BY <1>4
  <2> QED BY <1>1, <1>4, <2>1 DEF Fits
<1>6. PICK B \in Nat, H \in Nat : /\ B = BLIT_MAX /\ H = h * d /\ L \in Nat \ {0} /\ H + B <= L /\ b <= B
                                  /\ h <= H /\ d <= H
  <2>1. h \in Nat \ {0}
    BY ScreenAssumption DEF ModeOk
  <2>2. h <= d * h /\ d * h \in Nat /\ d * h = h * d /\ d <= h * d
    BY <1>4, <2>1, ProductGrows
  <2>3. BLIT_MAX \in Nat /\ L \in Nat /\ h * d + BLIT_MAX <= L
    BY DEF SizeOk
  <2>4. b <= BLIT_MAX /\ b >= 1
    BY <1>4
  <2> HIDE DEF h, d, L, b
  <2>5. PICK H \in Nat : H = h * d
    BY <2>2
  <2> QED BY <1>4, <2>2, <2>3, <2>4, <2>5
<1>7. ox \in Nat /\ ox + u <= w /\ oy \in Int /\ (v <= h => oy \in Nat /\ oy + v <= h)
      /\ (v > h => oy < 0 /\ oy + v >= 0)
  <2> HIDE DEF u, v, w, h
  <2>1. (h - v) \div 2 \in Int /\ (v > h => (h - v) \div 2 < 0 /\ (h - v) \div 2 + v >= 0)
    <3>1. PICK n \in Int : n = h - v
      BY <1>4, <1>5
    <3>2. n \div 2 \in Int /\ n = 2 * (n \div 2) + (n % 2) /\ n % 2 \in 0 .. 1
      BY DivMod
    <3> QED BY <1>4, <1>5, <3>1, <3>2
  <2> QED BY <1>4, <1>5, <2>1, Centred
<1>8. \A i, sy, k : Hit(i, sy, k) <=> i - row(sy, k) \in 0 .. u - 1
  OBVIOUS
<1> HIDE DEF factor, s
<1>11. factor * a = u /\ factor * b = v /\ x0 = ox /\ y0 = oy
  <2>1. factor * a = u /\ factor * b = v
    BY <1>4
  <2> QED BY <2>1
<1> HIDE DEF w, h, d, a, b, r, ox, oy, x0, y0, L
\* A row above the screen goes past its end.
<1>12. ASSUME NEW sy \in 0 .. b - 1
       PROVE  \/ lineAt(sy) = oy + sy * s /\ oy + sy * s >= 0
              \/ lineAt(sy) \in Int /\ lineAt(sy) >= H /\ oy + sy * s < 0 /\ s = 1
  <2>1. PICK n \in Nat : n = sy * s
    BY <1>4
  <2>2. n + s <= v
    <3>1. sy \in Int /\ b \in Int /\ sy < b
      BY <1>4
    <3>2. s * sy + s <= s * b
      BY <1>4, <3>1, ProductGap
    <3>3. s * sy = n /\ s * b = v
      BY <1>4, <2>1
    <3> HIDE DEF v
    <3> QED BY <1>4, <1>5, <2>1, <3>2, <3>3
  <2> HIDE DEF v, u
  <2>3. oy + n < L /\ oy + L >= 0
    BY <1>4, <1>5, <1>6, <1>7, <2>1, <2>2
  <2>4. ((oy % L) + n) % L = IF oy + n >= 0 THEN oy + n ELSE oy + n + L
    BY <1>6, <1>7, <2>1, <2>3, LineWraps
  <2>5. CASE oy + n >= 0
    BY <2>1, <2>4, <2>5
  <2>6. CASE oy + n < 0
    <3>1. v > h /\ s = 1 /\ v = b
      BY <1>4, <1>5, <1>7, <2>1, <2>6
    <3>2. oy + n + L \in Int /\ oy + n + L >= H
      BY <1>4, <1>5, <1>6, <1>7, <2>1, <3>1
    <3> QED BY <2>1, <2>4, <2>6, <3>1, <3>2, <1>7, <1>6
  <2> QED BY <1>7, <2>1, <2>5, <2>6
<1>13. ox % L = ox
  <2> HIDE DEF u
  <2>1. ox \in 0 .. L - 1
    BY <1>4, <1>5, <1>6, <1>7
  <2>2. PICK z \in 0 .. L - 1 : z = ox
    BY <2>1
  <2>3. z % L = z
    BY <1>6, ModSmall
  <2> QED BY <2>2, <2>3
<1>9. ASSUME NEW p \in Box(fb.w, fb.h) PROVE r[WordOf(p)] = WithImage(pic, g)[p]
  <2>1. PICK x \in 0 .. w - 1, y \in 0 .. h - 1 : p = <<x, y>>
    BY DEF Box, w, h
  <2>2. WordOf(p) \in DOMAIN m /\ WordOf(p) = y * d + x
    BY <2>1, WordInMemory DEF WordOf, Displays, Framed, d
  <2> DEFINE i == y * d + x
  <2>3. ASSUME NEW sy \in 0 .. b - 1, NEW k \in 0 .. s - 1
        PROVE  /\ Hit(i, sy, k) <=> (y = oy + sy * s + k /\ x - ox \in 0 .. u - 1)
               /\ Hit(i, sy, k) => lineAt(sy) + k = y
    <3>1. PICK f \in Int, e \in Int, n \in Int : f = lineAt(sy) + k /\ e = lineAt(sy) /\ n = sy * s
      <4>1. sy * s \in Int /\ k \in Int
        BY <1>4
      <4>2. lineAt(sy) \in Int
        BY <1>7, <1>12, <4>1
      <4> HIDE DEF lineAt
      <4> QED BY <4>1, <4>2
    <3>2. x \in 0 .. d - 1 /\ y \in Int /\ ox + u <= d
      <4> HIDE DEF u
      <4> QED BY <1>4, <1>5, <1>7, <2>1
    <3>3. (y * d + x) - (f * d + ox) \in 0 .. u - 1 <=> (y = f /\ x - ox \in 0 .. u - 1)
      <4> HIDE DEF u
      <4> QED BY <1>4, <1>5, <1>7, <3>1, <3>2, RowHit
    <3>4. Hit(i, sy, k) <=> i - row(sy, k) \in 0 .. u - 1
      BY <1>8
    <3>5. row(sy, k) = f * d + ox
      <4> HIDE DEF lineAt
      <4> QED BY <1>13, <3>1
    <3> HIDE DEF Hit, u, row
    <3>6. Hit(i, sy, k) <=> (y = f /\ x - ox \in 0 .. u - 1)
      BY <3>3, <3>4, <3>5
    <3>7. (e = oy + n /\ oy + n >= 0) \/ (e >= H /\ oy + n < 0 /\ s = 1)
      BY <1>12, <3>1
    <3>8. f = e + k /\ k \in 0 .. s - 1 /\ k \in Int
      BY <1>4, <3>1
    <3> HIDE DEF lineAt, i
    <3>9. y = f <=> y = oy + n + k
      BY <1>4, <1>6, <1>7, <2>1, <3>7, <3>8
    <3> QED BY <3>1, <3>6, <3>8, <3>9
  <2>4. ASSUME NEW sy \in 0 .. b - 1, NEW k \in 0 .. s - 1, y = oy + sy * s + k
        PROVE  (y - oy) \div s = sy /\ (y - oy) % s = k /\ y - oy \in 0 .. v - 1
    <3>1. PICK z \in Nat : z = sy * s /\ z = s * sy
      BY <1>4
    <3>2. PICK n \in Int : n = y - oy
      BY <1>7
    <3>3. n = s * sy + k /\ sy \in Int
      BY <1>4, <1>7, <2>4, <3>1, <3>2
    <3>4. n \div s = sy /\ n % s = k
      BY <1>4, <3>3, DivModUnique
    <3>5. s * sy + s <= s * b
      <4>1. sy \in Int /\ b \in Int /\ sy < b
        BY <1>4
      <4> QED BY <1>4, <4>1, ProductGap
    <3>6. s * b = v
      BY <1>4
    <3> HIDE DEF v
    <3>7. n \in 0 .. v - 1
      BY <1>5, <1>4, <3>1, <3>3, <3>5, <3>6
    <3> QED BY <3>2, <3>4, <3>7
  <2>5. ASSUME y - oy \in 0 .. v - 1
        PROVE  /\ (y - oy) \div s \in 0 .. b - 1 /\ (y - oy) % s \in 0 .. s - 1
               /\ y = oy + ((y - oy) \div s) * s + ((y - oy) % s)
    <3>1. PICK n \in Nat : n = y - oy /\ n < v
      <4> HIDE DEF v
      <4> QED BY <1>5, <2>5
    <3>2. PICK q \in Int, e \in 0 .. s - 1 : q = n \div s /\ e = n % s /\ n = s * q + e
      <4>1. n \div s \in Int /\ n % s \in 0 .. s - 1 /\ n = s * (n \div s) + (n % s)
        BY <1>4, DivMod
      <4> QED BY <4>1
    <3>3. q >= 0
      <4> SUFFICES ASSUME q < 0 PROVE FALSE
        BY <3>2
      <4>1. s * q + s <= s * 0
        BY <1>4, <3>2, ProductGap
      <4>2. PICK f \in Int, z \in Nat \ {0} : f = s * q /\ z = s
        BY <1>4, <3>2
      <4>3. z * 0 = 0
        OBVIOUS
      <4>4. f + z <= 0
        BY <4>1, <4>2, <4>3
      <4>5. n = f + e /\ e < z
        BY <3>2, <4>2
      <4> QED BY <3>1, <3>2, <4>2, <4>4, <4>5
    <3>4. q < b
      <4> SUFFICES ASSUME b <= q PROVE FALSE
        BY <1>4, <3>2
      <4>1. s * b <= s * q /\ s * b = b * s
        BY <1>4, <3>2, <3>3, ProductGrows
      <4>2. s * q \in Int
        BY <1>4, <3>2
      <4> QED BY <1>4, <3>1, <3>2, <4>1, <4>2
    <3>5. PICK f \in Int : f = q * s /\ f = s * q
      BY <1>4, <3>2
    <3>6. y = oy + q * s + e
      BY <1>7, <2>1, <3>1, <3>2, <3>5
    <3>7. q \in 0 .. b - 1
      BY <1>4, <3>2, <3>3, <3>4
    <3> QED BY <3>1, <3>2, <3>6, <3>7
  <2>6. CASE x - ox \in 0 .. u - 1 /\ y - oy \in 0 .. v - 1
    <3> DEFINE S == (0 .. b - 1) \X (0 .. s - 1)
               hit == CHOOSE z \in S : Hit(i, z[1], z[2])
               sy == (y - oy) \div s
               k == (y - oy) % s
    <3>1. sy \in 0 .. b - 1 /\ k \in 0 .. s - 1 /\ y = oy + sy * s + k
      BY <2>5, <2>6
    <3> HIDE DEF Hit, i, sy, k
    <3>2. Hit(i, sy, k)
      BY <2>3, <2>6, <3>1
    <3>3. \E z \in S : Hit(i, z[1], z[2])
      <4>1. <<sy, k>> \in S /\ <<sy, k>>[1] = sy /\ <<sy, k>>[2] = k
        BY <3>1
      <4> QED BY <3>2, <4>1
    <3>4. hit \in S /\ Hit(i, hit[1], hit[2])
      BY <3>3
    <3> HIDE DEF hit
    <3>5. hit[1] \in 0 .. b - 1 /\ hit[2] \in 0 .. s - 1
      BY <3>4
    <3>6. y = oy + hit[1] * s + hit[2]
      BY <2>3, <3>4, <3>5
    <3>7. hit[1] = sy
      BY <2>4, <3>5, <3>6 DEF sy
    <3>8. i - row(hit[1], hit[2]) = x - ox
      <4>1. PICK f \in Int : f = lineAt(hit[1]) + hit[2] /\ f = y
        BY <2>1, <2>3, <3>4, <3>5
      <4>2. PICK c \in Int : c = y * d
        BY <1>4, <2>1
      <4>3. row(hit[1], hit[2]) = c + ox
        <5> HIDE DEF lineAt
        <5> QED BY <1>13, <4>1, <4>2
      <4>4. i = c + x
        BY <4>2 DEF i
      <4> HIDE DEF row
      <4> QED BY <1>7, <2>1, <4>2, <4>3, <4>4
    <3>9. r[i] = wide(hit[1])[i - row(hit[1], hit[2])]
      <4>1. \E sy1 \in 0 .. b - 1, k1 \in 0 .. s - 1 : Hit(i, sy1, k1)
        BY <3>1, <3>2
      <4>2. i \in DOMAIN m
        BY <2>2 DEF i
      <4> HIDE DEF wide, row
      <4> QED BY <1>2, <4>1, <4>2 DEF hit
    <3>10. wide(hit[1])[x - ox] = g.px[sy * a + (x - ox) \div s]
      BY <2>6, <3>7
    <3>11. WithImage(pic, g)[p] = g.px[sy * a + (x - ox) \div s]
      BY <1>3, <1>4, <1>11, <2>1, <2>6 DEF Displays, Framed, sy
    <3> HIDE DEF wide, row
    <3> QED BY <2>2, <3>8, <3>9, <3>10, <3>11 DEF i
  <2>7. CASE ~(x - ox \in 0 .. u - 1 /\ y - oy \in 0 .. v - 1)
    <3> HIDE DEF Hit, i, wide, row
    <3>1. ~\E sy \in 0 .. b - 1, k \in 0 .. s - 1 : Hit(i, sy, k)
      BY <2>3, <2>4, <2>7
    <3>2. r[i] = m[i]
      BY <1>2, <2>2, <3>1 DEF i
    <3>3. WithImage(pic, g)[p] = pic[p]
      BY <1>3, <1>4, <1>11, <2>1, <2>7 DEF Displays, Framed
    <3> QED BY <2>2, <3>2, <3>3 DEF Displays, i
  <2> QED BY <2>6, <2>7
<1>10. DOMAIN r = DOMAIN m /\ DOMAIN WithImage(pic, g) = DOMAIN pic
  BY <1>2, <1>3
<1> QED BY <1>9, <1>10 DEF Displays, Framed, r

\* An image that is wider goes past the end of the framebuffer.
LEMMA WideImageDisplays ==
    ASSUME ModeOk, SizeOk, fb.w # 0, NEW m, NEW pic, Displays(m, pic), NEW g, g.w \in Nat \ {0}, g.h \in Nat \ {0},
           g.w > fb.w, g.w <= BLIT_MAX
    PROVE  Displays(fb_present_xrgb(m, g), WithImage(pic, g))
<1>1. WithImage(pic, g) = pic
  BY DEF WithImage
<1>2. PICK w \in Nat, d \in Nat, a \in Nat, L \in Nat, H \in Nat, B \in Nat :
         /\ w = fb.w /\ d = fb.stride /\ a = g.w /\ L = U32_LIMIT /\ B = BLIT_MAX /\ H = fb.h * fb.stride
  <2>1. fb.h * fb.stride \in Nat /\ fb.w \in Nat /\ fb.stride \in Nat
    BY DEF ModeOk
  <2>2. BLIT_MAX \in Nat /\ U32_LIMIT \in Nat
    BY DEF SizeOk
  <2> QED BY <2>1, <2>2
<1>3. a > w /\ a <= B /\ H + B <= L
  BY <1>2 DEF SizeOk
<1>4. ScaleOf(g) = 1
  <2>1. ScaleOf(g) \in Nat \ {0} /\ (ScaleOf(g) = 1 \/ Fits(g, ScaleOf(g)))
    BY ScaleIsFactor
  <2>2. ASSUME Fits(g, ScaleOf(g)) PROVE FALSE
    <3>1. PICK s \in Nat : s = ScaleOf(g) /\ s # 0
      BY <2>1
    <3>2. a <= s * a /\ s * a = a * s /\ s * a \in Nat
      BY <3>1, ProductGrows
    <3> QED BY <1>2, <1>3, <2>2, <3>1, <3>2 DEF Fits
  <2> QED BY <2>1, <2>2
<1>5. PICK x \in Int : x = (w - a) \div 2 /\ x < 0 /\ x + a >= 0
  <2>1. PICK n \in Int : n = w - a
    OBVIOUS
  <2>2. n \div 2 \in Int /\ n = 2 * (n \div 2) + (n % 2) /\ n % 2 \in 0 .. 1
    BY DivMod
  <2>3. PICK x \in Int : x = n \div 2
    BY <2>2
  <2>4. x < 0 /\ x + a >= 0
    BY <1>3, <2>1, <2>2, <2>3
  <2> QED BY <2>1, <2>3, <2>4
<1>6. x % L = x + L /\ x + L >= H
  <2>1. PICK z \in 0 .. L - 1 : z = x + L
    BY <1>3, <1>5
  <2>2. L * (-1) = -L
    OBVIOUS
  <2>3. x = L * (-1) + z /\ L \in Nat \ {0} /\ -1 \in Int
    BY <1>3, <1>5, <2>1, <2>2
  <2>4. x % L = z
    BY <2>1, <2>3, DivModUnique
  <2> QED BY <1>3, <1>5, <2>1, <2>4
<1>7. ASSUME NEW sy \in 0 .. g.h - 1, NEW k \in 0 .. ScaleOf(g) - 1 PROVE RowAt(g, sy, k) \in Int /\ RowAt(g, sy, k) >= H
  <2>1. PICK y \in Int : y = (fb.h - g.h * 1) \div 2
    <3>1. PICK n \in Int : n = fb.h - g.h * 1
      BY DEF ModeOk
    <3> QED BY <3>1, DivMod
  <2>2. PICK f \in Int : f = (y % L) + sy * 1
    <3>1. L \in Nat \ {0}
      BY <1>3
    <3>2. y % L \in 0 .. L - 1
      BY <3>1, DivMod
    <3> QED BY <3>2
  <2>3. PICK e \in Nat : e = f % L
    <3>1. L \in Nat \ {0}
      BY <1>3, <1>2
    <3>2. f % L \in 0 .. L - 1
      BY <3>1, DivMod
    <3> QED BY <3>2
  <2>4. g.w * 1 = a
    BY <1>2
  <2>5. RowAt(g, sy, k) = (e + k) * d + (x % L)
    BY <1>2, <1>4, <1>5, <2>1, <2>2, <2>3, <2>4 DEF RowAt
  <2>6. PICK c \in Nat : c = (e + k) * d
    <3>1. e + k \in Nat
      BY <1>4
    <3> QED BY <3>1
  <2> QED BY <1>2, <1>5, <1>6, <2>5, <2>6
<1>8. ASSUME NEW i \in DOMAIN m, NEW sy \in 0 .. g.h - 1, NEW k \in 0 .. ScaleOf(g) - 1, NEW n \in Int
      PROVE  i - RowAt(g, sy, k) \notin 0 .. n
  <2>1. i \in 0 .. H - 1
    BY <1>2 DEF Displays, Framed
  <2> QED BY <1>7, <2>1
<1>9. fb_present_xrgb(m, g) = [i \in DOMAIN m |-> m[i]]
  <2>1. g.w * ScaleOf(g) - 1 \in Int
    BY <1>4
  <2>2. ASSUME NEW i \in DOMAIN m, NEW sy \in 0 .. g.h - 1, NEW k \in 0 .. ScaleOf(g) - 1
        PROVE  i - RowAt(g, sy, k) \notin
                  DOMAIN [n \in 0 .. g.w * ScaleOf(g) - 1 |-> g.px[sy * g.w + n \div ScaleOf(g)]]
    BY <1>8, <2>1
  <2> QED BY <2>2 DEF fb_present_xrgb
<1>10. ASSUME NEW p \in Box(fb.w, fb.h) PROVE fb_present_xrgb(m, g)[WordOf(p)] = m[WordOf(p)]
  <2>1. WordOf(p) \in DOMAIN m
    BY WordInMemory DEF Displays, Framed
  <2> QED BY <1>9, <2>1
<1> QED BY <1>1, <1>9, <1>10 DEF Displays, Framed

\* A screen of tty.c that shows its picture.
ScreenShape(s) ==
    /\ DOMAIN s = {"mem", "col", "row", "picture", "skewed"} /\ s.skewed \in BOOLEAN
    /\ s.col \in Nat /\ s.row \in Nat /\ Framed(s.mem, s.picture)
Shows(s) ==
    /\ ScreenShape(s)
    /\ fb.w # 0 => s.col < fb.w \div FONT_WIDTH /\ s.row < fb.h \div FONT_HEIGHT
    /\ ~s.skewed => Displays(s.mem, s.picture)

\* Without a framebuffer every picture is shown.
LEMMA NothingToShow ==
    ASSUME ModeOk, fb.w = 0, NEW m, NEW pic, Framed(m, pic)
    PROVE  Displays(m, pic)
BY NoPixels DEF Displays

\* A screen has at least one column and one row.
LEMMA RoomForText ==
    ASSUME ModeOk, fb.w # 0
    PROVE  /\ 0 < fb.w \div FONT_WIDTH /\ fb.w \div FONT_WIDTH \in Nat
           /\ 0 < fb.h \div FONT_HEIGHT /\ fb.h \div FONT_HEIGHT \in Nat
<1>1. PICK w \in Nat, h \in Nat, a \in Nat \ {0}, b \in Nat \ {0} :
         w = fb.w /\ h = fb.h /\ a = FONT_WIDTH /\ b = FONT_HEIGHT /\ w >= a /\ h >= b
  BY ScreenAssumption DEF ModeOk
<1>2. ASSUME NEW v \in Nat, NEW d \in Nat \ {0}, v >= d PROVE v \div d \in Nat /\ 0 < v \div d
  <2>1. PICK q \in Int, e \in 0 .. d - 1 : q = v \div d /\ v = d * q + e
    <3>1. v \div d \in Int /\ v % d \in 0 .. d - 1 /\ v = d * (v \div d) + (v % d)
      BY DivMod
    <3> QED BY <3>1
  <2>2. q > 0
    <3> SUFFICES ASSUME q <= 0 PROVE FALSE
      BY <2>1
    <3>1. PICK k \in Nat : k = 0 - q
      BY <2>1
    <3>2. d * k \in Nat /\ d * q = 0 - d * k
      BY <2>1, <3>1
    <3>3. PICK f \in Nat : f = d * k
      BY <3>2
    <3> QED BY <1>2, <2>1, <3>2, <3>3
  <2> QED BY <2>1, <2>2
<1> QED BY <1>1, <1>2

\* tty_breakline: the cursor to the next line, or the text up by one.
LEMMA BreaklineShows ==
    ASSUME ModeOk, NEW s, ScreenShape(s), fb.w # 0 => s.row < fb.h \div FONT_HEIGHT,
           ~s.skewed => Displays(s.mem, s.picture)
    PROVE  Shows(tty_breakline(s))
<1> DEFINE d == [s EXCEPT !.row = @ + 1, !.col = 0]
           t == tty_scroll(d)
<1>1. /\ DOMAIN d = {"mem", "col", "row", "picture", "skewed"} /\ d.col = 0 /\ d.row = s.row + 1
      /\ d.mem = s.mem /\ d.picture = s.picture /\ d.skewed = s.skewed
  BY DEF ScreenShape
<1> HIDE DEF d
<1>2. /\ DOMAIN t = {"mem", "col", "row", "picture", "skewed"} /\ t.col = 0 /\ t.row = d.row - 1
      /\ t.mem = scroll_framebuffer(d.mem, FONT_HEIGHT) /\ t.picture = MovedUp(d.picture)
      /\ t.skewed = (d.skewed \/ fb.stride # fb.w)
  BY <1>1 DEF tty_scroll
<1>3. tty_breakline(s) = IF d.row = terminal_text_height THEN t ELSE d
  BY DEF tty_breakline, d
<1> HIDE DEF t
<1>4. t.row = s.row /\ s.row \in Nat
  BY <1>1, <1>2 DEF ScreenShape
<1>5. fb.w # 0 => 0 < fb.w \div FONT_WIDTH /\ 0 < fb.h \div FONT_HEIGHT /\ fb.h \div FONT_HEIGHT \in Nat
  BY RoomForText
<1>6. CASE d.row = terminal_text_height
  <2>1. Framed(t.mem, t.picture)
    BY <1>1, <1>2 DEF Framed, scroll_framebuffer, MovedUp, ScreenShape
  <2>2. ScreenShape(t)
    BY <1>1, <1>2, <1>4, <2>1 DEF ScreenShape
  <2>3. ~t.skewed => Displays(t.mem, t.picture)
    <3>1. CASE fb.w = 0
      BY <2>1, <3>1, NothingToShow
    <3>2. CASE fb.w # 0 /\ ~t.skewed
      <4>1. ~s.skewed /\ fb.stride = fb.w
        BY <1>1, <1>2, <3>2
      <4> QED BY <1>1, <1>2, <3>2, <4>1, ScrollDisplays
    <3> QED BY <3>1, <3>2
  <2> QED BY <1>2, <1>3, <1>4, <1>5, <1>6, <2>2, <2>3 DEF Shows
<1>7. CASE d.row # terminal_text_height
  <2>1. fb.w # 0 => d.row < fb.h \div FONT_HEIGHT
    BY <1>1, <1>4, <1>5, <1>7 DEF terminal_text_height
  <2>2. ScreenShape(d)
    BY <1>1, <1>4 DEF ScreenShape
  <2> QED BY <1>1, <1>3, <1>5, <1>7, <2>1, <2>2 DEF Shows
<1> QED BY <1>6, <1>7

\* A printable character, and the line break after the last column.
LEMMA PrintableShows ==
    ASSUME ModeOk, NEW s, Shows(s), NEW c
    PROVE  Shows(PutPrintable(s, c))
<1> DEFINE e == tty_putentryat(s, c)
           p == [e EXCEPT !.col = @ + 1]
<1>1. ScreenShape(s)
  BY DEF Shows
<1>2. /\ DOMAIN e = {"mem", "col", "row", "picture", "skewed"} /\ e.col = s.col /\ e.row = s.row
      /\ e.mem = draw_char(s.mem, s.col * FONT_WIDTH, s.row * FONT_HEIGHT, c)
      /\ e.picture = WithChar(s.picture, s.col, s.row, c) /\ e.skewed = s.skewed
  BY <1>1 DEF tty_putentryat, ScreenShape
<1>3. PutPrintable(s, c) = IF p.col = terminal_text_width THEN tty_breakline(p) ELSE p
  BY DEF PutPrintable
<1> HIDE DEF e
<1>4. /\ DOMAIN p = {"mem", "col", "row", "picture", "skewed"} /\ p.col = s.col + 1 /\ p.row = s.row
      /\ p.mem = e.mem /\ p.picture = e.picture /\ p.skewed = e.skewed
  BY <1>2
<1> HIDE DEF p
<1>5. Framed(p.mem, p.picture)
  BY <1>1, <1>2, <1>4 DEF Framed, draw_char, draw_pixels, WithChar, ScreenShape
<1>6. ScreenShape(p)
  BY <1>1, <1>2, <1>4, <1>5 DEF ScreenShape
<1>7. ~p.skewed => Displays(p.mem, p.picture)
  <2>1. CASE fb.w = 0
    BY <1>5, <2>1, NothingToShow
  <2>2. CASE fb.w # 0 /\ ~p.skewed
    <3>1. /\ Displays(s.mem, s.picture) /\ s.col \in Nat /\ s.row \in Nat
          /\ s.col < fb.w \div FONT_WIDTH /\ s.row < fb.h \div FONT_HEIGHT
      BY <1>2, <1>4, <2>2 DEF Shows, ScreenShape
    <3> QED BY <1>2, <1>4, <2>2, <3>1, CharDisplays
  <2> QED BY <2>1, <2>2
<1>8. fb.w # 0 => p.row < fb.h \div FONT_HEIGHT
  BY <1>4 DEF Shows
<1>9. CASE p.col = terminal_text_width
  BY <1>3, <1>6, <1>7, <1>8, <1>9, BreaklineShows
<1>10. CASE p.col # terminal_text_width
  <2>1. fb.w # 0 => p.col < fb.w \div FONT_WIDTH
    BY <1>1, <1>4, <1>10, RoomForText DEF terminal_text_width, Shows, ScreenShape
  <2> QED BY <1>3, <1>6, <1>7, <1>8, <1>10, <2>1 DEF Shows
<1> QED BY <1>9, <1>10

\* tty_clean.
LEMMA CleanShows ==
    ASSUME ModeOk, NEW s, Shows(s)
    PROVE  Shows(tty_clean(s))
<1> DEFINE t == tty_clean(s)
<1>1. ScreenShape(s)
  BY DEF Shows
<1>2. /\ DOMAIN t = {"mem", "col", "row", "picture", "skewed"} /\ t.col = 0 /\ t.row = 0
      /\ t.mem = clear_framebuffer(s.mem) /\ t.picture = Blank(s.picture) /\ t.skewed = s.skewed
  BY <1>1 DEF tty_clean, ScreenShape
<1> HIDE DEF t
<1>3. Displays(t.mem, t.picture)
  BY <1>1, <1>2, ClearDisplays DEF ScreenShape
<1>4. ScreenShape(t)
  BY <1>1, <1>2, <1>3 DEF ScreenShape, Displays
<1> QED BY <1>2, <1>3, <1>4, RoomForText DEF Shows, t

\* tty_tab: blanks up to the next stop.
LEMMA TabShows ==
    ASSUME ModeOk, NEW s, Shows(s)
    PROVE  Shows(tty_tab(s))
<1> DEFINE N == TAB_SIZE
           Blanked(r) == PutPrintable(r, " ")
           R(g) == [n \in 0 .. N |-> IF n = 0 THEN s ELSE Blanked(g[n - 1])]
           F == CHOOSE g : g = R(g)
           Upto(m, g) == g[0] = s /\ \A k \in 1 .. m : g[k] = Blanked(g[k - 1])
           last == N - (s.col % N)
<1>1. tty_tab(s) = F[last]
  BY DEF tty_tab
<1>2. N \in Nat \ {0} /\ last \in 0 .. N
  <2>1. N \in Nat \ {0} /\ s.col \in Nat
    BY ScreenAssumption DEF Shows, ScreenShape
  <2> HIDE DEF N
  <2>2. s.col % N \in 0 .. N - 1
    BY <2>1
  <2> QED BY <2>1, <2>2
<1>3. ASSUME NEW r, Shows(r) PROVE Shows(Blanked(r))
  BY <1>3, PrintableShows
<1> HIDE DEF Blanked, N, last
<1>4. F = R(F)
  <2> DEFINE T == {m \in 0 .. N : \E g : Upto(m, g)}
  <2>1. 0 \in T
    <3>1. Upto(0, [k \in 0 .. 0 |-> s])
      OBVIOUS
    <3>2. \E g : Upto(0, g)
      BY <3>1
    <3> HIDE DEF Upto
    <3> QED BY <3>2, <1>2
  <2>2. ASSUME NEW m \in 1 .. N, m - 1 \in T PROVE m \in T
    <3>1. PICK g : Upto(m - 1, g)
      BY <2>2
    <3> DEFINE f == [k \in 0 .. m |-> IF k = m THEN Blanked(g[m - 1]) ELSE g[k]]
    <3>2. f[0] = s
      BY <3>1
    <3>3. ASSUME NEW k \in 1 .. m PROVE f[k] = Blanked(f[k - 1])
      <4>1. k - 1 \in 0 .. m /\ k - 1 # m /\ k \in 0 .. m /\ (k # m => k \in 1 .. m - 1)
        OBVIOUS
      <4>2. f[k - 1] = g[k - 1]
        BY <4>1
      <4>3. CASE k = m
        BY <4>1, <4>2, <4>3
      <4>4. CASE k # m
        <5>1. f[k] = g[k]
          BY <4>1, <4>4
        <5> QED BY <3>1, <4>1, <4>2, <4>4, <5>1
      <4> QED BY <4>3, <4>4
    <3> HIDE DEF f
    <3>4. Upto(m, f)
      BY <3>2, <3>3
    <3>5. \E e : Upto(m, e)
      BY <3>4
    <3> HIDE DEF Upto
    <3>6. m \in 0 .. N
      BY <1>2
    <3> QED BY <3>5, <3>6
  <2> HIDE DEF T
  <2>3. 0 .. N \subseteq T
    BY <2>1, <2>2, <1>2, IntervalInduction
  <2>4. N \in T
    BY <2>3, <1>2
  <2>5. PICK g : Upto(N, g)
    BY <2>4 DEF T
  <2> DEFINE u == [k \in 0 .. N |-> g[k]]
  <2>6. ASSUME NEW k \in 0 .. N PROVE u[k] = IF k = 0 THEN s ELSE Blanked(u[k - 1])
    <3>1. CASE k = 0
      BY <2>5, <3>1
    <3>2. CASE k # 0
      <4>1. k \in 1 .. N /\ k - 1 \in 0 .. N
        BY <3>2, <1>2
      <4>2. u[k] = g[k] /\ u[k - 1] = g[k - 1]
        BY <4>1
      <4> QED BY <2>5, <3>2, <4>1, <4>2
    <3> QED BY <3>1, <3>2
  <2>7. u = R(u)
    BY <2>6
  <2> HIDE DEF u
  <2>8. \E e : e = R(e)
    BY <2>7
  <2> QED BY <2>8, Zenon
<1> HIDE DEF F
<1> DEFINE T == {k \in 0 .. N : Shows(F[k])}
<1>5. 0 \in T
  BY <1>2, <1>4
<1>6. ASSUME NEW k \in 1 .. N, k - 1 \in T PROVE k \in T
  <2>1. k \in 0 .. N /\ k # 0 /\ Shows(F[k - 1])
    BY <1>2, <1>6
  <2>2. F[k] = Blanked(F[k - 1])
    BY <1>4, <2>1
  <2> QED BY <1>3, <2>1, <2>2
<1> HIDE DEF T
<1>7. 0 .. N \subseteq T
  BY <1>2, <1>5, <1>6, IntervalInduction
<1> QED BY <1>1, <1>2, <1>7 DEF T

\* tty_putchar.
LEMMA PutcharShows ==
    ASSUME ModeOk, NEW s, Shows(s), NEW c
    PROVE  Shows(tty_putchar(s, c))
<1>1. Shows(tty_breakline(s))
  BY BreaklineShows DEF Shows
<1>2. Shows(tty_tab(s)) /\ Shows(tty_clean(s)) /\ Shows(PutPrintable(s, c))
  BY TabShows, CleanShows, PrintableShows
<1> QED BY <1>1, <1>2 DEF tty_putchar

-----------------------------------------------------------------------------
\* The inductive invariant: the cursor is on the grid, and the framebuffer shows
\* the picture unless a scroll skewed it.
ScreenInv == fb \in Gop /\ tty = [col |-> tty.col, row |-> tty.row] /\ Shows(Now)

\* The fields of the screen.
LEMMA NowFields ==
    /\ Now.mem = mem /\ Now.col = tty.col /\ Now.row = tty.row /\ Now.picture = picture /\ Now.skewed = skewed
    /\ DOMAIN Now = {"mem", "col", "row", "picture", "skewed"}
BY DEF Now

\* Every mode of the firmware is one the code copes with.
LEMMA GopOk ==
    ASSUME fb \in Gop
    PROVE  ModeOk
BY ScreenAssumption DEF ModeOk

LEMMA GopSize ==
    ASSUME fb \in Gop
    PROVE  SizeOk
BY ScreenAssumption DEF SizeOk

\* The screen is cleared before the first character.
LEMMA ScreenStarts ==
    ASSUME ScreenInit
    PROVE  ScreenInv
<1> DEFINE m == [i \in 0 .. fb.h * fb.stride - 1 |-> "firmware"]
<1>1. fb \in Gop /\ ModeOk
  BY GopOk DEF ScreenInit
<1>2. mem = clear_framebuffer(m) /\ picture = Blank(picture) /\ Framed(m, picture)
  BY DEF ScreenInit, Blank, Framed
<1> HIDE DEF m
<1>3. Displays(mem, picture)
  <2>1. PICK e : e = picture
    OBVIOUS
  <2>2. Displays(clear_framebuffer(m), Blank(e))
    BY <1>1, <1>2, <2>1, ClearDisplays
  <2> QED BY <1>2, <2>1, <2>2
<1>4. tty = [col |-> 0, row |-> 0] /\ skewed = FALSE
  BY DEF ScreenInit
<1>5. tty = [col |-> tty.col, row |-> tty.row] /\ tty.col = 0 /\ tty.row = 0
  BY <1>4
<1>6. ScreenShape(Now)
  <2>1. Now.col = 0 /\ Now.row = 0 /\ Framed(Now.mem, Now.picture)
    BY <1>3, <1>5, NowFields DEF Displays
  <2>2. Now.skewed \in BOOLEAN
    BY <1>4, NowFields
  <2> QED BY <2>1, <2>2, NowFields DEF ScreenShape
<1> QED BY <1>1, <1>3, <1>5, <1>6, NowFields, RoomForText DEF ScreenInv, Shows

\* A screen s with the mode kept.
LEMMA BecomesShows ==
    ASSUME fb \in Gop, NEW s, Shows(s), Becomes(s), UNCHANGED fb
    PROVE  ScreenInv'
<1>1. fb' = fb /\ (fb \in Gop)'
  OBVIOUS
<1>2. mem' = s.mem /\ picture' = s.picture /\ skewed' = s.skewed /\ tty' = [col |-> s.col, row |-> s.row]
  BY DEF Becomes
<1>3. Now' = [mem |-> s.mem, col |-> s.col, row |-> s.row, picture |-> s.picture, skewed |-> s.skewed]
  BY <1>2 DEF Now
<1>4. /\ Now'.mem = s.mem /\ Now'.col = s.col /\ Now'.row = s.row /\ Now'.picture = s.picture
      /\ Now'.skewed = s.skewed /\ DOMAIN Now' = {"mem", "col", "row", "picture", "skewed"}
  BY <1>3
<1>5. Shows(Now)'
  BY <1>1, <1>4 DEF Shows, ScreenShape, Framed, Displays, WordOf
<1> QED BY <1>1, <1>2, <1>5 DEF ScreenInv

\* Every step keeps it.
LEMMA ScreenInductive ==
    ASSUME ScreenInv, [ScreenNext]_screenVars
    PROVE  ScreenInv'
<1>1. fb \in Gop /\ ModeOk /\ Shows(Now) /\ tty = [col |-> tty.col, row |-> tty.row]
  BY GopOk DEF ScreenInv
<1>2. ASSUME NEW c, PutChar(c) PROVE ScreenInv'
  <2>1. Shows(tty_putchar(Now, c))
    BY <1>1, PutcharShows
  <2> QED BY <1>1, <1>2, <2>1, BecomesShows DEF PutChar, Step
<1>3. ASSUME NEW g \in Image, sys_fb_blit(g) PROVE ScreenInv'
  <2>1. fb' = fb /\ tty' = tty /\ skewed' = skewed
    BY <1>3 DEF sys_fb_blit, Step
  <2>2. CASE fb.w = 0 \/ g.w > BLIT_MAX \/ g.h > BLIT_MAX
    <3>1. mem' = mem /\ picture' = picture
      BY <1>3, <2>2 DEF sys_fb_blit
    <3>2. Now' = Now
      BY <2>1, <3>1 DEF Now
    <3> QED BY <1>1, <2>1, <3>2 DEF ScreenInv, Shows, ScreenShape, Framed, Displays, WordOf
  <2>3. CASE ~(fb.w = 0 \/ g.w > BLIT_MAX \/ g.h > BLIT_MAX)
    <3>1. mem' = fb_present_xrgb(mem, g) /\ picture' = WithImage(picture, g)
      BY <1>3, <2>3 DEF sys_fb_blit
    <3>2. g.w \in Nat \ {0} /\ g.h \in Nat \ {0} /\ g.w <= BLIT_MAX /\ g.h <= BLIT_MAX /\ fb.w # 0 /\ fb.w \in Nat
      BY <1>1, <2>3, ScreenAssumption DEF ModeOk
    <3> DEFINE s == [mem |-> mem', col |-> tty.col, row |-> tty.row, picture |-> picture', skewed |-> skewed]
    <3>3. s.mem = mem' /\ s.col = tty.col /\ s.row = tty.row /\ s.picture = picture' /\ s.skewed = skewed
          /\ DOMAIN s = {"mem", "col", "row", "picture", "skewed"}
      OBVIOUS
    <3>4. Becomes(s)
      BY <1>1, <2>1, <3>3 DEF Becomes
    <3> HIDE DEF s
    <3>5. Framed(mem', picture')
      BY <1>1, <3>1, NowFields DEF Shows, ScreenShape, Framed, fb_present_xrgb, WithImage
    <3>6. ~skewed => Displays(mem', picture')
      <4>1. CASE g.w <= fb.w
        BY <1>1, <3>1, <3>2, <4>1, NowFields, GopSize, ImageDisplays DEF Shows
      <4>2. CASE g.w > fb.w
        BY <1>1, <3>1, <3>2, <4>2, NowFields, GopSize, WideImageDisplays DEF Shows
      <4> QED BY <3>2, <4>1, <4>2
    <3>7. Shows(s)
      BY <1>1, <3>3, <3>5, <3>6, NowFields DEF Shows, ScreenShape
    <3> QED BY <1>1, <2>1, <3>4, <3>7, BecomesShows
  <2> QED BY <2>2, <2>3
<1>4. CASE UNCHANGED screenVars
  <2>1. fb' = fb /\ tty' = tty /\ Now' = Now
    BY <1>4 DEF screenVars, Now
  <2> QED BY <1>1, <2>1 DEF ScreenInv, Shows, ScreenShape, Framed, Displays, WordOf
<1> QED BY <1>2, <1>3, <1>4 DEF ScreenNext

\* The framebuffer shows the picture, for every mode, every font and every image
\* sys_fb_blit takes, larger than the screen or not (framebuffer.c, tty_putchar,
\* sys_fb_blit).
THEOREM ScreenStaysPicture == ScreenSpec => []ScreenIsPicture
<1>1. ScreenInit => ScreenInv
  BY ScreenStarts
<1>2. ScreenInv /\ [ScreenNext]_screenVars => ScreenInv'
  BY ScreenInductive
<1>3. ScreenInv => ScreenIsPicture
  <2>1. ASSUME ScreenInv, ~skewed, NEW p \in DOMAIN picture PROVE mem[p[2] * fb.stride + p[1]] = picture[p]
    BY <2>1, NowFields DEF ScreenInv, Shows, Displays, Framed, WordOf
  <2> QED BY <2>1 DEF ScreenIsPicture
<1> QED BY <1>1, <1>2, <1>3, PTL DEF ScreenSpec

-----------------------------------------------------------------------------
(* Text: what vfmt hands to its sink *)

\* The characters of formatted text.
TChar == (STRING \cup {Lower[k] : k \in 1 .. 16} \cup {Upper[k] : k \in 1 .. 16} \cup {" ", "-", "+", "x", "X", "%"}) \ {"NUL"}

\* The digits are characters.
LEMMA DigitsAreChars ==
    ASSUME NEW k \in 1 .. 16
    PROVE  Lower[k] \in TChar /\ Upper[k] \in TChar
<1>1. k = 1 \/ k = 2 \/ k = 3 \/ k = 4 \/ k = 5 \/ k = 6 \/ k = 7 \/ k = 8 \/ k = 9 \/ k = 10 \/ k = 11 \/ k = 12
      \/ k = 13 \/ k = 14 \/ k = 15 \/ k = 16
  OBVIOUS
<1>2. Lower[k] # "NUL"
  BY <1>1 DEF Lower
<1>3. Upper[k] # "NUL"
  BY <1>1 DEF Upper
<1> QED BY <1>2, <1>3 DEF TChar

\* So are the strings of a program.
LEMMA StringsAreChars ==
    /\ Char0 \subseteq TChar /\ {" ", "-", "+", "x", "X", "%", "0"} \subseteq TChar
<1>1. Lower[1] = "0"
  BY DEF Lower
<1>2. "0" \in TChar
  BY <1>1, DigitsAreChars
<1> QED BY <1>2 DEF Char0, TChar

\* Padding.
LEMMA TimesOk ==
    ASSUME NEW c \in TChar, NEW n \in Int
    PROVE  Times(c, n) \in Seq(TChar)
<1>1. CASE n > 0
  <2>1. [i \in 1 .. n |-> c] \in Seq(TChar)
    BY <1>1
  <2> QED BY <1>1, <2>1 DEF Times
<1>2. CASE ~(n > 0)
  BY <1>2, EmptySeq DEF Times
<1> QED BY <1>1, <1>2

\* The digits of a number.
LEMMA DigitsOk ==
    ASSUME NEW v \in Nat, NEW base \in {8, 10, 16}, NEW digs, \A k \in 1 .. 16 : digs[k] \in TChar
    PROVE  u_to_str(v, base, digs) \in Seq(TChar)
<1> DEFINE Body(g, x) == IF x < base THEN <<digs[x + 1]>> ELSE Append(g[x \div base], digs[(x % base) + 1])
           R(g) == [x \in 0 .. v |-> Body(g, x)]
           F == CHOOSE g : g = R(g)
           Upto(m, g) == \A x \in 0 .. m : g[x] = Body(g, x)
<1>1. u_to_str(v, base, digs) = F[v]
  BY DEF u_to_str
<1>2. ASSUME NEW x \in Nat, x >= base PROVE x \div base \in 0 .. x - 1 /\ x % base \in 0 .. base - 1
  BY <1>2
<1>3. ASSUME NEW x \in Nat, NEW g, x >= base => g[x \div base] \in Seq(TChar) PROVE Body(g, x) \in Seq(TChar)
  <2>1. CASE x < base
    <3>1. x + 1 \in 1 .. 16
      BY <2>1
    <3>2. PICK c \in TChar : c = digs[x + 1]
      BY <3>1
    <3>3. <<c>> \in Seq(TChar)
      OBVIOUS
    <3> QED BY <2>1, <3>2, <3>3
  <2>2. CASE ~(x < base)
    <3>1. (x % base) + 1 \in 1 .. 16 /\ x >= base
      BY <1>2, <2>2
    <3>2. PICK c \in TChar, s \in Seq(TChar) : c = digs[(x % base) + 1] /\ s = g[x \div base]
      BY <1>3, <3>1
    <3>3. Append(s, c) \in Seq(TChar)
      BY AppendProperties
    <3> QED BY <2>2, <3>2, <3>3
  <2> QED BY <2>1, <2>2
<1>4. ASSUME NEW f, NEW g, NEW x \in Nat, \A y \in 0 .. x - 1 : f[y] = g[y] PROVE Body(f, x) = Body(g, x)
  <2>1. CASE x < base
    BY <2>1
  <2>2. CASE ~(x < base)
    <3>1. f[x \div base] = g[x \div base]
      BY <1>2, <1>4, <2>2
    <3> QED BY <2>2, <3>1
  <2> QED BY <2>1, <2>2
<1> HIDE DEF Body
<1>5. F = R(F)
  <2> DEFINE T == {m \in 0 .. v : \E g : Upto(m, g)}
  <2>1. 0 \in T
    <3> DEFINE f == [x \in 0 .. 0 |-> Body(<<>>, 0)]
    <3>1. Body(f, 0) = Body(<<>>, 0)
      <4> HIDE DEF f
      <4> QED BY <1>4
    <3>2. f[0] = Body(f, 0)
      BY <3>1
    <3> HIDE DEF f
    <3>3. Upto(0, f)
      BY <3>2
    <3>4. \E g : Upto(0, g)
      BY <3>3
    <3> HIDE DEF Upto
    <3> QED BY <3>4
  <2>2. ASSUME NEW m \in 1 .. v, m - 1 \in T PROVE m \in T
    <3>1. PICK g : Upto(m - 1, g)
      BY <2>2
    <3> DEFINE f == [k \in 0 .. m |-> IF k = m THEN Body(g, m) ELSE g[k]]
    <3>2. ASSUME NEW k \in 0 .. m - 1 PROVE f[k] = g[k]
      OBVIOUS
    <3>3. f[m] = Body(g, m)
      OBVIOUS
    <3> HIDE DEF f
    <3>4. ASSUME NEW k \in 0 .. m PROVE f[k] = Body(f, k)
      <4>1. k \in Nat /\ \A y \in 0 .. k - 1 : f[y] = g[y]
        BY <3>2
      <4>2. Body(f, k) = Body(g, k)
        BY <1>4, <4>1
      <4>3. CASE k = m
        BY <3>3, <4>2, <4>3
      <4>4. CASE k # m
        <5>1. k \in 0 .. m - 1
          BY <4>4
        <5> QED BY <3>1, <3>2, <4>2, <5>1
      <4> QED BY <4>3, <4>4
    <3>5. Upto(m, f)
      BY <3>4
    <3>6. \E e : Upto(m, e)
      BY <3>5
    <3> HIDE DEF Upto
    <3> QED BY <3>6
  <2> HIDE DEF T
  <2>3. 0 .. v \subseteq T
    BY <2>1, <2>2, IntervalInduction
  <2>4. v \in T
    BY <2>3
  <2>5. PICK g : Upto(v, g)
    BY <2>4 DEF T
  <2> DEFINE u == [k \in 0 .. v |-> g[k]]
  <2>6. ASSUME NEW k \in 0 .. v PROVE u[k] = Body(u, k)
    <3>1. u[k] = g[k] /\ k \in Nat /\ \A y \in 0 .. k - 1 : u[y] = g[y]
      OBVIOUS
    <3> HIDE DEF u
    <3>2. Body(u, k) = Body(g, k)
      BY <1>4, <3>1
    <3> QED BY <2>5, <3>1, <3>2
  <2>7. u = R(u)
    BY <2>6
  <2> HIDE DEF u
  <2>8. \E e : e = R(e)
    BY <2>7
  <2> QED BY <2>8, Zenon
<1> HIDE DEF F
<1>6. \A x \in 0 .. v : F[x] = Body(F, x)
  BY <1>5
<1> DEFINE T == {m \in 0 .. v : \A x \in 0 .. m : F[x] \in Seq(TChar)}
<1>7. 0 \in T
  <2>1. ~(0 >= base)
    OBVIOUS
  <2>3. Body(F, 0) \in Seq(TChar)
    BY <1>3, <2>1
  <2>2. F[0] \in Seq(TChar)
    BY <1>6, <2>3
  <2> QED BY <2>2
<1>8. ASSUME NEW m \in 1 .. v, m - 1 \in T PROVE m \in T
  <2>1. \A x \in 0 .. m - 1 : F[x] \in Seq(TChar)
    BY <1>8
  <2>2. ASSUME m >= base PROVE F[m \div base] \in Seq(TChar)
    <3>1. m \div base \in 0 .. m - 1
      BY <1>2, <2>2
    <3> QED BY <2>1, <3>1
  <2>5. Body(F, m) \in Seq(TChar)
    BY <1>3, <2>2
  <2>3. F[m] \in Seq(TChar)
    BY <1>6, <2>5
  <2>4. \A x \in 0 .. m : x = m \/ x \in 0 .. m - 1
    OBVIOUS
  <2> QED BY <2>1, <2>3, <2>4
<1> HIDE DEF T
<1>9. 0 .. v \subseteq T
  BY <1>7, <1>8, IntervalInduction
<1>10. v \in T
  BY <1>9
<1> QED BY <1>1, <1>10 DEF T

\* A padded number.
LEMMA NumberOk ==
    ASSUME NEW it, it.width \in Int, it.prec \in Int, NEW prefix \in Seq(TChar), NEW digits \in Seq(TChar)
    PROVE  Number(it, prefix, digits) \in Seq(TChar)
<1> DEFINE zpad == IF it.prec > Len(digits) THEN it.prec - Len(digits) ELSE 0
           wpad == it.width - (Len(digits) + zpad + Len(prefix))
           A == Times(" ", IF ~it.left /\ ~it.zero THEN wpad ELSE 0)
           B == Times("0", IF ~it.left /\ it.zero /\ it.prec < 0 THEN wpad ELSE 0)
           C == Times("0", zpad)
           E == Times(" ", IF it.left THEN wpad ELSE 0)
<1>1. Len(digits) \in Nat /\ Len(prefix) \in Nat
  BY LenProperties
<1>2. zpad \in Int
  BY <1>1
<1> HIDE DEF zpad
<1>3. wpad \in Int
  BY <1>1, <1>2
<1> HIDE DEF wpad
<1>4. " " \in TChar /\ "0" \in TChar
  BY StringsAreChars
<1>5. A \in Seq(TChar)
  <2>1. (IF ~it.left /\ ~it.zero THEN wpad ELSE 0) \in Int
    BY <1>3
  <2> QED BY <1>4, <2>1, TimesOk
<1>6. B \in Seq(TChar)
  <2>1. (IF ~it.left /\ it.zero /\ it.prec < 0 THEN wpad ELSE 0) \in Int
    BY <1>3
  <2> QED BY <1>4, <2>1, TimesOk
<1>7. C \in Seq(TChar)
  BY <1>2, <1>4, TimesOk
<1>8. E \in Seq(TChar)
  <2>1. (IF it.left THEN wpad ELSE 0) \in Int
    BY <1>3
  <2> QED BY <1>4, <2>1, TimesOk
<1>9. Number(it, prefix, digits) = A \o prefix \o B \o C \o digits \o E
  BY DEF Number, zpad, wpad
<1> HIDE DEF A, B, C, E
<1>10. A \o prefix \in Seq(TChar)
  BY <1>5, ConcatProperties
<1>11. (A \o prefix) \o B \in Seq(TChar)
  BY <1>6, <1>10, ConcatProperties
<1>12. ((A \o prefix) \o B) \o C \in Seq(TChar)
  BY <1>7, <1>11, ConcatProperties
<1>13. (((A \o prefix) \o B) \o C) \o digits \in Seq(TChar)
  BY <1>12, ConcatProperties
<1>14. ((((A \o prefix) \o B) \o C) \o digits) \o E \in Seq(TChar)
  BY <1>8, <1>13, ConcatProperties
<1> QED BY <1>9, <1>14

\* A padded string.
LEMMA PaddedOk ==
    ASSUME NEW it, it.width \in Int, NEW s \in Seq(TChar)
    PROVE  Padded(it, s) \in Seq(TChar)
<1> DEFINE A == Times(" ", IF it.left THEN 0 ELSE it.width - Len(s))
           B == Times(" ", IF it.left THEN it.width - Len(s) ELSE 0)
<1>1. Len(s) \in Nat /\ " " \in TChar
  BY LenProperties, StringsAreChars
<1>2. (IF it.left THEN 0 ELSE it.width - Len(s)) \in Int /\ (IF it.left THEN it.width - Len(s) ELSE 0) \in Int
  <2>1. PICK w \in Int, k \in Nat : w = it.width /\ k = Len(s)
    BY <1>1
  <2>2. w - k \in Int
    OBVIOUS
  <2> QED BY <2>1, <2>2
<1>3. A \in Seq(TChar) /\ B \in Seq(TChar)
  BY <1>1, <1>2, TimesOk
<1>4. Padded(it, s) = A \o s \o B
  BY DEF Padded
<1> HIDE DEF A, B
<1>5. A \o s \in Seq(TChar)
  BY <1>3, ConcatProperties
<1>6. (A \o s) \o B \in Seq(TChar)
  BY <1>3, <1>5, ConcatProperties
<1> QED BY <1>4, <1>6

\* The first n characters.
LEMMA FirstIs ==
    ASSUME NEW D, NEW s \in Seq(D), NEW n \in Nat
    PROVE  /\ First(s, n) \in Seq(D) /\ Len(First(s, n)) = (IF n < Len(s) THEN n ELSE Len(s))
           /\ \A i \in 1 .. Len(First(s, n)) : First(s, n)[i] = s[i]
<1> DEFINE c == IF n < Len(s) THEN n ELSE Len(s)
<1>1. Len(s) \in Nat /\ \A i \in 1 .. Len(s) : s[i] \in D
  BY LenProperties, ElementOfSeq
<1>2. c \in Nat /\ c <= Len(s)
  BY <1>1
<1>3. First(s, n) = SubSeq(s, 1, c)
  BY DEF First
<1> HIDE DEF c
<1>4. \A i \in 1 .. c : s[i] \in D
  BY <1>1, <1>2
<1>5. /\ SubSeq(s, 1, c) \in Seq(D) /\ Len(SubSeq(s, 1, c)) = (IF 1 <= c THEN c - 1 + 1 ELSE 0)
      /\ \A i \in 1 .. c - 1 + 1 : SubSeq(s, 1, c)[i] = s[1 + i - 1]
  BY <1>2, <1>4, SubSeqProperties
<1>6. Len(SubSeq(s, 1, c)) = c
  BY <1>2, <1>5
<1>7. ASSUME NEW i \in 1 .. c PROVE SubSeq(s, 1, c)[i] = s[i]
  <2>1. i \in 1 .. c - 1 + 1 /\ 1 + i - 1 = i
    BY <1>2
  <2> QED BY <1>5, <2>1
<1> QED BY <1>3, <1>5, <1>6, <1>7 DEF c

\* A conversion yields characters.
LEMMA ConvertedOk ==
    ASSUME NEW it, NEW arg, Takes(it, arg)
    PROVE  Converted(it, arg) \in Seq(TChar)
<1>1. it.width \in Int /\ it.prec \in Int /\ it.conv \in TChar
  BY StringsAreChars DEF Takes
<1>2. \A k \in 1 .. 16 : Lower[k] \in TChar /\ Upper[k] \in TChar
  BY DigitsAreChars
<1>3. {" ", "-", "+", "x", "X", "%", "0"} \subseteq TChar
  BY StringsAreChars
<1>4. <<>> \in Seq(TChar) /\ <<"-">> \in Seq(TChar) /\ <<"+">> \in Seq(TChar) /\ <<" ">> \in Seq(TChar) /\ <<"%">> \in Seq(TChar)
  <2>1. PICK a \in TChar, b \in TChar, c \in TChar, d \in TChar : a = "-" /\ b = "+" /\ c = " " /\ d = "%"
    BY <1>3
  <2>2. <<a>> \in Seq(TChar) /\ <<b>> \in Seq(TChar) /\ <<c>> \in Seq(TChar) /\ <<d>> \in Seq(TChar)
    OBVIOUS
  <2> QED BY <2>1, <2>2, EmptySeq
<1>5. <<"0", "x">> \in Seq(TChar) /\ <<"0", "X">> \in Seq(TChar)
  <2>1. PICK a \in TChar, b \in TChar, c \in TChar : a = "0" /\ b = "x" /\ c = "X"
    BY <1>3
  <2>2. <<a, b>> \in Seq(TChar) /\ <<a, c>> \in Seq(TChar)
    OBVIOUS
  <2> QED BY <2>1, <2>2
<1>6. ASSUME NEW v \in Nat, NEW base \in {8, 10, 16}
      PROVE  u_to_str(v, base, Lower) \in Seq(TChar) /\ u_to_str(v, base, Upper) \in Seq(TChar)
  BY <1>2, DigitsOk
<1>7. CASE it.conv = "d"
  <2> DEFINE sign == IF arg < 0 THEN <<"-">> ELSE IF it.plus THEN <<"+">> ELSE IF it.space THEN <<" ">> ELSE <<>>
  <2>1. sign \in Seq(TChar)
    BY <1>4
  <2>2. Magnitude(arg) \in Nat
    BY <1>7 DEF Magnitude, Takes
  <2>3. u_to_str(Magnitude(arg), 10, Lower) \in Seq(TChar)
    BY <1>6, <2>2
  <2>4. Converted(it, arg) = Number(it, sign, u_to_str(Magnitude(arg), 10, Lower))
    BY <1>7 DEF Converted
  <2> HIDE DEF sign
  <2> QED BY <1>1, <2>1, <2>3, <2>4, NumberOk
<1>8. CASE it.conv \in {"u", "o", "x", "X", "p"}
  <2>1. arg \in Nat
    BY <1>8 DEF Takes
  <2>2. PICK d, e, f, g : /\ d = u_to_str(arg, 10, Lower) /\ e = u_to_str(arg, 8, Lower)
                          /\ f = u_to_str(arg, 16, Lower) /\ g = u_to_str(arg, 16, Upper)
    OBVIOUS
  <2>3. d \in Seq(TChar) /\ e \in Seq(TChar) /\ f \in Seq(TChar) /\ g \in Seq(TChar)
    BY <1>6, <2>1, <2>2
  <2>4. CASE it.conv = "u"
    <3>1. Converted(it, arg) = Number(it, <<>>, d)
      BY <2>2, <2>4 DEF Converted
    <3> QED BY <1>1, <1>4, <2>3, <3>1, NumberOk
  <2>5. CASE it.conv = "o"
    <3>1. Converted(it, arg) = Number(it, <<>>, e)
      BY <2>2, <2>5 DEF Converted
    <3> QED BY <1>1, <1>4, <2>3, <3>1, NumberOk
  <2>6. CASE it.conv = "x"
    <3> DEFINE pre == IF it.alt /\ arg # 0 THEN <<"0", "x">> ELSE <<>>
    <3>1. Converted(it, arg) = Number(it, pre, f)
      BY <2>2, <2>6 DEF Converted
    <3>2. pre \in Seq(TChar)
      BY <1>4, <1>5
    <3> HIDE DEF pre
    <3> QED BY <1>1, <2>3, <3>1, <3>2, NumberOk
  <2>7. CASE it.conv = "X"
    <3> DEFINE pre == IF it.alt /\ arg # 0 THEN <<"0", "X">> ELSE <<>>
    <3>1. Converted(it, arg) = Number(it, pre, g)
      BY <2>2, <2>7 DEF Converted
    <3>2. pre \in Seq(TChar)
      BY <1>4, <1>5
    <3> HIDE DEF pre
    <3> QED BY <1>1, <2>3, <3>1, <3>2, NumberOk
  <2>8. CASE it.conv = "p"
    <3>1. PICK h \in Seq(TChar) : h = <<"0", "x">>
      BY <1>5
    <3>2. h \o f \in Seq(TChar)
      BY <2>3, ConcatProperties
    <3>3. Converted(it, arg) = Padded(it, h \o f)
      BY <2>2, <2>8, <3>1 DEF Converted
    <3> QED BY <1>1, <3>2, <3>3, PaddedOk
  <2> QED BY <1>8, <2>4, <2>5, <2>6, <2>7, <2>8
<1>9. CASE it.conv = "c"
  <2>1. arg \in TChar
    BY <1>9, StringsAreChars DEF Takes
  <2>2. <<arg>> \in Seq(TChar)
    BY <2>1
  <2>3. Converted(it, arg) = Padded(it, <<arg>>)
    BY <1>9 DEF Converted
  <2> QED BY <1>1, <2>2, <2>3, PaddedOk
<1>10. CASE it.conv \in {"s", "lit"}
  <2>1. arg \in Seq(TChar)
    <3>1. arg \in Seq(Char0)
      BY <1>10 DEF Takes
    <3> QED BY <3>1, SeqMonotonic, StringsAreChars
  <2>2. CASE it.conv = "lit"
    BY <2>1, <2>2 DEF Converted
  <2>3. CASE it.conv = "s"
    <3> DEFINE cut == IF it.prec >= 0 THEN First(arg, it.prec) ELSE arg
    <3>1. cut \in Seq(TChar)
      <4>1. CASE it.prec >= 0
        <5>1. it.prec \in Nat
          BY <1>1, <4>1
        <5> QED BY <2>1, <4>1, <5>1, FirstIs
      <4> QED BY <2>1, <4>1
    <3>2. Converted(it, arg) = Padded(it, cut)
      BY <2>3 DEF Converted
    <3> HIDE DEF cut
    <3> QED BY <1>1, <3>1, <3>2, PaddedOk
  <2> QED BY <1>10, <2>2, <2>3
<1>11. CASE it.conv \in {"n", "end", "%"}
  BY <1>4, <1>11 DEF Converted
<1>12. CASE it.conv \notin {"d", "u", "o", "x", "X", "p", "c", "s", "lit", "n", "end", "%"}
  <2>1. <<"%", it.conv>> \in Seq(TChar)
    <3>1. PICK a \in TChar, b \in TChar : a = "%" /\ b = it.conv
      BY <1>1, <1>3
    <3>2. <<a, b>> \in Seq(TChar)
      OBVIOUS
    <3> QED BY <3>1, <3>2
  <2> QED BY <1>12, <2>1 DEF Converted
<1> QED BY <1>7, <1>8, <1>9, <1>10, <1>11, <1>12

\* A job of a program.
JobOk(fmt, args) == Len(fmt) \in Nat /\ \A i \in 1 .. Len(fmt) : Takes(fmt[i], args[i])

\* What vfmt hands to its sink is text without a NUL.
LEMMA VfmtOk ==
    ASSUME NEW fmt, NEW args, JobOk(fmt, args)
    PROVE  vfmt(fmt, args).out \in Seq(TChar)
<1> DEFINE N == Len(fmt)
           start == [out |-> <<>>, n |-> -1]
           Step1(i, p) == [out |-> p.out \o Converted(fmt[i], args[i]),
                           n   |-> IF fmt[i].conv = "n" THEN Len(p.out) ELSE p.n]
           R(g) == [i \in 0 .. N |-> IF i = 0 THEN start ELSE Step1(i, g[i - 1])]
           F == CHOOSE g : g = R(g)
           Upto(m, g) == g[0] = start /\ \A k \in 1 .. m : g[k] = Step1(k, g[k - 1])
<1>1. vfmt(fmt, args) = F[N]
  BY DEF vfmt
<1>2. N \in Nat
  BY DEF JobOk
<1>3. ASSUME NEW i \in 1 .. N, NEW p, p.out \in Seq(TChar) PROVE Step1(i, p).out \in Seq(TChar)
  <2>1. Converted(fmt[i], args[i]) \in Seq(TChar)
    BY ConvertedOk DEF JobOk
  <2>2. PICK a \in Seq(TChar), b \in Seq(TChar) : a = p.out /\ b = Converted(fmt[i], args[i])
    BY <1>3, <2>1
  <2>3. a \o b \in Seq(TChar)
    BY ConcatProperties
  <2> QED BY <2>2, <2>3
<1>4. start.out \in Seq(TChar)
  BY EmptySeq
<1> HIDE DEF start, Step1, N
<1>5. F = R(F)
  <2> DEFINE T == {m \in 0 .. N : \E g : Upto(m, g)}
  <2>1. 0 \in T
    <3>1. Upto(0, [k \in 0 .. 0 |-> start])
      OBVIOUS
    <3>2. \E g : Upto(0, g)
      BY <3>1
    <3> HIDE DEF Upto
    <3> QED BY <3>2, <1>2
  <2>2. ASSUME NEW m \in 1 .. N, m - 1 \in T PROVE m \in T
    <3>1. PICK g : Upto(m - 1, g)
      BY <2>2
    <3> DEFINE f == [k \in 0 .. m |-> IF k = m THEN Step1(m, g[m - 1]) ELSE g[k]]
    <3>2. f[0] = start
      BY <3>1
    <3>3. ASSUME NEW k \in 1 .. m PROVE f[k] = Step1(k, f[k - 1])
      <4>1. k - 1 \in 0 .. m /\ k - 1 # m /\ k \in 0 .. m /\ (k # m => k \in 1 .. m - 1)
        OBVIOUS
      <4>2. f[k - 1] = g[k - 1]
        BY <4>1
      <4>3. CASE k = m
        BY <4>1, <4>2, <4>3
      <4>4. CASE k # m
        <5>1. f[k] = g[k]
          BY <4>1, <4>4
        <5> QED BY <3>1, <4>1, <4>2, <4>4, <5>1
      <4> QED BY <4>3, <4>4
    <3> HIDE DEF f
    <3>4. Upto(m, f)
      BY <3>2, <3>3
    <3>5. \E e : Upto(m, e)
      BY <3>4
    <3> HIDE DEF Upto
    <3>6. m \in 0 .. N
      BY <1>2
    <3> QED BY <3>5, <3>6
  <2> HIDE DEF T
  <2>3. 0 .. N \subseteq T
    BY <2>1, <2>2, <1>2, IntervalInduction
  <2>4. N \in T
    BY <2>3, <1>2
  <2>5. PICK g : Upto(N, g)
    BY <2>4 DEF T
  <2> DEFINE u == [k \in 0 .. N |-> g[k]]
  <2>6. ASSUME NEW k \in 0 .. N PROVE u[k] = IF k = 0 THEN start ELSE Step1(k, u[k - 1])
    <3>1. CASE k = 0
      BY <2>5, <3>1
    <3>2. CASE k # 0
      <4>1. k \in 1 .. N /\ k - 1 \in 0 .. N
        BY <3>2, <1>2
      <4>2. u[k] = g[k] /\ u[k - 1] = g[k - 1]
        BY <4>1
      <4> QED BY <2>5, <3>2, <4>1, <4>2
    <3> QED BY <3>1, <3>2
  <2>7. u = R(u)
    BY <2>6
  <2> HIDE DEF u
  <2>8. \E e : e = R(e)
    BY <2>7
  <2> QED BY <2>8, Zenon
<1> HIDE DEF F
<1> DEFINE T == {k \in 0 .. N : F[k].out \in Seq(TChar)}
<1>6. 0 \in T
  BY <1>2, <1>4, <1>5
<1>7. ASSUME NEW k \in 1 .. N, k - 1 \in T PROVE k \in T
  <2>1. k \in 0 .. N /\ k # 0 /\ F[k - 1].out \in Seq(TChar)
    BY <1>2, <1>7
  <2>2. F[k] = Step1(k, F[k - 1])
    BY <1>5, <2>1
  <2> QED BY <1>3, <2>1, <2>2
<1> HIDE DEF T
<1>8. 0 .. N \subseteq T
  BY <1>2, <1>6, <1>7, IntervalInduction
<1> QED BY <1>1, <1>2, <1>8 DEF T

-----------------------------------------------------------------------------
(* Text: the sink *)

\* f is the sink after each character of text.
PutInto(s, text, f) == f[0] = s /\ \A i \in 1 .. Len(text) : f[i] = sink_putc(f[i - 1], text[i])

\* The loop of sink_write runs through all of its text.
LEMMA WriteRuns ==
    ASSUME NEW s, NEW text \in Seq(TChar)
    PROVE  \E f : PutInto(s, text, f) /\ sink_write(s, text) = sink_flush(f[Len(text)])
<1> DEFINE N == Len(text)
           Put(i, p) == sink_putc(p, text[i])
           R(g) == [i \in 0 .. N |-> IF i = 0 THEN s ELSE Put(i, g[i - 1])]
           F == CHOOSE g : g = R(g)
           Upto(m, g) == g[0] = s /\ \A k \in 1 .. m : g[k] = Put(k, g[k - 1])
<1>1. sink_write(s, text) = sink_flush(F[N])
  BY DEF sink_write
<1>2. N \in Nat
  BY LenProperties
<1>3. PutInto(s, text, F) <=> Upto(N, F)
  BY DEF PutInto
<1> HIDE DEF Put, N
<1>5. F = R(F)
  <2> DEFINE T == {m \in 0 .. N : \E g : Upto(m, g)}
  <2>1. 0 \in T
    <3>1. Upto(0, [k \in 0 .. 0 |-> s])
      OBVIOUS
    <3>2. \E g : Upto(0, g)
      BY <3>1
    <3> HIDE DEF Upto
    <3> QED BY <3>2, <1>2
  <2>2. ASSUME NEW m \in 1 .. N, m - 1 \in T PROVE m \in T
    <3>1. PICK g : Upto(m - 1, g)
      BY <2>2
    <3> DEFINE f == [k \in 0 .. m |-> IF k = m THEN Put(m, g[m - 1]) ELSE g[k]]
    <3>2. f[0] = s
      BY <3>1
    <3>3. ASSUME NEW k \in 1 .. m PROVE f[k] = Put(k, f[k - 1])
      <4>1. k - 1 \in 0 .. m /\ k - 1 # m /\ k \in 0 .. m /\ (k # m => k \in 1 .. m - 1)
        OBVIOUS
      <4>2. f[k - 1] = g[k - 1]
        BY <4>1
      <4>3. CASE k = m
        BY <4>1, <4>2, <4>3
      <4>4. CASE k # m
        <5>1. f[k] = g[k]
          BY <4>1, <4>4
        <5> QED BY <3>1, <4>1, <4>2, <4>4, <5>1
      <4> QED BY <4>3, <4>4
    <3> HIDE DEF f
    <3>4. Upto(m, f)
      BY <3>2, <3>3
    <3>5. \E e : Upto(m, e)
      BY <3>4
    <3> HIDE DEF Upto
    <3>6. m \in 0 .. N
      BY <1>2
    <3> QED BY <3>5, <3>6
  <2> HIDE DEF T
  <2>3. 0 .. N \subseteq T
    BY <2>1, <2>2, <1>2, IntervalInduction
  <2>4. N \in T
    BY <2>3, <1>2
  <2>5. PICK g : Upto(N, g)
    BY <2>4 DEF T
  <2> DEFINE u == [k \in 0 .. N |-> g[k]]
  <2>6. ASSUME NEW k \in 0 .. N PROVE u[k] = IF k = 0 THEN s ELSE Put(k, u[k - 1])
    <3>1. CASE k = 0
      BY <2>5, <3>1
    <3>2. CASE k # 0
      <4>1. k \in 1 .. N /\ k - 1 \in 0 .. N
        BY <3>2, <1>2
      <4>2. u[k] = g[k] /\ u[k - 1] = g[k - 1]
        BY <4>1
      <4> QED BY <2>5, <3>2, <4>1, <4>2
    <3> QED BY <3>1, <3>2
  <2>7. u = R(u)
    BY <2>6
  <2> HIDE DEF u
  <2>8. \E e : e = R(e)
    BY <2>7
  <2> QED BY <2>8, Zenon
<1> HIDE DEF F
<1>6. F[0] = s
  BY <1>2, <1>5
<1>7. ASSUME NEW k \in 1 .. N PROVE F[k] = Put(k, F[k - 1])
  <2>1. k \in 0 .. N /\ k # 0
    BY <1>2
  <2> QED BY <1>5, <2>1
<1>8. Upto(N, F)
  BY <1>6, <1>7
<1> QED BY <1>1, <1>3, <1>8 DEF N

\* A buffer of cap bytes after i characters.
Stored(cap, text, i) == [k \in 0 .. cap - 1 |-> IF k < i /\ k + 1 < cap THEN text[k + 1] ELSE "junk"]
BufSink(cap, b, i) == [buf |-> b, cap |-> cap, len |-> i, fd |-> -1, fbuf |-> <<>>, wrote |-> <<>>]

\* One character into a buffer.
LEMMA PutcBuffer ==
    ASSUME NEW cap \in Nat, NEW b, NEW i \in Nat, NEW c
    PROVE  sink_putc(BufSink(cap, b, i), c) = BufSink(cap, IF i + 1 < cap THEN [b EXCEPT ![i] = c] ELSE b, i + 1)
<1> DEFINE s == BufSink(cap, b, i)
<1>1. s.fd = -1 /\ s.len = i /\ s.cap = cap /\ s.buf = b
  BY DEF BufSink
<1>2. ~(s.fd >= 0)
  BY <1>1
<1>3. CASE i + 1 < cap
  <2>1. [s EXCEPT !.buf[s.len] = c] = BufSink(cap, [b EXCEPT ![i] = c], i)
    BY DEF BufSink
  <2>2. [BufSink(cap, [b EXCEPT ![i] = c], i) EXCEPT !.len = @ + 1] = BufSink(cap, [b EXCEPT ![i] = c], i + 1)
    BY DEF BufSink
  <2> HIDE DEF s
  <2>3. sink_putc(s, c) = [[s EXCEPT !.buf[s.len] = c] EXCEPT !.len = @ + 1]
    BY <1>1, <1>2, <1>3 DEF sink_putc
  <2> QED BY <1>3, <2>1, <2>2, <2>3 DEF s
<1>4. CASE ~(i + 1 < cap)
  <2>2. [s EXCEPT !.len = @ + 1] = BufSink(cap, b, i + 1)
    BY DEF BufSink
  <2> HIDE DEF s
  <2>3. sink_putc(s, c) = [s EXCEPT !.len = @ + 1]
    BY <1>1, <1>2, <1>4 DEF sink_putc
  <2> QED BY <1>4, <2>2, <2>3 DEF s
<1> QED BY <1>3, <1>4

\* The whole text into a buffer.
LEMMA WriteBuffer ==
    ASSUME NEW cap \in Nat, NEW text \in Seq(TChar)
    PROVE  sink_write(Sink(cap, -1), text) = BufSink(cap, Stored(cap, text, Len(text)), Len(text))
<1>1. PICK f : PutInto(Sink(cap, -1), text, f) /\ sink_write(Sink(cap, -1), text) = sink_flush(f[Len(text)])
  BY WriteRuns
<1> DEFINE N == Len(text)
           T == {i \in 0 .. N : f[i] = BufSink(cap, Stored(cap, text, i), i)}
<1>2. N \in Nat
  BY LenProperties
<1>3. 0 \in T
  <2>1. Sink(cap, -1) = BufSink(cap, Stored(cap, text, 0), 0)
    <3>1. Stored(cap, text, 0) = [k \in 0 .. cap - 1 |-> "junk"]
      BY DEF Stored
    <3> QED BY <3>1 DEF Sink, BufSink
  <2> QED BY <1>1, <1>2, <2>1 DEF PutInto
<1>4. ASSUME NEW i \in 1 .. N, i - 1 \in T PROVE i \in T
  <2>1. PICK j \in Nat : j = i - 1
    BY <1>2
  <2>2. f[j] = BufSink(cap, Stored(cap, text, j), j) /\ f[i] = sink_putc(f[j], text[i]) /\ i = j + 1
    BY <1>1, <1>4, <2>1 DEF PutInto
  <2> DEFINE b == Stored(cap, text, j)
  <2>3. (IF j + 1 < cap THEN [b EXCEPT ![j] = text[i]] ELSE b) = Stored(cap, text, j + 1)
    <3>1. CASE j + 1 < cap
      <4>1. ASSUME NEW k \in 0 .. cap - 1 PROVE [b EXCEPT ![j] = text[i]][k] = Stored(cap, text, j + 1)[k]
        <5>1. k < j + 1 <=> k < j \/ k = j
          OBVIOUS
        <5> QED BY <2>2, <3>1, <5>1 DEF Stored
      <4> QED BY <3>1, <4>1 DEF Stored
    <3>2. CASE ~(j + 1 < cap)
      <4>1. ASSUME NEW k \in 0 .. cap - 1 PROVE b[k] = Stored(cap, text, j + 1)[k]
        <5>1. k + 1 < cap => k < j /\ k < j + 1
          BY <3>2
        <5> QED BY <5>1 DEF Stored
      <4> QED BY <3>2, <4>1 DEF Stored
    <3> QED BY <3>1, <3>2
  <2> HIDE DEF b
  <2>4. sink_putc(BufSink(cap, b, j), text[i]) = BufSink(cap, IF j + 1 < cap THEN [b EXCEPT ![j] = text[i]] ELSE b, j + 1)
    BY PutcBuffer
  <2>5. f[i] = BufSink(cap, Stored(cap, text, j + 1), j + 1)
    BY <2>2, <2>3, <2>4 DEF b
  <2> QED BY <1>2, <2>2, <2>5
<1> HIDE DEF T
<1>5. 0 .. N \subseteq T
  BY <1>2, <1>3, <1>4, IntervalInduction
<1>6. f[N] = BufSink(cap, Stored(cap, text, N), N)
  BY <1>2, <1>5 DEF T
<1>7. sink_flush(BufSink(cap, Stored(cap, text, N), N)) = BufSink(cap, Stored(cap, text, N), N)
  BY DEF sink_flush, BufSink
<1> QED BY <1>1, <1>6, <1>7

\* A buffer of at least one byte holds the longest prefix that leaves room for
\* the NUL, and any call returns the length of the text.
LEMMA BufferHolds ==
    ASSUME NEW cap \in Nat, NEW fmt, NEW args, JobOk(fmt, args)
    PROVE  /\ vfmt_buf(cap, fmt, args).ret = Len(vfmt(fmt, args).out)
           /\ cap > 0 => CString(vfmt_buf(cap, fmt, args).buf) = First(vfmt(fmt, args).out, cap - 1)
<1>1. PICK text \in Seq(TChar) : text = vfmt(fmt, args).out
  BY VfmtOk
<1> DEFINE s == sink_write(Sink(cap, -1), text)
           N == Len(text)
           z == IF N < cap THEN N ELSE cap - 1
           b == Stored(cap, text, N)
           buf == [b EXCEPT ![z] = "NUL"]
<1>2. s.len = N /\ s.buf = b
  BY WriteBuffer DEF BufSink
<1>3. N \in Nat
  BY LenProperties
<1>4. /\ vfmt_buf(cap, fmt, args).ret = N
      /\ cap > 0 => vfmt_buf(cap, fmt, args).buf = buf
  BY <1>1, <1>2 DEF vfmt_buf
<1>5. ASSUME cap > 0 PROVE CString(buf) = First(text, cap - 1)
  <2>1. z \in 0 .. cap - 1 /\ z <= N /\ z \in Nat
    BY <1>3, <1>5
  <2>2. DOMAIN buf = 0 .. cap - 1 /\ buf[z] = "NUL"
    BY <2>1 DEF Stored
  <2>3. ASSUME NEW k \in 0 .. cap - 1, k < z PROVE buf[k] = text[k + 1] /\ buf[k] # "NUL"
    <3>1. k < N /\ k + 1 < cap /\ k # z /\ k + 1 \in 1 .. N
      BY <1>3, <2>1, <2>3
    <3>2. buf[k] = text[k + 1]
      BY <3>1 DEF Stored
    <3>3. text[k + 1] \in TChar
      BY <3>1, ElementOfSeq
    <3> QED BY <3>2, <3>3 DEF TChar
  <2>4. ASSUME NEW k \in 0 .. cap - 1, k > z PROVE buf[k] # "NUL"
    <3>1. ~(k < N /\ k + 1 < cap) /\ k # z
      BY <1>3, <2>1, <2>4
    <3>2. buf[k] = "junk"
      BY <3>1 DEF Stored
    <3> QED BY <3>2
  <2> HIDE DEF buf, z
  <2> DEFINE nuls == {i \in DOMAIN buf : buf[i] = "NUL"}
             end == IF nuls = {} THEN Cardinality(DOMAIN buf) ELSE CHOOSE i \in nuls : \A j \in nuls : i <= j
  <2>5. ASSUME NEW k \in 0 .. cap - 1, buf[k] = "NUL" PROVE k = z
    BY <2>1, <2>3, <2>4, <2>5
  <2>6. nuls = {z}
    BY <2>1, <2>2, <2>5
  <2>7. end = z
    <3> HIDE DEF nuls
    <3> QED BY <2>1, <2>6
  <2>8. CString(buf) = [i \in 1 .. end |-> buf[i - 1]]
    BY DEF CString
  <2> HIDE DEF end
  <2>9. ASSUME NEW i \in 1 .. z PROVE buf[i - 1] = text[i]
    <3>1. i - 1 \in 0 .. cap - 1 /\ i - 1 < z /\ (i - 1) + 1 = i
      BY <2>1
    <3> QED BY <2>3, <3>1
  <2>10. CString(buf) = [i \in 1 .. z |-> text[i]]
    BY <2>7, <2>8, <2>9
  <2>11. First(text, cap - 1) = SubSeq(text, 1, z)
    <3>1. (IF cap - 1 < N THEN cap - 1 ELSE N) = z
      BY <1>3 DEF z
    <3> QED BY <3>1 DEF First
  <2>12. SubSeq(text, 1, z) = [i \in 1 .. z |-> text[i]]
    <3>1. \A i \in 1 .. z : text[i] \in TChar
      BY <2>1, <1>3, ElementOfSeq
    <3>2. /\ SubSeq(text, 1, z) \in Seq(TChar) /\ Len(SubSeq(text, 1, z)) = (IF 1 <= z THEN z - 1 + 1 ELSE 0)
          /\ \A i \in 1 .. z - 1 + 1 : SubSeq(text, 1, z)[i] = text[1 + i - 1]
      BY <2>1, <3>1, SubSeqProperties
    <3>3. Len(SubSeq(text, 1, z)) = z /\ \A i \in 1 .. z : SubSeq(text, 1, z)[i] = text[i]
      <4>1. ASSUME NEW i \in 1 .. z PROVE i \in 1 .. z - 1 + 1 /\ 1 + i - 1 = i
        BY <2>1
      <4> QED BY <2>1, <3>2, <4>1
    <3>4. PICK q \in Seq(TChar) : q = SubSeq(text, 1, z)
      BY <3>2
    <3>5. q = [i \in 1 .. Len(q) |-> q[i]]
      OBVIOUS
    <3> QED BY <3>3, <3>4, <3>5
  <2> QED BY <2>10, <2>11, <2>12
<1> QED BY <1>1, <1>4, <1>5

\* pieces joins to out: acc[i] is the first i of them.
JoinsTo(pieces, out) ==
    \E acc : /\ acc[0] = <<>> /\ \A i \in 1 .. Len(pieces) : acc[i] = acc[i - 1] \o pieces[i]
             /\ acc[Len(pieces)] = out

\* No piece joins to nothing.
LEMMA JoinNone == JoinsTo(<<>>, <<>>)
<1> DEFINE acc == [i \in 0 .. 0 |-> <<>>]
<1>1. Len(<<>>) = 0 /\ acc[0] = <<>>
  BY EmptySeq
<1> HIDE DEF acc
<1>2. \A i \in 1 .. Len(<<>>) : acc[i] = acc[i - 1] \o <<>>[i]
  BY <1>1
<1> QED BY <1>1, <1>2 DEF JoinsTo

\* One more piece.
LEMMA JoinMore ==
    ASSUME NEW pieces \in Seq(Seq(TChar)), NEW out, JoinsTo(pieces, out), NEW p \in Seq(TChar)
    PROVE  JoinsTo(Append(pieces, p), out \o p)
<1> DEFINE n == Len(pieces)
           more == Append(pieces, p)
<1>1. PICK acc : /\ acc[0] = <<>> /\ \A i \in 1 .. n : acc[i] = acc[i - 1] \o pieces[i]
                 /\ acc[n] = out
  BY DEF JoinsTo
<1>2. PICK D : D = Seq(TChar)
  OBVIOUS
<1>3. pieces \in Seq(D) /\ p \in D
  BY <1>2
<1>4. n \in Nat /\ more \in Seq(D) /\ Len(more) = n + 1 /\ (\A i \in 1 .. n : more[i] = pieces[i]) /\ more[n + 1] = p
  BY <1>3, AppendProperties, LenProperties
<1> HIDE DEF more, n
<1> DEFINE a == [i \in 0 .. n + 1 |-> IF i = n + 1 THEN out \o p ELSE acc[i]]
<1>5. a[0] = <<>> /\ a[n + 1] = out \o p
  BY <1>1, <1>4
<1>6. ASSUME NEW i \in 1 .. n + 1 PROVE a[i] = a[i - 1] \o more[i]
  <2>1. i - 1 \in 0 .. n + 1 /\ i - 1 # n + 1 /\ i \in 0 .. n + 1
    BY <1>4
  <2>2. a[i - 1] = acc[i - 1]
    BY <2>1
  <2>3. CASE i = n + 1
    <3>1. i - 1 = n
      BY <1>4, <2>3
    <3> HIDE DEF a
    <3> QED BY <1>1, <1>4, <1>5, <2>2, <2>3, <3>1
  <2>4. CASE i # n + 1
    <3>1. i \in 1 .. n
      BY <1>4, <2>4
    <3>2. a[i] = acc[i]
      BY <2>1, <2>4
    <3> HIDE DEF a
    <3> QED BY <1>1, <1>4, <2>2, <3>1, <3>2
  <2> QED BY <2>3, <2>4
<1> HIDE DEF a
<1> QED BY <1>4, <1>5, <1>6 DEF JoinsTo, more

\* The recursive function of BufferHoldsPrefix finds what the pieces join to.
LEMMA JoinedIs ==
    ASSUME NEW pieces, Len(pieces) \in Nat, NEW out, JoinsTo(pieces, out)
    PROVE  LET joined[i \in 0 .. Len(pieces)] == IF i = 0 THEN <<>> ELSE joined[i - 1] \o pieces[i]
           IN  joined[Len(pieces)] = out
<1> DEFINE N == Len(pieces)
           Put(i, p) == p \o pieces[i]
           R(g) == [i \in 0 .. N |-> IF i = 0 THEN <<>> ELSE Put(i, g[i - 1])]
           F == CHOOSE g : g = R(g)
<1>1. PICK acc : /\ acc[0] = <<>> /\ \A i \in 1 .. N : acc[i] = Put(i, acc[i - 1])
                 /\ acc[N] = out
  BY DEF JoinsTo
<1>2. SUFFICES F[N] = out
  OBVIOUS
<1>3. N \in Nat
  OBVIOUS
<1> HIDE DEF N, Put
<1>4. F = R(F)
  <2> DEFINE u == [k \in 0 .. N |-> acc[k]]
  <2>1. ASSUME NEW k \in 0 .. N PROVE u[k] = IF k = 0 THEN <<>> ELSE Put(k, u[k - 1])
    <3>1. CASE k = 0
      BY <1>1, <3>1
    <3>2. CASE k # 0
      <4>1. k \in 1 .. N /\ k - 1 \in 0 .. N
        BY <3>2, <1>3
      <4>2. u[k] = acc[k] /\ u[k - 1] = acc[k - 1]
        BY <4>1
      <4> QED BY <1>1, <3>2, <4>1, <4>2
    <3> QED BY <3>1, <3>2
  <2>2. u = R(u)
    BY <2>1
  <2> HIDE DEF u
  <2>3. \E e : e = R(e)
    BY <2>2
  <2> QED BY <2>3, Zenon
<1> HIDE DEF F
<1> DEFINE T == {k \in 0 .. N : F[k] = acc[k]}
<1>5. 0 \in T
  BY <1>1, <1>3, <1>4
<1>6. ASSUME NEW k \in 1 .. N, k - 1 \in T PROVE k \in T
  <2>1. k \in 0 .. N /\ k # 0 /\ F[k - 1] = acc[k - 1]
    BY <1>3, <1>6
  <2>2. F[k] = Put(k, F[k - 1])
    BY <1>4, <2>1
  <2> QED BY <1>1, <2>1, <2>2
<1> HIDE DEF T
<1>7. 0 .. N \subseteq T
  BY <1>3, <1>5, <1>6, IntervalInduction
<1> QED BY <1>1, <1>3, <1>7 DEF T

\* A sink with a descriptor: what it wrote and gathered is out.
Pieces(w) == w \in Seq(Seq(TChar)) /\ \A i \in 1 .. Len(w) : Len(w[i]) \in 1 .. FBUF
NoBuffer == [k \in 0 .. 0 - 1 |-> "junk"]
FdSink(w, g, i) == [buf |-> NoBuffer, cap |-> 0, len |-> i, fd |-> 1, fbuf |-> g, wrote |-> w]
Gathers(s, i, out) ==
    \E w, g : /\ s = FdSink(w, g, i) /\ Pieces(w) /\ g \in Seq(TChar) /\ Len(g) <= FBUF
              /\ \E j : JoinsTo(w, j) /\ j \in Seq(TChar) /\ j \o g = out

\* FBUF is a number.
LEMMA FBUFIsNat == FBUF \in Nat \ {0}
BY TextAssumption

\* A piece more.
LEMMA PiecesMore ==
    ASSUME NEW w, Pieces(w), NEW g \in Seq(TChar), Len(g) <= FBUF, g # <<>>
    PROVE  Pieces(Append(w, g))
<1>1. PICK D : D = Seq(TChar)
  OBVIOUS
<1>2. w \in Seq(D) /\ g \in D
  BY <1>1 DEF Pieces
<1> DEFINE m == Append(w, g)
<1>3. /\ m \in Seq(D) /\ Len(w) \in Nat /\ Len(m) = Len(w) + 1 /\ (\A i \in 1 .. Len(w) : m[i] = w[i]) /\ m[Len(w) + 1] = g
  BY <1>2, AppendProperties, LenProperties
<1>4. Len(g) \in 1 .. FBUF
  <2>1. Len(g) \in Nat /\ Len(g) # 0
    BY EmptySeq, LenProperties
  <2> QED BY <2>1, FBUFIsNat
<1> HIDE DEF m
<1>5. ASSUME NEW i \in 1 .. Len(m) PROVE Len(m[i]) \in 1 .. FBUF
  <2>1. i \in 1 .. Len(w) \/ i = Len(w) + 1
    BY <1>3
  <2> QED BY <1>3, <1>4, <2>1 DEF Pieces
<1>6. m \in Seq(Seq(TChar))
  BY <1>1, <1>3
<1> QED BY <1>5, <1>6 DEF Pieces, m

\* Flushing moves what was gathered to what was written.
LEMMA FlushGathers ==
    ASSUME NEW w, NEW g, NEW i
    PROVE  sink_flush(FdSink(w, g, i)) = IF g # <<>> THEN FdSink(Append(w, g), <<>>, i) ELSE FdSink(w, g, i)
<1> DEFINE s == FdSink(w, g, i)
<1>1. s.fd = 1 /\ s.fbuf = g
  BY DEF FdSink
<1>2. s.fd >= 0
  BY <1>1
<1>3. [s EXCEPT !.wrote = Append(@, s.fbuf), !.fbuf = <<>>] = FdSink(Append(w, g), <<>>, i)
  <2>1. PICK a, e : a = Append(w, g) /\ e = <<>>
    OBVIOUS
  <2>2. s.wrote = w
    BY DEF FdSink
  <2>3. [s EXCEPT !.wrote = a, !.fbuf = e] = FdSink(a, e, i)
    <3>1. [s EXCEPT !.wrote = a] = FdSink(a, g, i)
      BY DEF FdSink
    <3>2. [FdSink(a, g, i) EXCEPT !.fbuf = e] = FdSink(a, e, i)
      BY DEF FdSink
    <3>3. [s EXCEPT !.wrote = a, !.fbuf = e] = [[s EXCEPT !.wrote = a] EXCEPT !.fbuf = e]
      BY DEF FdSink
    <3> QED BY <3>1, <3>2, <3>3
  <2>4. [s EXCEPT !.wrote = Append(@, s.fbuf), !.fbuf = <<>>] = [s EXCEPT !.wrote = a, !.fbuf = e]
    <3> HIDE DEF s
    <3> QED BY <1>1, <2>1, <2>2
  <2> QED BY <2>1, <2>3, <2>4
<1> HIDE DEF s
<1>4. sink_flush(s) = IF g # <<>> THEN FdSink(Append(w, g), <<>>, i) ELSE s
  BY <1>1, <1>2, <1>3 DEF sink_flush
<1> QED BY <1>4 DEF s

\* One character to a descriptor.
LEMMA PutcGathers ==
    ASSUME NEW s, NEW i \in Nat, NEW out \in Seq(TChar), Gathers(s, i, out), NEW c \in TChar
    PROVE  Gathers(sink_putc(s, c), i + 1, Append(out, c))
<1>1. PICK w, g, j : /\ s = FdSink(w, g, i) /\ Pieces(w) /\ g \in Seq(TChar) /\ Len(g) <= FBUF
                     /\ JoinsTo(w, j) /\ j \in Seq(TChar) /\ j \o g = out
  BY DEF Gathers
<1> DEFINE room == IF Len(s.fbuf) = FBUF THEN sink_flush(s) ELSE s
<1>2. sink_putc(s, c) = [[room EXCEPT !.fbuf = Append(@, c)] EXCEPT !.len = @ + 1]
  <2>1. s.fd >= 0
    BY <1>1 DEF FdSink
  <2> QED BY <2>1 DEF sink_putc
<1>3. PICK w2, g2, j2 : /\ room = FdSink(w2, g2, i) /\ Pieces(w2) /\ g2 \in Seq(TChar) /\ Len(g2) < FBUF
                        /\ JoinsTo(w2, j2) /\ j2 \in Seq(TChar) /\ j2 \o g2 = out
  <2>1. s.fbuf = g /\ Len(g) \in Nat
    BY <1>1, LenProperties DEF FdSink
  <2>2. CASE Len(g) = FBUF
    <3>1. g # <<>>
      BY <2>2, FBUFIsNat, EmptySeq
    <3>2. room = FdSink(Append(w, g), <<>>, i)
      BY <1>1, <2>1, <2>2, <3>1, FlushGathers
    <3>3. Pieces(Append(w, g))
      BY <1>1, <3>1, PiecesMore
    <3>4. JoinsTo(Append(w, g), j \o g)
      BY <1>1, JoinMore DEF Pieces
    <3>5. /\ <<>> \in Seq(TChar) /\ Len(<<>>) < FBUF /\ out \o <<>> = out
      BY EmptySeq, FBUFIsNat, ConcatEmptySeq
    <3> QED BY <1>1, <3>2, <3>3, <3>4, <3>5
  <2>3. CASE Len(g) # FBUF
    <3>1. room = s /\ Len(g) < FBUF
      BY <1>1, <2>1, <2>3, FBUFIsNat
    <3> QED BY <1>1, <3>1
  <2> QED BY <2>2, <2>3
<1> HIDE DEF room
<1>4. [[room EXCEPT !.fbuf = Append(@, c)] EXCEPT !.len = @ + 1] = FdSink(w2, Append(g2, c), i + 1)
  <2>1. PICK a : a = Append(g2, c)
    OBVIOUS
  <2>2. room.fbuf = g2
    BY <1>3 DEF FdSink
  <2>3. [room EXCEPT !.fbuf = Append(@, c)] = [room EXCEPT !.fbuf = a]
    BY <2>1, <2>2
  <2>4. [room EXCEPT !.fbuf = a] = FdSink(w2, a, i)
    BY <1>3 DEF FdSink
  <2>5. [FdSink(w2, a, i) EXCEPT !.len = @ + 1] = FdSink(w2, a, i + 1)
    BY DEF FdSink
  <2> QED BY <2>1, <2>3, <2>4, <2>5
<1>5. Append(g2, c) \in Seq(TChar) /\ Len(Append(g2, c)) <= FBUF
  <2>1. Append(g2, c) \in Seq(TChar) /\ Len(Append(g2, c)) = Len(g2) + 1 /\ Len(g2) \in Nat
    BY <1>3, AppendProperties, LenProperties
  <2> QED BY <1>3, <2>1, FBUFIsNat
<1>6. j2 \o Append(g2, c) = Append(out, c)
  <2>1. <<c>> \in Seq(TChar)
    OBVIOUS
  <2>2. Append(g2, c) = g2 \o <<c>> /\ Append(out, c) = out \o <<c>>
    BY <1>3, AppendIsConcat
  <2>3. (j2 \o g2) \o <<c>> = j2 \o (g2 \o <<c>>)
    BY <1>3, <2>1, ConcatAssociative
  <2> QED BY <1>3, <2>2, <2>3
<1> QED BY <1>2, <1>3, <1>4, <1>5, <1>6 DEF Gathers

\* The writes of a printf join to its text, in pieces of at most FBUF bytes.
LEMMA WritesJoin ==
    ASSUME NEW fmt, NEW args, JobOk(fmt, args)
    PROVE  LET whole == vfmt(fmt, args).out
               r == vfd(fmt, args)
           IN  r.ret = Len(whole) /\ Pieces(r.wrote) /\ JoinsTo(r.wrote, whole)
<1>1. PICK text \in Seq(TChar) : text = vfmt(fmt, args).out
  BY VfmtOk
<1>2. PICK f : PutInto(Sink(0, 1), text, f) /\ sink_write(Sink(0, 1), text) = sink_flush(f[Len(text)])
  BY WriteRuns
<1> DEFINE N == Len(text)
           G(i) == Gathers(f[i], i, SubSeq(text, 1, i))
           T == {i \in 0 .. N : G(i)}
<1>3. N \in Nat
  BY LenProperties
<1>4. 0 \in T
  <2>1. Sink(0, 1) = FdSink(<<>>, <<>>, 0)
    BY DEF Sink, FdSink, NoBuffer
  <2>2. SubSeq(text, 1, 0) = <<>>
    BY SubSeqEmpty
  <2>3. Pieces(<<>>)
    BY EmptySeq DEF Pieces
  <2>4. <<>> \in Seq(TChar) /\ Len(<<>>) <= FBUF /\ <<>> \o <<>> = <<>>
    BY FBUFIsNat, EmptySeq
  <2>5. Gathers(FdSink(<<>>, <<>>, 0), 0, <<>>)
    BY <2>3, <2>4, JoinNone DEF Gathers
  <2>6. f[0] = FdSink(<<>>, <<>>, 0)
    BY <1>2, <2>1 DEF PutInto
  <2>7. G(0)
    BY <2>2, <2>5, <2>6
  <2> HIDE DEF G
  <2> QED BY <1>3, <2>7
<1>5. ASSUME NEW i \in 1 .. N, i - 1 \in T PROVE i \in T
  <2>1. PICK j \in Nat : j = i - 1
    BY <1>3
  <2>0. G(j)
    <3> HIDE DEF G
    <3> QED BY <1>5, <2>1
  <2>2. Gathers(f[j], j, SubSeq(text, 1, j)) /\ f[i] = sink_putc(f[j], text[i]) /\ i = j + 1 /\ j <= N
    BY <1>2, <1>3, <2>0, <2>1 DEF PutInto
  <2>3. text[i] \in TChar
    BY <1>3, ElementOfSeq
  <2>4. SubSeq(text, 1, j) \in Seq(TChar)
    BY <2>2
  <2>5. Append(SubSeq(text, 1, j), text[i]) = SubSeq(text, 1, i)
    BY <1>3, <2>2
  <2>6. PICK o \in Seq(TChar), c \in TChar : o = SubSeq(text, 1, j) /\ c = text[i]
    BY <2>3, <2>4
  <2>7. Gathers(sink_putc(f[j], c), j + 1, Append(o, c))
    BY <2>2, <2>6, PutcGathers
  <2>8. G(i)
    BY <2>2, <2>5, <2>6, <2>7
  <2> HIDE DEF G
  <2> QED BY <1>3, <2>8
<1> HIDE DEF T
<1>6. 0 .. N \subseteq T
  BY <1>3, <1>4, <1>5, IntervalInduction
<1>7. SubSeq(text, 1, N) = text
  BY SubSeqFull
<1>8. Gathers(f[N], N, text)
  <2>1. G(N)
    <3> HIDE DEF G
    <3> QED BY <1>3, <1>6 DEF T
  <2> QED BY <1>7, <2>1
<1>9. PICK w, g, j : /\ f[N] = FdSink(w, g, N) /\ Pieces(w) /\ g \in Seq(TChar) /\ Len(g) <= FBUF
                     /\ JoinsTo(w, j) /\ j \in Seq(TChar) /\ j \o g = text
  BY <1>8 DEF Gathers
<1> DEFINE s == sink_write(Sink(0, 1), text)
<1>10. s = IF g # <<>> THEN FdSink(Append(w, g), <<>>, N) ELSE FdSink(w, g, N)
  BY <1>2, <1>9, FlushGathers
<1>11. vfd(fmt, args).ret = s.len /\ vfd(fmt, args).wrote = s.wrote
  BY <1>1 DEF vfd
<1> HIDE DEF s
<1>12. CASE g # <<>>
  <2>1. s.len = N /\ s.wrote = Append(w, g)
    BY <1>10, <1>12 DEF FdSink
  <2>2. Pieces(Append(w, g))
    BY <1>9, <1>12, PiecesMore
  <2>3. JoinsTo(Append(w, g), j \o g)
    BY <1>9, JoinMore DEF Pieces
  <2> QED BY <1>1, <1>9, <1>11, <2>1, <2>2, <2>3
<1>13. CASE g = <<>>
  <2>1. s.len = N /\ s.wrote = w
    BY <1>10, <1>13 DEF FdSink
  <2>2. j = text
    BY <1>9, <1>13, ConcatEmptySeq
  <2> QED BY <1>1, <1>9, <1>11, <2>1, <2>2
<1> QED BY <1>12, <1>13

-----------------------------------------------------------------------------
(* Text: the invariant *)

\* BufferHoldsPrefix of a call that is over, for any job, text and result.
HoldsPrefix(j, ln, r) ==
    LET whole == vfmt(j.fmt, j.args).out
        joined[i \in 0 .. Len(ln.wrote)] == IF i = 0 THEN <<>> ELSE joined[i - 1] \o ln.wrote[i]
    IN  /\ r = Len(whole)
        /\ ln.how = "buffer" /\ ln.cap > 0 => ln.text = First(whole, ln.cap - 1)
        /\ ln.how = "writes" =>
              /\ joined[Len(ln.wrote)] = whole
              /\ \A i \in DOMAIN ln.wrote : Len(ln.wrote[i]) \in 1 .. FBUF

\* The jobs of programs are well formed.
LEMMA JobsOk ==
    ASSUME NEW j \in Job
    PROVE  JobOk(j.fmt, j.args)
BY TextAssumption DEF JobOk

\* After snprintf and its relatives.
LEMMA AfterBuffer ==
    ASSUME NEW j \in Job, NEW cap \in Cap, NEW ln, NEW r,
           LET b == vfmt_buf(cap, j.fmt, j.args)
           IN  r = b.ret /\ ln = [how |-> "buffer", cap |-> cap, text |-> CString(b.buf)]
    PROVE  HoldsPrefix(j, ln, r)
<1>1. cap \in Nat /\ JobOk(j.fmt, j.args)
  BY JobsOk, TextAssumption
<1> DEFINE b == vfmt_buf(cap, j.fmt, j.args)
           text == CString(b.buf)
           whole == vfmt(j.fmt, j.args).out
<1>2. b.ret = Len(whole) /\ (cap > 0 => text = First(whole, cap - 1))
  BY <1>1, BufferHolds
<1>3. r = b.ret /\ ln = [how |-> "buffer", cap |-> cap, text |-> text]
  OBVIOUS
<1> HIDE DEF b, text
<1>4. ln.how = "buffer" /\ ln.cap = cap /\ ln.text = text
  BY <1>3
<1> QED BY <1>2, <1>3, <1>4 DEF HoldsPrefix, whole

\* After printf.
LEMMA AfterWrites ==
    ASSUME NEW j \in Job, NEW ln, NEW r,
           LET v == vfd(j.fmt, j.args) IN r = v.ret /\ ln = [how |-> "writes", wrote |-> v.wrote]
    PROVE  HoldsPrefix(j, ln, r)
<1> DEFINE w == vfd(j.fmt, j.args).wrote
           whole == vfmt(j.fmt, j.args).out
           F == CHOOSE g : g = [i \in 0 .. Len(ln.wrote) |-> IF i = 0 THEN <<>> ELSE g[i - 1] \o ln.wrote[i]]
<1>1. r = Len(whole) /\ Pieces(w) /\ JoinsTo(w, whole)
  BY JobsOk, WritesJoin
<1>2. ln.how = "writes" /\ ln.wrote = w
  OBVIOUS
<1> HIDE DEF w, whole
<1>3. PICK D : D = Seq(TChar)
  OBVIOUS
<1>4. w \in Seq(D) /\ \A i \in 1 .. Len(w) : Len(w[i]) \in 1 .. FBUF
  BY <1>1, <1>3 DEF Pieces
<1>5. Len(w) \in Nat /\ DOMAIN w = 1 .. Len(w)
  BY <1>4, LenProperties
<1>6. F[Len(ln.wrote)] = whole
  <2>1. Len(ln.wrote) \in Nat /\ JoinsTo(ln.wrote, whole)
    BY <1>1, <1>2, <1>5
  <2> QED BY <2>1, JoinedIs
<1> HIDE DEF F
<1>7. HoldsPrefix(j, ln, r) =
        (/\ r = Len(whole)
         /\ ln.how = "buffer" /\ ln.cap > 0 => ln.text = First(whole, ln.cap - 1)
         /\ ln.how = "writes" =>
               F[Len(ln.wrote)] = whole /\ \A i \in DOMAIN ln.wrote : Len(ln.wrote[i]) \in 1 .. FBUF)
  BY DEF HoldsPrefix, whole, F
<1> QED BY <1>1, <1>2, <1>4, <1>5, <1>6, <1>7

\* A program's job stays one of the jobs.
TextInv == (ByProgram => job \in Job) /\ BufferHoldsPrefix

\* Before the first call.
LEMMA TextStarts == TextInit => TextInv
BY TextAssumption DEF TextInit, TextInv, ByProgram, BufferHoldsPrefix, Fresh

\* Reading changes nothing that BufferHoldsPrefix is about.
LEMMA ReadingKeeps ==
    ASSUME TextInv, UNCHANGED <<job, line, ret>>
    PROVE  TextInv'
BY DEF TextInv, ByProgram, BufferHoldsPrefix, Fresh

\* The kernel's calls are not about it.
LEMMA KernelKeeps ==
    ASSUME TextInv, line'.how = "kernel", UNCHANGED job
    PROVE  TextInv'
BY DEF TextInv, ByProgram, BufferHoldsPrefix

\* Every call keeps the invariant.
LEMMA TextStep == TextInv /\ [TextNext]_textVars => TextInv'
<1> SUFFICES ASSUME TextInv, [TextNext]_textVars PROVE TextInv'
  OBVIOUS
<1>1. ASSUME ByProgram, UNCHANGED job, HoldsPrefix(job, line', ret') PROVE TextInv'
  <2>1. BufferHoldsPrefix'
    BY <1>1 DEF BufferHoldsPrefix, HoldsPrefix
  <2> QED BY <1>1, <2>1 DEF TextInv, ByProgram
<1>2. CASE \E cap \in Cap : CallSnprintf(cap)
  <2>1. PICK cap \in Cap : CallSnprintf(cap)
    BY <1>2
  <2>2. job \in Job /\ ByProgram /\ UNCHANGED job
    BY <2>1 DEF CallSnprintf, TextInv
  <2>3. LET b == vfmt_buf(cap, job.fmt, job.args)
        IN  ret' = b.ret /\ line' = [how |-> "buffer", cap |-> cap, text |-> CString(b.buf)]
    BY <2>1 DEF CallSnprintf
  <2>4. HoldsPrefix(job, line', ret')
    BY <2>2, <2>3, AfterBuffer
  <2> QED BY <1>1, <2>2, <2>4
<1>3. CASE CallPrintf
  <2>1. job \in Job /\ ByProgram /\ UNCHANGED job
    BY <1>3 DEF CallPrintf, TextInv
  <2>2. LET v == vfd(job.fmt, job.args) IN ret' = v.ret /\ line' = [how |-> "writes", wrote |-> v.wrote]
    BY <1>3 DEF CallPrintf
  <2>3. HoldsPrefix(job, line', ret')
    BY <2>1, <2>2, AfterWrites
  <2> QED BY <1>1, <2>1, <2>3
<1>4. CASE CallKprintf
  BY <1>4, KernelKeeps DEF CallKprintf
<1>5. CASE CallKsprintf
  BY <1>5, KernelKeeps DEF CallKsprintf
<1>6. CASE CallSscanf
  BY <1>6, ReadingKeeps DEF CallSscanf
<1>7. CASE CallStrtol
  BY <1>7, ReadingKeeps DEF CallStrtol
<1>8. CASE UNCHANGED textVars
  BY <1>8, ReadingKeeps DEF textVars
<1> QED BY <1>2, <1>3, <1>4, <1>5, <1>6, <1>7, <1>8 DEF TextNext

\* What printf and snprintf produce is all of the text or the longest prefix
\* that fits, for any formats, arguments and buffer sizes: nothing is lost or
\* written outside at the 128th byte, or in a buffer of one byte
\* (printf.c sink_putc, sink_flush, __vfmt_buf).
THEOREM TextStaysWhole == TextSpec => []BufferHoldsPrefix
<1>1. TextInv => BufferHoldsPrefix
  BY DEF TextInv
<1> QED BY <1>1, TextStarts, TextStep, PTL DEF TextSpec

-----------------------------------------------------------------------------
(* The shell: the words of a line *)

\* From p, the first position that is not in B, or the end.
Reach(n, B, p, q) == q \in p .. n + 1 /\ (q = n + 1 \/ q \notin B) /\ \A k \in p .. q - 1 : k \in B

\* There is one.
LEMMA ReachSome ==
    ASSUME NEW n \in Nat, NEW B, NEW p \in 1 .. n + 1
    PROVE  \E q : Reach(n, B, p, q)
<1> DEFINE U == {q \in p .. n + 1 : q = n + 1 \/ q \notin B}
<1>1. U \in SUBSET Nat /\ n + 1 \in U
  OBVIOUS
<1>2. PICK q \in U : \A k \in U : q <= k
  <2> HIDE DEF U
  <2> QED BY <1>1, LeastNat
<1>3. ASSUME NEW k \in p .. q - 1 PROVE k \in B
  <2>1. k \in p .. n + 1 /\ ~(q <= k) /\ k # n + 1
    BY <1>2
  <2> QED BY <1>2, <2>1
<1> QED BY <1>2, <1>3 DEF Reach

\* There is only one.
LEMMA ReachOne ==
    ASSUME NEW n \in Nat, NEW B, NEW p \in 1 .. n + 1, NEW q, NEW r, Reach(n, B, p, q), Reach(n, B, p, r)
    PROVE  q = r
<1>1. q \in p .. n + 1 /\ r \in p .. n + 1
  BY DEF Reach
<1>2. ~(q < r) /\ ~(r < q)
  BY <1>1 DEF Reach
<1> QED BY <1>1, <1>2

\* A pointer that walks on while it is in B is well defined.
LEMMA WalkExists ==
    ASSUME NEW n \in Nat, NEW B
    PROVE  \E g : g = [p \in 1 .. n + 1 |-> IF p <= n /\ p \in B THEN g[p + 1] ELSE p]
<1> DEFINE u == [p \in 1 .. n + 1 |-> CHOOSE q : Reach(n, B, p, q)]
<1>1. ASSUME NEW p \in 1 .. n + 1 PROVE Reach(n, B, p, u[p])
  BY ReachSome
<1> HIDE DEF u
<1>2. ASSUME NEW p \in 1 .. n + 1 PROVE u[p] = IF p <= n /\ p \in B THEN u[p + 1] ELSE p
  <2>1. CASE p <= n /\ p \in B
    <3>1. p + 1 \in 1 .. n + 1
      BY <2>1
    <3>2. Reach(n, B, p + 1, u[p + 1])
      BY <1>1, <3>1
    <3>3. Reach(n, B, p, u[p + 1])
      BY <2>1, <3>2 DEF Reach
    <3>4. u[p] = u[p + 1]
      BY <1>1, <3>3, ReachOne
    <3> QED BY <2>1, <3>4
  <2>2. CASE ~(p <= n /\ p \in B)
    <3>1. Reach(n, B, p, p)
      BY <2>2 DEF Reach
    <3>2. u[p] = p
      BY <1>1, <3>1, ReachOne
    <3> QED BY <2>2, <3>2
  <2> QED BY <2>1, <2>2
<1>3. u = [p \in 1 .. n + 1 |-> IF p <= n /\ p \in B THEN u[p + 1] ELSE p]
  <2>1. u = [p \in 1 .. n + 1 |-> u[p]]
    BY DEF u
  <2> QED BY <1>2, <2>1
<1> QED BY <1>3

\* It ends where it should.
LEMMA WalkReaches ==
    ASSUME NEW n \in Nat, NEW B, NEW g, g = [p \in 1 .. n + 1 |-> IF p <= n /\ p \in B THEN g[p + 1] ELSE p],
           NEW p \in 1 .. n + 1
    PROVE  Reach(n, B, p, g[p])
<1> DEFINE T == {i \in 0 .. n : Reach(n, B, n + 1 - i, g[n + 1 - i])}
<1>0. ASSUME NEW a \in 1 .. n + 1 PROVE g[a] = IF a <= n /\ a \in B THEN g[a + 1] ELSE a
  OBVIOUS
<1>1. 0 \in T
  <2>1. g[n + 1] = n + 1
    BY <1>0
  <2>2. Reach(n, B, n + 1, n + 1)
    BY DEF Reach
  <2> QED BY <2>1, <2>2
<1>2. ASSUME NEW i \in 1 .. n, i - 1 \in T PROVE i \in T
  <2>1. PICK a \in 1 .. n : a = n + 1 - i
    BY <1>2
  <2>2. Reach(n, B, a + 1, g[a + 1])
    <3>1. n + 1 - (i - 1) = a + 1
      BY <2>1
    <3> QED BY <1>2, <3>1
  <2>3. Reach(n, B, a, g[a])
    <3>1. CASE a \in B
      <4>1. g[a] = g[a + 1]
        BY <1>0, <3>1
      <4>2. PICK q : q = g[a + 1]
        OBVIOUS
      <4>3. q \in a + 1 .. n + 1 /\ (q = n + 1 \/ q \notin B) /\ \A k \in a + 1 .. q - 1 : k \in B
        BY <2>2, <4>2 DEF Reach
      <4>4. ASSUME NEW k \in a .. q - 1 PROVE k \in B
        <5>1. k = a \/ k \in a + 1 .. q - 1
          BY <4>3
        <5> QED BY <3>1, <4>3, <5>1
      <4>5. q \in a .. n + 1
        BY <4>3
      <4> QED BY <4>1, <4>2, <4>3, <4>4, <4>5 DEF Reach
    <3>2. CASE a \notin B
      <4>1. g[a] = a
        BY <1>0, <3>2
      <4> QED BY <3>2, <4>1 DEF Reach
    <3> QED BY <3>1, <3>2
  <2> QED BY <2>1, <2>3
<1> HIDE DEF T
<1>3. 0 .. n \subseteq T
  BY <1>1, <1>2, IntervalInduction
<1>4. n + 1 - p \in 0 .. n /\ n + 1 - (n + 1 - p) = p
  OBVIOUS
<1> QED BY <1>3, <1>4 DEF T

-----------------------------------------------------------------------------
\* The k-th element of a set of numbers.
Nth(S, k) == CHOOSE i \in S : Cardinality({j \in S : j < i}) = k - 1

\* S has an element for every k.
Full(S) ==
    /\ S \in SUBSET Int /\ IsFiniteSet(S)
    /\ \A k \in 1 .. Cardinality(S) : \E i \in S : Cardinality({j \in S : j < i}) = k - 1

\* No two elements have as many below them.
LEMMA NthOne ==
    ASSUME NEW S \in SUBSET Int, IsFiniteSet(S), NEW a \in S, NEW b \in S,
           Cardinality({j \in S : j < a}) = Cardinality({j \in S : j < b})
    PROVE  a = b
<1>1. ASSUME NEW x \in S, NEW y \in S, x < y,
             Cardinality({j \in S : j < x}) = Cardinality({j \in S : j < y})
      PROVE  FALSE
  <2> DEFINE X == {j \in S : j < x}
             Y == {j \in S : j < y}
  <2>0. \A j \in S : j \in Int
    OBVIOUS
  <2>1. X \in SUBSET Y /\ x \in Y /\ x \notin X
    <3>1. \A j \in S : j < x => j < y
      BY <1>1, <2>0
    <3>2. ~(x < x)
      BY <2>0
    <3> QED BY <1>1, <3>1, <3>2
  <2>2. IsFiniteSet(Y)
    <3>1. Y \in SUBSET S
      OBVIOUS
    <3> QED BY <3>1, FS_Subset
  <2>3. Cardinality(X) = Cardinality(Y)
    BY <1>1
  <2> HIDE DEF X, Y
  <2> QED BY <2>1, <2>2, <2>3, FS_Subset
<1>2. a \in Int /\ b \in Int
  OBVIOUS
<1>3. ~(a < b) /\ ~(b < a)
  BY <1>1
<1> QED BY <1>2, <1>3

\* The k-th element has k - 1 elements below it.
LEMMA NthIs ==
    ASSUME NEW S, Full(S), NEW k \in 1 .. Cardinality(S)
    PROVE  Nth(S, k) \in S /\ Cardinality({j \in S : j < Nth(S, k)}) = k - 1
BY DEF Full, Nth

\* An element below all others is the first one.
LEMMA NthCons ==
    ASSUME NEW T, Full(T), NEW s \in Int, \A t \in T : s < t
    PROVE  /\ Full(T \cup {s}) /\ Cardinality(T \cup {s}) = Cardinality(T) + 1
           /\ Nth(T \cup {s}, 1) = s
           /\ \A k \in 1 .. Cardinality(T) : Nth(T \cup {s}, k + 1) = Nth(T, k)
<1> DEFINE S == T \cup {s}
           Below(U, i) == {j \in U : j < i}
<1>1. T \in SUBSET Int /\ IsFiniteSet(T) /\ Cardinality(T) \in Nat
  BY FS_CardinalityType DEF Full
<1>2. s \notin T
  BY <1>1
<1>3. IsFiniteSet(S) /\ Cardinality(S) = Cardinality(T) + 1 /\ S \in SUBSET Int
  BY <1>1, <1>2, FS_AddElement
<1>4. Below(S, s) = {}
  <2>1. \A t \in T : t \in Int /\ ~(t < s)
    BY <1>1
  <2> QED BY <2>1
<1>5. Cardinality(Below(S, s)) = 0
  BY <1>4, FS_EmptySet
<1>6. ASSUME NEW t \in T PROVE Cardinality(Below(S, t)) = Cardinality(Below(T, t)) + 1
  <2>1. Below(S, t) = Below(T, t) \cup {s}
    BY <1>1
  <2>2. Below(T, t) \in SUBSET T /\ s \notin Below(T, t)
    BY <1>2
  <2> HIDE DEF Below
  <2>3. IsFiniteSet(Below(T, t))
    BY <1>1, <2>2, FS_Subset
  <2> QED BY <2>1, <2>2, <2>3, FS_AddElement
<1>7. ASSUME NEW k \in 1 .. Cardinality(T)
      PROVE  /\ Nth(T, k) \in S /\ Cardinality(Below(S, Nth(T, k))) = (k + 1) - 1
  <2>1. Nth(T, k) \in T /\ Cardinality(Below(T, Nth(T, k))) = k - 1
    BY NthIs
  <2>2. Cardinality(Below(S, Nth(T, k))) = Cardinality(Below(T, Nth(T, k))) + 1
    BY <1>6, <2>1
  <2> QED BY <2>1, <2>2
<1>8. \A k \in 1 .. Cardinality(S) : \E i \in S : Cardinality(Below(S, i)) = k - 1
  <2> SUFFICES ASSUME NEW k \in 1 .. Cardinality(S) PROVE \E i \in S : Cardinality(Below(S, i)) = k - 1
    OBVIOUS
  <2>1. CASE k = 1
    <3>1. s \in S
      OBVIOUS
    <3> HIDE DEF S, Below
    <3> QED BY <1>5, <2>1, <3>1
  <2>2. CASE k # 1
    <3>1. PICK m \in 1 .. Cardinality(T) : m + 1 = k
      <4>1. k - 1 \in 1 .. Cardinality(T) /\ (k - 1) + 1 = k
        <5> HIDE DEF S
        <5> QED BY <1>1, <1>3, <2>2
      <4> QED BY <4>1
    <3> HIDE DEF S, Below
    <3> QED BY <1>7, <3>1
  <2> QED BY <2>1, <2>2
<1>9. Full(S)
  BY <1>3, <1>8 DEF Full
<1>10. ASSUME NEW i \in S, NEW k \in 1 .. Cardinality(S), Cardinality(Below(S, i)) = k - 1 PROVE Nth(S, k) = i
  <2>1. Nth(S, k) \in S /\ Cardinality({j \in S : j < Nth(S, k)}) = k - 1
    BY <1>9, <1>10, NthIs
  <2>2. Cardinality({j \in S : j < i}) = k - 1
    BY <1>10
  <2>3. PICK a \in S : a = Nth(S, k)
    BY <2>1
  <2>4. Cardinality({j \in S : j < a}) = Cardinality({j \in S : j < i})
    BY <2>1, <2>2, <2>3
  <2> HIDE DEF S
  <2>5. a = i
    BY <1>3, <1>10, <2>4, NthOne
  <2> QED BY <2>3, <2>5
<1>11. Nth(S, 1) = s
  <2>1. s \in S /\ 1 \in 1 .. Cardinality(S) /\ Cardinality(Below(S, s)) = 1 - 1
    BY <1>1, <1>3, <1>5
  <2> HIDE DEF S, Below
  <2> QED BY <1>10, <2>1
<1>12. ASSUME NEW k \in 1 .. Cardinality(T) PROVE Nth(S, k + 1) = Nth(T, k)
  <2>1. k + 1 \in 1 .. Cardinality(S)
    <3> HIDE DEF S
    <3> QED BY <1>1, <1>3
  <2> HIDE DEF S, Below
  <2> QED BY <1>7, <1>10, <2>1
<1> QED BY <1>3, <1>9, <1>11, <1>12

-----------------------------------------------------------------------------
\* The words of the line from p on.
Blanks(txt) == {i \in 1 .. Len(txt) : blank(txt[i])}
Inks(txt) == {i \in 1 .. Len(txt) : ~blank(txt[i])}
Starts(txt, p) == {i \in p .. Len(txt) : ~blank(txt[i]) /\ (i = p \/ blank(txt[i - 1]))}
WordEnd(txt, i) ==
    CHOOSE j \in i .. Len(txt) : (\A k \in i .. j : ~blank(txt[k])) /\ (j = Len(txt) \/ blank(txt[j + 1]))
WordsFrom(txt, p) ==
    [k \in 1 .. Cardinality(Starts(txt, p)) |->
        SubSeq(txt, Nth(Starts(txt, p), k), WordEnd(txt, Nth(Starts(txt, p), k)))]

\* From the first position on they are the words of the line.
LEMMA WordsAreAll ==
    ASSUME NEW C, NEW txt \in Seq(C)
    PROVE  Words(txt) = WordsFrom(txt, 1)
<1> DEFINE starts == {i \in DOMAIN txt : ~blank(txt[i]) /\ (i = 1 \/ blank(txt[i - 1]))}
           nth(k) == CHOOSE i \in starts : Cardinality({j \in starts : j < i}) = k - 1
           end(i) == CHOOSE j \in i .. Len(txt) :
                         (\A k \in i .. j : ~blank(txt[k])) /\ (j = Len(txt) \/ blank(txt[j + 1]))
<1>1. Words(txt) = [k \in 1 .. Cardinality(starts) |-> SubSeq(txt, nth(k), end(nth(k)))]
  BY DEF Words
<1>2. starts = Starts(txt, 1)
  BY LenProperties DEF Starts
<1>3. \A k : nth(k) = Nth(starts, k)
  BY DEF Nth
<1>4. \A i : end(i) = WordEnd(txt, i)
  BY DEF WordEnd
<1> HIDE DEF starts, nth, end
<1> QED BY <1>1, <1>2, <1>3, <1>4 DEF WordsFrom

\* Behind the last word there is none.
LEMMA WordsNone ==
    ASSUME NEW C, NEW txt \in Seq(C), NEW p \in 1 .. Len(txt) + 2,
           p <= Len(txt) => Reach(Len(txt), Blanks(txt), p, Len(txt) + 1)
    PROVE  Starts(txt, p) = {} /\ Full(Starts(txt, p)) /\ WordsFrom(txt, p) = <<>>
<1>1. Len(txt) \in Nat
  BY LenProperties
<1>2. Starts(txt, p) = {}
  <2> SUFFICES ASSUME NEW i \in p .. Len(txt), ~blank(txt[i]) PROVE FALSE
    BY DEF Starts
  <2>1. i \in p .. (Len(txt) + 1) - 1 /\ p <= Len(txt)
    BY <1>1
  <2>2. i \in Blanks(txt)
    BY <2>1 DEF Reach
  <2> QED BY <2>2 DEF Blanks
<1>3. Cardinality(Starts(txt, p)) = 0 /\ IsFiniteSet(Starts(txt, p))
  BY <1>2, FS_EmptySet
<1>4. Full(Starts(txt, p))
  BY <1>2, <1>3 DEF Full
<1> QED BY <1>2, <1>3, <1>4 DEF WordsFrom

\* The word from s to e - 1 is the first one, the others follow behind e.
LEMMA WordsCons ==
    ASSUME NEW C, NEW txt \in Seq(C), NEW p \in 1 .. Len(txt), NEW s, NEW e,
           Reach(Len(txt), Blanks(txt), p, s), s <= Len(txt), Reach(Len(txt), Inks(txt), s, e),
           Full(Starts(txt, e + 1)), WordsFrom(txt, e + 1) \in Seq(Seq(C))
    PROVE  /\ Full(Starts(txt, p))
           /\ WordsFrom(txt, p) = <<SubSeq(txt, s, e - 1)>> \o WordsFrom(txt, e + 1)
           /\ SubSeq(txt, s, e - 1) \in Seq(C)
<1> DEFINE n == Len(txt)
<1>1. n \in Nat
  BY LenProperties
<1>2. s \in p .. n /\ ~blank(txt[s]) /\ \A k \in p .. s - 1 : blank(txt[k])
  BY <1>1 DEF Reach, Blanks
<1>3. e \in s .. n + 1 /\ (e = n + 1 \/ blank(txt[e])) /\ \A k \in s .. e - 1 : ~blank(txt[k])
  BY <1>1, <1>2 DEF Reach, Inks
<1>4. e # s
  BY <1>1, <1>2, <1>3
<1>5. Starts(txt, p) = Starts(txt, e + 1) \cup {s}
  <2>1. ASSUME NEW i \in Starts(txt, p) PROVE i \in Starts(txt, e + 1) \cup {s}
    <3>1. i \in p .. n /\ ~blank(txt[i]) /\ (i = p \/ blank(txt[i - 1]))
      BY <2>1 DEF Starts
    <3>2. i >= s
      BY <1>1, <1>2, <3>1
    <3>3. CASE i = s
      BY <3>3
    <3>4. CASE i # s
      <4>1. i > s /\ i - 1 \in p .. n /\ i # p
        BY <1>1, <1>2, <3>1, <3>2, <3>4
      <4>2. blank(txt[i - 1])
        BY <3>1, <4>1
      <4>3. i >= e
        BY <1>1, <1>2, <1>3, <3>1, <4>1, <4>2
      <4>4. i # e
        BY <1>1, <1>3, <3>1
      <4>5. i \in e + 1 .. n
        BY <1>1, <1>3, <3>1, <4>3, <4>4
      <4> QED BY <3>1, <4>2, <4>5 DEF Starts
    <3> QED BY <3>3, <3>4
  <2>2. s \in Starts(txt, p)
    <3>1. s = p \/ s - 1 \in p .. s - 1
      BY <1>1, <1>2
    <3> QED BY <1>2, <3>1 DEF Starts
  <2>3. ASSUME NEW i \in Starts(txt, e + 1) PROVE i \in Starts(txt, p)
    <3>1. i \in e + 1 .. n /\ ~blank(txt[i]) /\ (i = e + 1 \/ blank(txt[i - 1]))
      BY <2>3 DEF Starts
    <3>2. i \in p .. n /\ e # n + 1
      BY <1>1, <1>2, <1>3, <3>1
    <3>3. blank(txt[i - 1])
      <4>1. CASE i = e + 1
        <5>1. i - 1 = e
          BY <1>1, <1>2, <1>3, <4>1
        <5> QED BY <1>3, <3>2, <5>1
      <4> QED BY <3>1, <4>1
    <3> QED BY <3>1, <3>2, <3>3 DEF Starts
  <2> QED BY <2>1, <2>2, <2>3
<1> DEFINE T == Starts(txt, e + 1)
           S == Starts(txt, p)
<1>6. s \in Int /\ \A t \in T : s < t
  BY <1>1, <1>2, <1>3 DEF Starts
<1>7. /\ Full(S) /\ Cardinality(S) = Cardinality(T) + 1 /\ Nth(S, 1) = s
      /\ \A k \in 1 .. Cardinality(T) : Nth(S, k + 1) = Nth(T, k)
  <2> HIDE DEF T, S
  <2>1. Full(T) /\ S = T \cup {s}
    BY <1>5 DEF S, T
  <2> QED BY <1>6, <2>1, NthCons
<1>8. WordEnd(txt, s) = e - 1
  <2> DEFINE Ends(j) == (\A k \in s .. j : ~blank(txt[k])) /\ (j = n \/ blank(txt[j + 1]))
  <2>1. e - 1 \in s .. n /\ Ends(e - 1)
    <3>1. e - 1 \in s .. n /\ (e - 1) + 1 = e
      BY <1>1, <1>2, <1>3, <1>4
    <3>2. e - 1 = n \/ blank(txt[(e - 1) + 1])
      BY <1>1, <1>3, <3>1
    <3> QED BY <1>3, <3>1, <3>2
  <2>2. ASSUME NEW j \in s .. n, Ends(j) PROVE j = e - 1
    <3>1. j + 1 \in Int /\ j \in Int /\ e \in Int /\ s \in Int
      BY <1>1, <1>2, <1>3
    <3>2. ~(j < e - 1)
      <4> SUFFICES ASSUME j < e - 1 PROVE FALSE
        OBVIOUS
      <4>1. j # n /\ j + 1 \in s .. e - 1
        BY <1>1, <1>2, <1>3, <2>2
      <4> QED BY <1>3, <2>2, <4>1
    <3>3. ~(j > e - 1)
      <4> SUFFICES ASSUME j > e - 1 PROVE FALSE
        OBVIOUS
      <4>1. e \in s .. j /\ e # n + 1
        BY <1>1, <1>2, <1>3, <2>2
      <4> QED BY <1>3, <2>2, <4>1
    <3> QED BY <3>1, <3>2, <3>3
  <2>3. WordEnd(txt, s) = CHOOSE j \in s .. n : Ends(j)
    BY DEF WordEnd
  <2> HIDE DEF Ends, n
  <2> QED BY <2>1, <2>2, <2>3
<1>9. SubSeq(txt, s, e - 1) \in Seq(C)
  <2>1. \A i \in s .. e - 1 : txt[i] \in C
    <3>1. \A i \in 1 .. n : txt[i] \in C
      BY ElementOfSeq
    <3>2. \A i \in s .. e - 1 : i \in 1 .. n
      BY <1>1, <1>2, <1>3
    <3> QED BY <3>1, <3>2
  <2>2. s \in Int /\ e - 1 \in Int
    BY <1>1, <1>2, <1>3
  <2> QED BY <2>1, <2>2, SubSeqProperties
<1>10. WordsFrom(txt, p) = <<SubSeq(txt, s, e - 1)>> \o WordsFrom(txt, e + 1)
  <2> DEFINE w == SubSeq(txt, s, e - 1)
             V == WordsFrom(txt, e + 1)
             W == WordsFrom(txt, p)
             c == Cardinality(T)
             A(i) == SubSeq(txt, i, WordEnd(txt, i))
  <2>1. c \in Nat
    BY FS_CardinalityType DEF Full
  <2>2. V = [k \in 1 .. c |-> A(Nth(T, k))] /\ W = [k \in 1 .. Cardinality(S) |-> A(Nth(S, k))]
    BY DEF WordsFrom
  <2> HIDE DEF V, W, S, T, c
  <2>3. Len(V) = c
    BY <2>1, <2>2
  <2> DEFINE X == <<w>> \o V
  <2>10. w \in Seq(C) /\ V \in Seq(Seq(C))
    BY <1>9 DEF V
  <2> HIDE DEF w
  <2>4. <<w>> \in Seq(Seq(C)) /\ Len(<<w>>) = 1 /\ <<w>>[1] = w /\ V \in Seq(Seq(C))
    <3>1. PICK D : D = Seq(C)
      OBVIOUS
    <3>2. <<w>> \in Seq(D) /\ Len(<<w>>) = 1 /\ <<w>>[1] = w
      BY <2>10, <3>1
    <3> QED BY <2>10, <3>1, <3>2
  <2>5. Len(X) = 1 + c /\ X \in Seq(Seq(C)) /\ \A k \in 1 .. 1 + c : X[k] = IF k <= 1 THEN <<w>>[k] ELSE V[k - 1]
    BY <2>3, <2>4, ConcatProperties
  <2>6. Cardinality(S) = 1 + c
    BY <1>7, <2>1 DEF c
  <2>7. ASSUME NEW k \in 1 .. 1 + c PROVE W[k] = X[k]
    <3>1. W[k] = A(Nth(S, k))
      BY <2>2, <2>6
    <3>2. CASE k = 1
      BY <1>7, <1>8, <2>4, <2>5, <3>1, <3>2 DEF w
    <3>3. CASE k # 1
      <4>1. k - 1 \in 1 .. c /\ (k - 1) + 1 = k /\ ~(k <= 1)
        BY <2>1, <3>3
      <4>2. Nth(S, k) = Nth(T, k - 1)
        <5>1. \A m \in 1 .. c : Nth(S, m + 1) = Nth(T, m)
          BY <1>7 DEF c
        <5> QED BY <4>1, <5>1
      <4>3. V[k - 1] = A(Nth(T, k - 1))
        BY <2>2, <4>1
      <4>4. X[k] = V[k - 1]
        BY <2>5, <4>1
      <4> QED BY <3>1, <4>2, <4>3, <4>4
    <3> QED BY <3>2, <3>3
  <2>8. W = [k \in 1 .. 1 + c |-> W[k]] /\ X = [k \in 1 .. 1 + c |-> X[k]]
    <3>1. W = [k \in 1 .. 1 + c |-> W[k]]
      BY <2>2, <2>6
    <3>2. X \in [1 .. Len(X) -> Seq(C)]
      BY <2>5, LenProperties
    <3>3. X \in [1 .. 1 + c -> Seq(C)]
      BY <2>5, <3>2
    <3> HIDE DEF X
    <3>4. X = [k \in 1 .. 1 + c |-> X[k]]
      BY <3>3
    <3> QED BY <3>1, <3>4
  <2> HIDE DEF X
  <2>9. W = X
    BY <2>7, <2>8
  <2> QED BY <2>9 DEF W, X, w, V
<1> QED BY <1>7, <1>9, <1>10

\* The words from every position, by induction from the end of the line.
LEMMA WordsFromOk ==
    ASSUME NEW C, NEW txt \in Seq(C), NEW p \in 1 .. Len(txt) + 2
    PROVE  Full(Starts(txt, p)) /\ WordsFrom(txt, p) \in Seq(Seq(C))
<1> DEFINE n == Len(txt)
           Ok(a) == Full(Starts(txt, a)) /\ WordsFrom(txt, a) \in Seq(Seq(C))
           T == {i \in 0 .. n + 1 : \A a \in n + 2 - i .. n + 2 : Ok(a)}
<1>1. n \in Nat
  BY LenProperties
<1>2. ASSUME NEW a \in 1 .. n + 2, a <= n => Reach(n, Blanks(txt), a, n + 1) PROVE Ok(a)
  <2>1. Full(Starts(txt, a)) /\ WordsFrom(txt, a) = <<>>
    BY <1>2, WordsNone
  <2>2. PICK D : D = Seq(C)
    OBVIOUS
  <2>3. <<>> \in Seq(D)
    BY EmptySeq
  <2> QED BY <2>1, <2>2, <2>3
<1>3. 0 \in T
  <2>1. Ok(n + 2)
    BY <1>1, <1>2
  <2> HIDE DEF Ok, n
  <2>2. \A a \in n + 2 - 0 .. n + 2 : a = n + 2
    BY <1>1
  <2> QED BY <1>1, <2>1, <2>2
<1>4. ASSUME NEW i \in 1 .. n + 1, i - 1 \in T PROVE i \in T
  <2>1. PICK b \in 1 .. n + 1 : b = n + 2 - i
    BY <1>1
  <2>2. \A a \in b + 1 .. n + 2 : Ok(a)
    <3>1. n + 2 - (i - 1) = b + 1
      BY <1>1, <2>1
    <3> HIDE DEF Ok
    <3> QED BY <1>4, <3>1
  <2>3. Ok(b)
    <3>1. CASE b = n + 1
      BY <1>1, <1>2, <3>1
    <3>2. CASE b # n + 1
      <4>1. b \in 1 .. n
        BY <1>1, <3>2
      <4>2. PICK s : Reach(n, Blanks(txt), b, s)
        BY <1>1, ReachSome
      <4>3. CASE s = n + 1
        BY <1>1, <1>2, <4>2, <4>3
      <4>4. CASE s # n + 1
        <5>1. s \in 1 .. n + 1 /\ s <= n
          BY <1>1, <4>1, <4>2, <4>4 DEF Reach
        <5>2. PICK e : Reach(n, Inks(txt), s, e)
          BY <1>1, <5>1, ReachSome
        <5>3. e + 1 \in b + 1 .. n + 2
          BY <1>1, <4>1, <4>2, <5>1, <5>2 DEF Reach
        <5>4. Full(Starts(txt, e + 1)) /\ WordsFrom(txt, e + 1) \in Seq(Seq(C))
          BY <2>2, <5>3
        <5> DEFINE w == SubSeq(txt, s, e - 1)
        <5>5. Full(Starts(txt, b)) /\ WordsFrom(txt, b) = <<w>> \o WordsFrom(txt, e + 1) /\ w \in Seq(C)
          <6>1. /\ b \in 1 .. Len(txt) /\ Reach(Len(txt), Blanks(txt), b, s) /\ s <= Len(txt)
                /\ Reach(Len(txt), Inks(txt), s, e)
            BY <4>1, <4>2, <5>1, <5>2
          <6> HIDE DEF n, Ok
          <6>2. /\ Full(Starts(txt, b))
                /\ WordsFrom(txt, b) = <<SubSeq(txt, s, e - 1)>> \o WordsFrom(txt, e + 1)
                /\ SubSeq(txt, s, e - 1) \in Seq(C)
            BY <5>4, <6>1, WordsCons
          <6> QED BY <6>2
        <5> HIDE DEF w
        <5>6. PICK D, V : D = Seq(C) /\ V = WordsFrom(txt, e + 1)
          OBVIOUS
        <5>7. <<w>> \o V \in Seq(D)
          <6>1. <<w>> \in Seq(D)
            BY <5>5, <5>6
          <6> QED BY <5>4, <5>6, <6>1, ConcatProperties
        <5> QED BY <5>5, <5>6, <5>7
      <4> QED BY <4>3, <4>4
    <3> QED BY <3>1, <3>2
  <2> HIDE DEF Ok, n
  <2>4. ASSUME NEW a \in b .. n + 2 PROVE Ok(a)
    <3>1. a = b \/ a \in b + 1 .. n + 2
      BY <1>1
    <3> QED BY <2>2, <2>3, <3>1
  <2> QED BY <1>1, <2>1, <2>4
<1> HIDE DEF T, n
<1>5. 0 .. n + 1 \subseteq T
  <2>1. PICK m \in Nat : m = n + 1
    BY <1>1
  <2>2. \A i \in 1 .. m : i - 1 \in T => i \in T
    BY <1>4, <2>1
  <2>3. 0 .. m \subseteq T
    BY <1>3, <2>2, IntervalInduction
  <2> QED BY <2>1, <2>3
<1>6. n + 1 \in T
  BY <1>1, <1>5
<1>7. \A a \in n + 2 - (n + 1) .. n + 2 : Ok(a)
  <2> HIDE DEF Ok
  <2> QED BY <1>6 DEF T
<1>8. p \in n + 2 - (n + 1) .. n + 2
  BY <1>1 DEF n
<1> HIDE DEF Ok
<1>9. Ok(p)
  BY <1>7, <1>8
<1> QED BY <1>9 DEF Ok

\* The first m words.
LEMMA PrefixIs ==
    ASSUME NEW D, NEW W \in Seq(D), NEW m \in Nat
    PROVE  /\ Prefix(W, m) \in Seq(D) /\ Len(Prefix(W, m)) = (IF m < Len(W) THEN m ELSE Len(W))
           /\ \A i \in 1 .. Len(Prefix(W, m)) : Prefix(W, m)[i] = W[i]
<1> DEFINE c == IF m < Len(W) THEN m ELSE Len(W)
<1>1. Len(W) \in Nat /\ \A i \in 1 .. Len(W) : W[i] \in D
  BY LenProperties, ElementOfSeq
<1>2. c \in Nat /\ c <= Len(W)
  BY <1>1
<1>3. Prefix(W, m) = SubSeq(W, 1, c)
  BY DEF Prefix
<1> HIDE DEF c
<1>4. \A i \in 1 .. c : W[i] \in D
  BY <1>1, <1>2
<1>5. /\ SubSeq(W, 1, c) \in Seq(D) /\ Len(SubSeq(W, 1, c)) = (IF 1 <= c THEN c - 1 + 1 ELSE 0)
      /\ \A i \in 1 .. c - 1 + 1 : SubSeq(W, 1, c)[i] = W[1 + i - 1]
  BY <1>2, <1>4, SubSeqProperties
<1>6. Len(SubSeq(W, 1, c)) = c
  BY <1>2, <1>5
<1>7. ASSUME NEW i \in 1 .. c PROVE SubSeq(W, 1, c)[i] = W[i]
  <2>1. i \in 1 .. c - 1 + 1 /\ 1 + i - 1 = i
    BY <1>2
  <2> QED BY <1>5, <2>1
<1> QED BY <1>3, <1>5, <1>6, <1>7 DEF c

\* No words are the empty prefix.
LEMMA PrefixNone ==
    ASSUME NEW D, NEW W \in Seq(D)
    PROVE  Prefix(W, 0) = <<>>
<1>1. Prefix(W, 0) \in Seq(D) /\ Len(Prefix(W, 0)) = (IF 0 < Len(W) THEN 0 ELSE Len(W)) /\ Len(W) \in Nat
  BY PrefixIs, LenProperties
<1>2. Len(Prefix(W, 0)) = 0
  BY <1>1
<1> QED BY <1>1, <1>2, EmptySeq

\* The first m + 1 of a word and others.
LEMMA PrefixCons ==
    ASSUME NEW D, NEW w \in D, NEW V \in Seq(D), NEW m \in Nat
    PROVE  Prefix(<<w>> \o V, m + 1) = <<w>> \o Prefix(V, m)
<1> DEFINE X == <<w>> \o V
           P == Prefix(V, m)
           Y == <<w>> \o P
           Z == Prefix(X, m + 1)
<1>1. <<w>> \in Seq(D) /\ Len(<<w>>) = 1 /\ <<w>>[1] = w /\ Len(V) \in Nat
  BY LenProperties
<1>2. /\ X \in Seq(D) /\ Len(X) = 1 + Len(V)
      /\ \A i \in 1 .. 1 + Len(V) : X[i] = IF i <= 1 THEN <<w>>[i] ELSE V[i - 1]
  BY <1>1, ConcatProperties
<1>3. P \in Seq(D) /\ Len(P) = (IF m < Len(V) THEN m ELSE Len(V)) /\ \A i \in 1 .. Len(P) : P[i] = V[i]
  BY PrefixIs
<1> HIDE DEF X, P
<1>4. /\ Y \in Seq(D) /\ Len(Y) = 1 + Len(P)
      /\ \A i \in 1 .. 1 + Len(P) : Y[i] = IF i <= 1 THEN <<w>>[i] ELSE P[i - 1]
  BY <1>1, <1>3, ConcatProperties
<1>5. /\ Z \in Seq(D) /\ Len(Z) = (IF m + 1 < Len(X) THEN m + 1 ELSE Len(X)) /\ \A i \in 1 .. Len(Z) : Z[i] = X[i]
  BY <1>2, PrefixIs
<1> HIDE DEF Y, Z
<1>6. Len(Z) = Len(Y) /\ Len(P) \in Nat /\ Len(P) <= Len(V)
  BY <1>1, <1>2, <1>3, <1>4, <1>5
<1>7. ASSUME NEW i \in 1 .. Len(Z) PROVE Z[i] = Y[i]
  <2>1. i \in 1 .. 1 + Len(P) /\ i \in 1 .. 1 + Len(V)
    BY <1>1, <1>4, <1>6
  <2>2. Z[i] = X[i]
    BY <1>5
  <2>3. CASE i <= 1
    BY <1>2, <1>4, <2>1, <2>2, <2>3
  <2>4. CASE ~(i <= 1)
    <3>1. i - 1 \in 1 .. Len(P)
      BY <1>6, <2>1, <2>4
    <3> QED BY <1>2, <1>3, <1>4, <2>1, <2>2, <2>4, <3>1
  <2> QED BY <2>3, <2>4
<1>8. Z = Y
  BY <1>4, <1>5, <1>6, <1>7, SeqEqual
<1> QED BY <1>8 DEF X, Y, Z, P

\* Nothing has no other prefix.
LEMMA PrefixOfNone ==
    ASSUME NEW k \in Nat
    PROVE  Prefix(<<>>, k) = <<>>
<1>1. PICK W \in Seq(STRING) : W = <<>> /\ Len(W) = 0
  BY EmptySeq
<1>2. Prefix(W, k) \in Seq(STRING) /\ Len(Prefix(W, k)) = (IF k < Len(W) THEN k ELSE Len(W))
  BY PrefixIs
<1>3. Len(Prefix(W, k)) = 0
  BY <1>1, <1>2
<1> QED BY <1>1, <1>2, <1>3, EmptySeq

\* What the words from p on leave in an argv that holds a of them already.
Left(txt, p, a) == Prefix(WordsFrom(txt, p), IF a < MAX_ARGS - 1 THEN MAX_ARGS - 1 - a ELSE 0)

\* A round of tokenize: nothing, or a word and what follows it.
LEMMA LeftStep ==
    ASSUME NEW C, NEW txt \in Seq(C), NEW p \in 1 .. Len(txt) + 1, NEW a \in 0 .. MAX_ARGS, NEW s, NEW e,
           Reach(Len(txt), Blanks(txt), p, s), s <= Len(txt) => Reach(Len(txt), Inks(txt), s, e)
    PROVE  Left(txt, p, a) =
               IF p > Len(txt) \/ a >= MAX_ARGS - 1 \/ s > Len(txt) THEN <<>>
               ELSE <<SubSeq(txt, s, e - 1)>> \o (IF e > Len(txt) THEN <<>> ELSE Left(txt, e + 1, a + 1))
<1> DEFINE n == Len(txt)
           M == MAX_ARGS
<1>1. n \in Nat /\ M \in Nat /\ M > 1 /\ a \in Nat /\ p \in Nat
  BY LenProperties, ShellAssumption
<1>2. s \in p .. n + 1 /\ s \in Int
  BY <1>1 DEF Reach
<1>3. WordsFrom(txt, p) \in Seq(Seq(C))
  <2>1. p \in 1 .. Len(txt) + 2
    BY <1>1
  <2> QED BY <2>1, WordsFromOk
<1>4. CASE a >= M - 1
  <2>1. Left(txt, p, a) = Prefix(WordsFrom(txt, p), 0)
    BY <1>1, <1>4 DEF Left
  <2>2. PICK D, W : D = Seq(C) /\ W = WordsFrom(txt, p)
    OBVIOUS
  <2>3. Prefix(W, 0) = <<>>
    BY <1>3, <2>2, PrefixNone
  <2> QED BY <1>4, <2>1, <2>2, <2>3
<1>5. CASE a < M - 1 /\ s > n
  <2>1. s = n + 1
    BY <1>1, <1>2, <1>5
  <2>2. p \in 1 .. Len(txt) + 2 /\ Reach(Len(txt), Blanks(txt), p, Len(txt) + 1)
    BY <1>1, <2>1
  <2>3. WordsFrom(txt, p) = <<>>
    BY <2>2, WordsNone
  <2>4. PICK k \in Nat : k = M - 1 - a
    BY <1>1, <1>5
  <2>5. Left(txt, p, a) = Prefix(<<>>, k)
    BY <1>5, <2>3, <2>4 DEF Left
  <2>6. Prefix(<<>>, k) = <<>>
    BY PrefixOfNone
  <2> QED BY <1>5, <2>5, <2>6
<1>6. CASE a < M - 1 /\ s <= n
  <2>1. p \in 1 .. n /\ s \in 1 .. n /\ Reach(n, Inks(txt), s, e)
    BY <1>1, <1>2, <1>6
  <2>2. e \in s .. n + 1
    BY <1>1, <2>1 DEF Reach
  <2>3. e + 1 \in 1 .. Len(txt) + 2
    BY <1>1, <2>1, <2>2
  <2>4. Full(Starts(txt, e + 1)) /\ WordsFrom(txt, e + 1) \in Seq(Seq(C))
    BY <2>3, WordsFromOk
  <2>5. /\ WordsFrom(txt, p) = <<SubSeq(txt, s, e - 1)>> \o WordsFrom(txt, e + 1)
        /\ SubSeq(txt, s, e - 1) \in Seq(C)
    <3>1. p \in 1 .. Len(txt) /\ Reach(Len(txt), Blanks(txt), p, s) /\ s <= Len(txt)
          /\ Reach(Len(txt), Inks(txt), s, e)
      BY <1>6, <2>1
    <3> HIDE DEF n
    <3> QED BY <2>4, <3>1, WordsCons
  <2>6. PICK k \in Nat : k + 1 = M - 1 - a
    <3>1. M - 1 - a - 1 \in Nat /\ (M - 1 - a - 1) + 1 = M - 1 - a
      BY <1>1, <1>6
    <3> QED BY <3>1
  <2>7. k = (IF a + 1 < M - 1 THEN M - 1 - (a + 1) ELSE 0)
    BY <1>1, <1>6, <2>6
  <2>8. PICK D, w, V : D = Seq(C) /\ w = SubSeq(txt, s, e - 1) /\ V = WordsFrom(txt, e + 1)
    OBVIOUS
  <2>9. Prefix(<<w>> \o V, k + 1) = <<w>> \o Prefix(V, k)
    BY <2>4, <2>5, <2>8, PrefixCons
  <2>10. Left(txt, p, a) = <<w>> \o Prefix(V, k)
    <3>1. Left(txt, p, a) = Prefix(<<w>> \o V, k + 1)
      BY <1>6, <2>5, <2>6, <2>8 DEF Left
    <3> QED BY <2>9, <3>1
  <2>11. Prefix(V, k) = Left(txt, e + 1, a + 1)
    BY <2>7, <2>8 DEF Left
  <2>12. e > n => Prefix(V, k) = <<>>
    <3> SUFFICES ASSUME e > n PROVE Prefix(V, k) = <<>>
      OBVIOUS
    <3>1. ~(e + 1 <= Len(txt))
      BY <1>1, <2>2
    <3>2. V = <<>>
      BY <2>3, <2>8, <3>1, WordsNone
    <3> QED BY <3>2, PrefixOfNone
  <2>13. ~(p > n) /\ ~(a >= M - 1) /\ ~(s > n)
    BY <1>1, <1>2, <1>6, <2>1
  <2> QED BY <2>8, <2>10, <2>11, <2>12, <2>13
<1>7. a >= M - 1 \/ (a < M - 1 /\ s > n) \/ (a < M - 1 /\ s <= n)
  BY <1>1, <1>2
<1> QED BY <1>4, <1>5, <1>6, <1>7

\* tokenize finds the words of the line, as many as argv has room for.
LEMMA TokenizeFindsWords ==
    ASSUME NEW C, NEW txt \in Seq(C)
    PROVE  tokenize(txt) = Prefix(Words(txt), MAX_ARGS - 1)
<1> DEFINE n == Len(txt)
           M == MAX_ARGS
           RSkip(g) == [p \in 1 .. n + 1 |-> IF p <= n /\ blank(txt[p]) THEN g[p + 1] ELSE p]
           RStop(g) == [p \in 1 .. n + 1 |-> IF p <= n /\ ~blank(txt[p]) THEN g[p + 1] ELSE p]
           skip == CHOOSE g : g = RSkip(g)
           stop == CHOOSE g : g = RStop(g)
           RFrom(g) == [p \in 1 .. n + 1 |-> [a \in 0 .. M |->
                           IF p > n \/ a >= M - 1 \/ skip[p] > n THEN <<>>
                           ELSE <<SubSeq(txt, skip[p], stop[skip[p]] - 1)>>
                                \o (IF stop[skip[p]] > n THEN <<>> ELSE g[stop[skip[p]] + 1][a + 1])]]
           from == CHOOSE g : g = RFrom(g)
<1>1. tokenize(txt) = from[1][0]
  BY DEF tokenize
<1>2. n \in Nat /\ M \in Nat /\ M > 1
  BY LenProperties, ShellAssumption
<1>3. ASSUME NEW p \in 1 .. n + 1 PROVE Reach(n, Blanks(txt), p, skip[p])
  <2> DEFINE B == Blanks(txt)
             R(g) == [q \in 1 .. n + 1 |-> IF q <= n /\ q \in B THEN g[q + 1] ELSE q]
  <2>1. \A g : RSkip(g) = R(g)
    <3>1. \A q \in 1 .. n + 1 : (q <= n /\ blank(txt[q])) <=> (q <= n /\ q \in B)
      BY <1>2 DEF Blanks
    <3> HIDE DEF B, n
    <3> QED BY <3>1
  <2> HIDE DEF B, RSkip
  <2>2. \E g : g = R(g)
    BY <1>2, WalkExists
  <2>3. \E g : g = RSkip(g)
    <3> HIDE DEF R
    <3> QED BY <2>1, <2>2
  <2>4. skip = RSkip(skip)
    <3> HIDE DEF R
    <3> QED BY <2>3, Zenon
  <2> HIDE DEF skip
  <2>5. skip = R(skip)
    <3> HIDE DEF R
    <3> QED BY <2>1, <2>4
  <2> QED BY <1>2, <2>5, WalkReaches DEF B
<1>4. ASSUME NEW p \in 1 .. n + 1 PROVE Reach(n, Inks(txt), p, stop[p])
  <2> DEFINE B == Inks(txt)
             R(g) == [q \in 1 .. n + 1 |-> IF q <= n /\ q \in B THEN g[q + 1] ELSE q]
  <2>1. \A g : RStop(g) = R(g)
    <3>1. \A q \in 1 .. n + 1 : (q <= n /\ ~blank(txt[q])) <=> (q <= n /\ q \in B)
      BY <1>2 DEF Inks
    <3> HIDE DEF B, n
    <3> QED BY <3>1
  <2> HIDE DEF B, RStop
  <2>2. \E g : g = R(g)
    BY <1>2, WalkExists
  <2>3. \E g : g = RStop(g)
    <3> HIDE DEF R
    <3> QED BY <2>1, <2>2
  <2>4. stop = RStop(stop)
    <3> HIDE DEF R
    <3> QED BY <2>3, Zenon
  <2> HIDE DEF stop
  <2>5. stop = R(stop)
    <3> HIDE DEF R
    <3> QED BY <2>1, <2>4
  <2> QED BY <1>2, <2>5, WalkReaches DEF B
<1> HIDE DEF RSkip, RStop, skip, stop
<1>5. ASSUME NEW p \in 1 .. n + 1, NEW a \in 0 .. M
      PROVE  /\ Left(txt, p, a) = IF p > n \/ a >= M - 1 \/ skip[p] > n THEN <<>>
                                   ELSE <<SubSeq(txt, skip[p], stop[skip[p]] - 1)>>
                                        \o (IF stop[skip[p]] > n THEN <<>> ELSE Left(txt, stop[skip[p]] + 1, a + 1))
             /\ ~(p > n \/ a >= M - 1 \/ skip[p] > n) /\ ~(stop[skip[p]] > n) =>
                   stop[skip[p]] + 1 \in p + 1 .. n + 1 /\ a + 1 \in 0 .. M
  <2>1. Reach(n, Blanks(txt), p, skip[p]) /\ skip[p] \in p .. n + 1
    BY <1>2, <1>3 DEF Reach
  <2>2. skip[p] <= n => Reach(n, Inks(txt), skip[p], stop[skip[p]])
    BY <1>2, <1>4, <2>1
  <2>3. PICK s, e : s = skip[p] /\ e = stop[s]
    OBVIOUS
  <2>4. Left(txt, p, a) = IF p > n \/ a >= M - 1 \/ s > n THEN <<>>
                           ELSE <<SubSeq(txt, s, e - 1)>> \o (IF e > n THEN <<>> ELSE Left(txt, e + 1, a + 1))
    <3>1. /\ p \in 1 .. Len(txt) + 1 /\ a \in 0 .. MAX_ARGS /\ Reach(Len(txt), Blanks(txt), p, s)
          /\ s <= Len(txt) => Reach(Len(txt), Inks(txt), s, e)
      BY <2>1, <2>2, <2>3
    <3> HIDE DEF n, M
    <3>2. Left(txt, p, a) =
             IF p > Len(txt) \/ a >= MAX_ARGS - 1 \/ s > Len(txt) THEN <<>>
             ELSE <<SubSeq(txt, s, e - 1)>> \o (IF e > Len(txt) THEN <<>> ELSE Left(txt, e + 1, a + 1))
      BY <3>1, LeftStep
    <3> QED BY <3>2 DEF n, M
  <2>5. ASSUME ~(p > n \/ a >= M - 1 \/ s > n), ~(e > n) PROVE e + 1 \in p + 1 .. n + 1 /\ a + 1 \in 0 .. M
    <3>1. s \in p .. n
      BY <1>2, <2>1, <2>3, <2>5
    <3>2. e \in s .. n + 1
      BY <1>2, <2>2, <2>3, <3>1 DEF Reach
    <3> QED BY <1>2, <2>5, <3>1, <3>2
  <2> QED BY <2>3, <2>4, <2>5
<1> HIDE DEF n, M
<1>6. from = RFrom(from)
  <2> DEFINE u == [p \in 1 .. n + 1 |-> [a \in 0 .. M |-> Left(txt, p, a)]]
  <2>1. ASSUME NEW p \in 1 .. n + 1, NEW a \in 0 .. M PROVE RFrom(u)[p][a] = Left(txt, p, a)
    <3>1. PICK s, e : s = skip[p] /\ e = stop[s]
      OBVIOUS
    <3>2. RFrom(u)[p][a] = IF p > n \/ a >= M - 1 \/ s > n THEN <<>>
                           ELSE <<SubSeq(txt, s, e - 1)>> \o (IF e > n THEN <<>> ELSE u[e + 1][a + 1])
      BY <3>1
    <3>3. ASSUME ~(p > n \/ a >= M - 1 \/ s > n), ~(e > n) PROVE u[e + 1][a + 1] = Left(txt, e + 1, a + 1)
      <4>1. e + 1 \in p + 1 .. n + 1 /\ a + 1 \in 0 .. M
        BY <1>5, <3>1, <3>3
      <4>2. e + 1 \in 1 .. n + 1
        BY <1>2, <4>1
      <4> QED BY <4>1, <4>2
    <3> HIDE DEF u, RFrom
    <3> QED BY <1>5, <3>1, <3>2, <3>3
  <2>2. u = RFrom(u)
    <3>1. RFrom(u) = [p \in 1 .. n + 1 |-> [a \in 0 .. M |-> RFrom(u)[p][a]]]
      OBVIOUS
    <3> HIDE DEF RFrom
    <3> QED BY <2>1, <3>1
  <2> HIDE DEF u, RFrom
  <2>3. \E g : g = RFrom(g)
    BY <2>2
  <2> QED BY <2>3, Zenon
<1> HIDE DEF from
<1>7. ASSUME NEW p \in 1 .. n + 1, NEW a \in 0 .. M
      PROVE  from[p][a] = IF p > n \/ a >= M - 1 \/ skip[p] > n THEN <<>>
                          ELSE <<SubSeq(txt, skip[p], stop[skip[p]] - 1)>>
                               \o (IF stop[skip[p]] > n THEN <<>> ELSE from[stop[skip[p]] + 1][a + 1])
  <2>1. RFrom(from)[p][a] = IF p > n \/ a >= M - 1 \/ skip[p] > n THEN <<>>
                            ELSE <<SubSeq(txt, skip[p], stop[skip[p]] - 1)>>
                                 \o (IF stop[skip[p]] > n THEN <<>> ELSE from[stop[skip[p]] + 1][a + 1])
    OBVIOUS
  <2> HIDE DEF RFrom
  <2> QED BY <1>6, <2>1
<1> HIDE DEF RFrom
<1> DEFINE T == {i \in 0 .. n : \A p \in n + 1 - i .. n + 1, a \in 0 .. M : from[p][a] = Left(txt, p, a)}
<1>8. 0 \in T
  <2>1. ASSUME NEW a \in 0 .. M PROVE from[n + 1][a] = Left(txt, n + 1, a)
    <3>1. n + 1 \in 1 .. n + 1 /\ n + 1 > n
      BY <1>2
    <3> QED BY <1>5, <1>7, <3>1
  <2>2. \A p \in n + 1 - 0 .. n + 1 : p = n + 1
    BY <1>2
  <2> QED BY <1>2, <2>1, <2>2
<1>9. ASSUME NEW i \in 1 .. n, i - 1 \in T PROVE i \in T
  <2>1. PICK b \in 1 .. n : b = n + 1 - i
    BY <1>2
  <2>2. \A p \in b + 1 .. n + 1, a \in 0 .. M : from[p][a] = Left(txt, p, a)
    <3>1. n + 1 - (i - 1) = b + 1
      BY <1>2, <2>1
    <3> QED BY <1>9, <3>1
  <2>3. ASSUME NEW a \in 0 .. M PROVE from[b][a] = Left(txt, b, a)
    <3>1. b \in 1 .. n + 1
      BY <1>2
    <3>2. PICK s, e : s = skip[b] /\ e = stop[s]
      OBVIOUS
    <3>3. from[b][a] = IF b > n \/ a >= M - 1 \/ s > n THEN <<>>
                       ELSE <<SubSeq(txt, s, e - 1)>> \o (IF e > n THEN <<>> ELSE from[e + 1][a + 1])
      BY <1>7, <3>1, <3>2
    <3>4. /\ Left(txt, b, a) = IF b > n \/ a >= M - 1 \/ s > n THEN <<>>
                                ELSE <<SubSeq(txt, s, e - 1)>> \o (IF e > n THEN <<>> ELSE Left(txt, e + 1, a + 1))
          /\ ~(b > n \/ a >= M - 1 \/ s > n) /\ ~(e > n) => e + 1 \in b + 1 .. n + 1 /\ a + 1 \in 0 .. M
      BY <1>5, <3>1, <3>2
    <3>5. ~(b > n \/ a >= M - 1 \/ s > n) /\ ~(e > n) => from[e + 1][a + 1] = Left(txt, e + 1, a + 1)
      BY <2>2, <3>4
    <3> QED BY <3>3, <3>4, <3>5
  <2>4. ASSUME NEW p \in b .. n + 1, NEW a \in 0 .. M PROVE from[p][a] = Left(txt, p, a)
    <3>1. p = b \/ p \in b + 1 .. n + 1
      BY <1>2
    <3> QED BY <2>2, <2>3, <3>1
  <2> QED BY <2>1, <2>4
<1> HIDE DEF T
<1>10. n \in T
  <2>1. 0 .. n \subseteq T
    BY <1>2, <1>8, <1>9, IntervalInduction
  <2> QED BY <1>2, <2>1
<1>11. from[1][0] = Left(txt, 1, 0)
  <2>1. \A p \in n + 1 - n .. n + 1, a \in 0 .. M : from[p][a] = Left(txt, p, a)
    BY <1>10 DEF T
  <2>2. 1 \in n + 1 - n .. n + 1 /\ 0 \in 0 .. M
    BY <1>2
  <2> QED BY <2>1, <2>2
<1>12. Left(txt, 1, 0) = Prefix(Words(txt), MAX_ARGS - 1)
  <2>1. 0 < MAX_ARGS - 1 /\ MAX_ARGS - 1 - 0 = MAX_ARGS - 1
    BY <1>2 DEF M
  <2> QED BY <2>1, WordsAreAll DEF Left
<1> QED BY <1>1, <1>11, <1>12

-----------------------------------------------------------------------------
(* The shell: lines *)

\* The characters of lines, with their end.
ShChar == STRING \cup {"NL"}

\* read_line drops the line end.
LEMMA StrippedLine ==
    ASSUME NEW F \in Seq(ShChar), \A i \in 1 .. Len(F) : F[i] # "NL"
    PROVE  Stripped(Append(F, "NL")) = F
<1> DEFINE b == Append(F, "NL")
           n == Len(F)
           keep == {k \in 0 .. Len(b) : k = 0 \/ b[k] # "NL"}
<1>1. n \in Nat /\ b \in Seq(ShChar) /\ Len(b) = n + 1 /\ b[n + 1] = "NL" /\ \A i \in 1 .. n : b[i] = F[i]
  <2>1. "NL" \in ShChar
    BY DEF ShChar
  <2> QED BY <2>1, AppendProperties, LenProperties
<1>2. Stripped(b) = SubSeq(b, 1, CHOOSE m \in keep : \A k \in keep : k <= m)
  BY DEF Stripped
<1> HIDE DEF b, n
<1>3. n \in keep
  <2>1. n \in 0 .. Len(b)
    BY <1>1
  <2>2. n # 0 => b[n] # "NL"
    BY <1>1 DEF n
  <2> QED BY <2>1, <2>2
<1>4. ASSUME NEW k \in keep PROVE k <= n
  <2>1. k \in 0 .. n + 1 /\ (k = 0 \/ b[k] # "NL")
    BY <1>1
  <2> QED BY <1>1, <2>1
<1>5. ASSUME NEW m \in keep, \A k \in keep : k <= m PROVE m = n
  <2>1. m \in Nat
    BY <1>1
  <2> HIDE DEF keep
  <2> QED BY <1>1, <1>3, <1>4, <1>5, <2>1
<1> HIDE DEF keep
<1>6. (CHOOSE m \in keep : \A k \in keep : k <= m) = n
  BY <1>3, <1>4, <1>5
<1>7. SubSeq(b, 1, n) = F
  <2>1. \A i \in 1 .. n : b[i] \in ShChar
    BY <1>1, ElementOfSeq DEF n
  <2>2. SubSeq(b, 1, n) \in Seq(ShChar) /\ Len(SubSeq(b, 1, n)) = (IF 1 <= n THEN n - 1 + 1 ELSE 0)
        /\ \A i \in 1 .. n - 1 + 1 : SubSeq(b, 1, n)[i] = b[1 + i - 1]
    BY <1>1, <2>1, SubSeqProperties
  <2>3. PICK u : u = SubSeq(b, 1, n)
    OBVIOUS
  <2>4. Len(u) = n
    BY <1>1, <2>2, <2>3
  <2>5. ASSUME NEW i \in 1 .. n PROVE u[i] = F[i]
    <3>1. i \in 1 .. n - 1 + 1 /\ 1 + i - 1 = i
      BY <1>1
    <3> QED BY <1>1, <2>2, <2>3, <3>1
  <2>6. u = F
    BY <2>2, <2>3, <2>4, <2>5, SeqEqual DEF n
  <2> QED BY <2>3, <2>6
<1> QED BY <1>2, <1>6, <1>7 DEF b

\* What is left behind the first n.
LEMMA SuffixIs ==
    ASSUME NEW D, NEW s \in Seq(D), NEW n \in 0 .. Len(s)
    PROVE  /\ Suffix(s, n) \in Seq(D) /\ Len(Suffix(s, n)) = Len(s) - n
           /\ \A i \in 1 .. Len(s) - n : Suffix(s, n)[i] = s[n + i]
           /\ SubSeq(s, 1, n) \in Seq(D) /\ Len(SubSeq(s, 1, n)) = n /\ SubSeq(s, 1, n) \o Suffix(s, n) = s
<1>1. Len(s) \in Nat /\ \A i \in 1 .. Len(s) : s[i] \in D
  BY LenProperties, ElementOfSeq
<1>2. PICK m \in Nat : m = Len(s)
  BY <1>1
<1>3. \A i \in n + 1 .. m : s[i] \in D
  BY <1>1, <1>2
<1>4. /\ SubSeq(s, n + 1, m) \in Seq(D) /\ Len(SubSeq(s, n + 1, m)) = (IF n + 1 <= m THEN m - (n + 1) + 1 ELSE 0)
      /\ \A i \in 1 .. m - (n + 1) + 1 : SubSeq(s, n + 1, m)[i] = s[n + 1 + i - 1]
  BY <1>2, <1>3, SubSeqProperties
<1>5. PICK u : u = SubSeq(s, n + 1, m) /\ u = Suffix(s, n)
  BY <1>2 DEF Suffix
<1>6. Len(u) = m - n
  BY <1>2, <1>4, <1>5
<1>7. ASSUME NEW i \in 1 .. m - n PROVE u[i] = s[n + i]
  <2>1. i \in 1 .. m - (n + 1) + 1 /\ n + 1 + i - 1 = n + i
    BY <1>2
  <2> QED BY <1>4, <1>5, <2>1
<1>8. \A i \in 1 .. n : s[i] \in D
  BY <1>1, <1>2
<1>9. SubSeq(s, 1, n) \in Seq(D) /\ Len(SubSeq(s, 1, n)) = (IF 1 <= n THEN n - 1 + 1 ELSE 0)
  BY <1>2, <1>8, SubSeqProperties
<1>10. Len(SubSeq(s, 1, n)) = n
  BY <1>2, <1>9
<1>11. SubSeq(s, 1, n) \o SubSeq(s, n + 1, m) = s
  <2>1. 1 \in 1 .. Len(s) + 1 /\ n \in 1 - 1 .. Len(s) /\ m \in n .. Len(s)
    BY <1>2
  <2>2. SubSeq(s, 1, n) \o SubSeq(s, n + 1, m) = SubSeq(s, 1, m)
    BY <2>1, ConcatAdjacentSubSeq
  <2> QED BY <1>2, <2>2, SubSeqFull
<1> QED BY <1>2, <1>4, <1>5, <1>6, <1>7, <1>9, <1>10, <1>11

\* Behind s there is t.
LEMMA SuffixOfConcat ==
    ASSUME NEW D, NEW s \in Seq(D), NEW t \in Seq(D)
    PROVE  Suffix(s \o t, Len(s)) = t
<1>1. Len(s) \in Nat /\ Len(t) \in Nat
  BY LenProperties
<1>2. s \o t \in Seq(D) /\ Len(s \o t) = Len(s) + Len(t)
      /\ \A i \in 1 .. Len(s) + Len(t) : (s \o t)[i] = IF i <= Len(s) THEN s[i] ELSE t[i - Len(s)]
  BY ConcatProperties
<1>3. PICK w \in Seq(D), n \in Nat : w = s \o t /\ n = Len(s)
  BY <1>1, <1>2
<1>4. n \in 0 .. Len(w) /\ w \in Seq(D)
  BY <1>1, <1>2, <1>3
<1>5. Suffix(w, n) \in Seq(D) /\ Len(Suffix(w, n)) = Len(w) - n /\ \A i \in 1 .. Len(w) - n : Suffix(w, n)[i] = w[n + i]
  BY <1>4, SuffixIs
<1>6. Len(w) - n = Len(t)
  BY <1>1, <1>2, <1>3
<1>7. ASSUME NEW i \in 1 .. Len(t) PROVE Suffix(w, n)[i] = t[i]
  <2>1. n + i \in 1 .. Len(s) + Len(t) /\ ~(n + i <= Len(s)) /\ (n + i) - Len(s) = i
    BY <1>1, <1>3
  <2>2. w[n + i] = t[i]
    BY <1>2, <1>3, <2>1
  <2> QED BY <1>5, <1>6, <2>2
<1>8. Suffix(w, n) = t
  BY <1>5, <1>6, <1>7, SeqEqual
<1> QED BY <1>3, <1>8

\* The first line owed has no line end in it.
LEMMA FirstLineIs ==
    ASSUME owed \in Seq(ShChar), owed # <<>>, owed[Len(owed)] = "NL"
    PROVE  FirstLine \in Seq(ShChar) /\ \A i \in 1 .. Len(FirstLine) : FirstLine[i] # "NL"
<1> DEFINE U == {n \in DOMAIN owed : owed[n] = "NL"}
           First1(n) == owed[n] = "NL" /\ \A k \in 1 .. n - 1 : owed[k] # "NL"
           c == CHOOSE n \in DOMAIN owed : First1(n)
<1>1. Len(owed) \in Nat \ {0} /\ DOMAIN owed = 1 .. Len(owed)
  BY EmptySeq, LenProperties
<1>2. U \in SUBSET Nat /\ Len(owed) \in U
  BY <1>1
<1>3. PICK m \in U : \A k \in U : m <= k
  <2> HIDE DEF U
  <2> QED BY <1>2, LeastNat
<1>4. m \in DOMAIN owed /\ First1(m)
  <2>1. ASSUME NEW k \in 1 .. m - 1 PROVE owed[k] # "NL"
    <3>1. k \in DOMAIN owed /\ ~(m <= k)
      BY <1>1, <1>3
    <3> QED BY <1>3, <3>1
  <2> QED BY <1>3, <2>1
<1>5. c \in DOMAIN owed /\ First1(c)
  BY <1>4
<1>6. FirstLine = Prefix(owed, c - 1)
  BY DEF FirstLine
<1> HIDE DEF c
<1>7. c - 1 \in Nat /\ c - 1 < Len(owed)
  BY <1>1, <1>5
<1>8. /\ FirstLine \in Seq(ShChar) /\ Len(FirstLine) = c - 1
      /\ \A i \in 1 .. Len(FirstLine) : FirstLine[i] = owed[i]
  BY <1>6, <1>7, PrefixIs
<1> QED BY <1>5, <1>8

-----------------------------------------------------------------------------
\* The inductive invariant: until the ring overflows the shell's buffer and the
\* ring hold what is owed, whose last byte ends a line; the buffer has room while
\* it is read into and is empty while a program runs.
ShOk ==
    /\ DOMAIN sh = {"at", "buf", "last", "child"} /\ sh.at \in {"read", "run", "wait", "gone"}
    /\ sh.buf \in Seq(ShChar) /\ input \in Seq(ShChar) /\ owed = sh.buf \o input
    /\ owed # <<>> => owed[Len(owed)] = "NL"
    /\ sh.at = "read" => Len(sh.buf) < LINE_MAX - 1
    /\ sh.at = "run" => sh.buf # <<>>
    /\ sh.at \in {"wait", "gone"} => sh.buf = <<>>
    /\ ran.whole => ran.argv = Prefix(Words(ran.line), MAX_ARGS - 1)
    /\ sh.at = "wait" => sh.child = ran.argv
ShInv == ~lost => ShOk

\* The bytes of the lines.
LEMMA ShFacts ==
    ASSUME ShOk
    PROVE  /\ owed \in Seq(ShChar) /\ Len(owed) = Len(sh.buf) + Len(input)
           /\ Len(sh.buf) \in Nat /\ Len(input) \in Nat /\ LINE_MAX \in Nat /\ LINE_MAX > 1
           /\ MAX_ARGS - 1 \in Nat
<1>1. sh.buf \in Seq(ShChar) /\ input \in Seq(ShChar) /\ owed = sh.buf \o input
  BY DEF ShOk
<1>2. sh.buf \o input \in Seq(ShChar) /\ Len(sh.buf \o input) = Len(sh.buf) + Len(input)
  BY <1>1, ConcatProperties
<1>3. Len(sh.buf) \in Nat /\ Len(input) \in Nat
  BY <1>1, LenProperties
<1>4. LINE_MAX \in Nat /\ LINE_MAX > 1 /\ MAX_ARGS - 1 \in Nat
  BY ShellAssumption
<1> QED BY <1>1, <1>2, <1>3, <1>4

\* A shell that starts.
LEMMA ShStarts ==
    ASSUME ShInit
    PROVE  ShOk
<1>1. sh.at = "read" /\ sh.buf = <<>> /\ DOMAIN sh = {"at", "buf", "last", "child"} /\ input = <<>> /\ owed = <<>>
  BY DEF ShInit, Prompt
<1>2. <<>> \in Seq(ShChar) /\ Len(<<>>) = 0 /\ <<>> \o <<>> = <<>>
  BY EmptySeq, ConcatEmptySeq
<1>3. 0 < LINE_MAX - 1 /\ MAX_ARGS - 1 \in Nat
  BY ShellAssumption
<1>4. ran.argv = <<>> /\ ran.line = <<>>
  BY DEF ShInit
<1>5. Prefix(Words(<<>>), MAX_ARGS - 1) = <<>>
  <2>1. PICK e \in Seq(ShChar) : e = <<>> /\ Len(e) = 0
    BY <1>2
  <2>2. 1 \in 1 .. Len(e) + 2 /\ ~(1 <= Len(e))
    BY <2>1
  <2>3. WordsFrom(e, 1) = <<>>
    BY <2>2, WordsNone
  <2>4. Words(e) = <<>>
    BY <2>3, WordsAreAll
  <2> QED BY <1>3, <2>1, <2>4, PrefixOfNone
<1> QED BY <1>1, <1>2, <1>3, <1>4, <1>5 DEF ShOk

\* A line is typed, and the ring has room for it.
LEMMA ShTyped ==
    ASSUME ShOk, NEW txt \in Line, TypeLine(txt), ~lost'
    PROVE  ShOk'
<1> DEFINE L == Append(txt, "NL")
           all == input \o L
<1>1. txt \in Seq(ShChar) /\ "NL" \in ShChar
  <2>1. txt \in Seq(STRING)
    BY ShellAssumption
  <2>2. STRING \subseteq ShChar /\ "NL" \in ShChar
    BY DEF ShChar
  <2> QED BY <2>1, <2>2, SeqMonotonic
<1>2. L \in Seq(ShChar) /\ Len(L) = Len(txt) + 1 /\ L[Len(txt) + 1] = "NL" /\ Len(txt) \in Nat
  BY <1>1, AppendProperties, LenProperties
<1>3. sh.buf \in Seq(ShChar) /\ input \in Seq(ShChar) /\ owed = sh.buf \o input /\ owed \in Seq(ShChar) /\ Len(owed) \in Nat
  BY ShFacts DEF ShOk
<1> HIDE DEF L
<1>4. all \in Seq(ShChar) /\ Len(all) \in Nat
  BY <1>2, <1>3, ConcatProperties, LenProperties
<1>5. /\ input' = Suffix(all, IF Len(all) > STDIN_SIZE THEN Len(all) - STDIN_SIZE ELSE 0)
      /\ lost' = (lost \/ Len(all) > STDIN_SIZE) /\ owed' = owed \o L /\ sh' = sh /\ ran' = ran
  BY DEF TypeLine, L
<1>6. ~(Len(all) > STDIN_SIZE)
  BY <1>5
<1> HIDE DEF all
<1>7. input' = all
  <2>1. input' = Suffix(all, 0)
    BY <1>5, <1>6
  <2>2. Suffix(all, 0) = SubSeq(all, 1, Len(all))
    BY DEF Suffix
  <2> QED BY <1>4, <2>1, <2>2, SubSeqFull
<1>8. owed' = sh.buf \o all
  <2>1. PICK b \in Seq(ShChar), r \in Seq(ShChar), l \in Seq(ShChar) : b = sh.buf /\ r = input /\ l = L
    BY <1>2, <1>3
  <2>2. (b \o r) \o l = b \o (r \o l)
    BY ConcatAssociative
  <2> QED BY <1>3, <1>5, <2>1, <2>2 DEF all
<1>9. owed' # <<>> /\ owed'[Len(owed')] = "NL"
  <2>1. PICK w \in Seq(ShChar) : w = owed
    BY <1>3
  <2>2. w \o L \in Seq(ShChar) /\ Len(w \o L) = Len(w) + Len(L)
        /\ \A i \in 1 .. Len(w) + Len(L) : (w \o L)[i] = IF i <= Len(w) THEN w[i] ELSE L[i - Len(w)]
    BY <1>2, <2>1, ConcatProperties
  <2>3. Len(w) \in Nat
    BY LenProperties
  <2>4. Len(w) + Len(L) \in 1 .. Len(w) + Len(L) /\ ~(Len(w) + Len(L) <= Len(w)) /\ (Len(w) + Len(L)) - Len(w) = Len(txt) + 1
    BY <1>2, <2>3
  <2>5. (w \o L)[Len(w \o L)] = "NL" /\ Len(w \o L) # 0
    BY <1>2, <2>2, <2>4
  <2>6. w \o L # <<>>
    BY <2>5, EmptySeq
  <2> QED BY <1>5, <2>1, <2>5, <2>6
<1> QED BY <1>4, <1>5, <1>7, <1>8, <1>9 DEF ShOk

\* A read takes the next bytes, and no more than the buffer has room for.
LEMMA ShReads ==
    ASSUME ShOk, read_line
    PROVE  ShOk'
<1>1. /\ owed \in Seq(ShChar) /\ Len(sh.buf) \in Nat /\ Len(input) \in Nat /\ LINE_MAX \in Nat /\ LINE_MAX > 1
  BY ShFacts
<1> DEFINE room == LINE_MAX - 1 - Len(sh.buf)
           n == IF room < Len(input) THEN room ELSE Len(input)
           P == SubSeq(input, 1, n)
           buf == sh.buf \o P
<1>2. /\ sh.at = "read" /\ input # <<>> /\ input' = Suffix(input, n)
      /\ sh' = [sh EXCEPT !.buf = buf, !.at = IF LineComplete(buf) THEN "run" ELSE "read"]
      /\ owed' = owed /\ lost' = lost /\ ran' = ran
  BY DEF read_line, Prefix
<1>3. sh.buf \in Seq(ShChar) /\ input \in Seq(ShChar) /\ owed = sh.buf \o input /\ Len(sh.buf) < LINE_MAX - 1
  BY <1>2 DEF ShOk
<1>4. room \in Nat /\ n \in 0 .. Len(input) /\ n <= room
  <2>1. room \in Nat
    BY <1>1, <1>3
  <2> HIDE DEF room
  <2> QED BY <1>1, <2>1
<1> HIDE DEF n
<1>5. /\ Suffix(input, n) \in Seq(ShChar) /\ P \in Seq(ShChar) /\ Len(P) = n /\ P \o Suffix(input, n) = input
  BY <1>3, <1>4, SuffixIs
<1> HIDE DEF P
<1>6. buf \in Seq(ShChar) /\ Len(buf) = Len(sh.buf) + n
  BY <1>3, <1>5, ConcatProperties
<1>7. owed = buf \o Suffix(input, n)
  <2>1. PICK b \in Seq(ShChar), u \in Seq(ShChar) : b = sh.buf /\ u = Suffix(input, n)
    BY <1>3, <1>5
  <2>2. (b \o P) \o u = b \o (P \o u)
    BY <1>5, ConcatAssociative
  <2> QED BY <1>3, <1>5, <2>1, <2>2
<1> HIDE DEF buf
<1>8. Len(buf) <= LINE_MAX - 1
  BY <1>1, <1>4, <1>6
<1>9. /\ sh'.buf = buf /\ sh'.at = (IF LineComplete(buf) THEN "run" ELSE "read")
      /\ DOMAIN sh' = {"at", "buf", "last", "child"}
  BY <1>2 DEF ShOk
<1>10. LineComplete(buf) => buf # <<>>
  BY DEF LineComplete
<1>11. ~LineComplete(buf) => Len(buf) < LINE_MAX - 1
  <2>1. buf = <<>> => Len(buf) = 0
    BY EmptySeq
  <2> QED BY <1>1, <1>6, <1>8, <2>1 DEF LineComplete
<1> QED BY <1>2, <1>5, <1>6, <1>7, <1>9, <1>10, <1>11 DEF ShOk

\* A command is run: its line is no longer owed, and if it was read whole its
\* words are those of the line.
LEMMA ShRuns ==
    ASSUME ShOk, NEW argv, argv = tokenize(Stripped(sh.buf)), NEW next, Runs(argv, next),
           DOMAIN next = {"at", "buf", "last", "child"}, next.buf = <<>>,
           next.at \in {"read", "wait", "gone"}, next.at = "wait" => next.child = argv
    PROVE  ShOk'
<1>1. /\ owed \in Seq(ShChar) /\ Len(owed) = Len(sh.buf) + Len(input) /\ Len(sh.buf) \in Nat /\ Len(input) \in Nat
      /\ LINE_MAX \in Nat /\ LINE_MAX > 1
  BY ShFacts
<1>2. /\ sh.at = "run" /\ sh' = next /\ owed' = Suffix(owed, Len(sh.buf)) /\ input' = input /\ lost' = lost
      /\ ran' = [argv |-> argv, line |-> FirstLine, whole |-> Append(FirstLine, "NL") = sh.buf]
  BY DEF Runs
<1>3. sh.buf \in Seq(ShChar) /\ input \in Seq(ShChar) /\ owed = sh.buf \o input /\ sh.buf # <<>>
  BY <1>2 DEF ShOk
<1>4. owed' = input
  BY <1>2, <1>3, SuffixOfConcat
<1>5. owed # <<>> /\ owed[Len(owed)] = "NL"
  <2>1. Len(sh.buf) # 0
    BY <1>3, EmptySeq
  <2>2. Len(owed) # 0
    BY <1>1, <2>1
  <2>3. owed # <<>>
    BY <2>2, EmptySeq
  <2> QED BY <2>3 DEF ShOk
<1>6. FirstLine \in Seq(ShChar) /\ \A i \in 1 .. Len(FirstLine) : FirstLine[i] # "NL"
  BY <1>1, <1>5, FirstLineIs
<1>7. ASSUME Append(FirstLine, "NL") = sh.buf PROVE argv = Prefix(Words(FirstLine), MAX_ARGS - 1)
  <2>1. Stripped(sh.buf) = FirstLine
    BY <1>6, <1>7, StrippedLine
  <2> QED BY <1>6, <2>1, TokenizeFindsWords
<1>8. ran'.whole => ran'.argv = Prefix(Words(ran'.line), MAX_ARGS - 1)
  <2>1. ran'.whole = (Append(FirstLine, "NL") = sh.buf) /\ ran'.argv = argv /\ ran'.line = FirstLine
    BY <1>2
  <2> QED BY <1>7, <2>1
<1>9. ran'.argv = argv
  BY <1>2
<1>10. owed' # <<>> => owed'[Len(owed')] = "NL"
  <2> SUFFICES ASSUME input # <<>> PROVE input[Len(input)] = "NL"
    BY <1>4
  <2>1. Len(input) # 0
    BY <1>3, EmptySeq
  <2>2. \A i \in 1 .. Len(sh.buf) + Len(input) : (sh.buf \o input)[i] = IF i <= Len(sh.buf) THEN sh.buf[i] ELSE input[i - Len(sh.buf)]
    BY <1>3, ConcatProperties
  <2>3. PICK k \in Nat : k = Len(sh.buf) + Len(input)
    BY <1>1
  <2>4. k \in 1 .. Len(sh.buf) + Len(input) /\ ~(k <= Len(sh.buf)) /\ k - Len(sh.buf) = Len(input)
    BY <1>1, <2>1, <2>3
  <2>5. owed[k] = input[Len(input)]
    BY <1>3, <2>2, <2>4
  <2> QED BY <1>1, <1>5, <2>3, <2>5
<1>11. <<>> \in Seq(ShChar) /\ Len(<<>>) = 0 /\ <<>> \o input = input
  BY <1>3, EmptySeq, ConcatEmptySeq
<1>12. 0 < LINE_MAX - 1
  BY <1>1
<1> QED BY <1>2, <1>3, <1>4, <1>8, <1>9, <1>10, <1>11, <1>12 DEF ShOk

\* The commands of the shell.
LEMMA ShCommands ==
    ASSUME ShOk, RunEmpty \/ RunExit \/ RunFiles \/ RunOther \/ RunUnknown \/ sys_spawn
    PROVE  ShOk'
<1> DEFINE argv == tokenize(Stripped(sh.buf))
<1>1. DOMAIN sh = {"at", "buf", "last", "child"}
  BY DEF ShOk
<1>2. ASSUME NEW last, Runs(argv, Prompt(last)) PROVE ShOk'
  <2>1. PICK v : v = argv
    OBVIOUS
  <2> HIDE DEF argv
  <2>2. DOMAIN Prompt(last) = {"at", "buf", "last", "child"} /\ Prompt(last).buf = <<>> /\ Prompt(last).at = "read"
    BY DEF Prompt
  <2>3. Runs(v, Prompt(last)) /\ v = tokenize(Stripped(sh.buf))
    BY <1>2, <2>1 DEF argv
  <2> QED BY <2>2, <2>3, ShRuns
<1>3. CASE RunEmpty
  <2>1. argv = <<>> /\ Runs(argv, Prompt(sh.last))
    BY <1>3 DEF RunEmpty
  <2> QED BY <1>2, <2>1
<1>4. CASE RunExit
  <2> DEFINE next == [sh EXCEPT !.at = "gone", !.buf = <<>>]
  <2>1. Runs(argv, next)
    BY <1>4 DEF RunExit
  <2>2. DOMAIN next = {"at", "buf", "last", "child"} /\ next.buf = <<>> /\ next.at = "gone"
    BY <1>1
  <2>3. PICK v : v = tokenize(Stripped(sh.buf)) /\ Runs(v, next)
    BY <2>1
  <2> HIDE DEF next, argv
  <2> QED BY <2>2, <2>3, ShRuns
<1>5. CASE RunFiles
  <2>1. \E last \in FileStatus(Builtin(argv), argv) : Runs(argv, Prompt(last))
    BY <1>5 DEF RunFiles
  <2> HIDE DEF argv
  <2> QED BY <1>2, <2>1
<1>6. CASE RunOther
  <2>1. Runs(argv, Prompt(IF Builtin(argv) = "pwd" THEN 0 ELSE sh.last))
    BY <1>6 DEF RunOther
  <2> HIDE DEF argv
  <2> QED BY <1>2, <2>1
<1>7. CASE RunUnknown
  <2>1. Runs(argv, Prompt(127))
    BY <1>7 DEF RunUnknown
  <2> HIDE DEF argv
  <2> QED BY <1>2, <2>1
<1>8. CASE sys_spawn
  <2>1. PICK v : v = tokenize(Stripped(sh.buf))
    OBVIOUS
  <2> DEFINE next == [sh EXCEPT !.at = "wait", !.buf = <<>>, !.child = Copied(v).argv]
  <2>2. Runs(v, next)
    BY <1>8, <2>1 DEF sys_spawn
  <2>3. Copied(v).argv = v
    BY DEF Copied
  <2>4. DOMAIN next = {"at", "buf", "last", "child"} /\ next.buf = <<>> /\ next.at = "wait" /\ next.child = v
    BY <1>1, <2>3
  <2> HIDE DEF next, argv
  <2> QED BY <2>1, <2>2, <2>4, ShRuns
<1> QED BY <1>3, <1>4, <1>5, <1>6, <1>7, <1>8

\* The child reads, the shell waits for it and init starts another shell.
LEMMA ShOthers ==
    ASSUME ShOk, ChildReads \/ sys_waitpid \/ Respawn
    PROVE  ShOk'
<1>1. /\ owed \in Seq(ShChar) /\ Len(owed) = Len(sh.buf) + Len(input) /\ Len(sh.buf) \in Nat /\ Len(input) \in Nat
      /\ LINE_MAX \in Nat /\ LINE_MAX > 1
  BY ShFacts
<1>2. /\ sh.at \in {"wait", "gone"} /\ sh.buf = <<>> /\ input \in Seq(ShChar) /\ owed = sh.buf \o input
  BY DEF ChildReads, sys_waitpid, Respawn, ShOk
<1>3. owed = input
  BY <1>2, ConcatEmptySeq
<1>4. <<>> \in Seq(ShChar) /\ Len(<<>>) = 0
  BY EmptySeq
<1>5. CASE ChildReads
  <2>1. PICK n \in 1 .. Len(input) : input' = Suffix(input, n) /\ owed' = Suffix(input, n)
    BY <1>3, <1>5 DEF ChildReads
  <2>2. sh' = sh /\ ran' = ran
    BY <1>5 DEF ChildReads
  <2>3. n \in 0 .. Len(input)
    BY <1>1
  <2>4. /\ Suffix(input, n) \in Seq(ShChar) /\ Len(Suffix(input, n)) = Len(input) - n
        /\ \A i \in 1 .. Len(input) - n : Suffix(input, n)[i] = input[n + i]
    BY <1>2, <2>3, SuffixIs
  <2>5. PICK u \in Seq(ShChar) : u = Suffix(input, n)
    BY <2>4
  <2>6. u # <<>> => u[Len(u)] = "NL"
    <3> SUFFICES ASSUME u # <<>> PROVE u[Len(u)] = "NL"
      OBVIOUS
    <3>1. Len(u) \in Nat \ {0}
      BY EmptySeq
    <3>2. Len(u) \in 1 .. Len(input) - n /\ n + Len(u) = Len(input)
      BY <1>1, <2>4, <2>5, <3>1
    <3>3. u[Len(u)] = input[Len(input)]
      BY <2>4, <2>5, <3>2
    <3>4. owed # <<>>
      BY <1>1, <1>2, <1>3, <1>4, <3>1, <3>2
    <3> QED BY <1>3, <3>3, <3>4 DEF ShOk
  <2>7. <<>> \o u = u
    BY ConcatEmptySeq
  <2> QED BY <1>2, <1>4, <2>1, <2>2, <2>5, <2>6, <2>7 DEF ShOk
<1>6. CASE sys_waitpid \/ Respawn
  <2>1. PICK st : sh' = Prompt(st)
    BY <1>6 DEF sys_waitpid, Respawn
  <2>2. input' = input /\ owed' = owed /\ ran' = ran
    BY <1>6 DEF sys_waitpid, Respawn
  <2>3. DOMAIN sh' = {"at", "buf", "last", "child"} /\ sh'.buf = <<>> /\ sh'.at = "read"
    BY <2>1 DEF Prompt
  <2>4. 0 < LINE_MAX - 1
    BY <1>1
  <2> QED BY <1>2, <1>4, <2>2, <2>3, <2>4 DEF ShOk
<1> QED BY <1>5, <1>6

\* Every step keeps the invariant.
LEMMA ShInductive ==
    ASSUME ShInv, [ShNext]_shVars
    PROVE  ShInv'
<1> SUFFICES ASSUME ~lost' PROVE ShOk'
  BY DEF ShInv
<1>1. ~lost
  BY DEF ShNext, TypeLine, read_line, RunEmpty, RunExit, RunFiles, RunOther, RunUnknown, sys_spawn, Runs,
         ChildReads, sys_waitpid, Respawn, shVars
<1>2. ShOk
  BY <1>1 DEF ShInv
<1>3. ASSUME NEW txt \in Line, TypeLine(txt) PROVE ShOk'
  BY <1>2, <1>3, ShTyped
<1>4. CASE read_line
  BY <1>2, <1>4, ShReads
<1>5. CASE RunEmpty \/ RunExit \/ RunFiles \/ RunOther \/ RunUnknown \/ sys_spawn
  BY <1>2, <1>5, ShCommands
<1>6. CASE ChildReads \/ sys_waitpid \/ Respawn
  BY <1>2, <1>6, ShOthers
<1>7. CASE UNCHANGED shVars
  BY <1>2, <1>7 DEF ShOk, shVars
<1> QED BY <1>3, <1>4, <1>5, <1>6, <1>7 DEF ShNext

\* What is typed is what is run, for lines of any length and any cut of the reads:
\* no byte is lost or run twice, and argv is the words of the line (sh.c
\* read_line, tokenize, main; syscall.c sys_spawn).
THEOREM ShellRunsWhatIsTyped == ShSpec => []CommandIsLine
<1>1. ShInit => ShInv
  BY ShStarts DEF ShInv
<1>2. ShInv /\ [ShNext]_shVars => ShInv'
  BY ShInductive
<1>3. ShInv => CommandIsLine
  BY DEF ShInv, ShOk, CommandIsLine
<1> QED BY <1>1, <1>2, <1>3, PTL DEF ShSpec
=============================================================================
