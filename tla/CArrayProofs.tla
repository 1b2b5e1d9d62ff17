---------------------------- MODULE CArrayProofs ----------------------------
(***************************************************************************)
(* Whatever is done with an array, in place or in another backing array,   *)
(* is done to a sequence, and the slices its callers may keep stay as they *)
(* are.                                                                    *)
(***************************************************************************)
EXTENDS MCContainers, QueueProofs, WellFoundedInduction

-----------------------------------------------------------------------------
(***************************************************************************)
(* Numbers.                                                                *)
(***************************************************************************)
LEMMA SmallestOf ==
  ASSUME NEW T \in SUBSET Nat, T # {}
  PROVE  \E n \in T : \A k \in T : n <= k
<1>1. PICK n \in T : \A k \in T : ~(<<k, n>> \in OpToRel(<, Nat))
  BY WFMin, NatLessThanWellFounded
<1>2. ASSUME NEW k \in T PROVE ~(k < n)
  <2>1. ~(<<k, n>> \in OpToRel(<, Nat))
    BY <1>1
  <2>2. <<k, n>> \in Nat \X Nat
    OBVIOUS
  <2> QED BY <2>1, <2>2 DEF OpToRel
<1> QED
  BY <1>2

LEMMA LeastIs ==
  ASSUME NEW T \in SUBSET Nat, T # {}
  PROVE  Min(T) \in T /\ \A n \in T : Min(T) <= n
<1>1. \E n \in T : \A k \in T : n <= k
  BY SmallestOf
<1> QED
  BY <1>1 DEF Min

-----------------------------------------------------------------------------
(***************************************************************************)
(* Slices and the memory under them.                                       *)
(***************************************************************************)
Cells == Vals \cup {Junk}

Fits(h, w) == w \in Windows /\ w.off + w.len <= Len(h.mem[w.buf])

\* Every cell that w shows holds an item.
Shows(h, w) == \A n \in 1..w.len : h.mem[w.buf][w.off + n] \in Vals

Behind(w, v) == w.buf = v.buf => v.off + v.len <= w.off

KeptInv(h) ==
  h.kept.firm => /\ Fits(h, h.kept.win) /\ Shows(h, h.kept.win)
                 /\ items(h, h.kept.win) = h.kept.was
                 /\ Behind(h.arr, h.kept.win)

\* What is true of the heap before and after every step of an operation: the slice that
\* a caller may keep lies before the array, where no append can reach it.
Sound(h) == h \in Heaps /\ Fits(h, h.arr) /\ Shows(h, h.arr) /\ KeptInv(h)

LEMMA WindowFields ==
  ASSUME NEW w \in Windows
  PROVE  /\ w.buf \in Bufs /\ w.off \in Nat /\ w.len \in Nat
         /\ w = [buf |-> w.buf, off |-> w.off, len |-> w.len]
BY DEF Windows

LEMMA HeapFields ==
  ASSUME NEW h \in Heaps
  PROVE  /\ h.mem \in [Bufs -> Seq(Cells)] /\ h.arr \in Windows
         /\ h.kept.win \in Windows /\ h.kept.was \in Seq(Vals) /\ h.kept.firm \in BOOLEAN
         /\ h.kept = [win |-> h.kept.win, was |-> h.kept.was, firm |-> h.kept.firm]
         /\ h = [mem |-> h.mem, arr |-> h.arr, kept |-> h.kept]
BY DEF Heaps, Cells

Heap(m, a, k) == [mem |-> m, arr |-> a, kept |-> k]

LEMMA HeapIs ==
  ASSUME NEW m, NEW a, NEW k
  PROVE  Heap(m, a, k).mem = m /\ Heap(m, a, k).arr = a /\ Heap(m, a, k).kept = k
BY DEF Heap

LEMMA HeapWithCells ==
  ASSUME NEW m, NEW a, NEW k, NEW b, NEW d
  PROVE  [Heap(m, a, k) EXCEPT !.mem[b] = d] = Heap([m EXCEPT ![b] = d], a, k)
BY DEF Heap

LEMMA HeapWithLength ==
  ASSUME NEW m, NEW a, NEW k, NEW n
  PROVE  [Heap(m, a, k) EXCEPT !.arr.len = n] = Heap(m, [a EXCEPT !.len = n], k)
BY DEF Heap

LEMMA HeapOf == ASSUME NEW h \in Heaps PROVE h = Heap(h.mem, h.arr, h.kept)
BY HeapFields DEF Heap

LEMMA TypedHeap ==
  ASSUME NEW h \in Heaps, NEW g, NEW m, NEW a \in Windows, g = Heap(m, a, h.kept),
         DOMAIN m = Bufs, m = [b \in Bufs |-> m[b]], \A b \in Bufs : m[b] \in Seq(Cells)
  PROVE  g \in Heaps
<1>1. m \in [Bufs -> Seq(Cells)]
  OBVIOUS
<1>2. h.kept \in [win : Windows, was : Seq(Vals), firm : BOOLEAN]
  BY DEF Heaps
<1> QED
  BY <1>1, <1>2 DEF Heaps, Heap, Cells

LEMMA BufferIs ==
  ASSUME NEW h \in Heaps, NEW b \in Bufs
  PROVE  h.mem[b] \in Seq(Cells) /\ Len(h.mem[b]) \in Nat /\ DOMAIN h.mem[b] = 1..Len(h.mem[b])
<1>1. h.mem[b] \in Seq(Cells)
  BY HeapFields
<1> QED
  BY <1>1, LenProperties

LEMMA SeqOfItems ==
  ASSUME NEW q, NEW n \in Nat, NEW S, q = [i \in 1..n |-> q[i]], \A i \in 1..n : q[i] \in S
  PROVE  q \in Seq(S) /\ Len(q) = n
<1>1. q \in [1..n -> S]
  OBVIOUS
<1> QED
  BY <1>1, IsASeq

LEMMA CellsFrom ==
  ASSUME NEW c, NEW o, NEW m, c \in Seq(Cells), o \in Nat, m \in Nat
  PROVE  SubSeq(c, o + 1, o + m) = [i \in 1..m |-> c[o + i]]
<1>1. o + 1 \in Int /\ o + m \in Int
  OBVIOUS
<1> DEFINE a == o + 1
           b == o + m
<1>2. b - a + 1 = m /\ \A i \in 1..m : a + i - 1 = o + i
  OBVIOUS
<1>3. a \in Int /\ b \in Int
  BY <1>1
<1> HIDE DEF a, b
<1>4. SubSeq(c, a, b) = [i \in 1..(b - a + 1) |-> c[a + i - 1]]
  BY <1>3
<1>5. SubSeq(c, a, b) = [i \in 1..m |-> c[o + i]]
  BY <1>2, <1>4
<1> QED
  BY <1>5 DEF a, b

LEMMA ItemsAre ==
  ASSUME NEW h \in Heaps, NEW w, Fits(h, w)
  PROVE  /\ items(h, w) = [i \in 1..w.len |-> h.mem[w.buf][w.off + i]]
         /\ Len(items(h, w)) = w.len
         /\ items(h, w) \in Seq(Cells)
         /\ Shows(h, w) <=> items(h, w) \in Seq(Vals)
<1> DEFINE q == items(h, w)
<1>1. /\ w.buf \in Bufs /\ w.off \in Nat /\ w.len \in Nat /\ h.mem[w.buf] \in Seq(Cells)
      /\ Len(h.mem[w.buf]) \in Nat
      /\ w.off + w.len <= Len(h.mem[w.buf])
  <2>1. w \in Windows /\ w.off + w.len <= Len(h.mem[w.buf])
    BY DEF Fits
  <2>2. w.buf \in Bufs /\ w.off \in Nat /\ w.len \in Nat
    BY <2>1, WindowFields
  <2> QED BY <2>1, <2>2, BufferIs
<1>2. q = [i \in 1..w.len |-> h.mem[w.buf][w.off + i]]
  <2> DEFINE c == h.mem[w.buf]
             o == w.off
             m == w.len
  <2>1. c \in Seq(Cells) /\ o \in Nat /\ m \in Nat
    BY <1>1
  <2>2. q = SubSeq(c, o + 1, o + m)
    BY DEF items
  <2> HIDE DEF c, o, m, q
  <2>3. SubSeq(c, o + 1, o + m) = [i \in 1..m |-> c[o + i]]
    BY <2>1, CellsFrom
  <2> QED BY <2>2, <2>3 DEF c, o, m
<1>3. \A i \in 1..w.len : h.mem[w.buf][w.off + i] \in Cells
  <2> SUFFICES ASSUME NEW i \in 1..w.len PROVE h.mem[w.buf][w.off + i] \in Cells
    OBVIOUS
  <2>1. w.off + i \in 1..Len(h.mem[w.buf])
    BY <1>1
  <2> QED BY <1>1, <2>1, ElementOfSeq
<1> HIDE DEF q
<1>4. q = [i \in 1..w.len |-> q[i]] /\ \A i \in 1..w.len : q[i] = h.mem[w.buf][w.off + i]
  BY <1>2
<1>5. q \in Seq(Cells) /\ Len(q) = w.len
  <2>1. w.len \in Nat /\ \A i \in 1..w.len : q[i] \in Cells
    BY <1>1, <1>3, <1>4
  <2> QED BY <1>4, <2>1, SeqOfItems
<1>6. ASSUME Shows(h, w) PROVE q \in Seq(Vals)
  BY <1>1, <1>4, <1>6, SeqOfItems DEF Shows
<1>7. ASSUME q \in Seq(Vals) PROVE Shows(h, w)
  BY <1>4, <1>5, <1>7, ElementOfSeq DEF Shows
<1> QED
  BY <1>2, <1>5, <1>6, <1>7 DEF q

LEMMA SameItems ==
  ASSUME NEW h \in Heaps, NEW g \in Heaps, NEW v, Fits(h, v), Fits(g, v), Shows(h, v),
         \A n \in 1..v.len : g.mem[v.buf][v.off + n] = h.mem[v.buf][v.off + n]
  PROVE  items(g, v) = items(h, v) /\ Shows(g, v)
<1>1. items(g, v) = [n \in 1..v.len |-> g.mem[v.buf][v.off + n]]
  BY ItemsAre
<1>2. items(h, v) = [n \in 1..v.len |-> h.mem[v.buf][v.off + n]]
  BY ItemsAre
<1> QED
  BY <1>1, <1>2 DEF Shows

-----------------------------------------------------------------------------
(***************************************************************************)
(* The four things an operation does: it writes into its slice or behind   *)
(* it, cuts the slice, moves to another backing array, or gives a slice    *)
(* away.                                                                   *)
(***************************************************************************)
\* The items of q from the i-th on replaced with r, the result being m items long.
Overlaid(q, i, r, m) == [n \in 1..m |-> IF n - i \in 1..Len(r) THEN r[n - i] ELSE q[n]]

\* The heap with r written into the slice from i on, and m items in the slice.
Written(h, i, r, m) == [put(h, h.arr, i, r) EXCEPT !.arr.len = m]

\* It leaves no gap, and the buffer has the cells.
Writable(h, i, r, m) ==
  /\ i \in Nat /\ r \in Seq(Vals) /\ m \in Nat
  /\ i <= h.arr.len /\ (m <= h.arr.len \/ m <= i + Len(r))
  /\ h.arr.off + i + Len(r) <= Len(h.mem[h.arr.buf])

CellsWith(c, at, r) == [n \in DOMAIN c |-> IF n - at \in 1..Len(r) THEN r[n - at] ELSE c[n]]

LEMMA WrittenHeap ==
  ASSUME NEW h \in Heaps, NEW i, NEW r, NEW m
  PROVE  /\ Written(h, i, r, m) =
              Heap([h.mem EXCEPT ![h.arr.buf] = CellsWith(h.mem[h.arr.buf], h.arr.off + i, r)],
                   [h.arr EXCEPT !.len = m], h.kept)
         /\ put(h, h.arr, i, r) = Written(h, i, r, h.arr.len)
<1> DEFINE w == h.arr
           d == CellsWith(h.mem[w.buf], w.off + i, r)
           e == [h.mem EXCEPT ![w.buf] = d]
<1>1. put(h, w, i, r) = [h EXCEPT !.mem[w.buf] = d]
  BY DEF put, CellsWith
<1> HIDE DEF d
<1>2. h = Heap(h.mem, w, h.kept)
  BY HeapOf
<1>3. [Heap(h.mem, w, h.kept) EXCEPT !.mem[w.buf] = d] = Heap(e, w, h.kept)
  BY DEF Heap
<1>4. put(h, w, i, r) = Heap(e, w, h.kept)
  BY <1>1, <1>2, <1>3
<1> HIDE DEF e
<1>5. [Heap(e, w, h.kept) EXCEPT !.arr.len = m] = Heap(e, [w EXCEPT !.len = m], h.kept)
  BY HeapWithLength, SMTT(30)
<1>6. Written(h, i, r, m) = [put(h, w, i, r) EXCEPT !.arr.len = m]
  BY DEF Written
<1>7. put(h, w, i, r) = Written(h, i, r, w.len)
  <2>1. w = [w EXCEPT !.len = w.len]
    <3>1. w \in Windows
      BY HeapFields
    <3> QED BY <3>1 DEF Windows
  <2>2. [Heap(e, w, h.kept) EXCEPT !.arr.len = w.len] = Heap(e, [w EXCEPT !.len = w.len], h.kept)
    BY HeapWithLength, SMTT(30)
  <2>3. Written(h, i, r, w.len) = [put(h, w, i, r) EXCEPT !.arr.len = w.len]
    BY DEF Written
  <2> QED BY <1>4, <2>1, <2>2, <2>3
<1> QED
  BY <1>4, <1>5, <1>6, <1>7 DEF d, e

LEMMA OverwriteIs ==
  ASSUME NEW h, NEW i, NEW q, NEW m, NEW g, Sound(h), Writable(h, i, q, m), g = Written(h, i, q, m)
  PROVE  /\ Sound(g) /\ g.kept = h.kept
         /\ g.arr = [h.arr EXCEPT !.len = m]
         /\ \A b \in Bufs : Len(g.mem[b]) = Len(h.mem[b])
         /\ array(g) = Overlaid(array(h), i, q, m)
<1> DEFINE w == h.arr
           c == h.mem[w.buf]
           d == CellsWith(c, w.off + i, q)
<1>0. /\ i \in Nat /\ q \in Seq(Vals) /\ Len(q) \in Nat /\ m \in Nat
      /\ i <= w.len /\ (m <= w.len \/ m <= i + Len(q)) /\ w.off + i + Len(q) <= Len(c)
  BY LenProperties DEF Writable
<1>1. h \in Heaps /\ Fits(h, w) /\ Shows(h, w) /\ KeptInv(h) /\ w \in Windows /\ w.buf \in Bufs
  <2>1. h \in Heaps /\ Fits(h, w) /\ Shows(h, w) /\ KeptInv(h)
    BY DEF Sound
  <2> QED BY <2>1, WindowFields DEF Fits
<1>3. c \in Seq(Cells) /\ DOMAIN c = 1..Len(c)
  BY <1>1, BufferIs
<1>n. Len(c) \in Nat /\ w.off \in Nat /\ w.len \in Nat /\ w.off + w.len <= Len(c)
  <2>1. w.off + w.len <= Len(c)
    BY <1>1 DEF Fits
  <2> QED BY <1>1, <1>3, <2>1, WindowFields, LenProperties
<1>2. /\ g.kept = h.kept /\ g.mem = [h.mem EXCEPT ![w.buf] = d] /\ g.arr = [w EXCEPT !.len = m]
      /\ g = Heap(g.mem, g.arr, h.kept)
  <2>1. g = Heap([h.mem EXCEPT ![w.buf] = d], [w EXCEPT !.len = m], h.kept)
    BY <1>1, WrittenHeap
  <2> QED BY <2>1, HeapIs
<1>12. array(h) = [n \in 1..w.len |-> c[w.off + n]]
  <2>1. items(h, w) = [n \in 1..w.len |-> h.mem[w.buf][w.off + n]]
    BY <1>1, ItemsAre
  <2> QED BY <2>1 DEF array
<1>b. \A b \in Bufs : b = w.buf => h.mem[b] = c
  OBVIOUS
<1>d. d = CellsWith(c, w.off + i, q)
  OBVIOUS
<1> HIDE DEF w, c, d
<1>5. \A n \in 1..Len(c) : d[n] = IF n - (w.off + i) \in 1..Len(q) THEN q[n - (w.off + i)] ELSE c[n]
  BY <1>3, <1>d DEF CellsWith
<1>4. d \in Seq(Cells) /\ Len(d) = Len(c)
  <2>1. d = [n \in 1..Len(c) |-> d[n]]
    BY <1>3, <1>d DEF CellsWith
  <2>2. \A n \in 1..Len(c) : d[n] \in Cells
    <3> SUFFICES ASSUME NEW n \in 1..Len(c) PROVE d[n] \in Cells
      OBVIOUS
    <3>1. c[n] \in Cells
      BY <1>3, ElementOfSeq
    <3>2. n - (w.off + i) \in 1..Len(q) => q[n - (w.off + i)] \in Vals
      BY <1>0, ElementOfSeq
    <3> QED BY <1>5, <3>1, <3>2 DEF Cells
  <2> QED BY <1>n, <2>1, <2>2, SeqOfItems
<1>6. \A b \in Bufs : g.mem[b] = IF b = w.buf THEN d ELSE h.mem[b]
  <2>1. DOMAIN h.mem = Bufs
    BY <1>1, HeapFields
  <2> QED BY <1>1, <1>2, <2>1
<1>7. g.mem \in [Bufs -> Seq(Cells)] /\ \A b \in Bufs : Len(g.mem[b]) = Len(h.mem[b])
  <2>1. \A b \in Bufs : g.mem[b] \in Seq(Cells) /\ Len(g.mem[b]) = Len(h.mem[b])
    BY <1>1, <1>4, <1>6, <1>b, BufferIs
  <2>2. DOMAIN g.mem = Bufs /\ g.mem = [b \in Bufs |-> g.mem[b]]
    <3>1. DOMAIN h.mem = Bufs
      BY <1>1, HeapFields
    <3> QED BY <1>2, <3>1
  <2> QED BY <2>1, <2>2
<1>8. g.arr \in Windows /\ g.arr.buf = w.buf /\ g.arr.off = w.off /\ g.arr.len = m
  BY <1>0, <1>1, <1>2 DEF Windows
<1>9. g \in Heaps
  <2>1. g.mem = [b \in Bufs |-> g.mem[b]] /\ DOMAIN g.mem = Bufs /\ \A b \in Bufs : g.mem[b] \in Seq(Cells)
    BY <1>7
  <2> QED BY <1>1, <1>2, <1>8, <2>1, TypedHeap
<1>10. Fits(g, g.arr)
  <2>1. w.off + m <= Len(c)
    BY <1>0, <1>n, SMTT(30)
  <2>2. Len(g.mem[w.buf]) = Len(c)
    BY <1>1, <1>7, <1>b
  <2> QED BY <1>8, <2>1, <2>2 DEF Fits
<1>11. \A n \in 1..m : g.mem[w.buf][w.off + n] = IF n - i \in 1..Len(q) THEN q[n - i] ELSE c[w.off + n]
  <2> SUFFICES ASSUME NEW n \in 1..m
               PROVE  g.mem[w.buf][w.off + n] = IF n - i \in 1..Len(q) THEN q[n - i] ELSE c[w.off + n]
    OBVIOUS
  <2>1. w.off + n \in 1..Len(c) /\ (w.off + n) - (w.off + i) = n - i
    BY <1>0, <1>n, SMTT(30)
  <2> QED BY <1>1, <1>5, <1>6, <2>1
<1>13. array(g) = [n \in 1..m |-> g.mem[w.buf][w.off + n]]
  <2>1. items(g, g.arr) = [n \in 1..g.arr.len |-> g.mem[g.arr.buf][g.arr.off + n]]
    BY <1>9, <1>10, ItemsAre
  <2> QED BY <1>8, <2>1 DEF array
<1>14. array(g) = Overlaid(array(h), i, q, m)
  <2>1. \A n \in 1..m : ~(n - i \in 1..Len(q)) => n \in 1..w.len
    BY <1>0, <1>n
  <2> QED BY <1>11, <1>12, <1>13, <2>1 DEF Overlaid
<1>15. Shows(g, g.arr)
  <2> SUFFICES ASSUME NEW n \in 1..m PROVE g.mem[w.buf][w.off + n] \in Vals
    BY <1>8 DEF Shows
  <2>1. CASE n - i \in 1..Len(q)
    BY <1>0, <1>11, <2>1, ElementOfSeq
  <2>2. CASE ~(n - i \in 1..Len(q))
    <3>1. n \in 1..w.len
      BY <1>0, <1>n, <2>2
    <3> QED BY <1>1, <1>11, <1>b, <2>2, <3>1 DEF Shows
  <2> QED BY <2>1, <2>2
<1>16. KeptInv(g)
  <2> SUFFICES ASSUME h.kept.firm PROVE KeptInv(g)
    BY <1>2 DEF KeptInv
  <2> DEFINE v == h.kept.win
  <2>1. /\ Fits(h, v) /\ Shows(h, v) /\ items(h, v) = h.kept.was /\ Behind(w, v)
        /\ v.buf \in Bufs /\ v.off \in Nat /\ v.len \in Nat
        /\ (v.buf = w.buf => v.off + v.len <= w.off /\ v.off + v.len <= Len(c))
    <3>1. Fits(h, v) /\ Shows(h, v) /\ items(h, v) = h.kept.was /\ Behind(w, v)
      BY <1>1 DEF KeptInv, w
    <3>2. v.buf \in Bufs /\ v.off \in Nat /\ v.len \in Nat
      BY <3>1, WindowFields DEF Fits
    <3>3. v.buf = w.buf => v.off + v.len <= w.off /\ v.off + v.len <= Len(c)
      BY <1>1, <1>b, <3>1 DEF Fits, Behind
    <3> HIDE DEF v
    <3> QED BY <3>1, <3>2, <3>3
  <2> HIDE DEF v
  <2>2. \A n \in 1..v.len : g.mem[v.buf][v.off + n] = h.mem[v.buf][v.off + n]
    <3> SUFFICES ASSUME NEW n \in 1..v.len PROVE g.mem[v.buf][v.off + n] = h.mem[v.buf][v.off + n]
      OBVIOUS
    <3>1. CASE v.buf # w.buf
      BY <1>6, <2>1, <3>1
    <3>2. CASE v.buf = w.buf
      <4>1. v.off + n \in 1..Len(c) /\ ~((v.off + n) - (w.off + i) \in 1..Len(q))
        <5>1. v.off + v.len <= w.off /\ v.off + v.len <= Len(c) /\ v.off \in Nat /\ v.len \in Nat
          BY <2>1, <3>2
        <5>2. v.off + n \in Nat /\ v.off + n >= 1 /\ v.off + n <= v.off + v.len
          BY <5>1
        <5>3. v.off + n <= w.off /\ v.off + n <= Len(c)
          BY <1>n, <5>1, <5>2
        <5>4. ~((v.off + n) - (w.off + i) \in 1..Len(q))
          BY <1>0, <1>n, <5>2, <5>3
        <5> QED BY <1>n, <5>2, <5>3, <5>4
      <4> QED BY <1>1, <1>5, <1>6, <1>b, <3>2, <4>1
    <3> QED BY <3>1, <3>2
  <2>3. Fits(g, v)
    BY <1>7, <2>1 DEF Fits
  <2>4. items(g, v) = items(h, v) /\ Shows(g, v)
    BY <1>1, <1>9, <2>1, <2>2, <2>3, SameItems
  <2>5. Behind(g.arr, v)
    BY <1>8, <2>1 DEF Behind
  <2> QED BY <1>2, <2>1, <2>3, <2>4, <2>5 DEF KeptInv, v
<1> QED
  BY <1>2, <1>7, <1>9, <1>10, <1>14, <1>15, <1>16 DEF Sound, w

\* w[i:j] of the array.
Sliced(h, i, j) == [h EXCEPT !.arr = part(h.arr, i, j)]

Slice(q, i, j) == SubSeq(q, i + 1, j)

LEMMA SlicedIs ==
  ASSUME NEW h, NEW i, NEW j, NEW g,
         Sound(h), i \in Nat, j \in Nat, i <= j, j <= h.arr.len, g = Sliced(h, i, j)
  PROVE  /\ Sound(g) /\ g.kept = h.kept /\ g.mem = h.mem
         /\ g.arr = part(h.arr, i, j)
         /\ array(g) = Slice(array(h), i, j)
<1> DEFINE w == h.arr
           x == part(w, i, j)
<1>1. h \in Heaps /\ Fits(h, w) /\ Shows(h, w) /\ KeptInv(h) /\ w \in Windows
  BY DEF Sound, Fits
<1>2. /\ w.buf \in Bufs /\ w.off \in Nat /\ w.len \in Nat
      /\ w = [buf |-> w.buf, off |-> w.off, len |-> w.len]
  BY <1>1, WindowFields
<1>3. x = [buf |-> w.buf, off |-> w.off + i, len |-> j - i]
  BY DEF part
<1>4. g = Heap(h.mem, x, h.kept)
  <2> HIDE DEF x
  <2>1. h = Heap(h.mem, w, h.kept)
    BY <1>1, HeapOf
  <2>2. [Heap(h.mem, w, h.kept) EXCEPT !.arr = x] = Heap(h.mem, x, h.kept)
    BY DEF Heap
  <2>3. g = [h EXCEPT !.arr = x]
    BY DEF Sliced, x
  <2> QED BY <2>1, <2>2, <2>3
<1>5. g.mem = h.mem /\ g.arr = x /\ g.kept = h.kept
  BY <1>4, HeapIs
<1>6. x \in Windows /\ x.buf = w.buf /\ x.off = w.off + i /\ x.len = j - i
  BY <1>2, <1>3 DEF Windows
<1>7. j <= w.len
  OBVIOUS
<1>8. array(h) = [n \in 1..w.len |-> h.mem[w.buf][w.off + n]] /\ array(h) \in Seq(Vals) /\ Len(array(h)) = w.len
  BY <1>1, ItemsAre DEF array
<1> HIDE DEF w, x
<1>9. g \in Heaps
  <2>1. h.mem = [b \in Bufs |-> h.mem[b]] /\ DOMAIN h.mem = Bufs /\ \A b \in Bufs : h.mem[b] \in Seq(Cells)
    BY <1>1, HeapFields
  <2> QED BY <1>1, <1>4, <1>6, <2>1, TypedHeap
<1>10. Fits(g, x)
  <2>1. Len(h.mem[w.buf]) \in Nat /\ w.off + w.len <= Len(h.mem[w.buf])
    BY <1>1, <1>2, BufferIs DEF Fits
  <2>2. x.off + x.len <= Len(h.mem[w.buf])
    BY <1>2, <1>6, <1>7, <2>1
  <2> QED BY <1>5, <1>6, <2>2 DEF Fits
<1>11. \A n \in 1..x.len : /\ i + n \in 1..w.len
                          /\ h.mem[x.buf][x.off + n] = h.mem[w.buf][w.off + (i + n)]
  <2> SUFFICES ASSUME NEW n \in 1..x.len
               PROVE  i + n \in 1..w.len /\ x.off + n = w.off + (i + n)
    BY <1>6
  <2> QED BY <1>2, <1>6, <1>7
<1>12. Shows(g, x)
  BY <1>1, <1>5, <1>11 DEF Shows
<1>13. array(g) = [n \in 1..x.len |-> h.mem[x.buf][x.off + n]]
  BY <1>5, <1>9, <1>10, ItemsAre DEF array
<1>14. SubSeq(array(h), i + 1, j) = [n \in 1..(j - i) |-> array(h)[i + n]]
  <2>1. i + 1 \in Int /\ j \in Int /\ array(h) \in Seq(Vals)
    BY <1>8
  <2>2. SubSeq(array(h), i + 1, j) = [n \in 1..(j - (i + 1) + 1) |-> array(h)[(i + 1) + n - 1]]
    BY <2>1
  <2>3. j - (i + 1) + 1 = j - i /\ \A n \in 1..(j - i) : (i + 1) + n - 1 = i + n
    OBVIOUS
  <2> QED BY <2>2, <2>3
<1>15. array(g) = SubSeq(array(h), i + 1, j)
  <2> DEFINE a == array(h)
             d == x.len
             e == array(g)
  <2>1. \A n \in 1..d : a[i + n] = h.mem[x.buf][x.off + n]
    BY <1>8, <1>11
  <2>2. d = j - i
    BY <1>6
  <2>3. e = [n \in 1..d |-> h.mem[x.buf][x.off + n]] /\ SubSeq(a, i + 1, j) = [n \in 1..(j - i) |-> a[i + n]]
    BY <1>13, <1>14
  <2> HIDE DEF a, d, e
  <2>4. e = SubSeq(a, i + 1, j)
    BY <2>1, <2>2, <2>3
  <2> QED BY <2>4 DEF a, e
<1>16. KeptInv(g)
  <2> SUFFICES ASSUME h.kept.firm PROVE KeptInv(g)
    BY <1>5 DEF KeptInv
  <2> DEFINE v == h.kept.win
  <2>1. Fits(h, v) /\ Shows(h, v) /\ items(h, v) = h.kept.was /\ Behind(w, v)
    BY <1>1 DEF KeptInv, w
  <2>2. v.off \in Nat /\ v.len \in Nat
    BY <2>1, WindowFields DEF Fits
  <2> HIDE DEF v
  <2>3. Behind(x, v)
    BY <1>2, <1>6, <2>1, <2>2 DEF Behind
  <2> QED BY <1>5, <2>1, <2>3 DEF KeptInv, Fits, Shows, items, v
<1> QED
  BY <1>5, <1>9, <1>10, <1>12, <1>15, <1>16 DEF Sound, w, x, Slice

LEMMA FreshIs ==
  ASSUME NEW h \in Heaps
  PROVE  fresh(h) \in Bufs /\ fresh(h) # h.arr.buf /\ fresh(h) # h.kept.win.buf
<1> DEFINE T == Bufs \ {h.arr.buf, h.kept.win.buf}
<1>1. T \in SUBSET Nat /\ T # {}
  <2>1. 1 \in Bufs /\ 2 \in Bufs /\ 3 \in Bufs /\ Bufs \subseteq Nat
    BY DEF Bufs
  <2>2. \A a, b : \E n \in {1, 2, 3} : n # a /\ n # b
    OBVIOUS
  <2>3. PICK n \in {1, 2, 3} : n # h.arr.buf /\ n # h.kept.win.buf
    BY <2>2
  <2>4. n \in T
    BY <2>1, <2>3
  <2> QED BY <2>1, <2>4
<1> HIDE DEF T
<1>2. Min(T) \in T
  BY <1>1, LeastIs
<1> QED
  BY <1>2 DEF T, fresh

\* Only a buffer is written which neither the array nor the kept slice shows.
WithBuffer(h, c) == [h.mem EXCEPT ![fresh(h)] = c]

LEMMA NewBuffer ==
  ASSUME NEW h, Sound(h), NEW c \in Seq(Cells)
  PROVE  /\ fresh(h) \in Bufs /\ fresh(h) # h.arr.buf /\ fresh(h) # h.kept.win.buf
         /\ WithBuffer(h, c) \in [Bufs -> Seq(Cells)]
         /\ WithBuffer(h, c)[fresh(h)] = c
         /\ \A x \in Bufs : x # fresh(h) => WithBuffer(h, c)[x] = h.mem[x]
<1>1. h \in Heaps
  BY DEF Sound
<1>2. fresh(h) \in Bufs /\ fresh(h) # h.arr.buf /\ fresh(h) # h.kept.win.buf
  BY <1>1, FreshIs
<1>3. h.mem \in [Bufs -> Seq(Cells)]
  BY <1>1, HeapFields
<1> QED
  BY <1>2, <1>3 DEF WithBuffer

LEMMA MovedIs ==
  ASSUME NEW h, NEW q, NEW spare, NEW g,
         Sound(h), q \in Seq(Vals), spare \in Nat, g = moved(h, q, spare)
  PROVE  Sound(g) /\ g.kept = h.kept /\ g.arr.off = 0 /\ g.arr.len = Len(q) /\ array(g) = q
<1> DEFINE b == fresh(h)
           c == q \o [n \in 1..spare |-> Junk]
           m == WithBuffer(h, c)
           x == [buf |-> b, off |-> 0, len |-> Len(q)]
<1>1. h \in Heaps /\ KeptInv(h)
  BY DEF Sound
<1>2. c \in Seq(Cells) /\ Len(q) \in Nat /\ Len(c) >= Len(q) /\ Len(c) \in Nat /\ \A n \in 1..Len(q) : c[n] = q[n] /\ q[n] \in Vals
  <2>1. PICK r : r = [n \in 1..spare |-> Junk]
    OBVIOUS
  <2>2. r \in Seq(Cells) /\ Len(r) = spare
    <3>1. r = [n \in 1..spare |-> r[n]] /\ \A n \in 1..spare : r[n] \in Cells
      BY <2>1 DEF Cells
    <3> QED BY <3>1, SeqOfItems
  <2>3. q \in Seq(Cells) /\ Len(q) \in Nat /\ \A n \in 1..Len(q) : q[n] \in Vals
    BY LenProperties, ElementOfSeq, SeqMonotonic DEF Cells
  <2>4. q \o r \in Seq(Cells) /\ Len(q \o r) = Len(q) + Len(r) /\ \A n \in 1..Len(q) + Len(r) : (q \o r)[n] = IF n <= Len(q) THEN q[n] ELSE r[n - Len(q)]
    BY <2>2, <2>3, ConcatProperties
  <2>5. c = q \o r
    BY <2>1
  <2> HIDE DEF c
  <2> QED BY <2>2, <2>3, <2>4, <2>5
<1>b. b = fresh(h)
  OBVIOUS
<1>3. g = Heap(m, x, h.kept)
  <2>1. g = [h EXCEPT !.mem[b] = c, !.arr = x]
    BY DEF moved
  <2>2. h = Heap(h.mem, h.arr, h.kept)
    BY <1>1, HeapOf
  <2> HIDE DEF b, c, x, m
  <2>3. [h EXCEPT !.mem[b] = c, !.arr = x] = [[h EXCEPT !.mem[b] = c] EXCEPT !.arr = x]
    OBVIOUS
  <2>4. [Heap(h.mem, h.arr, h.kept) EXCEPT !.mem[b] = c] = Heap(m, h.arr, h.kept)
    BY <1>b DEF Heap, WithBuffer, m
  <2>5. [Heap(m, h.arr, h.kept) EXCEPT !.arr = x] = Heap(m, x, h.kept)
    BY DEF Heap
  <2> QED BY <2>1, <2>2, <2>3, <2>4, <2>5
<1>4. x.buf = b /\ x.off = 0 /\ x.len = Len(q)
  OBVIOUS
<1> HIDE DEF b, c
<1>5. /\ b \in Bufs /\ b # h.arr.buf /\ b # h.kept.win.buf
      /\ m \in [Bufs -> Seq(Cells)] /\ m[b] = c /\ \A y \in Bufs : y # b => m[y] = h.mem[y]
  BY <1>2, <1>b, NewBuffer
<1>e. m = [y \in Bufs |-> m[y]] /\ DOMAIN m = Bufs /\ \A y \in Bufs : m[y] \in Seq(Cells)
  <2> HIDE DEF m
  <2> QED BY <1>5
<1>6. x \in Windows
  BY <1>2, <1>5 DEF Windows
<1> HIDE DEF m, x
<1>7. g \in Heaps /\ g.mem = m /\ g.arr = x /\ g.kept = h.kept
  <2>1. g.mem = m /\ g.arr = x /\ g.kept = h.kept
    BY <1>3, HeapIs
  <2> QED BY <1>1, <1>3, <1>e, <1>6, <2>1, TypedHeap
<1>8. Fits(g, x)
  BY <1>2, <1>4, <1>5, <1>6, <1>7 DEF Fits
<1>9. \A n \in 1..x.len : g.mem[x.buf][x.off + n] = q[n] /\ q[n] \in Vals
  BY <1>2, <1>4, <1>5, <1>7
<1>10. array(g) = q
  <2>1. array(g) = [n \in 1..x.len |-> g.mem[x.buf][x.off + n]]
    BY <1>7, <1>8, ItemsAre DEF array
  <2>2. q = [n \in 1..Len(q) |-> q[n]]
    OBVIOUS
  <2> QED BY <1>4, <1>9, <2>1, <2>2
<1>11. KeptInv(g)
  <2> SUFFICES ASSUME h.kept.firm PROVE KeptInv(g)
    BY <1>7 DEF KeptInv
  <2> DEFINE v == h.kept.win
  <2>1. Fits(h, v) /\ Shows(h, v) /\ items(h, v) = h.kept.was /\ v.buf \in Bufs
    BY <1>1, WindowFields DEF KeptInv, Fits
  <2>2. v.buf # b
    BY <1>5
  <2> HIDE DEF v
  <2>3. g.mem[v.buf] = h.mem[v.buf]
    BY <1>5, <1>7, <2>1, <2>2
  <2>4. Fits(g, v) /\ Shows(g, v) /\ items(g, v) = items(h, v)
    BY <2>1, <2>3 DEF Fits, Shows, items
  <2> QED BY <1>4, <1>7, <2>1, <2>2, <2>4 DEF KeptInv, Behind, v
<1> QED
  BY <1>4, <1>7, <1>8, <1>9, <1>10, <1>11 DEF Sound, Shows

LEMMA CopiedIs ==
  ASSUME NEW h, NEW q, NEW g, Sound(h), q \in Seq(Vals), g = copied(h, q)
  PROVE  /\ Sound(g) /\ g.arr = h.arr /\ array(g) = array(h)
         /\ g.kept.firm /\ g.kept.was = q /\ Given(g) = q
<1> DEFINE b == fresh(h)
           m == WithBuffer(h, q)
           x == [buf |-> b, off |-> 0, len |-> Len(q)]
           k == [win |-> x, was |-> q, firm |-> TRUE]
<1>1. h \in Heaps /\ Fits(h, h.arr) /\ Shows(h, h.arr)
  BY DEF Sound
<1>2. q \in Seq(Cells) /\ Len(q) \in Nat /\ \A n \in 1..Len(q) : q[n] \in Vals
  BY LenProperties, ElementOfSeq, SeqMonotonic DEF Cells
<1>b. b = fresh(h)
  OBVIOUS
<1>3. g = Heap(m, h.arr, k)
  <2>1. g = [h EXCEPT !.mem[b] = q, !.kept = k]
    BY DEF copied
  <2>2. h = Heap(h.mem, h.arr, h.kept)
    BY <1>1, HeapOf
  <2> HIDE DEF b, k, m
  <2>3. [h EXCEPT !.mem[b] = q, !.kept = k] = [[h EXCEPT !.mem[b] = q] EXCEPT !.kept = k]
    OBVIOUS
  <2>4. [Heap(h.mem, h.arr, h.kept) EXCEPT !.mem[b] = q] = Heap(m, h.arr, h.kept)
    BY <1>b DEF Heap, WithBuffer, m
  <2>5. [Heap(m, h.arr, h.kept) EXCEPT !.kept = k] = Heap(m, h.arr, k)
    BY DEF Heap
  <2> QED BY <2>1, <2>2, <2>3, <2>4, <2>5
<1>4. x.buf = b /\ x.off = 0 /\ x.len = Len(q) /\ k.win = x /\ k.was = q /\ k.firm
  OBVIOUS
<1> HIDE DEF b
<1>5. /\ b \in Bufs /\ b # h.arr.buf
      /\ m \in [Bufs -> Seq(Cells)] /\ m[b] = q /\ \A y \in Bufs : y # b => m[y] = h.mem[y]
  BY <1>2, <1>b, NewBuffer
<1>6. x \in Windows /\ h.arr \in Windows
  BY <1>1, <1>2, <1>5, HeapFields DEF Windows
<1>k. k \in [win : Windows, was : Seq(Vals), firm : BOOLEAN]
  <2> HIDE DEF x
  <2> QED BY <1>6
<1> HIDE DEF m, x, k
<1>7. g \in Heaps /\ g.mem = m /\ g.arr = h.arr /\ g.kept = k
  <2>1. g.mem = m /\ g.arr = h.arr /\ g.kept = k
    BY <1>3, HeapIs
  <2> QED BY <1>3, <1>5, <1>6, <1>k, <2>1 DEF Heaps, Heap, Cells
<1>8. Fits(g, x)
  BY <1>2, <1>4, <1>5, <1>6, <1>7 DEF Fits
<1>9. \A n \in 1..x.len : g.mem[x.buf][x.off + n] = q[n] /\ q[n] \in Vals
  BY <1>2, <1>4, <1>5, <1>7
<1>10. items(g, x) = q
  <2>1. items(g, x) = [n \in 1..x.len |-> g.mem[x.buf][x.off + n]]
    BY <1>7, <1>8, ItemsAre
  <2>2. q = [n \in 1..Len(q) |-> q[n]]
    OBVIOUS
  <2> QED BY <1>4, <1>9, <2>1, <2>2
<1>11. Fits(g, g.arr) /\ Shows(g, g.arr) /\ array(g) = array(h)
  <2>1. h.arr.buf \in Bufs
    BY <1>6, WindowFields
  <2>2. g.mem[h.arr.buf] = h.mem[h.arr.buf]
    BY <1>5, <1>7, <2>1
  <2> QED BY <1>1, <1>7, <2>2 DEF Fits, Shows, items, array
<1>12. KeptInv(g)
  <2>1. Shows(g, x)
    BY <1>9 DEF Shows
  <2>2. Behind(h.arr, x)
    BY <1>4, <1>5 DEF Behind
  <2> QED BY <1>4, <1>7, <1>8, <1>10, <2>1, <2>2 DEF KeptInv
<1> QED
  BY <1>4, <1>7, <1>10, <1>11, <1>12 DEF Sound, Given

LEMMA SharedIs ==
  ASSUME NEW h, NEW w, NEW g, Sound(h), w \in Windows, g = shared(h, w, FALSE)
  PROVE  /\ Sound(g) /\ g.mem = h.mem /\ g.arr = h.arr /\ array(g) = array(h)
         /\ g.kept.win = w /\ ~g.kept.firm
<1> DEFINE k == [win |-> w, was |-> <<>>, firm |-> FALSE]
<1>1. h \in Heaps /\ Fits(h, h.arr) /\ Shows(h, h.arr) /\ h = Heap(h.mem, h.arr, h.kept)
  BY HeapOf DEF Sound
<1>2. k.win = w /\ ~k.firm
  OBVIOUS
<1>3. k \in [win : Windows, was : Seq(Vals), firm : BOOLEAN]
  OBVIOUS
<1>4. shared(h, w, FALSE) = [h EXCEPT !.kept = k]
  BY DEF shared
<1> HIDE DEF k
<1>5. g = Heap(h.mem, h.arr, k)
  <2>1. [Heap(h.mem, h.arr, h.kept) EXCEPT !.kept = k] = Heap(h.mem, h.arr, k)
    BY DEF Heap
  <2> QED BY <1>1, <1>4, <2>1
<1>6. g.mem = h.mem /\ g.arr = h.arr /\ g.kept = k
  <2>1. PICK e : e = Heap(h.mem, h.arr, k)
    OBVIOUS
  <2>2. e.mem = h.mem /\ e.arr = h.arr /\ e.kept = k
    BY <2>1 DEF Heap
  <2> QED BY <1>5, <2>1, <2>2
<1>7. g \in Heaps
  <2>1. h.mem \in [Bufs -> Seq(Cells)] /\ h.arr \in Windows
    BY <1>1, HeapFields
  <2>2. Heap(h.mem, h.arr, k) \in Heaps
    BY <1>3, <2>1 DEF Heaps, Heap, Cells
  <2> QED BY <1>5, <2>2
<1> QED
  BY <1>1, <1>2, <1>6, <1>7 DEF Sound, KeptInv, Fits, Shows, items, array

\* The first n items of the array given to a caller, and cut off.
GivenAway(h, n) == [shared(h, part(h.arr, 0, n), TRUE) EXCEPT !.arr = part(h.arr, n, h.arr.len)]

LEMMA GivenAwayIs ==
  ASSUME NEW h, NEW n, NEW g, Sound(h), n \in Nat, n <= h.arr.len, g = GivenAway(h, n)
  PROVE  /\ Sound(g) /\ g.mem = h.mem /\ g.arr.len = h.arr.len - n
         /\ g.kept.firm /\ Given(g) = Slice(array(h), 0, n) /\ g.kept.was = Given(g)
         /\ array(g) = Slice(array(h), n, h.arr.len)
<1> DEFINE w == h.arr
           v == part(w, 0, n)
           x == part(w, n, w.len)
           k == [win |-> v, was |-> items(h, v), firm |-> TRUE]
           g1 == Sliced(h, 0, n)
           g2 == Sliced(h, n, w.len)
<1>1. h \in Heaps /\ Fits(h, w) /\ w \in Windows /\ h = Heap(h.mem, w, h.kept)
  BY HeapOf DEF Sound, Fits
<1>2. w.len \in Nat /\ w.off \in Nat /\ n <= w.len
  BY <1>1, WindowFields
<1>3. v = [buf |-> w.buf, off |-> w.off, len |-> n] /\ x = [buf |-> w.buf, off |-> w.off + n, len |-> w.len - n]
  BY <1>2 DEF part
<1>4. Sound(g1) /\ g1.mem = h.mem /\ g1.arr = v /\ array(g1) = Slice(array(h), 0, n)
  <2>1. 0 \in Nat /\ 0 <= n
    OBVIOUS
  <2> HIDE DEF v, g1
  <2>2. g1.mem = h.mem /\ g1.arr = part(w, 0, n) /\ Sound(g1) /\ array(g1) = Slice(array(h), 0, n)
    BY <1>2, <2>1, SlicedIs DEF g1
  <2> QED BY <2>2 DEF v
<1>5. Sound(g2) /\ g2.mem = h.mem /\ g2.arr = x /\ array(g2) = Slice(array(h), n, w.len)
  <2> HIDE DEF x, g2
  <2>2. g2.mem = h.mem /\ g2.arr = part(w, n, w.len) /\ Sound(g2) /\ array(g2) = Slice(array(h), n, w.len)
    BY <1>2, SlicedIs DEF g2
  <2> QED BY <2>2 DEF x
<1>w. w = h.arr
  OBVIOUS
<1> HIDE DEF w, g1, g2
<1>6. v.off = w.off /\ v.len = n /\ v.buf = w.buf /\ x.off = w.off + n /\ x.len = w.len - n /\ x.buf = w.buf
  BY <1>3
<1>7. g = Heap(h.mem, x, k)
  <2>1. shared(h, v, TRUE) = [h EXCEPT !.kept = k]
    BY DEF shared
  <2>2. g = [shared(h, v, TRUE) EXCEPT !.arr = x]
    BY <1>w DEF GivenAway
  <2> HIDE DEF v, x, k
  <2>3. shared(h, v, TRUE) = Heap(h.mem, w, k)
    <3>1. [Heap(h.mem, w, h.kept) EXCEPT !.kept = k] = Heap(h.mem, w, k)
      BY DEF Heap
    <3> QED BY <1>1, <2>1, <3>1
  <2>4. [Heap(h.mem, w, k) EXCEPT !.arr = x] = Heap(h.mem, x, k)
    BY DEF Heap
  <2> QED BY <2>2, <2>3, <2>4
<1>8. k.win = v /\ k.was = items(h, v) /\ k.firm
  OBVIOUS
<1>9. g1.arr = v /\ g2.arr = x
  BY <1>4, <1>5
<1>10. /\ Fits(h, v) /\ Shows(h, v) /\ v \in Windows /\ items(h, v) \in Seq(Vals)
       /\ items(h, v) = Slice(array(h), 0, n)
  <2> HIDE DEF v
  <2>1. Fits(g1, v) /\ Shows(g1, v) /\ g1 \in Heaps
    BY <1>4, <1>9 DEF Sound
  <2>2. items(g1, v) \in Seq(Vals) /\ items(g1, v) = array(g1)
    BY <1>9, <2>1, ItemsAre DEF array
  <2>3. items(g1, v) = items(h, v)
    BY <1>4 DEF items
  <2> QED BY <1>4, <2>1, <2>2, <2>3 DEF Fits, Shows
<1>11. /\ Fits(h, x) /\ Shows(h, x) /\ x \in Windows
       /\ items(h, x) = Slice(array(h), n, w.len)
  <2> HIDE DEF x
  <2>1. Fits(g2, x) /\ Shows(g2, x)
    BY <1>5, <1>9 DEF Sound
  <2>2. items(g2, x) = items(h, x) /\ items(g2, x) = array(g2)
    BY <1>5, <1>9 DEF items, array
  <2> QED BY <1>5, <2>1, <2>2 DEF Fits, Shows
<1>12. k \in [win : Windows, was : Seq(Vals), firm : BOOLEAN]
  <2> HIDE DEF v
  <2> QED BY <1>10
<1> HIDE DEF v, x, k
<1>13. g.mem = h.mem /\ g.arr = x /\ g.kept = k
  BY <1>7, HeapIs
<1>14. g \in Heaps
  BY <1>1, <1>7, <1>11, <1>12, HeapFields DEF Heaps, Heap, Cells
<1>15. Behind(x, v)
  BY <1>2, <1>6 DEF Behind
<1>16. Sound(g)
  BY <1>8, <1>10, <1>11, <1>13, <1>14, <1>15 DEF Sound, KeptInv, Fits, Shows, items
<1>17. Given(g) = items(h, v) /\ array(g) = items(h, x)
  BY <1>8, <1>13 DEF Given, array, items
<1> QED
  BY <1>6, <1>8, <1>10, <1>11, <1>13, <1>16, <1>17, <1>w

-----------------------------------------------------------------------------
(***************************************************************************)
(* The memory after an operation: nothing that can still be read is lost.  *)
(***************************************************************************)
\* The parts of settled.
followed(h) == IF h.kept.firm THEN h.kept
               ELSE [win |-> [h.arr EXCEPT !.len = 0], was |-> <<>>, firm |-> FALSE]
firstIn(h, b) == Min({w.off : w \in {x \in {h.arr, followed(h).win} : x.buf = b}})
cellsOf(h, b) == [n \in 1..Len(h.mem[b]) - firstIn(h, b) |->
                    LET m == n + firstIn(h, b)
                    IN  IF Inside(h.arr, b, m) \/ Inside(followed(h).win, b, m) THEN h.mem[b][m] ELSE Junk]
movedTo(h, w) == [buf |-> IF w.buf = h.arr.buf THEN 1 ELSE 2, off |-> w.off - firstIn(h, w.buf),
                  len |-> w.len]
memoryOf(h) == [b \in Bufs |-> IF b = 1 THEN cellsOf(h, h.arr.buf)
                              ELSE IF b = 2 /\ followed(h).win.buf # h.arr.buf
                              THEN cellsOf(h, followed(h).win.buf) ELSE <<>>]

LEMMA SettledIs ==
  ASSUME NEW h
  PROVE  settled(h) = Heap(memoryOf(h), movedTo(h, h.arr),
                           [followed(h) EXCEPT !.win = movedTo(h, followed(h).win)])
BY DEF settled, Heap, memoryOf, movedTo, cellsOf, firstIn, followed

\* What ArrayTypeOK says of the heap.
Tidy(h) ==
  /\ h \in Heaps
  /\ \A w \in {h.arr, h.kept.win} : w.off + w.len <= Len(h.mem[w.buf])
  /\ \A b \in Bufs : \A n \in DOMAIN h.mem[b] :
       h.mem[b][n] = Junk <=> ~Inside(h.arr, b, n) /\ ~Inside(h.kept.win, b, n)

LEMMA FollowedIs ==
  ASSUME NEW h, Sound(h), NEW k, k = followed(h)
  PROVE  /\ k \in [win : Windows, was : Seq(Vals), firm : BOOLEAN]
         /\ Fits(h, k.win) /\ Shows(h, k.win) /\ Behind(h.arr, k.win) /\ items(h, k.win) = k.was
         /\ k.firm = h.kept.firm /\ (k.firm => k.was = h.kept.was)
<1>1. h \in Heaps /\ Fits(h, h.arr) /\ KeptInv(h) /\ h.kept.firm \in BOOLEAN
  BY HeapFields DEF Sound
<1>2. CASE h.kept.firm
  <2>1. k = h.kept
    BY <1>2 DEF followed
  <2> QED BY <1>1, <1>2, <2>1 DEF KeptInv, Heaps
<1>3. CASE ~h.kept.firm
  <2> DEFINE w == h.arr
             v == [w EXCEPT !.len = 0]
  <2>1. w.buf \in Bufs /\ w.off \in Nat /\ w.len \in Nat /\ w = [buf |-> w.buf, off |-> w.off, len |-> w.len]
    BY <1>1, WindowFields DEF Fits
  <2>2. v = [buf |-> w.buf, off |-> w.off, len |-> 0]
    BY <2>1
  <2>3. k = [win |-> v, was |-> <<>>, firm |-> FALSE]
    BY <1>3 DEF followed
  <2>4. v \in Windows /\ v.off = w.off /\ v.len = 0 /\ v.buf = w.buf
    BY <2>1, <2>2 DEF Windows
  <2> HIDE DEF v
  <2>5. k.win = v /\ k.was = <<>> /\ ~k.firm /\ k.firm \in BOOLEAN
    BY <2>3
  <2>6. k \in [win : Windows, was : Seq(Vals), firm : BOOLEAN]
    BY <2>3, <2>4
  <2>7. Fits(h, v)
    <3>1. w.off + w.len <= Len(h.mem[w.buf]) /\ Len(h.mem[w.buf]) \in Nat
      BY <1>1, <2>1, BufferIs DEF Fits
    <3>2. w.off + 0 <= Len(h.mem[w.buf])
      BY <2>1, <3>1
    <3> QED BY <2>4, <3>2 DEF Fits
  <2>8. Shows(h, v) /\ Behind(w, v)
    BY <2>1, <2>4 DEF Shows, Behind
  <2>9. items(h, v) = <<>>
    <3>1. items(h, v) \in Seq(Cells) /\ Len(items(h, v)) = 0
      BY <1>1, <2>4, <2>7, ItemsAre
    <3> QED BY <3>1, EmptySeq
  <2>10. k.firm = h.kept.firm
    BY <1>1, <1>3, <2>5
  <2> QED BY <2>5, <2>6, <2>7, <2>8, <2>9, <2>10
<1> QED
  BY <1>1, <1>2, <1>3

\* A buffer that the array or the kept slice lies in, cut at the first cell they show.
CutAt(h, v, w, b, o, c) ==
  /\ b \in Bufs /\ o \in Nat /\ o <= w.off
  /\ c \in Seq(Cells) /\ Len(c) = Len(h.mem[b]) - o
  /\ \A n \in 1..w.len : c[(w.off - o) + n] = h.mem[b][w.off + n]
  /\ \A n \in 1..Len(c) : c[n] = Junk <=> ~Inside(h.arr, b, n + o) /\ ~Inside(v, b, n + o)

LEMMA CellsAre ==
  ASSUME NEW h, Sound(h), NEW w \in {h.arr, followed(h).win}, NEW b, b = w.buf,
         NEW o, o = firstIn(h, b), NEW c, c = cellsOf(h, b)
  PROVE  CutAt(h, followed(h).win, w, b, o, c)
<1> DEFINE v == followed(h).win
           d == h.mem[b]
<1>1. /\ h \in Heaps /\ h.arr \in Windows /\ v \in Windows /\ Fits(h, h.arr) /\ Fits(h, v)
      /\ Shows(h, h.arr) /\ Shows(h, v)
  <2>1. h \in Heaps /\ Fits(h, h.arr) /\ Shows(h, h.arr)
    BY DEF Sound
  <2>2. Fits(h, v) /\ Shows(h, v)
    BY FollowedIs
  <2> QED BY <2>1, <2>2 DEF Fits
<1>o. o = firstIn(h, b) /\ c = cellsOf(h, b) /\ v = followed(h).win /\ w \in {h.arr, v}
  OBVIOUS
<1> HIDE DEF v
<1>2. b \in Bufs /\ w.off \in Nat /\ w.len \in Nat /\ d \in Seq(Cells) /\ Len(d) \in Nat
  <2>1. w \in Windows
    BY <1>1, <1>o
  <2> QED BY <1>1, <2>1, WindowFields, BufferIs
<1>3. o \in Nat /\ o <= w.off
  <2> DEFINE T == {x.off : x \in {y \in {h.arr, v} : y.buf = b}}
  <2>1. T \in SUBSET Nat /\ w.off \in T
    BY <1>1, <1>o, WindowFields
  <2>2. o = Min(T)
    BY <1>o DEF firstIn
  <2> HIDE DEF T
  <2>3. Min(T) \in T /\ \A n \in T : Min(T) <= n
    BY <2>1, LeastIs
  <2> QED BY <2>1, <2>2, <2>3
<1>4. w.off + w.len <= Len(d) /\ \A n \in 1..w.len : d[w.off + n] \in Vals
  BY <1>1, <1>o DEF Fits, Shows
<1>5. Len(d) - o \in Nat
  BY <1>2, <1>3, <1>4
<1>i. \A x \in {h.arr, v}, n \in 1..Len(c) : Inside(x, b, n + o) => d[n + o] \in Vals
  <2> SUFFICES ASSUME NEW x \in {h.arr, v}, NEW n, n \in 1..Len(c), Inside(x, b, n + o) PROVE d[n + o] \in Vals
    OBVIOUS
  <2>1. x.buf = b /\ x.off \in Nat /\ x.len \in Nat /\ n + o > x.off /\ n + o <= x.off + x.len
    BY <1>1, WindowFields DEF Inside
  <2>2. Shows(h, x)
    BY <1>1
  <2>3. \A m \in 1..x.len : d[x.off + m] \in Vals
    BY <2>1, <2>2 DEF Shows
  <2>4. n \in Int
    OBVIOUS
  <2>5. (n + o) - x.off \in 1..x.len /\ x.off + ((n + o) - x.off) = n + o
    BY <1>3, <2>1, <2>4
  <2> QED BY <2>3, <2>5
<1> HIDE DEF d
<1>6. c = [n \in 1..Len(d) - o |-> IF Inside(h.arr, b, n + o) \/ Inside(v, b, n + o) THEN d[n + o] ELSE Junk]
  BY <1>o DEF cellsOf, d
<1>7. \A n \in 1..Len(d) - o : n + o \in 1..Len(d)
  BY <1>2, <1>3
<1>8. c \in Seq(Cells) /\ Len(c) = Len(d) - o
  <2>1. \A n \in 1..Len(d) - o : c[n] \in Cells
    <3> SUFFICES ASSUME NEW n \in 1..Len(d) - o PROVE c[n] \in Cells
      OBVIOUS
    <3>1. d[n + o] \in Cells
      BY <1>2, <1>7, ElementOfSeq
    <3> QED BY <1>6, <3>1 DEF Cells
  <2>2. c = [n \in 1..Len(d) - o |-> c[n]]
    BY <1>6
  <2> QED BY <1>5, <2>1, <2>2, SeqOfItems
<1>9. \A n \in 1..w.len : c[(w.off - o) + n] = d[w.off + n]
  <2> SUFFICES ASSUME NEW n \in 1..w.len PROVE c[(w.off - o) + n] = d[w.off + n]
    OBVIOUS
  <2>1. (w.off - o) + n \in 1..Len(d) - o /\ ((w.off - o) + n) + o = w.off + n
    BY <1>2, <1>3, <1>4
  <2>2. Inside(w, b, w.off + n)
    BY <1>2 DEF Inside
  <2>3. Inside(h.arr, b, w.off + n) \/ Inside(v, b, w.off + n)
    BY <1>o, <2>2
  <2> QED BY <1>6, <2>1, <2>3
<1>10. \A n \in 1..Len(c) : c[n] = Junk <=> ~Inside(h.arr, b, n + o) /\ ~Inside(v, b, n + o)
  <2>1. Junk \notin Vals
    BY CArrayConstants DEF Junk
  <2> QED BY <1>6, <1>8, <1>i, <2>1
<1> QED
  BY <1>2, <1>3, <1>8, <1>9, <1>10, <1>o DEF d, CutAt

LEMMA SettlesTo ==
  ASSUME NEW h, Sound(h), NEW g, g = settled(h)
  PROVE  /\ Sound(g) /\ Tidy(g) /\ array(g) = array(h) /\ g.arr.len = h.arr.len
         /\ g.kept.firm = h.kept.firm /\ (h.kept.firm => g.kept.was = h.kept.was)
<1> DEFINE a == h.arr
           k == followed(h)
           v == k.win
           o1 == firstIn(h, a.buf)
           o2 == firstIn(h, v.buf)
           c1 == cellsOf(h, a.buf)
           c2 == cellsOf(h, v.buf)
           m == memoryOf(h)
           x == movedTo(h, a)
           y == movedTo(h, v)
           j == [k EXCEPT !.win = y]
<1>a. a = h.arr
  OBVIOUS
<1>1. /\ h \in Heaps /\ Fits(h, a) /\ Shows(h, a) /\ a \in Windows
      /\ a.off \in Nat /\ a.len \in Nat
  <2>1. h \in Heaps /\ Fits(h, a) /\ Shows(h, a) /\ a \in Windows
    BY DEF Sound, Fits
  <2> QED BY <2>1, WindowFields
<1>2. /\ k \in [win : Windows, was : Seq(Vals), firm : BOOLEAN]
      /\ Fits(h, v) /\ Shows(h, v) /\ Behind(a, v) /\ items(h, v) = k.was
      /\ k.firm = h.kept.firm /\ (k.firm => k.was = h.kept.was)
  BY FollowedIs
<1>3. v \in Windows /\ v.off \in Nat /\ v.len \in Nat
  <2>1. v \in Windows
    BY <1>2 DEF Fits
  <2> HIDE DEF v
  <2> QED BY <2>1, WindowFields
<1>4. /\ a.buf \in Bufs /\ o1 \in Nat /\ o1 <= a.off
      /\ c1 \in Seq(Cells) /\ Len(c1) = Len(h.mem[a.buf]) - o1
      /\ \A n \in 1..a.len : c1[(a.off - o1) + n] = h.mem[a.buf][a.off + n]
      /\ \A n \in 1..Len(c1) : c1[n] = Junk <=> ~Inside(a, a.buf, n + o1) /\ ~Inside(v, a.buf, n + o1)
  <2>1. CutAt(h, v, a, a.buf, o1, c1)
    BY CellsAre
  <2> HIDE DEF a, v, k, o1, c1
  <2> QED BY <1>a, <2>1 DEF CutAt
<1>5. /\ v.buf \in Bufs /\ o2 \in Nat /\ o2 <= v.off
      /\ c2 \in Seq(Cells) /\ Len(c2) = Len(h.mem[v.buf]) - o2
      /\ \A n \in 1..v.len : c2[(v.off - o2) + n] = h.mem[v.buf][v.off + n]
      /\ \A n \in 1..Len(c2) : c2[n] = Junk <=> ~Inside(a, v.buf, n + o2) /\ ~Inside(v, v.buf, n + o2)
  <2>1. CutAt(h, v, v, v.buf, o2, c2)
    BY CellsAre
  <2> HIDE DEF a, v, k, o2, c2
  <2> QED BY <1>a, <2>1 DEF CutAt
<1>6. v.buf = a.buf => c1 = c2 /\ o1 = o2
  OBVIOUS
<1>7. x = [buf |-> 1, off |-> a.off - o1, len |-> a.len]
  BY DEF movedTo
<1>8. y = [buf |-> IF v.buf = a.buf THEN 1 ELSE 2, off |-> v.off - o2, len |-> v.len]
  BY DEF movedTo
<1>9. g = Heap(m, x, j)
  BY SettledIs
<1>10. m = [b \in Bufs |-> IF b = 1 THEN c1 ELSE IF b = 2 /\ v.buf # a.buf THEN c2 ELSE <<>>]
  BY DEF memoryOf
<1>11. 1 \in Bufs /\ 2 \in Bufs
  BY DEF Bufs
<1>b. array(h) = items(h, a)
  BY DEF array
<1>c. Len(h.mem[a.buf]) \in Nat /\ a.off + a.len <= Len(h.mem[a.buf])
  BY <1>1, <1>4, BufferIs DEF Fits
<1>d. Len(h.mem[v.buf]) \in Nat /\ v.off + v.len <= Len(h.mem[v.buf])
  BY <1>1, <1>2, <1>5, BufferIs DEF Fits
<1>e. k = [win |-> k.win, was |-> k.was, firm |-> k.firm]
  <2> HIDE DEF k
  <2> QED BY <1>2
<1>j. j = [win |-> y, was |-> k.was, firm |-> k.firm]
  <2> HIDE DEF k, y
  <2> QED BY <1>e
<1>v. v = k.win
  OBVIOUS
<1> HIDE DEF a, k, v, o1, o2, c1, c2, m, x, y, j
<1>12. m \in [Bufs -> Seq(Cells)] /\ m[1] = c1 /\ m[y.buf] = c2
  <2>1. \A b \in Bufs : m[b] \in Seq(Cells)
    <3>1. <<>> \in Seq(Cells)
      OBVIOUS
    <3> QED BY <1>4, <1>5, <1>10, <3>1
  <2>2. m[1] = c1
    BY <1>10, <1>11
  <2>3. m[y.buf] = c2
    BY <1>6, <1>8, <1>10, <1>11
  <2> QED BY <1>10, <2>1, <2>2, <2>3
<1>13. /\ x \in Windows /\ x.buf = 1 /\ x.off = a.off - o1 /\ x.len = a.len
       /\ y \in Windows /\ y.buf = (IF v.buf = a.buf THEN 1 ELSE 2) /\ y.off = v.off - o2 /\ y.len = v.len
  <2>1. a.off - o1 \in Nat /\ v.off - o2 \in Nat
    BY <1>1, <1>3, <1>4, <1>5, SMTT(30)
  <2>2. x.buf = 1 /\ x.off = a.off - o1 /\ x.len = a.len
    BY <1>7
  <2>3. y.buf = (IF v.buf = a.buf THEN 1 ELSE 2) /\ y.off = v.off - o2 /\ y.len = v.len
    BY <1>8
  <2>4. x \in Windows
    BY <1>1, <1>7, <1>11, <2>1 DEF Windows
  <2>5. y \in Windows
    BY <1>3, <1>8, <1>11, <2>1 DEF Windows
  <2> QED BY <2>2, <2>3, <2>4, <2>5
<1>14. g.mem = m /\ g.arr = x /\ g.kept = j /\ j.win = y /\ j.was = k.was /\ j.firm = k.firm
  <2>1. g.mem = m /\ g.arr = x /\ g.kept = j
    BY <1>9, HeapIs
  <2>2. j.win = y /\ j.was = k.was /\ j.firm = k.firm
    BY <1>j
  <2> QED BY <2>1, <2>2
<1>15. g \in Heaps
  <2>1. j \in [win : Windows, was : Seq(Vals), firm : BOOLEAN]
    BY <1>2, <1>13, <1>j
  <2> QED BY <1>9, <1>12, <1>13, <2>1 DEF Heaps, Heap, Cells
<1>16. Fits(g, x)
  <2>1. x.off + x.len <= Len(c1)
    BY <1>1, <1>4, <1>13, <1>c
  <2> QED BY <1>12, <1>13, <1>14, <2>1 DEF Fits
<1>17. Fits(g, y)
  <2>1. y.off + y.len <= Len(c2)
    <3>1. y.off = v.off - o2 /\ y.len = v.len
      BY <1>13
    <3>2. Len(c2) = Len(h.mem[v.buf]) - o2 /\ o2 \in Nat
      BY <1>5
    <3> QED BY <1>3, <1>d, <3>1, <3>2, SMTT(30)
  <2> QED BY <1>12, <1>13, <1>14, <2>1 DEF Fits
<1>18. items(g, x) = items(h, a) /\ Shows(g, x)
  <2>1. \A n \in 1..a.len : g.mem[x.buf][x.off + n] = h.mem[a.buf][a.off + n]
    BY <1>4, <1>12, <1>13, <1>14
  <2>2. items(g, x) = [n \in 1..a.len |-> g.mem[x.buf][x.off + n]]
    BY <1>13, <1>15, <1>16, ItemsAre
  <2>3. items(h, a) = [n \in 1..a.len |-> h.mem[a.buf][a.off + n]]
    BY <1>1, ItemsAre
  <2> QED BY <1>1, <1>13, <2>1, <2>2, <2>3 DEF Shows
<1>19. items(g, y) = items(h, v) /\ Shows(g, y)
  <2>1. \A n \in 1..v.len : g.mem[y.buf][y.off + n] = h.mem[v.buf][v.off + n]
    BY <1>5, <1>12, <1>13, <1>14
  <2>2. items(g, y) = [n \in 1..v.len |-> g.mem[y.buf][y.off + n]]
    BY <1>13, <1>15, <1>17, ItemsAre
  <2>3. items(h, v) = [n \in 1..v.len |-> h.mem[v.buf][v.off + n]]
    BY <1>1, <1>2, ItemsAre
  <2> QED BY <1>2, <1>13, <2>1, <2>2, <2>3 DEF Shows
<1>20. Behind(x, y)
  <2> SUFFICES ASSUME y.buf = 1 PROVE y.off + y.len <= x.off
    BY <1>13 DEF Behind
  <2>1. v.buf = a.buf
    BY <1>13
  <2>2. v.off + v.len <= a.off /\ o1 = o2
    BY <1>2, <1>6, <2>1 DEF Behind
  <2> QED BY <1>1, <1>3, <1>4, <1>13, <2>2
<1>21. Sound(g)
  BY <1>2, <1>14, <1>15, <1>16, <1>17, <1>18, <1>19, <1>20 DEF Sound, KeptInv
<1>22. \A n \in 1..Len(c1) : c1[n] = Junk <=> ~Inside(x, 1, n) /\ ~Inside(y, 1, n)
  <2> SUFFICES ASSUME NEW n \in 1..Len(c1)
               PROVE  c1[n] = Junk <=> ~Inside(x, 1, n) /\ ~Inside(y, 1, n)
    OBVIOUS
  <2>0. n \in Int
    OBVIOUS
  <2>1. Inside(x, 1, n) <=> Inside(a, a.buf, n + o1)
    BY <1>1, <1>4, <1>13, <2>0 DEF Inside
  <2>2. Inside(y, 1, n) <=> Inside(v, a.buf, n + o1)
    <3>1. CASE v.buf = a.buf
      BY <1>3, <1>5, <1>6, <1>13, <2>0, <3>1 DEF Inside
    <3>2. CASE v.buf # a.buf
      BY <1>13, <3>2 DEF Inside
    <3> QED BY <3>1, <3>2
  <2> QED BY <1>4, <2>1, <2>2
<1>23. ASSUME v.buf # a.buf, NEW n \in 1..Len(c2)
       PROVE  c2[n] = Junk <=> ~Inside(x, 2, n) /\ ~Inside(y, 2, n)
  <2>0. n \in Int
    OBVIOUS
  <2>1. ~Inside(x, 2, n) /\ ~Inside(a, v.buf, n + o2)
    BY <1>13, <1>23 DEF Inside
  <2>2. Inside(y, 2, n) <=> Inside(v, v.buf, n + o2)
    BY <1>3, <1>5, <1>13, <1>23, <2>0 DEF Inside
  <2> QED BY <1>5, <2>1, <2>2
<1>24. Tidy(g)
  <2>1. ASSUME NEW b \in Bufs, NEW n \in DOMAIN g.mem[b]
        PROVE  g.mem[b][n] = Junk <=> ~Inside(x, b, n) /\ ~Inside(y, b, n)
    <3>1. CASE b = 1
      <4>1. g.mem[b] = c1 /\ n \in 1..Len(c1)
        BY <1>4, <1>12, <1>14, <3>1
      <4> QED BY <1>22, <3>1, <4>1
    <3>2. CASE b = 2 /\ v.buf # a.buf
      <4>1. g.mem[b] = c2 /\ n \in 1..Len(c2)
        BY <1>5, <1>12, <1>13, <1>14, <3>2
      <4> QED BY <1>23, <3>2, <4>1
    <3>3. CASE b # 1 /\ ~(b = 2 /\ v.buf # a.buf)
      <4>1. g.mem[b] = <<>>
        BY <1>10, <1>14, <3>3
      <4> QED BY <2>1, <4>1
    <3> QED BY <3>1, <3>2, <3>3
  <2> QED BY <1>14, <1>15, <1>16, <1>17, <2>1 DEF Tidy, Fits
<1> QED
  BY <1>2, <1>13, <1>14, <1>18, <1>21, <1>24, <1>a, <1>b DEF array

-----------------------------------------------------------------------------
(***************************************************************************)
(* Sequences of items, item by item.                                       *)
(***************************************************************************)
IsSlice(s, q, i, j) ==
  /\ s \in Seq(Vals) /\ j - i \in Nat /\ Len(s) = j - i
  /\ \A n \in 1..(j - i) : s[n] = q[i + n]

IsOverlay(s, q, i, r, m) ==
  /\ s \in Seq(Vals) /\ Len(s) = m
  /\ \A n \in 1..m : s[n] = IF n - i \in 1..Len(r) THEN r[n - i] ELSE q[n]

IsJoin(s, q, r) ==
  /\ s \in Seq(Vals) /\ Len(s) = Len(q) + Len(r) /\ Len(s) \in Nat
  /\ \A n \in 1..Len(s) : s[n] = IF n <= Len(q) THEN q[n] ELSE r[n - Len(q)]

\* Places are counted from 0 here, as in the code.
IsWithout(s, q, i) ==
  /\ s \in Seq(Vals) /\ Len(s) = Len(q) - 1 /\ Len(s) \in Nat
  /\ \A n \in 1..Len(s) : s[n] = IF n <= i THEN q[n] ELSE q[n + 1]

LeftOut(q, i) == Slice(q, 0, i) \o Slice(q, i + 1, Len(q))
With(q, i, v) == Slice(q, 0, i) \o <<v>> \o Slice(q, i, Len(q))

LEMMA SameSeq ==
  ASSUME NEW p, NEW q, NEW n, p \in Seq(Vals), q \in Seq(Vals), Len(p) = n, Len(q) = n,
         \A k \in 1..n : p[k] = q[k]
  PROVE  p = q
BY SeqEqual

LEMMA Item == ASSUME NEW q, NEW k, q \in Seq(Vals), k \in 1..Len(q) PROVE q[k] \in Vals
BY ElementOfSeq

LEMMA LengthIsNat == ASSUME NEW q, q \in Seq(Vals) PROVE Len(q) \in Nat /\ DOMAIN q = 1..Len(q)
BY LenProperties

LEMMA OneItem ==
  ASSUME NEW v, v \in Vals
  PROVE  <<v>> \in Seq(Vals) /\ Len(<<v>>) = 1 /\ <<v>>[1] = v
OBVIOUS

LEMMA NoItem == <<>> \in Seq(Vals) /\ Len(<<>>) = 0
OBVIOUS

LEMMA SliceIs ==
  ASSUME NEW q, NEW i, NEW j, q \in Seq(Vals), i \in Nat, j \in Nat, i <= j, j <= Len(q)
  PROVE  IsSlice(Slice(q, i, j), q, i, j)
<1> DEFINE s == Slice(q, i, j)
<1>1. Len(q) \in Nat
  BY LengthIsNat
<1>2. s = [n \in 1..(j - i) |-> q[i + n]]
  <2>1. SubSeq(q, i + 1, j) = [n \in 1..(j - (i + 1) + 1) |-> q[(i + 1) + n - 1]]
    OBVIOUS
  <2>2. j - (i + 1) + 1 = j - i /\ \A n \in 1..(j - i) : (i + 1) + n - 1 = i + n
    OBVIOUS
  <2> QED BY <2>1, <2>2 DEF Slice
<1> HIDE DEF s
<1>3. s = [n \in 1..(j - i) |-> s[n]] /\ \A n \in 1..(j - i) : s[n] = q[i + n]
  BY <1>2
<1>4. j - i \in Nat /\ \A n \in 1..(j - i) : i + n \in 1..Len(q)
  BY <1>1
<1>5. \A n \in 1..(j - i) : s[n] \in Vals
  BY <1>3, <1>4, Item
<1>6. s \in Seq(Vals) /\ Len(s) = j - i
  BY <1>3, <1>4, <1>5, SeqOfItems
<1> QED
  BY <1>3, <1>4, <1>6 DEF s, IsSlice

LEMMA OverlaidIs ==
  ASSUME NEW q, NEW i, NEW r, NEW m, q \in Seq(Vals), i \in Nat, r \in Seq(Vals), m \in Nat,
         i <= Len(q), m <= Len(q) \/ m <= i + Len(r)
  PROVE  IsOverlay(Overlaid(q, i, r, m), q, i, r, m)
<1> DEFINE s == Overlaid(q, i, r, m)
<1>1. s = [n \in 1..m |-> s[n]] /\ \A n \in 1..m : s[n] = IF n - i \in 1..Len(r) THEN r[n - i] ELSE q[n]
  BY DEF Overlaid
<1> HIDE DEF s
<1>2. Len(q) \in Nat /\ Len(r) \in Nat
  BY LengthIsNat
<1>3. \A n \in 1..m : s[n] \in Vals
  <2> SUFFICES ASSUME NEW n \in 1..m PROVE s[n] \in Vals
    OBVIOUS
  <2>1. CASE n - i \in 1..Len(r)
    BY <1>1, <2>1, Item
  <2>2. CASE ~(n - i \in 1..Len(r))
    <3>1. n \in 1..Len(q)
      BY <1>2, <2>2
    <3> QED BY <1>1, <2>2, <3>1, Item
  <2> QED BY <2>1, <2>2
<1>4. s \in Seq(Vals) /\ Len(s) = m
  BY <1>1, <1>3, SeqOfItems
<1> QED
  BY <1>1, <1>4 DEF s, IsOverlay

LEMMA JoinIs ==
  ASSUME NEW q, NEW r, q \in Seq(Vals), r \in Seq(Vals)
  PROVE  IsJoin(q \o r, q, r)
<1> DEFINE s == q \o r
<1>1. s \in Seq(Vals) /\ Len(s) = Len(q) + Len(r)
  BY ConcatProperties
<1>2. \A n \in 1..Len(q) + Len(r) : s[n] = IF n <= Len(q) THEN q[n] ELSE r[n - Len(q)]
  BY ConcatProperties
<1> HIDE DEF s
<1>3. Len(s) \in Nat
  BY <1>1, LengthIsNat
<1> QED
  BY <1>1, <1>2, <1>3 DEF s, IsJoin

LEMMA OverlaidBehind ==
  ASSUME NEW q, NEW r, q \in Seq(Vals), r \in Seq(Vals)
  PROVE  Overlaid(q, Len(q), r, Len(q) + Len(r)) = q \o r
<1> DEFINE n == Len(q)
           m == Len(q) + Len(r)
           s == Overlaid(q, n, r, m)
           t == q \o r
<1>1. n \in Nat /\ Len(r) \in Nat /\ m \in Nat
  BY LengthIsNat
<1>2. IsJoin(t, q, r)
  BY JoinIs
<1>4. n = Len(q) /\ m = n + Len(r) /\ s = Overlaid(q, n, r, m)
  OBVIOUS
<1> HIDE DEF n, m, s, t
<1>3. IsOverlay(s, q, n, r, m)
  <2>1. n <= Len(q) /\ m <= n + Len(r)
    BY <1>1, <1>4
  <2> QED BY <1>1, <1>4, <2>1, OverlaidIs
<1>5. \A k \in 1..m : s[k] = t[k]
  <2> SUFFICES ASSUME NEW k \in 1..m PROVE s[k] = t[k]
    OBVIOUS
  <2>1. k <= n <=> ~(k - n \in 1..Len(r))
    BY <1>1, <1>4
  <2> QED BY <1>2, <1>3, <1>4, <2>1 DEF IsJoin, IsOverlay
<1>6. s = t
  BY <1>2, <1>3, <1>4, <1>5, SameSeq DEF IsJoin, IsOverlay
<1> QED
  BY <1>6 DEF n, m, s, t

LEMMA AsInLibrary ==
  ASSUME NEW q, NEW i, NEW v, q \in Seq(Vals), i \in Nat
  PROVE  Seqs!RemoveAt(q, i + 1) = LeftOut(q, i) /\ Seqs!InsertAt(q, i + 1, v) = With(q, i, v)
<1>1. (i + 1) - 1 = i /\ 0 + 1 = 1 /\ (i + 1) + 1 = i + 2 /\ i + 1 + 1 = i + 2
  OBVIOUS
<1> QED
  BY <1>1 DEF Seqs!RemoveAt, Seqs!InsertAt, LeftOut, With, Slice

LEMMA WithoutIs ==
  ASSUME NEW q, NEW i, q \in Seq(Vals), i \in Nat, i < Len(q)
  PROVE  IsWithout(LeftOut(q, i), q, i)
<1> DEFINE a == Slice(q, 0, i)
           d == i + 1
           b == Slice(q, d, Len(q))
           m == Len(q)
           r == LeftOut(q, i)
<1>1. m \in Nat /\ d \in Nat /\ d <= m /\ i <= m /\ d = i + 1 /\ i \in Nat /\ 0 <= i /\ m <= m /\ 0 \in Nat
  BY LengthIsNat
<1>4. r = a \o b /\ m = Len(q) /\ b = Slice(q, d, m)
  BY DEF LeftOut
<1>2. IsSlice(a, q, 0, i)
  BY <1>1, SliceIs
<1>3. IsSlice(b, q, d, m)
  <2>1. d \in Nat /\ m \in Nat /\ d <= m /\ m <= Len(q)
    BY <1>1
  <2> HIDE DEF d, m
  <2>2. IsSlice(Slice(q, d, m), q, d, m)
    BY <2>1, SliceIs
  <2> QED BY <1>4, <2>2
<1> HIDE DEF a, b, m, d, r
<1>5. IsJoin(r, a, b)
  BY <1>2, <1>3, <1>4, JoinIs DEF IsSlice
<1>6. Len(a) = i /\ Len(b) = m - d /\ Len(r) = m - 1 /\ m - 1 \in Nat /\ r \in Seq(Vals)
  BY <1>1, <1>2, <1>3, <1>5 DEF IsSlice, IsJoin
<1>7. ASSUME NEW n \in 1..(m - 1) PROVE r[n] = IF n <= i THEN q[n] ELSE q[n + 1]
  <2>0. r[n] = IF n <= i THEN a[n] ELSE b[n - i]
    BY <1>5, <1>6 DEF IsJoin
  <2>1. CASE n <= i
    <3>1. n \in 1..(i - 0) /\ 0 + n = n
      BY <1>1, <2>1
    <3> QED BY <1>2, <2>0, <2>1, <3>1 DEF IsSlice
  <2>2. CASE ~(n <= i)
    <3>1. n - i \in 1..(m - d) /\ d + (n - i) = n + 1
      BY <1>1, <2>2
    <3> QED BY <1>3, <2>0, <2>2, <3>1 DEF IsSlice
  <2> QED BY <2>1, <2>2
<1> QED
  BY <1>4, <1>6, <1>7 DEF IsWithout, r, m

LEMMA OverlaidWithout ==
  ASSUME NEW q, NEW i, NEW d, NEW m, q \in Seq(Vals), i \in Nat, i < Len(q),
         d = i + 1, m = Len(q) - 1
  PROVE  Overlaid(q, i, Slice(q, d, Len(q)), m) = LeftOut(q, i)
<1> DEFINE r == Slice(q, d, Len(q))
           s == Overlaid(q, i, r, m)
           t == LeftOut(q, i)
           n == Len(q)
<1>1. n \in Nat /\ d \in Nat /\ m \in Nat /\ d <= n /\ n <= n /\ i <= n /\ m <= n
  BY LengthIsNat
<1>2. IsSlice(r, q, d, n)
  <2>1. d \in Nat /\ n \in Nat /\ d <= n /\ n <= Len(q)
    BY <1>1
  <2> HIDE DEF n
  <2>2. IsSlice(Slice(q, d, n), q, d, n)
    BY <2>1, SliceIs
  <2> QED BY <2>2 DEF n
<1>3. IsOverlay(s, q, i, r, m)
  <2>1. r \in Seq(Vals) /\ i <= Len(q) /\ m <= Len(q)
    BY <1>1, <1>2 DEF IsSlice
  <2> HIDE DEF r
  <2> QED BY <1>1, <2>1, OverlaidIs
<1>4. IsWithout(t, q, i)
  BY WithoutIs
<1>5. n = Len(q)
  OBVIOUS
<1> HIDE DEF r, s, t, n
<1>6. ASSUME NEW k \in 1..m PROVE s[k] = t[k]
  <2>1. CASE k <= i
    <3>1. ~(k - i \in 1..Len(r))
      BY <1>1, <2>1
    <3> QED BY <1>3, <1>4, <1>5, <2>1, <3>1 DEF IsOverlay, IsWithout
  <2>2. CASE ~(k <= i)
    <3>1. k - i \in 1..(n - d) /\ d + (k - i) = k + 1
      BY <1>1, <1>5, <2>2
    <3>2. Len(r) = n - d /\ r[k - i] = q[d + (k - i)]
      BY <1>2, <3>1 DEF IsSlice
    <3>3. s[k] = r[k - i]
      BY <1>3, <3>1, <3>2 DEF IsOverlay
    <3>4. t[k] = q[k + 1]
      BY <1>4, <1>5, <2>2 DEF IsWithout
    <3> QED BY <3>1, <3>2, <3>3, <3>4
  <2> QED BY <2>1, <2>2
<1>7. s \in Seq(Vals) /\ t \in Seq(Vals) /\ Len(s) = m /\ Len(t) = m
  BY <1>3, <1>4, <1>5 DEF IsOverlay, IsWithout
<1>8. s = t
  BY <1>6, <1>7, SameSeq
<1> QED
  BY <1>8 DEF r, s, t, n

LEMMA DroppedFirst ==
  ASSUME NEW q, q \in Seq(Vals), 0 < Len(q)
  PROVE  Slice(q, 1, Len(q)) = LeftOut(q, 0)
<1> DEFINE s == Slice(q, 1, Len(q))
           t == LeftOut(q, 0)
           m == Len(q) - 1
<1>1. Len(q) \in Nat /\ m \in Nat
  BY LengthIsNat
<1>2. IsSlice(s, q, 1, Len(q))
  BY <1>1, SliceIs
<1>3. IsWithout(t, q, 0)
  BY <1>1, WithoutIs
<1> HIDE DEF s, t
<1>4. ASSUME NEW k \in 1..m PROVE s[k] = t[k]
  <2>1. ~(k <= 0) /\ 1 + k = k + 1
    OBVIOUS
  <2>2. s[k] = q[1 + k]
    BY <1>2 DEF IsSlice
  <2>3. t[k] = q[k + 1]
    BY <1>3, <2>1 DEF IsWithout
  <2> QED BY <2>1, <2>2, <2>3
<1>5. s \in Seq(Vals) /\ t \in Seq(Vals) /\ Len(s) = m /\ Len(t) = m
  BY <1>2, <1>3 DEF IsSlice, IsWithout
<1> HIDE DEF m
<1>6. s = t
  BY <1>4, <1>5, SameSeq
<1> QED
  BY <1>6 DEF s, t

LEMMA WithoutLast ==
  ASSUME NEW q, NEW i, q \in Seq(Vals), i \in Nat, i = Len(q) - 1
  PROVE  Slice(q, 0, i) = LeftOut(q, i)
<1> DEFINE s == Slice(q, 0, i)
           t == LeftOut(q, i)
<1>1. Len(q) \in Nat /\ i <= Len(q) /\ i < Len(q) /\ 0 <= i /\ i - 0 = i
  BY LengthIsNat
<1>2. IsSlice(s, q, 0, i)
  BY <1>1, SliceIs
<1>3. IsWithout(t, q, i)
  BY <1>1, WithoutIs
<1> HIDE DEF s, t
<1>4. ASSUME NEW k \in 1..i PROVE s[k] = t[k]
  <2>1. k <= i /\ 0 + k = k
    OBVIOUS
  <2>2. s[k] = q[k]
    BY <1>1, <1>2, <2>1 DEF IsSlice
  <2>3. t[k] = q[k]
    BY <1>1, <1>3, <2>1 DEF IsWithout
  <2> QED BY <2>2, <2>3
<1>5. s \in Seq(Vals) /\ t \in Seq(Vals) /\ Len(s) = i /\ Len(t) = i
  BY <1>1, <1>2, <1>3 DEF IsSlice, IsWithout
<1>6. s = t
  BY <1>4, <1>5, SameSeq
<1> QED
  BY <1>6 DEF s, t

LEMMA SplitAt ==
  ASSUME NEW q, NEW i, q \in Seq(Vals), i \in Nat, i <= Len(q)
  PROVE  Slice(q, 0, i) \o Slice(q, i, Len(q)) = q
<1> DEFINE a == Slice(q, 0, i)
           b == Slice(q, i, Len(q))
           s == a \o b
           n == Len(q)
<1>1. n \in Nat /\ 0 <= i /\ n <= n
  BY LengthIsNat
<1>2. IsSlice(a, q, 0, i)
  BY <1>1, SliceIs
<1>3. IsSlice(b, q, i, n)
  BY <1>1, SliceIs
<1>4. IsJoin(s, a, b)
  <2> HIDE DEF a, b
  <2> QED BY <1>2, <1>3, JoinIs DEF IsSlice
<1>5. n = Len(q)
  OBVIOUS
<1> HIDE DEF a, b, s, n
<1>6. Len(a) = i /\ Len(b) = n - i /\ Len(s) = n /\ s \in Seq(Vals)
  BY <1>1, <1>2, <1>3, <1>4 DEF IsSlice, IsJoin
<1>7. ASSUME NEW k \in 1..n PROVE s[k] = q[k]
  <2>0. s[k] = IF k <= i THEN a[k] ELSE b[k - i]
    BY <1>4, <1>6 DEF IsJoin
  <2>1. CASE k <= i
    <3>1. k \in 1..(i - 0) /\ 0 + k = k
      BY <1>1, <2>1
    <3> QED BY <1>2, <2>0, <2>1, <3>1 DEF IsSlice
  <2>2. CASE ~(k <= i)
    <3>1. k - i \in 1..(n - i) /\ i + (k - i) = k
      BY <1>1, <2>2
    <3> QED BY <1>3, <2>0, <2>2, <3>1 DEF IsSlice
  <2> QED BY <2>1, <2>2
<1>8. s = q
  BY <1>5, <1>6, <1>7, SameSeq
<1> QED
  BY <1>8 DEF s, a, b, n

-----------------------------------------------------------------------------
(***************************************************************************)
(* What the operations do, as edits of a sequence.                         *)
(***************************************************************************)
\* A step of an operation that keeps what callers have, and leaves q in the array.
Leaves(h, g, q) == Sound(g) /\ g.kept = h.kept /\ array(g) = q /\ g.arr.len = Len(q)

LEMMA ArrayIs ==
  ASSUME NEW h, Sound(h)
  PROVE  /\ h \in Heaps /\ array(h) \in Seq(Vals) /\ Len(array(h)) = h.arr.len
         /\ h.arr.len \in Nat /\ h.arr.off \in Nat /\ h.arr.buf \in Bufs /\ h.arr \in Windows
         /\ h.arr.off + h.arr.len <= Len(h.mem[h.arr.buf]) /\ Len(h.mem[h.arr.buf]) \in Nat
<1>1. h \in Heaps /\ Fits(h, h.arr) /\ Shows(h, h.arr) /\ h.arr \in Windows
  BY DEF Sound, Fits
<1>2. h.arr.len \in Nat /\ h.arr.off \in Nat /\ h.arr.buf \in Bufs
  BY <1>1, WindowFields
<1>3. array(h) \in Seq(Vals) /\ Len(array(h)) = h.arr.len
  BY <1>1, ItemsAre DEF array
<1>4. Len(h.mem[h.arr.buf]) \in Nat
  BY <1>1, <1>2, BufferIs
<1> QED
  BY <1>1, <1>2, <1>3, <1>4 DEF Fits

LEMMA SameLength == ASSUME NEW w \in Windows PROVE [w EXCEPT !.len = w.len] = w
BY DEF Windows

LEMMA LengthOf == ASSUME NEW w \in Windows, NEW n PROVE [w EXCEPT !.len = n].len = n
BY DEF Windows

\* Items overwritten in place.
LEMMA PutIs ==
  ASSUME NEW h, NEW i, NEW r, NEW g,
         Sound(h), i \in Nat, r \in Seq(Vals), i + Len(r) <= h.arr.len, g = put(h, h.arr, i, r)
  PROVE  /\ Leaves(h, g, Overlaid(array(h), i, r, h.arr.len))
         /\ g.arr = h.arr
         /\ Overlaid(array(h), i, r, h.arr.len) \in Seq(Vals)
<1> DEFINE n == h.arr.len
           q == array(h)
           o == h.arr.off
           l == Len(h.mem[h.arr.buf])
           k == Len(r)
<1>1. h \in Heaps /\ q \in Seq(Vals) /\ Len(q) = n /\ h.arr \in Windows
  BY ArrayIs
<1>l. n \in Nat /\ o \in Nat /\ l \in Nat /\ o + n <= l /\ k \in Nat /\ i + k <= n
  BY ArrayIs, LenProperties
<1>2. g = Written(h, i, r, n)
  BY <1>1, WrittenHeap
<1>n. n = h.arr.len /\ q = array(h) /\ o = h.arr.off /\ l = Len(h.mem[h.arr.buf]) /\ k = Len(r)
  OBVIOUS
<1> HIDE DEF n, q, o, l, k
<1>3. Writable(h, i, r, n)
  <2>1. i <= n /\ o + i + k <= l /\ n <= n
    BY <1>l
  <2>2. i <= n /\ h.arr.off + i + Len(r) <= Len(h.mem[h.arr.buf]) /\ n <= n
    BY <1>n, <2>1
  <2> QED BY <1>l, <1>n, <2>2 DEF Writable
<1>4. /\ Sound(g) /\ g.kept = h.kept /\ g.arr = [h.arr EXCEPT !.len = n]
      /\ array(g) = Overlaid(q, i, r, n)
  BY <1>2, <1>3, <1>n, OverwriteIs
<1>5. g.arr = h.arr
  BY <1>1, <1>4, <1>n, SameLength
<1>6. Overlaid(q, i, r, n) \in Seq(Vals) /\ Len(Overlaid(q, i, r, n)) = n
  <2>1. i <= n /\ n <= n
    BY <1>l
  <2>2. i <= Len(q) /\ n <= Len(q)
    BY <1>1, <2>1
  <2>3. IsOverlay(Overlaid(q, i, r, n), q, i, r, n)
    BY <1>1, <1>l, <2>2, OverlaidIs
  <2> QED BY <2>3 DEF IsOverlay
<1> QED
  BY <1>4, <1>5, <1>6, <1>n DEF Leaves

\* append, in place or in a new buffer.
LEMMA AppendedIs ==
  ASSUME NEW h, NEW r, NEW g, Sound(h), r \in Seq(Vals), g \in appended(h, r)
  PROVE  Leaves(h, g, array(h) \o r) /\ array(h) \o r \in Seq(Vals)
<1> DEFINE n == h.arr.len
           m == h.arr.len + Len(r)
           q == array(h)
<1>1. /\ h \in Heaps /\ n \in Nat /\ Len(r) \in Nat /\ m \in Nat
      /\ q \in Seq(Vals) /\ Len(q) = n /\ h.arr \in Windows
  BY ArrayIs, LenProperties
<1>2. q \o r \in Seq(Vals) /\ Len(q \o r) = m
  BY <1>1, JoinIs DEF IsJoin
<1>3. CASE h.arr.off + n + Len(r) <= Len(h.mem[h.arr.buf])
  <2>1. g = Written(h, n, r, m)
    BY <1>3 DEF appended, Written
  <2>2. Writable(h, n, r, m)
    BY <1>1, <1>3 DEF Writable
  <2>3. Sound(g) /\ g.kept = h.kept /\ g.arr = [h.arr EXCEPT !.len = m] /\ array(g) = Overlaid(q, n, r, m)
    BY <2>1, <2>2, OverwriteIs
  <2>4. g.arr.len = m
    BY <2>3, <1>1, LengthOf
  <2>5. Overlaid(q, n, r, m) = q \o r
    BY <1>1, OverlaidBehind
  <2> QED BY <1>2, <2>3, <2>4, <2>5 DEF Leaves
<1>4. CASE ~(h.arr.off + n + Len(r) <= Len(h.mem[h.arr.buf]))
  <2>1. PICK spare \in 0..MaxSpare : g = moved(h, q \o r, spare)
    BY <1>4 DEF appended
  <2>2. spare \in Nat
    BY CArrayConstants
  <2>3. ASSUME NEW t \in Seq(Vals), g = moved(h, t, spare)
        PROVE  Sound(g) /\ g.kept = h.kept /\ g.arr.len = Len(t) /\ array(g) = t
    BY <2>2, <2>3, MovedIs
  <2> QED BY <1>2, <2>1, <2>3 DEF Leaves
<1> QED
  BY <1>3, <1>4

-----------------------------------------------------------------------------
(***************************************************************************)
(* What each operation leaves in the array.                                *)
(***************************************************************************)
LEMMA PartIs ==
  ASSUME NEW h, NEW i, NEW j, Sound(h), i \in Nat, j \in Nat, i <= j, j <= h.arr.len
  PROVE  /\ items(h, part(h.arr, i, j)) = Slice(array(h), i, j)
         /\ part(h.arr, i, j) \in Windows
<1> DEFINE g == Sliced(h, i, j)
<1>2. Sound(g) /\ g.mem = h.mem /\ g.arr = part(h.arr, i, j) /\ array(g) = Slice(array(h), i, j)
  BY SlicedIs
<1> HIDE DEF g
<1>3. items(g, g.arr) = items(h, g.arr)
  BY <1>2 DEF items
<1>4. g.arr \in Windows
  BY <1>2, ArrayIs
<1> QED
  BY <1>2, <1>3, <1>4 DEF array

LEMMA Shortened ==
  ASSUME NEW h, NEW i, Sound(h), i \in Nat
  PROVE  [h EXCEPT !.arr.len = i] = Sliced(h, 0, i)
<1>1. h \in Heaps /\ h.arr \in Windows
  BY ArrayIs
<1>2. part(h.arr, 0, i) = [h.arr EXCEPT !.len = i]
  <2> DEFINE w == h.arr
  <2>1. w.off \in Nat /\ w = [buf |-> w.buf, off |-> w.off, len |-> w.len]
    BY <1>1, WindowFields
  <2> HIDE DEF w
  <2>2. w.off + 0 = w.off /\ i - 0 = i
    BY <2>1
  <2>3. part(w, 0, i) = [buf |-> w.buf, off |-> w.off, len |-> i]
    BY <2>2 DEF part
  <2>4. [w EXCEPT !.len = i] = [buf |-> w.buf, off |-> w.off, len |-> i]
    BY <2>1
  <2> QED BY <2>3, <2>4 DEF w
<1> DEFINE m == h.mem
           a == h.arr
           k == h.kept
<1>3. h = Heap(m, a, k)
  BY <1>1, HeapOf
<1>a. a = h.arr
  OBVIOUS
<1> HIDE DEF m, a, k
<1>4. [Heap(m, a, k) EXCEPT !.arr.len = i] = Heap(m, [a EXCEPT !.len = i], k)
  BY DEF Heap
<1>5. ASSUME NEW x PROVE [Heap(m, a, k) EXCEPT !.arr = x] = Heap(m, x, k)
  BY DEF Heap
<1>6. [h EXCEPT !.arr.len = i] = [Heap(m, a, k) EXCEPT !.arr.len = i]
  BY <1>3
<1>7. [h EXCEPT !.arr = part(a, 0, i)] = Heap(m, part(a, 0, i), k)
  BY <1>3, <1>5
<1> QED
  BY <1>2, <1>4, <1>6, <1>7, <1>a DEF Sliced

LEMMA SlicedLeaves ==
  ASSUME NEW h, NEW i, NEW j, NEW g,
         Sound(h), i \in Nat, j \in Nat, i <= j, j <= h.arr.len, g = Sliced(h, i, j)
  PROVE  Leaves(h, g, Slice(array(h), i, j)) /\ g.mem = h.mem
<1>1. /\ Sound(g) /\ g.kept = h.kept /\ g.mem = h.mem
      /\ array(g) = Slice(array(h), i, j)
  BY SlicedIs
<1>2. g.arr.len = Len(array(g))
  BY <1>1, ArrayIs
<1> QED
  BY <1>1, <1>2 DEF Leaves

LEMMA SetAtIs ==
  ASSUME NEW h, NEW i, NEW v, NEW g, Sound(h), v \in Vals, i \in 0..h.arr.len - 1, g = setAt(h, i, v)
  PROVE  Leaves(h, g, Seqs!ReplaceAt(array(h), i + 1, v))
<1> DEFINE q == array(h)
           n == h.arr.len
           one == <<v>>
           s == Overlaid(q, i, one, n)
           t == Seqs!ReplaceAt(q, i + 1, v)
<1>1. q \in Seq(Vals) /\ Len(q) = n /\ n \in Nat /\ DOMAIN q = 1..n
  BY ArrayIs, LengthIsNat
<1>2. one \in Seq(Vals) /\ Len(one) = 1 /\ one[1] = v
  BY OneItem
<1>3. i \in Nat /\ i + 1 <= n /\ i <= n
  BY <1>1
<1>4. g = put(h, h.arr, i, one)
  BY <1>1 DEF setAt, inRange
<1> HIDE DEF one
<1>5. Leaves(h, g, s)
  <2>1. i + Len(one) <= h.arr.len
    BY <1>2, <1>3
  <2> QED BY <1>2, <1>3, <1>4, <2>1, PutIs
<1>7. t = [q EXCEPT ![i + 1] = v] /\ s = Overlaid(q, i, one, n)
  BY DEF Seqs!ReplaceAt
<1> HIDE DEF s, t, q, n
<1>6. s \in Seq(Vals) /\ Len(s) = n /\ \A k \in 1..n : s[k] = IF k - i \in 1..Len(one) THEN one[k - i] ELSE q[k]
  <2>1. i <= Len(q) /\ n <= Len(q)
    BY <1>1, <1>3
  <2>2. IsOverlay(Overlaid(q, i, one, n), q, i, one, n)
    BY <1>1, <1>2, <1>3, <2>1, OverlaidIs
  <2> QED BY <1>7, <2>2 DEF IsOverlay
<1>8. t = [k \in 1..n |-> t[k]] /\ \A k \in 1..n : t[k] = IF k = i + 1 THEN v ELSE q[k]
  BY <1>1, <1>3, <1>7
<1>9. \A k \in 1..n : s[k] = t[k]
  <2> SUFFICES ASSUME NEW k \in 1..n PROVE s[k] = t[k]
    OBVIOUS
  <2>1. k - i \in 1..Len(one) <=> k = i + 1
    BY <1>1, <1>2, <1>3
  <2>2. k = i + 1 => k - i = 1
    BY <1>3
  <2> QED BY <1>2, <1>6, <1>8, <2>1, <2>2
<1>10. s = [k \in 1..n |-> s[k]]
  BY <1>6, LengthIsNat
<1>11. s = t
  BY <1>8, <1>9, <1>10
<1> QED
  BY <1>5, <1>11 DEF q, n, s, t

LEMMA ReplacedIs ==
  ASSUME NEW h, NEW q, NEW g, Sound(h), q \in Seq(Vals), g = replaced(h, q)
  PROVE  Leaves(h, g, [j \in 1..Len(array(h)) |-> IF j <= Len(q) THEN q[j] ELSE array(h)[j]])
<1> DEFINE a == array(h)
           n == h.arr.len
           m == Min({Len(q), n})
           r == Slice(q, 0, m)
           s == Overlaid(a, 0, r, n)
<1>1. a \in Seq(Vals) /\ Len(a) = n /\ n \in Nat /\ Len(q) \in Nat
  BY ArrayIs, LengthIsNat
<1>2. m \in {Len(q), n} /\ m <= Len(q) /\ m <= n
  <2>1. {Len(q), n} \in SUBSET Nat /\ {Len(q), n} # {}
    BY <1>1
  <2> QED BY <2>1, LeastIs
<1>m. m \in Nat
  BY <1>1, <1>2
<1> HIDE DEF m
<1>3. r \in Seq(Vals) /\ Len(r) = m /\ \A k \in 1..m : r[k] = q[k]
  <2>1. IsSlice(r, q, 0, m)
    <3>1. 0 \in Nat /\ 0 <= m
      BY <1>m
    <3> QED BY <1>2, <1>m, <3>1, SliceIs
  <2>2. m - 0 = m /\ \A k \in 1..m : 0 + k = k
    BY <1>m
  <2> HIDE DEF r
  <2> QED BY <2>1, <2>2 DEF IsSlice
<1>4. g = put(h, h.arr, 0, r)
  <2>1. 0 + 1 = 1
    OBVIOUS
  <2> QED BY <2>1 DEF replaced, m, Slice
<1> HIDE DEF r
<1>5. Leaves(h, g, s)
  <2>1. 0 \in Nat /\ 0 + Len(r) <= h.arr.len
    BY <1>2, <1>3, <1>m
  <2> QED BY <1>3, <1>4, <2>1, PutIs
<1>6. s = [k \in 1..n |-> IF k - 0 \in 1..m THEN r[k - 0] ELSE a[k]]
  BY <1>3 DEF Overlaid
<1> HIDE DEF s, a, n
<1>7. \A k \in 1..n : (IF k - 0 \in 1..m THEN r[k - 0] ELSE a[k]) = IF k <= Len(q) THEN q[k] ELSE a[k]
  <2> SUFFICES ASSUME NEW k \in 1..n
               PROVE  (IF k - 0 \in 1..m THEN r[k - 0] ELSE a[k]) = IF k <= Len(q) THEN q[k] ELSE a[k]
    OBVIOUS
  <2>1. k - 0 = k /\ (k \in 1..m <=> k <= Len(q))
    BY <1>1, <1>2
  <2> QED BY <1>3, <2>1
<1>8. s = [j \in 1..n |-> IF j <= Len(q) THEN q[j] ELSE a[j]]
  BY <1>6, <1>7
<1> QED
  BY <1>1, <1>5, <1>8 DEF a, n, s

LEMMA InsertedAtIs ==
  ASSUME NEW h, NEW i, NEW v, NEW g,
         Sound(h), i \in Nat, i <= h.arr.len, v \in Vals, g \in insertedAt(h, i, v)
  PROVE  Leaves(h, g, With(array(h), i, v)) /\ g.arr.len = h.arr.len + 1
<1> DEFINE a == array(h)
           n == h.arr.len
           front == Sliced(h, 0, i)
           rear == Slice(a, i, n)
           one == <<v>>
<1>1. a \in Seq(Vals) /\ Len(a) = n /\ n \in Nat /\ i <= n /\ 0 \in Nat /\ 0 <= i /\ n <= n
  BY ArrayIs
<1>2. Leaves(h, front, Slice(a, 0, i))
  <2>1. 0 <= i /\ i <= h.arr.len /\ 0 \in Nat
    BY <1>1
  <2> QED BY <2>1, SlicedLeaves
<1>3. items(h, part(h.arr, i, n)) = rear
  BY <1>1, PartIs
<1>4. [h EXCEPT !.arr.len = i] = front
  BY Shortened
<1>5. one \in Seq(Vals) /\ Len(one) = 1
  BY OneItem
<1>6. IsSlice(Slice(a, 0, i), a, 0, i) /\ IsSlice(rear, a, i, n)
  <2>1. i <= Len(a) /\ n <= Len(a)
    BY <1>1
  <2> HIDE DEF a, n
  <2> QED BY <1>1, <2>1, SliceIs
<1>a. a = array(h) /\ n = h.arr.len /\ rear = Slice(a, i, n)
  OBVIOUS
<1>7. PICK f \in appended(front, one) : g \in appended(f, rear)
  <2>1. g \in UNION {appended(f, items(h, part(h.arr, i, n))) : f \in appended([h EXCEPT !.arr.len = i], one)}
    BY DEF insertedAt
  <2> HIDE DEF front, one, rear
  <2>2. g \in UNION {appended(f, rear) : f \in appended(front, one)}
    BY <1>3, <1>4, <2>1
  <2> QED BY <2>2
<1> HIDE DEF a, n, front, rear, one
<1>8. Leaves(front, f, array(front) \o one)
  BY <1>2, <1>5, <1>7, AppendedIs DEF Leaves
<1>9. Leaves(f, g, array(f) \o rear)
  <2>1. Sound(f) /\ rear \in Seq(Vals)
    BY <1>6, <1>8 DEF Leaves, IsSlice
  <2> QED BY <1>7, <2>1, AppendedIs
<1>10. g.kept = h.kept /\ Sound(g) /\ array(g) = (Slice(a, 0, i) \o one) \o rear
  BY <1>2, <1>8, <1>9 DEF Leaves
<1>11. array(g) = With(a, i, v)
  BY <1>1, <1>10, <1>a DEF With, one
<1>12. Len(Slice(a, 0, i)) = i /\ Len(rear) = n - i /\ Slice(a, 0, i) \in Seq(Vals) /\ rear \in Seq(Vals)
  BY <1>1, <1>6 DEF IsSlice
<1>13. Slice(a, 0, i) \o one \in Seq(Vals) /\ Len(Slice(a, 0, i) \o one) = i + 1
  <2>1. IsJoin(Slice(a, 0, i) \o one, Slice(a, 0, i), one)
    BY <1>5, <1>12, JoinIs
  <2> QED BY <1>5, <1>12, <2>1 DEF IsJoin
<1>14. Len((Slice(a, 0, i) \o one) \o rear) = n + 1
  <2>1. IsJoin((Slice(a, 0, i) \o one) \o rear, Slice(a, 0, i) \o one, rear)
    BY <1>12, <1>13, JoinIs
  <2>2. (i + 1) + (n - i) = n + 1
    BY <1>1
  <2> QED BY <1>12, <1>13, <2>1, <2>2 DEF IsJoin
<1>15. g.arr.len = Len(array(g))
  BY <1>10, ArrayIs
<1> QED
  BY <1>10, <1>11, <1>14, <1>15, <1>a DEF Leaves

LEMMA CutIs ==
  ASSUME NEW h, NEW i, NEW g, Sound(h), i \in Nat, i < h.arr.len, g = cut(h, i)
  PROVE  Leaves(h, g, LeftOut(array(h), i)) /\ g.arr.len = h.arr.len - 1
<1> DEFINE a == array(h)
           n == h.arr.len
           d == i + 1
           m == n - 1
           rear == Slice(a, d, n)
           o == h.arr.off
           l == Len(h.mem[h.arr.buf])
<1>1. /\ a \in Seq(Vals) /\ Len(a) = n /\ n \in Nat /\ i < n /\ i \in Nat /\ o \in Nat /\ l \in Nat /\ o + n <= l
      /\ h.arr \in Windows
  BY ArrayIs
<1>2. d \in Nat /\ d <= n /\ m \in Nat /\ n <= n /\ i <= n /\ m <= n
  BY <1>1
<1>d. d = i + 1
  OBVIOUS
<1>3. items(h, part(h.arr, d, n)) = rear /\ IsSlice(rear, a, d, n)
  <2>1. d \in Nat /\ n \in Nat /\ d <= n /\ n <= h.arr.len /\ n <= Len(a)
    BY <1>1, <1>2
  <2>a. n = h.arr.len /\ a = array(h)
    OBVIOUS
  <2> HIDE DEF d, n, a
  <2>2. items(h, part(h.arr, d, n)) = Slice(array(h), d, n)
    BY <2>1, PartIs
  <2>3. IsSlice(Slice(a, d, n), a, d, n)
    BY <1>1, <2>1, SliceIs
  <2> QED BY <2>2, <2>3, <2>a
<1>4. g = Written(h, i, rear, m)
  <2> HIDE DEF rear
  <2> QED BY <1>3 DEF cut, Written
<1>5. rear \in Seq(Vals) /\ Len(rear) = n - d
  BY <1>3 DEF IsSlice
<1>a. a = array(h) /\ n = h.arr.len /\ d = i + 1 /\ m = n - 1 /\ rear = Slice(a, d, n) /\ o = h.arr.off
      /\ l = Len(h.mem[h.arr.buf])
  OBVIOUS
<1> HIDE DEF a, n, d, m, rear, o, l
<1>6. Writable(h, i, rear, m)
  <2>1. o + i + (n - d) <= l
    BY <1>1, <1>d
  <2>2. o + i + Len(rear) <= l
    BY <1>5, <2>1
  <2> QED BY <1>1, <1>2, <1>5, <1>a, <2>2 DEF Writable
<1>7. Sound(g) /\ g.kept = h.kept /\ g.arr = [h.arr EXCEPT !.len = m] /\ array(g) = Overlaid(a, i, rear, m)
  <2>1. /\ Sound(g) /\ g.kept = h.kept /\ g.arr = [h.arr EXCEPT !.len = m]
        /\ array(g) = Overlaid(array(h), i, rear, m)
    BY <1>4, <1>6, OverwriteIs
  <2> QED BY <1>a, <2>1
<1>8. Overlaid(a, i, Slice(a, d, Len(a)), m) = LeftOut(a, i)
  <2>1. i < Len(a) /\ d = i + 1 /\ m = Len(a) - 1
    BY <1>1, <1>a
  <2> QED BY <1>1, <2>1, OverlaidWithout
<1>9. g.arr.len = m
  BY <1>1, <1>7, LengthOf
<1>10. g.arr.len = Len(array(g))
  BY <1>7, ArrayIs
<1> QED
  BY <1>1, <1>7, <1>8, <1>9, <1>10, <1>a DEF Leaves

LEMMA RemovedAtIs ==
  ASSUME NEW h, NEW i, NEW g, Sound(h), i \in 0..h.arr.len - 1, g = removedAt(h, i)
  PROVE  Leaves(h, g, LeftOut(array(h), i)) /\ g.arr.len = h.arr.len - 1
<1> DEFINE a == array(h)
           n == h.arr.len
           m == n - 1
<1>1. a \in Seq(Vals) /\ Len(a) = n /\ n \in Nat
  BY ArrayIs
<1>2. i \in Nat /\ i < n /\ 0 < n /\ m \in Nat /\ m <= n
  BY <1>1
<1>a. a = array(h) /\ n = h.arr.len /\ m = n - 1
  OBVIOUS
<1> HIDE DEF a, n, m
<1>3. inRange(h, i)
  BY <1>2, <1>a DEF inRange
<1>w. IsWithout(LeftOut(a, i), a, i)
  BY <1>1, <1>2, WithoutIs
<1>4. Len(LeftOut(a, i)) = n - 1
  BY <1>1, <1>w DEF IsWithout
<1>5. CASE i = 0
  <2>1. g = Sliced(h, 1, n)
    BY <1>3, <1>5, <1>a DEF removedAt, Sliced
  <2>2. 1 \in Nat /\ n \in Nat /\ 1 <= n /\ n <= h.arr.len
    BY <1>1, <1>2, <1>a
  <2>3. Leaves(h, g, Slice(array(h), 1, n))
    BY <2>1, <2>2, SlicedLeaves
  <2>4. Slice(a, 1, Len(a)) = LeftOut(a, 0)
    BY <1>1, <1>2, DroppedFirst
  <2>5. Leaves(h, g, LeftOut(a, i))
    BY <1>1, <1>5, <1>a, <2>3, <2>4
  <2> QED BY <1>4, <1>a, <2>5 DEF Leaves
<1>6. CASE i # 0 /\ i = n - 1
  <2>1. g = Sliced(h, 0, i)
    BY <1>3, <1>6, <1>a DEF removedAt, Sliced
  <2>2. 0 \in Nat /\ i \in Nat /\ 0 <= i /\ i <= h.arr.len
    BY <1>1, <1>2, <1>a
  <2>3. Leaves(h, g, Slice(array(h), 0, i))
    BY <2>1, <2>2, SlicedLeaves
  <2>4. Slice(a, 0, i) = LeftOut(a, i)
    BY <1>1, <1>2, <1>6, WithoutLast
  <2>5. Leaves(h, g, LeftOut(a, i))
    BY <1>a, <2>3, <2>4
  <2> QED BY <1>4, <1>a, <2>5 DEF Leaves
<1>7. CASE i # 0 /\ i # n - 1
  <2>1. g = cut(h, i)
    BY <1>3, <1>7, <1>a DEF removedAt
  <2> QED BY <1>2, <1>a, <2>1, CutIs
<1> QED
  BY <1>5, <1>6, <1>7

LEMMA PushedLeftIs ==
  ASSUME NEW h, NEW q, NEW g, Sound(h), q \in Seq(Vals), g \in pushedLeft(h, q)
  PROVE  Leaves(h, g, q \o array(h)) /\ g.arr.len = Len(q) + h.arr.len
<1> DEFINE a == array(h)
           t == q \o array(h)
<1>1. a \in Seq(Vals) /\ Len(a) = h.arr.len
  BY ArrayIs
<1>2. IsJoin(t, q, a)
  BY <1>1, JoinIs
<1>3. PICK spare \in 0..MaxSpare : g = moved(h, t, spare)
  BY DEF pushedLeft
<1>t. t = q \o array(h)
  OBVIOUS
<1> HIDE DEF a, t
<1>4. spare \in Nat
  BY CArrayConstants
<1>5. t \in Seq(Vals) /\ Len(t) = Len(q) + h.arr.len
  BY <1>1, <1>2 DEF IsJoin
<1>6. Sound(g) /\ g.kept = h.kept /\ g.arr.len = Len(t) /\ array(g) = t
  BY <1>3, <1>4, <1>5, MovedIs
<1> QED
  BY <1>5, <1>6, <1>t DEF Leaves

\* Every cell that a window of a tidy heap shows holds an item.
LEMMA TidyShows ==
  ASSUME NEW h, Tidy(h), NEW v \in {h.arr, h.kept.win}
  PROVE  Fits(h, v) /\ Shows(h, v)
<1>1. h \in Heaps /\ v.off + v.len <= Len(h.mem[v.buf])
  BY DEF Tidy
<1>2. v \in Windows
  BY <1>1, HeapFields
<1>3. v.buf \in Bufs /\ v.off \in Nat /\ v.len \in Nat
  BY <1>2, WindowFields
<1>4. h.mem[v.buf] \in Seq(Cells) /\ Len(h.mem[v.buf]) \in Nat /\ DOMAIN h.mem[v.buf] = 1..Len(h.mem[v.buf])
  BY <1>1, <1>3, BufferIs
<1>5. ASSUME NEW n \in 1..v.len PROVE h.mem[v.buf][v.off + n] \in Vals
  <2>1. v.off + n \in 1..Len(h.mem[v.buf]) /\ v.off + n > v.off /\ v.off + n <= v.off + v.len
    <3>1. PICK c : c = Len(h.mem[v.buf])
      OBVIOUS
    <3>2. v.off \in Nat /\ v.len \in Nat /\ c \in Nat /\ v.off + v.len <= c
      BY <1>1, <1>3, <1>4, <3>1
    <3>3. v.off + n \in 1..c /\ v.off + n > v.off /\ v.off + n <= v.off + v.len
      BY <3>2
    <3> QED BY <3>1, <3>3
  <2>2. Inside(v, v.buf, v.off + n)
    BY <2>1 DEF Inside
  <2>3. h.mem[v.buf][v.off + n] # Junk
    BY <1>3, <1>4, <2>1, <2>2 DEF Tidy
  <2>4. h.mem[v.buf][v.off + n] \in Cells
    BY <1>4, <2>1, ElementOfSeq
  <2> QED BY <2>3, <2>4 DEF Cells
<1> QED
  BY <1>1, <1>2, <1>5 DEF Fits, Shows

LEMMA PartOfIs ==
  ASSUME NEW h \in Heaps, NEW v, NEW w, Fits(h, v), Shows(h, v), w \in partsOf(v)
  PROVE  Fits(h, w) /\ Shows(h, w) /\ w.buf = v.buf /\ v.off <= w.off
<1>1. v \in Windows /\ v.off + v.len <= Len(h.mem[v.buf])
  BY DEF Fits
<1>2. v.buf \in Bufs /\ v.off \in Nat /\ v.len \in Nat
  BY <1>1, WindowFields
<1>3. PICK i \in 0..v.len : \E j \in i..v.len : w = part(v, i, j)
  BY DEF partsOf
<1>4. PICK j \in i..v.len : w = part(v, i, j)
  BY <1>3
<1>5. w = [buf |-> v.buf, off |-> v.off + i, len |-> j - i]
  BY <1>4 DEF part
<1>6. /\ w.buf = v.buf /\ w.off = v.off + i /\ w.len = j - i
      /\ i \in Nat /\ j \in Nat /\ i <= j /\ j <= v.len
  BY <1>2, <1>3, <1>4, <1>5
<1>7. w.off \in Nat /\ w.len \in Nat /\ w.off + w.len <= v.off + v.len /\ v.off <= w.off
  BY <1>2, <1>6
<1>8. w \in Windows
  BY <1>2, <1>5, <1>6, <1>7 DEF Windows
<1>9. Len(h.mem[v.buf]) \in Nat
  BY <1>2, BufferIs
<1>10. Fits(h, w)
  <2>1. w.off + w.len <= Len(h.mem[v.buf])
    BY <1>1, <1>2, <1>7, <1>9
  <2> QED BY <1>6, <1>8, <2>1 DEF Fits
<1>11. Shows(h, w)
  <2> SUFFICES ASSUME NEW n \in 1..w.len PROVE h.mem[w.buf][w.off + n] \in Vals
    BY DEF Shows
  <2>1. i + n \in 1..v.len /\ w.off + n = v.off + (i + n)
    BY <1>2, <1>6
  <2> QED BY <1>6, <2>1 DEF Shows
<1> QED
  BY <1>6, <1>7, <1>10, <1>11

\* The array made of a slice that a caller holds.
LEMMA HandedBackIs ==
  ASSUME NEW h, NEW w, NEW g, Sound(h), Tidy(h), w \in handles(h), g = handedBack(h, w)
  PROVE  /\ Sound(g) /\ g.arr = w /\ array(g) = items(h, w)
         /\ items(h, w) \in Seq(Vals) /\ Len(items(h, w)) = w.len /\ w.len \in Nat
<1> DEFINE v == h.kept.win
           f == h.kept.firm /\ w \in partsOf(h.arr)
           k == [win |-> v, was |-> h.kept.was, firm |-> f]
<1>1. h \in Heaps /\ Fits(h, h.arr) /\ Shows(h, h.arr) /\ KeptInv(h)
  BY DEF Sound
<1>2. Fits(h, v) /\ Shows(h, v)
  BY TidyShows
<1>3. Fits(h, w) /\ Shows(h, w)
  <2>1. CASE w \in partsOf(h.arr)
    BY <1>1, <2>1, PartOfIs
  <2>2. CASE w \in partsOf(v)
    BY <1>1, <1>2, <2>2, PartOfIs
  <2> QED BY <2>1, <2>2 DEF handles
<1>4. /\ h.mem \in [Bufs -> Seq(Cells)] /\ v \in Windows /\ h.kept.was \in Seq(Vals) /\ h.kept.firm \in BOOLEAN
      /\ h.kept = [win |-> v, was |-> h.kept.was, firm |-> h.kept.firm]
      /\ h = [mem |-> h.mem, arr |-> h.arr, kept |-> h.kept]
  BY <1>1, HeapFields
<1>5. g = Heap(h.mem, w, k)
  <2>1. PICK p : p = f
    OBVIOUS
  <2>2. PICK c : c = h.kept
    OBVIOUS
  <2>3. c = [win |-> v, was |-> h.kept.was, firm |-> h.kept.firm]
    BY <1>4, <2>2
  <2>4. [c EXCEPT !.firm = p] = [win |-> v, was |-> h.kept.was, firm |-> p]
    BY <2>3
  <2>5. h = Heap(h.mem, h.arr, c)
    BY <1>1, <2>2, HeapOf
  <2>6. g = [h EXCEPT !.arr = w, !.kept.firm = p]
    BY <2>1 DEF handedBack
  <2>7. ASSUME NEW m, NEW a PROVE [Heap(m, a, c) EXCEPT !.arr = w, !.kept.firm = p] = Heap(m, w, [c EXCEPT !.firm = p])
    <3>1. [Heap(m, a, c) EXCEPT !.arr = w] = Heap(m, w, c)
      BY DEF Heap
    <3>2. [Heap(m, w, c) EXCEPT !.kept.firm = p] = Heap(m, w, [c EXCEPT !.firm = p])
      BY DEF Heap
    <3>3. ASSUME NEW x PROVE [x EXCEPT !.arr = w, !.kept.firm = p] = [[x EXCEPT !.arr = w] EXCEPT !.kept.firm = p]
      OBVIOUS
    <3> QED BY <3>1, <3>2, <3>3
  <2>8. PICK e : e = Heap(h.mem, h.arr, c)
    OBVIOUS
  <2>9. [e EXCEPT !.arr = w, !.kept.firm = p] = Heap(h.mem, w, [c EXCEPT !.firm = p])
    BY <2>7, <2>8
  <2>10. k = [c EXCEPT !.firm = p]
    BY <2>1, <2>4
  <2> QED BY <2>5, <2>6, <2>8, <2>9, <2>10
<1>6. f \in BOOLEAN /\ k.win = v /\ k.was = h.kept.was /\ (k.firm <=> f)
  BY <1>4
<1>7. k \in [win : Windows, was : Seq(Vals), firm : BOOLEAN]
  <2> HIDE DEF f, v
  <2> QED BY <1>4, <1>6
<1> HIDE DEF k
<1>8. g.mem = h.mem /\ g.arr = w /\ g.kept = k
  <2>1. PICK e : e = Heap(h.mem, w, k)
    OBVIOUS
  <2>2. e.mem = h.mem /\ e.arr = w /\ e.kept = k
    BY <2>1 DEF Heap
  <2> QED BY <1>5, <2>1, <2>2
<1>9. w \in Windows
  BY <1>3 DEF Fits
<1>10. g \in Heaps
  <2>1. Heap(h.mem, w, k) \in Heaps
    BY <1>4, <1>7, <1>9 DEF Heaps, Heap, Cells
  <2> QED BY <1>5, <2>1
<1>11. array(g) = items(h, w)
  BY <1>8 DEF array, items
<1>12. items(h, w) \in Seq(Vals) /\ Len(items(h, w)) = w.len /\ w.len \in Nat
  BY <1>1, <1>3, <1>9, ItemsAre, WindowFields
<1>13. KeptInv(g)
  <2> SUFFICES ASSUME f PROVE KeptInv(g)
    BY <1>6, <1>8 DEF KeptInv
  <2>1. Fits(h, v) /\ Shows(h, v) /\ items(h, v) = h.kept.was /\ Behind(h.arr, v)
    BY <1>1 DEF KeptInv
  <2>2. w.buf = h.arr.buf /\ h.arr.off <= w.off
    BY <1>1, PartOfIs
  <2>3. h.arr.off \in Nat /\ v.off \in Nat /\ v.len \in Nat /\ w.off \in Nat
    BY <1>1, <1>4, <1>9, WindowFields DEF Fits
  <2> HIDE DEF v, f
  <2>4. Behind(w, v)
    BY <2>1, <2>2, <2>3 DEF Behind
  <2> QED BY <1>6, <1>8, <2>1, <2>4 DEF KeptInv, Fits, Shows, items
<1>14. Fits(g, w) /\ Shows(g, w)
  BY <1>3, <1>8 DEF Fits, Shows
<1> QED
  BY <1>8, <1>10, <1>11, <1>12, <1>13, <1>14 DEF Sound

\* What lay in the array is written after the slice that a caller holds.
LEMMA PushedLeftOntoIs ==
  ASSUME NEW h, NEW w, NEW g, Sound(h), Tidy(h), w \in handles(h), g \in pushedLeftOnto(h, w)
  PROVE  /\ Sound(g) /\ array(g) = items(h, w) \o array(h)
         /\ g.arr.len = w.len + h.arr.len /\ w.len \in Nat
<1> DEFINE f == handedBack(h, w)
           q == items(h, w)
           r == array(h)
<1>1. Sound(f) /\ array(f) = q /\ q \in Seq(Vals) /\ Len(q) = w.len /\ w.len \in Nat
  BY HandedBackIs
<1>2. r \in Seq(Vals) /\ Len(r) = h.arr.len
  BY ArrayIs
<1>3. g \in appended(f, r)
  BY DEF pushedLeftOnto
<1>q. q = items(h, w) /\ r = array(h)
  OBVIOUS
<1> HIDE DEF f, q, r
<1>4. Leaves(f, g, array(f) \o r)
  BY <1>1, <1>2, <1>3, AppendedIs
<1>5. IsJoin(q \o r, q, r)
  BY <1>1, <1>2, JoinIs
<1>6. Len(q \o r) = w.len + h.arr.len
  BY <1>1, <1>2, <1>5 DEF IsJoin
<1> QED
  BY <1>1, <1>4, <1>6, <1>q DEF Leaves

LEMMA EmptySlice ==
  ASSUME NEW q, q \in Seq(Vals)
  PROVE  Slice(q, 0, 0) = <<>>
<1>1. Len(q) \in Nat
  BY LengthIsNat
<1>2. IsSlice(Slice(q, 0, 0), q, 0, 0)
  BY <1>1, SliceIs
<1> DEFINE s == Slice(q, 0, 0)
<1> HIDE DEF s
<1>3. s \in Seq(Vals) /\ Len(s) = 0
  BY <1>2 DEF s, IsSlice
<1>4. s = <<>>
  BY <1>3, NoItem, SameSeq
<1> QED
  BY <1>4 DEF s

\* The first i items of the array stay, a caller is given a window on its buffer.
LEMMA HandedOut ==
  ASSUME NEW h, NEW w, NEW i, NEW g, Sound(h), w \in Windows, i \in Nat, i <= h.arr.len,
         g = [shared(h, w, FALSE) EXCEPT !.arr.len = i]
  PROVE  /\ Sound(g) /\ ~g.kept.firm /\ g.arr.len = i /\ array(g) = Slice(array(h), 0, i)
         /\ Given(g) = items(h, w)
<1> DEFINE f == shared(h, w, FALSE)
<1>1. /\ Sound(f) /\ f.mem = h.mem /\ f.arr = h.arr /\ array(f) = array(h)
      /\ f.kept.win = w /\ ~f.kept.firm
  BY SharedIs
<1>f. g = [f EXCEPT !.arr.len = i]
  OBVIOUS
<1> HIDE DEF f
<1>2. g = Sliced(f, 0, i)
  BY <1>1, <1>f, Shortened
<1>3. Leaves(f, g, Slice(array(f), 0, i)) /\ g.mem = f.mem
  <2>1. Sound(f) /\ 0 \in Nat /\ 0 <= i /\ i <= f.arr.len
    BY <1>1
  <2>2. Leaves(f, Sliced(f, 0, i), Slice(array(f), 0, i)) /\ Sliced(f, 0, i).mem = f.mem
    BY <2>1, SlicedLeaves
  <2> QED BY <1>2, <2>2
<1>4. Sound(g) /\ g.kept = f.kept /\ array(g) = Slice(array(h), 0, i) /\ g.arr.len = Len(array(g))
  BY <1>1, <1>3 DEF Leaves
<1>5. IsSlice(Slice(array(h), 0, i), array(h), 0, i)
  <2>1. 0 \in Nat /\ 0 <= i /\ array(h) \in Seq(Vals) /\ i <= Len(array(h))
    BY ArrayIs
  <2> QED BY <2>1, SliceIs
<1>6. g.arr.len = i
  <2>1. i - 0 = i
    OBVIOUS
  <2> QED BY <1>4, <1>5, <2>1 DEF IsSlice
<1>7. Given(g) = items(h, w)
  BY <1>1, <1>3, <1>4 DEF Given, items
<1> QED
  BY <1>1, <1>4, <1>6, <1>7

LEMMA PoppedLeftsIs ==
  ASSUME NEW h, NEW size, NEW g, Sound(h), size \in Nat, g = poppedLefts(h, size)
  PROVE  /\ Sound(g) /\ g.arr.len <= h.arr.len
         /\ size > 0 /\ h.arr.len > 0 => Given(g) \o array(g) = array(h) /\ Len(Given(g)) <= size
<1> DEFINE a == array(h)
           n == h.arr.len
           w == h.arr
<1>1. a \in Seq(Vals) /\ Len(a) = n /\ n \in Nat /\ n <= n /\ h.arr \in Windows
  BY ArrayIs
<1>a. a = items(h, h.arr) /\ a = array(h) /\ n = h.arr.len
  BY DEF array
<1>2. CASE size <= 0 \/ n = 0
  <2>1. g = h
    BY <1>2 DEF poppedLefts
  <2> QED BY <1>1, <1>2, <2>1
<1>3. CASE size > 0 /\ n # 0 /\ size >= n
  <2>1. g = [shared(h, h.arr, FALSE) EXCEPT !.arr.len = 0]
    BY <1>3 DEF poppedLefts
  <2> HIDE DEF a, n
  <2>2. 0 \in Nat /\ 0 <= h.arr.len
    BY <1>1, <1>a
  <2>3. Sound(g) /\ g.arr.len = 0 /\ array(g) = Slice(array(h), 0, 0) /\ Given(g) = items(h, h.arr)
    BY <1>1, <2>1, <2>2, HandedOut
  <2>4. array(g) = <<>> /\ Given(g) = a
    BY <1>1, <1>a, <2>3, EmptySlice
  <2>5. a \o <<>> = a
    BY <1>1
  <2> QED BY <1>1, <1>3, <1>a, <2>2, <2>3, <2>4, <2>5
<1>4. CASE size > 0 /\ n # 0 /\ ~(size >= n)
  <2>1. g = GivenAway(h, size)
    BY <1>4 DEF poppedLefts, GivenAway
  <2> HIDE DEF a, n
  <2>2. size <= n /\ size <= h.arr.len /\ 0 \in Nat /\ 0 <= size
    BY <1>1, <1>4, <1>a
  <2>3. Sound(g) /\ g.arr.len = h.arr.len - size /\ Given(g) = Slice(array(h), 0, size) /\ array(g) = Slice(array(h), size, h.arr.len)
    BY <2>1, <2>2, GivenAwayIs
  <2>4. Slice(a, 0, size) \o Slice(a, size, Len(a)) = a
    BY <1>1, <2>2, SplitAt
  <2>5. IsSlice(Slice(a, 0, size), a, 0, size)
    BY <1>1, <2>2, SliceIs
  <2>6. Len(Given(g)) <= size
    BY <1>a, <2>3, <2>5 DEF IsSlice
  <2>7. Given(g) \o array(g) = a
    BY <1>1, <1>a, <2>3, <2>4
  <2>8. g.arr.len <= h.arr.len
    BY <1>1, <1>a, <2>3
  <2> QED BY <1>a, <2>3, <2>6, <2>7, <2>8
<1> QED
  BY <1>1, <1>2, <1>3, <1>4

LEMMA PoppedRightsIs ==
  ASSUME NEW h, NEW size, NEW g, Sound(h), size \in Nat, g = poppedRights(h, size)
  PROVE  /\ Sound(g) /\ g.arr.len <= h.arr.len
         /\ size > 0 /\ h.arr.len > 0 => array(g) \o Given(g) = array(h) /\ Len(Given(g)) <= size
<1> DEFINE a == array(h)
           n == h.arr.len
           at == n - size
<1>1. a \in Seq(Vals) /\ Len(a) = n /\ n \in Nat /\ n <= n /\ h.arr \in Windows
  BY ArrayIs
<1>a. a = items(h, h.arr) /\ a = array(h) /\ n = h.arr.len
  BY DEF array
<1>2. CASE size <= 0 \/ n = 0
  <2>1. g = h
    BY <1>2 DEF poppedRights
  <2> QED BY <1>1, <1>2, <2>1
<1>3. CASE size > 0 /\ n # 0 /\ at <= 0
  <2>1. g = [shared(h, h.arr, FALSE) EXCEPT !.arr.len = 0]
    BY <1>3 DEF poppedRights
  <2>0. n <= size
    BY <1>1, <1>3
  <2> HIDE DEF a, n
  <2>2. 0 \in Nat /\ 0 <= h.arr.len
    BY <1>1, <1>a
  <2>3. Sound(g) /\ g.arr.len = 0 /\ array(g) = Slice(array(h), 0, 0) /\ Given(g) = items(h, h.arr)
    BY <1>1, <2>1, <2>2, HandedOut
  <2>4. array(g) = <<>> /\ Given(g) = a
    BY <1>1, <1>a, <2>3, EmptySlice
  <2>5. <<>> \o a = a
    BY <1>1
  <2> QED BY <1>1, <1>a, <2>0, <2>2, <2>3, <2>4, <2>5
<1>4. CASE size > 0 /\ n # 0 /\ ~(at <= 0)
  <2>1. g = [shared(h, part(h.arr, at, n), FALSE) EXCEPT !.arr.len = at]
    BY <1>4 DEF poppedRights
  <2>2. at \in Nat /\ at <= n /\ n - at = size
    BY <1>1, <1>4
  <2> HIDE DEF a, n, at
  <2>3. items(h, part(h.arr, at, n)) = Slice(array(h), at, n) /\ part(h.arr, at, n) \in Windows
    <3>1. n <= h.arr.len
      BY <1>1, <1>a
    <3> QED BY <1>1, <2>2, <3>1, PartIs
  <2>4. Sound(g) /\ g.arr.len = at /\ array(g) = Slice(array(h), 0, at) /\ Given(g) = items(h, part(h.arr, at, n))
    <3> DEFINE x == part(h.arr, at, n)
    <3>1. at <= h.arr.len
      BY <1>a, <2>2
    <3>2. x \in Windows /\ g = [shared(h, x, FALSE) EXCEPT !.arr.len = at]
      BY <2>1, <2>3
    <3> HIDE DEF x
    <3>3. Sound(g) /\ g.arr.len = at /\ array(g) = Slice(array(h), 0, at) /\ Given(g) = items(h, x)
      BY <2>2, <3>1, <3>2, HandedOut
    <3> QED BY <3>3 DEF x
  <2>5. Slice(a, 0, at) \o Slice(a, at, Len(a)) = a
    <3>1. at <= Len(a)
      BY <1>1, <2>2
    <3> QED BY <1>1, <2>2, <3>1, SplitAt
  <2>6. IsSlice(Slice(a, at, n), a, at, n)
    <3>1. n <= Len(a)
      BY <1>1
    <3> QED BY <1>1, <2>2, <3>1, SliceIs
  <2>7. Len(Given(g)) <= size
    <3>1. Len(Given(g)) = n - at
      BY <1>a, <2>3, <2>4, <2>6 DEF IsSlice
    <3> QED BY <2>2, <3>1
  <2>8. array(g) \o Given(g) = a
    BY <1>1, <1>a, <2>3, <2>4, <2>5
  <2> QED BY <1>a, <2>2, <2>4, <2>7, <2>8
<1> QED
  BY <1>1, <1>2, <1>3, <1>4

LEMMA MaxOfTwo ==
  ASSUME NEW x \in Int, NEW y \in Int
  PROVE  Max({x, y}) = IF x >= y THEN x ELSE y
<1> DEFINE z == IF x >= y THEN x ELSE y
<1>1. z \in {x, y} /\ \A k \in {x, y} : z >= k
  OBVIOUS
<1>2. ASSUME NEW t \in {x, y}, \A k \in {x, y} : t >= k PROVE t = z
  BY <1>2
<1> HIDE DEF z
<1>3. Max({x, y}) = z
  BY <1>1, <1>2 DEF Max
<1> QED
  BY <1>3 DEF z

LEMMA MinOfTwo ==
  ASSUME NEW x \in Int, NEW y \in Int
  PROVE  Min({x, y}) = IF x <= y THEN x ELSE y
<1> DEFINE z == IF x <= y THEN x ELSE y
<1>1. z \in {x, y} /\ \A k \in {x, y} : z <= k
  OBVIOUS
<1>2. ASSUME NEW t \in {x, y}, \A k \in {x, y} : t <= k PROVE t = z
  BY <1>2
<1> HIDE DEF z
<1>3. Min({x, y}) = z
  BY <1>1, <1>2 DEF Min
<1> QED
  BY <1>3 DEF z

LEMMA RangedIs ==
  ASSUME NEW h, NEW start, NEW end, NEW g, Sound(h), start \in Int, end \in Nat, g = ranged(h, start, end)
  PROVE  Sound(g) /\ g.arr = h.arr /\ array(g) = array(h)
<1> DEFINE a == array(h)
           last == Min({end, h.arr.len})
           first == Max({start, 0})
<1>1. a \in Seq(Vals) /\ Len(a) = h.arr.len /\ h.arr.len \in Nat
  BY ArrayIs
<1>2. CASE start > last
  BY <1>2 DEF ranged
<1>3. CASE ~(start > last)
  <2>1. last \in Nat /\ last <= h.arr.len
    BY <1>1, MinOfTwo
  <2>2. first \in Nat /\ first <= last
    <3> HIDE DEF last
    <3>1. first = IF start >= 0 THEN start ELSE 0
      BY MaxOfTwo
    <3> QED BY <1>3, <2>1, <3>1
  <2>3. g = IF IsSafe THEN copied(h, Slice(a, first, last)) ELSE shared(h, part(h.arr, first, last), FALSE)
    BY <1>3 DEF ranged, Slice
  <2> HIDE DEF first, last
  <2>4. IsSlice(Slice(a, first, last), a, first, last)
    <3>1. last <= Len(a)
      BY <1>1, <2>1
    <3> QED BY <1>1, <2>1, <2>2, <3>1, SliceIs
  <2>5. Slice(a, first, last) \in Seq(Vals)
    BY <2>4 DEF IsSlice
  <2>6. part(h.arr, first, last) \in Windows
    BY <2>1, <2>2, PartIs
  <2>7. CASE IsSafe
    BY <2>3, <2>5, <2>7, CopiedIs
  <2>8. CASE ~IsSafe
    <3> DEFINE x == part(h.arr, first, last)
    <3>1. x \in Windows /\ g = shared(h, x, FALSE)
      BY <2>3, <2>6, <2>8
    <3> HIDE DEF x
    <3> DEFINE f == shared(h, x, FALSE)
    <3>2. /\ Sound(f) /\ f.mem = h.mem /\ f.arr = h.arr /\ array(f) = array(h)
          /\ f.kept.win = x /\ ~f.kept.firm
      BY <3>1, SharedIs
    <3> HIDE DEF f
    <3>3. g = f
      BY <3>1 DEF f
    <3> QED BY <3>2, <3>3
  <2> QED BY <2>7, <2>8
<1> QED
  BY <1>2, <1>3

-----------------------------------------------------------------------------
(***************************************************************************)
(* Sequences in another order.                                             *)
(***************************************************************************)
IsPermuted(s, q, f) ==
  /\ s \in Seq(Vals) /\ Len(s) = Len(q)
  /\ \A k \in 1..Len(q) : s[k] = q[f[k]]

LEMMA PermIs ==
  ASSUME NEW n, NEW f, f \in perms(n)
  PROVE  /\ f \in [1..n -> 1..n] /\ \A i, j \in 1..n : f[i] = f[j] => i = j
         /\ \A k \in 1..n : f[k] \in 1..n
BY DEF perms

LEMMA PermutedIs ==
  ASSUME NEW q, NEW f, q \in Seq(Vals), f \in perms(Len(q))
  PROVE  IsPermuted(permuted(q, f), q, f)
<1> DEFINE n == Len(q)
           s == permuted(q, f)
<1>1. n \in Nat
  BY LengthIsNat
<1>2. \A k \in 1..n : f[k] \in 1..n
  BY PermIs
<1>3. s = [k \in 1..n |-> s[k]] /\ \A k \in 1..n : s[k] = q[f[k]]
  BY DEF permuted
<1> HIDE DEF s
<1>4. \A k \in 1..n : s[k] \in Vals
  BY <1>2, <1>3, Item
<1> HIDE DEF n
<1>5. s \in Seq(Vals) /\ Len(s) = n
  BY <1>1, <1>3, <1>4, SeqOfItems
<1> QED
  BY <1>3, <1>5 DEF s, n, IsPermuted

LEMMA IsThePermuted ==
  ASSUME NEW s, NEW q, NEW f, q \in Seq(Vals), f \in perms(Len(q)), IsPermuted(s, q, f)
  PROVE  s = permuted(q, f)
<1>1. IsPermuted(permuted(q, f), q, f)
  BY PermutedIs
<1> DEFINE t == permuted(q, f)
           n == Len(q)
<1> HIDE DEF t, n
<1>2. t \in Seq(Vals) /\ Len(t) = n /\ s \in Seq(Vals) /\ Len(s) = n /\ \A k \in 1..n : s[k] = t[k]
  BY <1>1 DEF IsPermuted, t, n
<1>3. s = t
  BY <1>2, SameSeq
<1> QED
  BY <1>3 DEF t

LEMMA Composed ==
  ASSUME NEW n, NEW f, NEW g, NEW e, f \in perms(n), g \in perms(n), e = [k \in 1..n |-> f[g[k]]]
  PROVE  e \in perms(n)
<1>1. f \in [1..n -> 1..n] /\ \A i, j \in 1..n : f[i] = f[j] => i = j
  BY PermIs
<1>2. g \in [1..n -> 1..n] /\ \A i, j \in 1..n : g[i] = g[j] => i = j
  BY PermIs
<1>3. e \in [1..n -> 1..n] /\ \A k \in 1..n : e[k] = f[g[k]] /\ g[k] \in 1..n
  BY <1>1, <1>2
<1>4. \A i, j \in 1..n : e[i] = e[j] => i = j
  BY <1>1, <1>2, <1>3
<1> QED
  BY <1>3, <1>4 DEF perms

LEMMA PermutesItself ==
  ASSUME NEW q, q \in Seq(Vals)
  PROVE  Permutes(q, q)
<1> DEFINE n == Len(q)
           f == [k \in 1..n |-> k]
<1>1. f \in perms(n) /\ \A k \in 1..n : f[k] = k
  BY DEF perms
<1> HIDE DEF f
<1>2. IsPermuted(q, q, f)
  BY <1>1 DEF IsPermuted
<1>3. q = permuted(q, f)
  BY <1>1, <1>2, IsThePermuted
<1> QED
  BY <1>1, <1>3 DEF Permutes

LEMMA PermutesAgain ==
  ASSUME NEW p, NEW q, NEW s, NEW g, p \in Seq(Vals), Permutes(p, q), g \in perms(Len(p)), IsPermuted(s, q, g)
  PROVE  Permutes(p, s)
<1> DEFINE n == Len(p)
<1>1. PICK f \in perms(n) : q = permuted(p, f)
  BY DEF Permutes
<1>2. IsPermuted(q, p, f)
  BY <1>1, PermutedIs
<1> DEFINE e == [k \in 1..n |-> f[g[k]]]
<1>3. e \in perms(n)
  BY Composed
<1>4. \A k \in 1..n : e[k] = f[g[k]] /\ g[k] \in 1..n
  BY PermIs
<1> HIDE DEF e
<1>5. IsPermuted(s, p, e)
  BY <1>2, <1>4 DEF IsPermuted
<1>6. s = permuted(p, e)
  BY <1>3, <1>5, IsThePermuted
<1> QED
  BY <1>3, <1>6 DEF Permutes

\* The item at i taken out and put last.
\* The item at i of b goes behind got.
MovesLast(b, got, i, more) ==
  /\ b \o got \in Seq(Vals) /\ Len(b \o got) = Len(b) + Len(got)
  /\ more \in Seq(Vals) /\ Len(more) = Len(got) + 1
  /\ \E g \in perms(Len(b \o got)) : IsPermuted(LeftOut(b, i) \o more, b \o got, g)

LEMMA PutLast ==
  ASSUME NEW b, NEW got, NEW i, NEW more, b \in Seq(Vals), got \in Seq(Vals), i \in Nat, i < Len(b),
         more = Append(got, b[i + 1])
  PROVE  MovesLast(b, got, i, more)
<1> DEFINE old == b \o got
           new == LeftOut(b, i) \o more
           m == Len(b)
           k == Len(got)
           n == Len(old)
           v == b[i + 1]
           less == LeftOut(b, i)
           g == [j \in 1..n |-> IF j <= i THEN j ELSE IF j < n THEN j + 1 ELSE i + 1]
<1>1. m \in Nat /\ k \in Nat /\ i + 1 \in 1..m
  BY LengthIsNat
<1>2. v \in Vals /\ more = Append(got, v)
  BY <1>1, Item
<1>3. IsJoin(old, b, got)
  BY JoinIs
<1>4. n = m + k /\ n \in Nat
  BY <1>3 DEF IsJoin
<1> HIDE DEF v, old, new
<1>5. more \in Seq(Vals) /\ Len(more) = k + 1 /\ \A j \in 1..k : more[j] = got[j] /\ more[k + 1] = v
  BY <1>1, <1>2, AppendProperties
<1>6. IsWithout(less, b, i)
  BY WithoutIs
<1>l. new = less \o more
  BY DEF new
<1> HIDE DEF less
<1>7. IsJoin(new, less, more)
  BY <1>5, <1>6, <1>l, JoinIs DEF IsWithout
<1>8. Len(less) = m - 1 /\ Len(new) = n
  BY <1>1, <1>4, <1>5, <1>6, <1>7 DEF IsWithout, IsJoin
<1>9. g \in perms(n)
  <2> HIDE DEF n, m, k
  <2>1. \A j \in 1..n : g[j] = IF j <= i THEN j ELSE IF j < n THEN j + 1 ELSE i + 1
    OBVIOUS
  <2>2. i + 1 \in 1..n
    BY <1>1, <1>4
  <2>3. g \in [1..n -> 1..n]
    BY <1>4, <2>2
  <2> HIDE DEF g
  <2>4. \A x, y \in 1..n : g[x] = g[y] => x = y
    BY <1>4, <2>1, <2>2
  <2> QED BY <2>3, <2>4 DEF perms
<1>10. ASSUME NEW j \in 1..n PROVE new[j] = old[g[j]]
  <2> HIDE DEF n, m, k
  <2>1. g[j] = IF j <= i THEN j ELSE IF j < n THEN j + 1 ELSE i + 1
    OBVIOUS
  <2> HIDE DEF g
  <2>2. new[j] = IF j <= m - 1 THEN less[j] ELSE more[j - (m - 1)]
    BY <1>7, <1>8 DEF IsJoin
  <2>3. \A x \in 1..n : old[x] = IF x <= m THEN b[x] ELSE got[x - m]
    BY <1>3, <1>4 DEF IsJoin, m, n
  <2>4. CASE j <= i
    <3>1. j <= m - 1 /\ j <= m /\ j \in 1..(m - 1)
      BY <1>1, <2>4
    <3>2. less[j] = b[j]
      BY <1>6, <1>8, <2>4, <3>1 DEF IsWithout
    <3> QED BY <2>1, <2>2, <2>3, <2>4, <3>1, <3>2
  <2>5. CASE ~(j <= i) /\ j <= m - 1
    <3>1. j < n /\ j + 1 <= m /\ j + 1 \in 1..n /\ j \in 1..(m - 1)
      BY <1>1, <1>4, <2>5
    <3>2. less[j] = b[j + 1]
      BY <1>6, <1>8, <2>5, <3>1 DEF IsWithout
    <3> QED BY <2>1, <2>2, <2>3, <2>5, <3>1, <3>2
  <2>6. CASE ~(j <= i) /\ ~(j <= m - 1) /\ j < n
    <3>1. j + 1 \in 1..n /\ ~(j + 1 <= m) /\ (j + 1) - m = j - (m - 1) /\ j - (m - 1) \in 1..k
      BY <1>1, <1>4, <2>6
    <3>2. more[j - (m - 1)] = got[j - (m - 1)]
      BY <1>5, <3>1
    <3> QED BY <2>1, <2>2, <2>3, <2>6, <3>1, <3>2
  <2>7. CASE ~(j <= i) /\ ~(j <= m - 1) /\ ~(j < n)
    <3>1. j = n /\ j - (m - 1) = k + 1 /\ i + 1 \in 1..n /\ i + 1 <= m
      BY <1>1, <1>4, <2>7
    <3>2. more[k + 1] = v
      BY <1>2, AppendProperties DEF k
    <3> QED BY <2>1, <2>2, <2>3, <2>7, <3>1, <3>2 DEF v
  <2> QED BY <2>4, <2>5, <2>6, <2>7
<1>11. IsPermuted(new, old, g)
  <2> HIDE DEF g
  <2> QED BY <1>7, <1>8, <1>10 DEF IsPermuted, IsJoin
<1>12. old \in Seq(Vals) /\ Len(old) = m + k
  BY <1>3, <1>4 DEF IsJoin
<1> HIDE DEF g, n
<1>13. \E f \in perms(n) : IsPermuted(new, old, f)
  BY <1>9, <1>11
<1> QED
  BY <1>5, <1>12, <1>13 DEF MovesLast, old, new, less, n, m, k

-----------------------------------------------------------------------------
(***************************************************************************)
(* PopRands: the recursive function in poppedRands, turn by turn.          *)
(***************************************************************************)
popTurn(h, idx, n, x) == IF n = 0 THEN [heap |-> h, got |-> <<>>] ELSE poppedAlso(x, idx[n])

IsPopping(r, h, idx, m) == r = [n \in 0..m |-> popTurn(h, idx, n, r[n - 1])]

LEMMA PoppingExists ==
  ASSUME NEW h, NEW idx, NEW m \in Nat
  PROVE  \E r : IsPopping(r, h, idx, m)
<1> DEFINE S == {n \in Nat : \E r : IsPopping(r, h, idx, n)}
<1>1. 0 \in S
  <2> DEFINE r == [n \in 0..0 |-> popTurn(h, idx, 0, 0)]
  <2>1. \A n \in 0..0 : popTurn(h, idx, n, r[n - 1]) = popTurn(h, idx, 0, 0)
    BY DEF popTurn
  <2>2. IsPopping(r, h, idx, 0)
    BY <2>1 DEF IsPopping
  <2> QED BY <2>2
<1>2. ASSUME NEW k \in Nat, k \in S PROVE k + 1 \in S
  <2>1. PICK r : IsPopping(r, h, idx, k)
    BY <1>2
  <2> DEFINE t == [n \in 0..(k + 1) |-> popTurn(h, idx, n, r[n - 1])]
  <2>2. \A n \in 0..k : t[n] = r[n]
    BY <2>1 DEF IsPopping
  <2>3. ASSUME NEW n \in 0..(k + 1) PROVE popTurn(h, idx, n, r[n - 1]) = popTurn(h, idx, n, t[n - 1])
    <3>1. CASE n = 0
      BY <3>1 DEF popTurn
    <3>2. CASE n # 0
      <4>1. n - 1 \in 0..k
        BY <3>2
      <4> QED BY <4>1, <2>2
    <3> QED BY <3>1, <3>2
  <2>4. IsPopping(t, h, idx, k + 1)
    BY <2>3 DEF IsPopping
  <2> HIDE DEF t
  <2> QED BY <2>4
<1> HIDE DEF S
<1>3. m \in S
  BY <1>1, <1>2, SetInduction
<1> QED
  BY <1>3 DEF S

\* x: after k items of the array of h have been taken out.
Popped(x, h, k) ==
  /\ Sound(x.heap) /\ x.heap.kept = h.kept /\ x.heap.arr.len = h.arr.len - k
  /\ x.got \in Seq(Vals) /\ Len(x.got) = k
  /\ Permutes(array(h), array(x.heap) \o x.got)

LEMMA PoppedNone ==
  ASSUME NEW h, Sound(h), NEW x, x = [heap |-> h, got |-> <<>>]
  PROVE  Popped(x, h, 0)
<1> DEFINE a == array(h)
<1>1. a \in Seq(Vals) /\ h.arr.len \in Nat
  BY ArrayIs
<1>2. x.heap = h /\ x.got = <<>>
  OBVIOUS
<1>3. a \o <<>> = a
  BY <1>1
<1>4. Permutes(a, a)
  BY <1>1, PermutesItself
<1>5. h.arr.len - 0 = h.arr.len
  BY <1>1
<1> HIDE DEF a
<1>6. Permutes(a, a \o <<>>)
  BY <1>3, <1>4
<1> QED
  BY <1>2, <1>5, <1>6, NoItem DEF Popped, a

LEMMA PoppedOneMore ==
  ASSUME NEW h, NEW x, NEW k, NEW i, NEW y, Sound(h), k \in Nat, Popped(x, h, k),
         i \in Nat, i < h.arr.len - k, y = poppedAlso(x, i)
  PROVE  Popped(y, h, k + 1)
<1> DEFINE g == x.heap
           b == array(g)
           got == x.got
           e == removedAt(g, i)
           more == Append(got, b[i + 1])
           a == array(h)
<1>1. /\ Sound(g) /\ g.kept = h.kept /\ g.arr.len = h.arr.len - k /\ got \in Seq(Vals) /\ Len(got) = k
      /\ Permutes(a, b \o got)
  BY DEF Popped
<1>2. b \in Seq(Vals) /\ Len(b) = g.arr.len /\ g.arr.len \in Nat /\ a \in Seq(Vals) /\ h.arr.len \in Nat /\ Len(a) = h.arr.len
  BY <1>1, ArrayIs
<1>3. y = [heap |-> e, got |-> more]
  BY DEF poppedAlso
<1>4. y.heap = e /\ y.got = more
  BY <1>3
<1>b. b = array(g)
  OBVIOUS
<1> HIDE DEF g, b, got, e, more, a
<1>5. i < Len(b) /\ i \in 0..g.arr.len - 1
  BY <1>1, <1>2
<1>6. Leaves(g, e, LeftOut(b, i)) /\ e.arr.len = g.arr.len - 1
  BY <1>1, <1>5, <1>b, RemovedAtIs DEF e
<1> DEFINE old == b \o got
           new == LeftOut(b, i) \o more
<1>7. /\ old \in Seq(Vals) /\ Len(old) = Len(b) + Len(got)
      /\ more \in Seq(Vals) /\ Len(more) = Len(got) + 1
      /\ \E f \in perms(Len(old)) : IsPermuted(new, old, f)
  <2>1. more = Append(got, b[i + 1])
    BY DEF more
  <2>2. b \in Seq(Vals) /\ got \in Seq(Vals) /\ i < Len(b)
    BY <1>1, <1>2, <1>5
  <2> HIDE DEF old, new
  <2>3. MovesLast(b, got, i, more)
    BY <2>1, <2>2, PutLast
  <2> QED BY <2>3 DEF MovesLast, old, new
<1>8. Len(old) = Len(a)
  BY <1>1, <1>2, <1>7
<1> HIDE DEF old, new
<1>9. Permutes(a, new)
  <2>1. PICK f \in perms(Len(a)) : IsPermuted(new, old, f)
    BY <1>7, <1>8
  <2> QED BY <1>1, <1>2, <2>1, PermutesAgain DEF old
<1>10. e.arr.len = h.arr.len - (k + 1)
  <2>1. e.arr.len = g.arr.len - 1
    BY <1>6
  <2>2. g.arr.len = h.arr.len - k
    BY <1>1
  <2> DEFINE d == e.arr.len
             p == g.arr.len
             n == h.arr.len
  <2>3. d = p - 1 /\ p = n - k /\ n \in Nat
    BY <1>2, <2>1, <2>2
  <2> HIDE DEF d, p, n
  <2>4. d = n - (k + 1)
    BY <2>3
  <2> QED BY <2>4 DEF d, n
<1>11. Sound(e) /\ e.kept = h.kept /\ array(e) = LeftOut(b, i)
  BY <1>1, <1>6 DEF Leaves
<1>12. Permutes(a, array(e) \o more)
  BY <1>9, <1>11 DEF new
<1> QED
  BY <1>1, <1>4, <1>7, <1>10, <1>11, <1>12 DEF Popped, a

LEMMA PoppedRandsIs ==
  ASSUME NEW h, NEW size, NEW idx, NEW g, Sound(h), size \in Nat, idx \in randIndices(h, size),
         g = poppedRands(h, idx)
  PROVE  /\ Sound(g) /\ g.arr.len <= h.arr.len
         /\ Permutes(array(h), array(g) \o Given(g)) /\ Len(Given(g)) <= size
<1> DEFINE n == h.arr.len
           m == Min({size, h.arr.len})
<1>1. n \in Nat
  BY ArrayIs
<1>2. m \in Nat /\ m <= size /\ m <= n
  BY <1>1, MinOfTwo
<1>3. idx \in [1..m -> 0..n - 1] /\ \A k \in 1..m : idx[k] <= n - k
  BY DEF randIndices
<1>n. n = h.arr.len
  OBVIOUS
<1> HIDE DEF m
<1>4. Len(idx) = m
  <2>1. idx = [k \in 1..m |-> idx[k]] /\ \A k \in 1..m : idx[k] \in 0..n - 1
    BY <1>3
  <2> QED BY <1>2, <2>1, SeqOfItems
<1>5. PICK r : IsPopping(r, h, idx, m) /\ g = copied(r[m].heap, r[m].got)
  <2>1. PICK t : IsPopping(t, h, idx, m)
    BY <1>2, PoppingExists
  <2> DEFINE r == CHOOSE q : IsPopping(q, h, idx, m)
  <2>2. IsPopping(r, h, idx, m)
    BY <2>1
  <2>3. g = copied(r[m].heap, r[m].got)
    BY <1>4 DEF poppedRands, IsPopping, popTurn
  <2> QED BY <2>2, <2>3
<1> HIDE DEF n
<1>6. r[0] = [heap |-> h, got |-> <<>>] /\ \A k \in 1..m : r[k] = poppedAlso(r[k - 1], idx[k])
  <2>1. \A k \in 0..m : r[k] = popTurn(h, idx, k, r[k - 1])
    BY <1>5 DEF IsPopping
  <2>2. 0 \in 0..m /\ \A k \in 1..m : k \in 0..m /\ k # 0
    BY <1>2
  <2> QED BY <2>1, <2>2 DEF popTurn
<1> DEFINE S == {k \in Nat : k <= m => Popped(r[k], h, k)}
<1>7. 0 \in S
  BY <1>6, PoppedNone
<1>8. ASSUME NEW k \in Nat, k \in S PROVE k + 1 \in S
  <2> SUFFICES ASSUME k + 1 <= m PROVE Popped(r[k + 1], h, k + 1)
    OBVIOUS
  <2>1. Popped(r[k], h, k)
    BY <1>2, <1>8
  <2>2. k + 1 \in 1..m /\ (k + 1) - 1 = k
    BY <1>2
  <2>3. r[k + 1] = poppedAlso(r[k], idx[k + 1])
    BY <1>6, <2>2
  <2>4. idx[k + 1] \in 0..n - 1 /\ idx[k + 1] <= n - (k + 1)
    BY <1>3, <2>2
  <2>5. idx[k + 1] \in Nat /\ idx[k + 1] < h.arr.len - k
    BY <1>1, <1>n, <2>4
  <2> QED BY <2>1, <2>3, <2>5, PoppedOneMore
<1> HIDE DEF S
<1>9. m \in S
  BY <1>2, <1>7, <1>8, SetInduction
<1> DEFINE x == r[m]
<1>10. Popped(x, h, m) /\ g = copied(x.heap, x.got)
  BY <1>2, <1>5, <1>9 DEF S
<1> HIDE DEF x
<1>11. Sound(g) /\ g.arr = x.heap.arr /\ array(g) = array(x.heap) /\ Given(g) = x.got
  BY <1>10, CopiedIs DEF Popped
<1>12. x.heap.arr.len = n - m /\ Len(x.got) = m /\ Permutes(array(h), array(x.heap) \o x.got)
  BY <1>10, <1>n DEF Popped
<1>13. g.arr.len = n - m
  BY <1>11, <1>12
<1> QED
  BY <1>1, <1>2, <1>11, <1>12, <1>13, <1>n

-----------------------------------------------------------------------------
(***************************************************************************)
(* Unique: what is left of the items, turn by turn.                        *)
(***************************************************************************)
\* s is what f picks of q, in order, and what it leaves out has an equal before it in s.
Thins(s, q, f) ==
  /\ s \in Seq(Vals) /\ f \in [1..Len(s) -> 1..Len(q)]
  /\ \A x, y \in 1..Len(s) : x < y => f[x] < f[y]
  /\ \A x \in 1..Len(s) : s[x] = q[f[x]]
  /\ \A k \in 1..Len(q) : (\A x \in 1..Len(s) : f[x] # k) => \E x \in 1..Len(s) : f[x] < k /\ s[x] = q[k]

\* The first i items of s differ from all behind them, and the next from those up to the j-th.
Apart(s, i, j) ==
  /\ \A x, y \in 1..Len(s) : x <= i /\ x < y => s[x] # s[y]
  /\ \A y \in 1..Len(s) : i + 1 < y /\ y <= j => s[i + 1] # s[y]

LEMMA ThinsItself ==
  ASSUME NEW q, q \in Seq(Vals)
  PROVE  \E f : Thins(q, q, f)
<1> DEFINE f == [x \in 1..Len(q) |-> x]
<1>1. Len(q) \in Nat
  BY LengthIsNat
<1>2. Thins(q, q, f)
  BY <1>1 DEF Thins
<1> QED
  BY <1>2

LEMMA ThinsWithout ==
  ASSUME NEW s, NEW q, NEW f, NEW i, NEW j, Thins(s, q, f), q \in Seq(Vals), i \in Nat, j \in Nat, i < j, j < Len(s),
         s[i + 1] = s[j + 1]
  PROVE  \E g : Thins(LeftOut(s, j), q, g)
<1> DEFINE t == LeftOut(s, j)
           n == Len(s)
           g == [x \in 1..n - 1 |-> IF x <= j THEN f[x] ELSE f[x + 1]]
<1>1. /\ s \in Seq(Vals) /\ f \in [1..n -> 1..Len(q)]
      /\ \A x, y \in 1..n : x < y => f[x] < f[y]
      /\ \A x \in 1..n : s[x] = q[f[x]]
      /\ \A k \in 1..Len(q) : (\A x \in 1..n : f[x] # k) => \E x \in 1..n : f[x] < k /\ s[x] = q[k]
  BY DEF Thins
<1>2. n \in Nat /\ Len(q) \in Nat /\ j < n
  BY <1>1, LengthIsNat
<1>3. t \in Seq(Vals) /\ Len(t) = n - 1 /\ \A x \in 1..n - 1 : t[x] = IF x <= j THEN s[x] ELSE s[x + 1]
  <2>1. IsWithout(LeftOut(s, j), s, j)
    BY <1>1, WithoutIs
  <2> QED BY <2>1 DEF IsWithout
<1>s. s[i + 1] = s[j + 1]
  OBVIOUS
<1> HIDE DEF n, t
<1>4. \A x \in 1..n - 1 : x \in 1..n /\ x + 1 \in 1..n
  BY <1>2
<1>5. \A x \in 1..n - 1 : g[x] = IF x <= j THEN f[x] ELSE f[x + 1]
  OBVIOUS
<1>f. \A x \in 1..n : f[x] \in 1..Len(q)
  BY <1>1
<1>6. g \in [1..n - 1 -> 1..Len(q)]
  BY <1>4, <1>f
<1> HIDE DEF g
<1>7. ASSUME NEW x \in 1..n - 1, NEW y \in 1..n - 1, x < y PROVE g[x] < g[y]
  <2> DEFINE u == IF x <= j THEN x ELSE x + 1
             v == IF y <= j THEN y ELSE y + 1
  <2>1. u \in 1..n /\ v \in 1..n /\ u < v
    BY <1>2, <1>7
  <2>2. g[x] = f[u] /\ g[y] = f[v]
    BY <1>5
  <2> HIDE DEF u, v
  <2> QED BY <1>1, <2>1, <2>2
<1>8. ASSUME NEW x \in 1..n - 1 PROVE t[x] = q[g[x]]
  <2>1. t[x] = IF x <= j THEN s[x] ELSE s[x + 1]
    BY <1>3
  <2>2. s[x] = q[f[x]] /\ s[x + 1] = q[f[x + 1]]
    BY <1>1, <1>4
  <2> QED BY <1>5, <2>1, <2>2
<1>9. i + 1 \in 1..n /\ j + 1 \in 1..n /\ i + 1 \in 1..n - 1 /\ i + 1 <= j /\ i + 1 < j + 1
  BY <1>2
<1>10. g[i + 1] = f[i + 1] /\ t[i + 1] = s[i + 1] /\ f[i + 1] < f[j + 1]
  BY <1>1, <1>3, <1>5, <1>9
<1>11. ASSUME NEW k \in 1..Len(q), \A x \in 1..n - 1 : g[x] # k
       PROVE  \E x \in 1..n - 1 : g[x] < k /\ t[x] = q[k]
  <2>1. CASE f[j + 1] = k
    <3>1. q[k] = s[j + 1]
      BY <1>1, <1>9, <2>1
    <3>2. t[i + 1] = q[k]
      BY <1>s, <1>10, <3>1
    <3> QED BY <1>9, <1>10, <2>1, <3>2
  <2>2. CASE f[j + 1] # k
    <3>1. ASSUME NEW x \in 1..n PROVE f[x] # k
      <4>1. CASE x <= j
        <5>1. x \in 1..n - 1
          BY <1>2, <4>1
        <5> QED BY <1>5, <1>11, <4>1, <5>1
      <4>2. CASE x = j + 1
        BY <2>2, <4>2
      <4>3. CASE ~(x <= j) /\ x # j + 1
        <5>1. x - 1 \in 1..n - 1 /\ ~(x - 1 <= j) /\ (x - 1) + 1 = x
          BY <1>2, <4>3
        <5> QED BY <1>5, <1>11, <5>1
      <4> QED BY <4>1, <4>2, <4>3
    <3>2. PICK x \in 1..n : f[x] < k /\ s[x] = q[k]
      BY <1>1, <3>1
    <3>3. CASE x <= j
      <4>1. x \in 1..n - 1
        BY <1>2, <3>3
      <4>2. g[x] = f[x] /\ t[x] = s[x]
        BY <1>3, <1>5, <3>3, <4>1
      <4> QED BY <3>2, <4>1, <4>2
    <3>4. CASE x = j + 1
      <4>1. t[i + 1] = q[k]
        BY <1>s, <1>10, <3>2, <3>4
      <4>2. f[i + 1] \in Nat /\ f[j + 1] \in Nat /\ k \in Nat
        BY <1>2, <1>9, <1>f
      <4>3. g[i + 1] < k
        BY <1>10, <3>2, <3>4, <4>2
      <4> QED BY <1>9, <4>1, <4>3
    <3>5. CASE ~(x <= j) /\ x # j + 1
      <4>1. x - 1 \in 1..n - 1 /\ ~(x - 1 <= j) /\ (x - 1) + 1 = x
        BY <1>2, <3>5
      <4>2. g[x - 1] = f[x] /\ t[x - 1] = s[x]
        BY <1>3, <1>5, <4>1
      <4> QED BY <3>2, <4>1, <4>2
    <3> QED BY <3>3, <3>4, <3>5
  <2> QED BY <2>1, <2>2
<1>12. Thins(t, q, g)
  BY <1>3, <1>6, <1>7, <1>8, <1>11 DEF Thins
<1> QED
  BY <1>12 DEF t

LEMMA ApartWithout ==
  ASSUME NEW s, NEW i, NEW j, Apart(s, i, j), s \in Seq(Vals), i \in Nat, j \in Nat, i < j, j < Len(s)
  PROVE  Apart(LeftOut(s, j), i, j)
<1> DEFINE t == LeftOut(s, j)
           n == Len(s)
<1>1. n \in Nat /\ j < n
  BY LengthIsNat
<1>2. Len(t) = n - 1 /\ \A x \in 1..n - 1 : t[x] = IF x <= j THEN s[x] ELSE s[x + 1]
  BY <1>1, WithoutIs DEF IsWithout
<1>3. /\ \A x, y \in 1..n : x <= i /\ x < y => s[x] # s[y]
      /\ \A y \in 1..n : i + 1 < y /\ y <= j => s[i + 1] # s[y]
  BY DEF Apart
<1> HIDE DEF n, t
<1>4. \A x \in 1..n - 1 : x \in 1..n /\ x + 1 \in 1..n
  BY <1>1
<1>5. ASSUME NEW x \in 1..n - 1, NEW y \in 1..n - 1, x <= i, x < y PROVE t[x] # t[y]
  <2> DEFINE v == IF y <= j THEN y ELSE y + 1
  <2>1. v \in 1..n /\ x \in 1..n /\ x < v /\ x <= j
    BY <1>1, <1>5
  <2>2. t[x] = s[x] /\ t[y] = s[v]
    BY <1>2, <2>1
  <2> HIDE DEF v
  <2> QED BY <1>3, <1>5, <2>1, <2>2
<1>6. ASSUME NEW y \in 1..n - 1, i + 1 < y, y <= j PROVE t[i + 1] # t[y]
  <2>1. i + 1 \in 1..n - 1 /\ i + 1 <= j
    BY <1>1
  <2>2. t[i + 1] = s[i + 1] /\ t[y] = s[y]
    BY <1>2, <1>6, <2>1
  <2> QED BY <1>3, <1>4, <1>6, <2>2
<1>7. Apart(t, i, j)
  BY <1>2, <1>5, <1>6 DEF Apart
<1> QED
  BY <1>7 DEF t

LEMMA ApartNext ==
  ASSUME NEW s, NEW i, NEW j, Apart(s, i, j), s \in Seq(Vals), i \in Nat, j \in Nat, Len(s) <= j
  PROVE  Apart(s, i + 1, i + 2)
<1> DEFINE n == Len(s)
<1>1. n \in Nat /\ n <= j
  BY LengthIsNat
<1>2. /\ \A x, y \in 1..n : x <= i /\ x < y => s[x] # s[y]
      /\ \A y \in 1..n : i + 1 < y /\ y <= j => s[i + 1] # s[y]
  BY DEF Apart
<1> HIDE DEF n
<1>3. ASSUME NEW x \in 1..n, NEW y \in 1..n, x <= i + 1, x < y PROVE s[x] # s[y]
  <2>1. CASE x <= i
    BY <1>2, <1>3, <2>1
  <2>2. CASE ~(x <= i)
    <3>1. x = i + 1 /\ y <= j
      BY <1>1, <1>3, <2>2
    <3> QED BY <1>2, <1>3, <3>1
  <2> QED BY <2>1, <2>2
<1>4. \A y \in 1..n : ~((i + 1) + 1 < y /\ y <= i + 2)
  BY <1>1
<1> QED
  BY <1>3, <1>4 DEF Apart, n

LEMMA ApartFurther ==
  ASSUME NEW s, NEW i, NEW j, Apart(s, i, j), s \in Seq(Vals), i \in Nat, j \in Nat, s[i + 1] # s[j + 1]
  PROVE  Apart(s, i, j + 1)
<1> DEFINE n == Len(s)
<1>1. n \in Nat
  BY LengthIsNat
<1>2. /\ \A x, y \in 1..n : x <= i /\ x < y => s[x] # s[y]
      /\ \A y \in 1..n : i + 1 < y /\ y <= j => s[i + 1] # s[y]
  BY DEF Apart
<1> HIDE DEF n
<1>3. ASSUME NEW y \in 1..n, i + 1 < y, y <= j + 1 PROVE s[i + 1] # s[y]
  <2>1. y <= j \/ y = j + 1
    BY <1>1, <1>3
  <2> QED BY <1>2, <1>3, <2>1
<1> QED
  BY <1>2, <1>3 DEF Apart, n

LEMMA FirstsAreLeft ==
  ASSUME NEW s, NEW q, NEW f, NEW i, NEW j, Thins(s, q, f), q \in Seq(Vals), Apart(s, i, j), i \in Nat,
         Len(s) - 1 <= i
  PROVE  /\ f \in [1..Len(s) -> 1..Len(q)] /\ FirstOfEach(q, f)
         /\ s = [x \in 1..Len(s) |-> q[f[x]]]
<1> DEFINE n == Len(s)
<1>1. /\ s \in Seq(Vals) /\ f \in [1..n -> 1..Len(q)]
      /\ \A x, y \in 1..n : x < y => f[x] < f[y]
      /\ \A x \in 1..n : s[x] = q[f[x]]
      /\ \A k \in 1..Len(q) : (\A x \in 1..n : f[x] # k) => \E x \in 1..n : f[x] < k /\ s[x] = q[k]
  BY DEF Thins
<1>2. n \in Nat /\ Len(q) \in Nat /\ n - 1 <= i /\ DOMAIN q = 1..Len(q)
  BY <1>1, LengthIsNat
<1>3. \A x, y \in 1..n : x <= i /\ x < y => s[x] # s[y]
  BY DEF Apart
<1>t. s = [x \in 1..n |-> q[f[x]]]
  <2>1. s = [x \in 1..n |-> s[x]]
    BY <1>1
  <2> HIDE DEF n
  <2> QED BY <1>1, <2>1
<1> HIDE DEF n
<1>f. \A x \in 1..n : f[x] \in 1..Len(q)
  BY <1>1
<1>4. \A x, y \in 1..n : x < y => s[x] # s[y]
  BY <1>2, <1>3
<1>5. \A x, y \in 1..n : f[x] < f[y] => s[x] # s[y]
  <2> SUFFICES ASSUME NEW x \in 1..n, NEW y \in 1..n, f[x] < f[y] PROVE s[x] # s[y]
    OBVIOUS
  <2>1. x # y
    BY <1>2, <1>f
  <2>2. x < y \/ y < x
    BY <1>2, <2>1
  <2> QED BY <1>4, <2>2
<1>6. ASSUME NEW k \in 1..Len(q)
      PROVE  (\E x \in 1..n : f[x] = k) <=> ~\E m \in 1..k - 1 : q[m] = q[k]
  <2>1. ASSUME NEW x \in 1..n, f[x] = k, NEW m \in 1..k - 1, q[m] = q[k] PROVE FALSE
    <3>1. m \in 1..Len(q) /\ m < k /\ k \in Nat /\ m \in Nat
      BY <1>2
    <3>2. CASE \E y \in 1..n : f[y] = m
      <4>1. PICK y \in 1..n : f[y] = m
        BY <3>2
      <4>2. s[y] = s[x]
        BY <1>1, <2>1, <4>1
      <4> QED BY <1>5, <2>1, <3>1, <4>1, <4>2
    <3>3. CASE \A y \in 1..n : f[y] # m
      <4>1. PICK y \in 1..n : f[y] < m /\ s[y] = q[m]
        BY <1>1, <3>1, <3>3
      <4>2. s[y] = s[x]
        BY <1>1, <2>1, <4>1
      <4>3. f[y] < f[x]
        <5>1. f[y] \in Nat
          BY <1>2, <1>f
        <5> QED BY <2>1, <3>1, <4>1, <5>1
      <4> QED BY <1>5, <4>2, <4>3
    <3> QED BY <3>2, <3>3
  <2>2. ASSUME \A x \in 1..n : f[x] # k, ~\E m \in 1..k - 1 : q[m] = q[k] PROVE FALSE
    <3>1. PICK x \in 1..n : f[x] < k /\ s[x] = q[k]
      BY <1>1, <2>2
    <3>2. f[x] \in 1..k - 1
      BY <1>2, <1>f, <3>1
    <3> QED BY <1>1, <2>2, <3>1, <3>2
  <2> QED BY <2>1, <2>2
<1>7. DOMAIN f = 1..n
  BY <1>1
<1>8. FirstOfEach(q, f)
  BY <1>1, <1>2, <1>6, <1>7 DEF FirstOfEach
<1> QED
  BY <1>1, <1>8, <1>t DEF n


\* What is left of the turns: k are done, and n stands for as many as one value of i can take.
Spent(m, i, j, n, k) == (m - 1 - i) * n - (j - i - 1) + k <= (n - 1) * n

LEMMA OneTurnMore ==
  ASSUME NEW m \in Nat, NEW i \in Nat, NEW j \in Nat, NEW n \in Nat, NEW k \in Nat,
         i < m - 1, i < j, j <= m, m <= n, Spent(m, i, j, n, k)
  PROVE  /\ j = m => Spent(m, i + 1, i + 2, n, k + 1)
         /\ Spent(m - 1, i, j, n, k + 1)
         /\ Spent(m, i, j + 1, n, k + 1)
<1> DEFINE P == (m - 1 - i) * n
           Q == (m - 2 - i) * n
           R == (n - 1) * n
<1>1. P = Q + n /\ P \in Int /\ Q \in Int /\ R \in Int
  <2>1. \A x \in Int : x * n = (x - 1) * n + n
    OBVIOUS
  <2>2. (m - 1 - i) - 1 = m - 2 - i /\ m - 1 - i \in Int /\ m - 2 - i \in Int
    OBVIOUS
  <2> QED BY <2>1, <2>2
<1>2. P - (j - i - 1) + k <= R
  BY DEF Spent
<1>3. (m - 1 - (i + 1)) * n = Q /\ ((m - 1) - 1 - i) * n = Q
  <2>1. m - 1 - (i + 1) = m - 2 - i /\ (m - 1) - 1 - i = m - 2 - i
    OBVIOUS
  <2> QED BY <2>1
<1> HIDE DEF P, Q, R
<1>4. j = m => Q - ((i + 2) - (i + 1) - 1) + (k + 1) <= R
  BY <1>1, <1>2
<1>5. Q - (j - i - 1) + (k + 1) <= R
  BY <1>1, <1>2
<1>6. P - ((j + 1) - i - 1) + (k + 1) <= R
  BY <1>1, <1>2
<1> QED
  BY <1>3, <1>4, <1>5, <1>6 DEF Spent, P, R

LEMMA NoTurnLeft ==
  ASSUME NEW m \in Nat, NEW i \in Nat, NEW j \in Nat, NEW n \in Nat,
         i < m - 1, i < j, j <= m, m <= n, Spent(m, i, j, n, n * n)
  PROVE  FALSE
<1> DEFINE P == (m - 1 - i) * n
           Q == (m - 2 - i) * n
           R == (n - 1) * n
           S == n * n
<1>1. P = Q + n /\ S = R + n /\ P \in Int /\ R \in Int /\ S \in Int
  <2>1. \A x \in Int : x * n = (x - 1) * n + n
    OBVIOUS
  <2>2. (m - 1 - i) - 1 = m - 2 - i /\ m - 1 - i \in Int /\ m - 2 - i \in Int
    OBVIOUS
  <2> QED BY <2>1, <2>2
<1>2. Q \in Nat
  <2>1. m - 2 - i \in Nat
    OBVIOUS
  <2>2. \A x \in Nat : x * n \in Nat
    OBVIOUS
  <2> QED BY <2>1, <2>2
<1>3. P - (j - i - 1) + S <= R
  BY DEF Spent
<1> HIDE DEF P, Q, R, S
<1> QED
  BY <1>1, <1>2, <1>3

\* x: after k turns of the loops on the array of h.
Thinned(x, h, k) ==
  /\ x = [heap |-> x.heap, i |-> x.i, j |-> x.j]
  /\ Sound(x.heap) /\ x.heap.kept = h.kept /\ x.heap.arr.len <= h.arr.len
  /\ \E f : Thins(array(x.heap), array(h), f)
  /\ x.i \in Nat /\ x.j \in Nat /\ Apart(array(x.heap), x.i, x.j)
  /\ \/ x.heap.arr.len - 1 <= x.i
     \/ x.i < x.j /\ x.j <= x.heap.arr.len /\ Spent(x.heap.arr.len, x.i, x.j, h.arr.len, k)

LEMMA ThinnedNone ==
  ASSUME NEW h, Sound(h), NEW x, x = [heap |-> h, i |-> 0, j |-> 1]
  PROVE  Thinned(x, h, 0)
<1> DEFINE n == h.arr.len
<1>1. n \in Nat /\ array(h) \in Seq(Vals) /\ Len(array(h)) = n
  BY ArrayIs
<1>2. \E f : Thins(array(h), array(h), f)
  BY <1>1, ThinsItself
<1>3. Apart(array(h), 0, 1)
  <2>1. \A y \in 1..n : ~(0 + 1 < y /\ y <= 1) /\ ~(y <= 0)
    BY <1>1
  <2> HIDE DEF n
  <2> QED BY <1>1, <2>1 DEF Apart
<1> HIDE DEF n
<1>4. Spent(n, 0, 1, n, 0)
  <2>1. n - 1 - 0 = n - 1 /\ (n - 1) * n \in Int
    BY <1>1
  <2> QED BY <2>1 DEF Spent
<1>5. n - 1 <= 0 \/ (0 < 1 /\ 1 <= n /\ Spent(n, 0, 1, n, 0))
  <2>1. n - 1 <= 0 \/ 1 <= n
    BY <1>1
  <2> QED BY <1>4, <2>1
<1>6. x.heap = h /\ x.i = 0 /\ x.j = 1
  OBVIOUS
<1>7. n <= n
  BY <1>1
<1> QED
  BY <1>2, <1>3, <1>5, <1>6, <1>7 DEF Thinned, n

LEMMA ThinnedMore ==
  ASSUME NEW h, NEW x, NEW k, NEW y, Sound(h), k \in Nat, Thinned(x, h, k), y = compared(x)
  PROVE  Thinned(y, h, k + 1)
<1> DEFINE g == x.heap
           a == array(g)
           q == array(h)
           i == x.i
           j == x.j
           m == g.arr.len
           n == h.arr.len
           c == cut(g, j)
<1>1. /\ x = [heap |-> g, i |-> i, j |-> j]
      /\ Sound(g) /\ g.kept = h.kept /\ m <= n
      /\ \E f : Thins(a, q, f)
      /\ i \in Nat /\ j \in Nat /\ Apart(a, i, j)
      /\ m - 1 <= i \/ (i < j /\ j <= m /\ Spent(m, i, j, n, k))
  <2>1. Thinned(x, h, k)
    OBVIOUS
  <2>2. /\ x = [heap |-> g, i |-> i, j |-> j]
        /\ Sound(g) /\ g.kept = h.kept /\ m <= n
    BY <2>1 DEF Thinned
  <2>3. \E f : Thins(a, q, f)
    BY <2>1 DEF Thinned
  <2>4. i \in Nat /\ j \in Nat /\ Apart(a, i, j)
    BY <2>1 DEF Thinned
  <2>5. m - 1 <= i \/ (i < j /\ j <= m /\ Spent(m, i, j, n, k))
    BY <2>1 DEF Thinned
  <2> QED BY <2>2, <2>3, <2>4, <2>5
<1>2. a \in Seq(Vals) /\ Len(a) = m /\ m \in Nat /\ q \in Seq(Vals) /\ n \in Nat
  BY <1>1, ArrayIs
<1>3. y = IF i >= m - 1 THEN x
          ELSE IF j >= m THEN [x EXCEPT !.i = i + 1, !.j = i + 2]
          ELSE IF a[i + 1] = a[j + 1] THEN [x EXCEPT !.heap = c]
          ELSE [x EXCEPT !.j = j + 1]
  BY DEF compared
<1>4. /\ [x EXCEPT !.i = i + 1, !.j = i + 2] = [heap |-> g, i |-> i + 1, j |-> i + 2]
      /\ [x EXCEPT !.heap = c] = [heap |-> c, i |-> i, j |-> j]
      /\ [x EXCEPT !.j = j + 1] = [heap |-> g, i |-> i, j |-> j + 1]
  <2>1. x = [heap |-> g, i |-> i, j |-> j]
    BY <1>1
  <2> HIDE DEF g, i, j, c
  <2>2. [x EXCEPT !.i = i + 1, !.j = i + 2] = [heap |-> g, i |-> i + 1, j |-> i + 2]
    <3>1. [x EXCEPT !.i = i + 1] = [heap |-> g, i |-> i + 1, j |-> j]
      BY <2>1
    <3> DEFINE y1 == [x EXCEPT !.i = i + 1]
    <3>2. [x EXCEPT !.i = i + 1, !.j = i + 2] = [y1 EXCEPT !.j = i + 2]
      OBVIOUS
    <3> HIDE DEF y1
    <3>3. y1 = [heap |-> g, i |-> i + 1, j |-> j]
      BY <3>1 DEF y1
    <3>4. [y1 EXCEPT !.j = i + 2] = [heap |-> g, i |-> i + 1, j |-> i + 2]
      BY <3>3
    <3> DEFINE z1 == [x EXCEPT !.i = i + 1, !.j = i + 2]
               z2 == [y1 EXCEPT !.j = i + 2]
    <3>5. z1 = z2 /\ z2 = [heap |-> g, i |-> i + 1, j |-> i + 2]
      BY <3>2, <3>4
    <3> HIDE DEF z1, z2
    <3>6. z1 = [heap |-> g, i |-> i + 1, j |-> i + 2]
      BY <3>5
    <3> QED BY <3>6 DEF z1
  <2>3. [x EXCEPT !.heap = c] = [heap |-> c, i |-> i, j |-> j]
    BY <2>1
  <2>4. [x EXCEPT !.j = j + 1] = [heap |-> g, i |-> i, j |-> j + 1]
    BY <2>1
  <2> QED BY <2>2, <2>3, <2>4
<1>t. Thinned(x, h, k)
  OBVIOUS
<1>5. CASE i >= m - 1
  <2>1. y = x
    BY <1>3, <1>5
  <2>2. m - 1 <= i
    BY <1>1, <1>2, <1>5
  <2> QED BY <1>t, <2>1, <2>2 DEF Thinned
<1>m. m = g.arr.len /\ a = array(g) /\ n = h.arr.len /\ q = array(h) /\ c = cut(g, j)
  OBVIOUS
<1> HIDE DEF g, a, q, i, j, m, n, c
<1>6. CASE ~(i >= m - 1) /\ j >= m
  <2>1. i < m - 1 /\ i < j /\ j <= m /\ Spent(m, i, j, n, k) /\ j = m
    BY <1>1, <1>2, <1>6
  <2>2. y = [heap |-> g, i |-> i + 1, j |-> i + 2]
    BY <1>3, <1>4, <1>6
  <2>3. y.heap = g /\ y.i = i + 1 /\ y.j = i + 2
    BY <2>2
  <2>4. Spent(m, i + 1, i + 2, n, k + 1)
    BY <1>1, <1>2, <2>1, OneTurnMore
  <2>5. Len(a) <= j
    BY <1>2, <1>6
  <2>6. Apart(a, i + 1, i + 2)
    BY <1>1, <1>2, <2>5, ApartNext
  <2>7. i + 1 \in Nat /\ i + 2 \in Nat /\ i + 1 < i + 2 /\ i + 2 <= m
    BY <1>1, <1>2, <2>1
  <2> QED BY <1>1, <1>m, <2>2, <2>3, <2>4, <2>6, <2>7 DEF Thinned
<1>7. CASE ~(i >= m - 1) /\ ~(j >= m) /\ a[i + 1] = a[j + 1]
  <2>1. i < m - 1 /\ i < j /\ j <= m /\ Spent(m, i, j, n, k) /\ j < m /\ j < Len(a)
    BY <1>1, <1>2, <1>7
  <2>2. y = [heap |-> c, i |-> i, j |-> j]
    BY <1>3, <1>4, <1>7
  <2>3. y.heap = c /\ y.i = i /\ y.j = j
    BY <2>2
  <2>4. Leaves(g, c, LeftOut(a, j)) /\ c.arr.len = m - 1
    BY <1>1, <1>m, <2>1, CutIs
  <2>5. Sound(c) /\ c.kept = h.kept /\ array(c) = LeftOut(a, j)
    BY <1>1, <2>4 DEF Leaves
  <2>6. \E f : Thins(LeftOut(a, j), q, f)
    BY <1>1, <1>2, <1>7, <2>1, ThinsWithout
  <2>7. Apart(LeftOut(a, j), i, j)
    BY <1>1, <1>2, <2>1, ApartWithout
  <2>8. Spent(m - 1, i, j, n, k + 1)
    BY <1>1, <1>2, <2>1, OneTurnMore
  <2> DEFINE p == c.arr.len
  <2>p. p = m - 1
    BY <2>4
  <2> HIDE DEF p
  <2>9. p <= n /\ j <= p /\ Spent(p, i, j, n, k + 1)
    BY <1>1, <1>2, <2>1, <2>8, <2>p
  <2> QED BY <1>1, <1>m, <2>1, <2>2, <2>3, <2>5, <2>6, <2>7, <2>9 DEF Thinned, p
<1>8. CASE ~(i >= m - 1) /\ ~(j >= m) /\ a[i + 1] # a[j + 1]
  <2>1. i < m - 1 /\ i < j /\ j <= m /\ Spent(m, i, j, n, k) /\ j < m
    BY <1>1, <1>2, <1>8
  <2>2. y = [heap |-> g, i |-> i, j |-> j + 1]
    BY <1>3, <1>4, <1>8
  <2>3. y.heap = g /\ y.i = i /\ y.j = j + 1
    BY <2>2
  <2>4. Spent(m, i, j + 1, n, k + 1)
    BY <1>1, <1>2, <2>1, OneTurnMore
  <2>5. Apart(a, i, j + 1)
    BY <1>1, <1>2, <1>8, ApartFurther
  <2>6. j + 1 \in Nat /\ i < j + 1 /\ j + 1 <= m
    BY <1>1, <1>2, <2>1
  <2> QED BY <1>1, <1>m, <2>2, <2>3, <2>4, <2>5, <2>6 DEF Thinned
<1> QED
  BY <1>5, <1>6, <1>7, <1>8

uniqueTurn(h, n, x) == IF n = 0 THEN [heap |-> h, i |-> 0, j |-> 1] ELSE compared(x)

IsThinning(r, h, m) == r = [n \in 0..m |-> uniqueTurn(h, n, r[n - 1])]

LEMMA ThinningExists ==
  ASSUME NEW h, NEW m \in Nat
  PROVE  \E r : IsThinning(r, h, m)
<1> DEFINE S == {n \in Nat : \E r : IsThinning(r, h, n)}
<1>1. 0 \in S
  <2> DEFINE r == [n \in 0..0 |-> uniqueTurn(h, 0, 0)]
  <2>1. \A n \in 0..0 : uniqueTurn(h, n, r[n - 1]) = uniqueTurn(h, 0, 0)
    BY DEF uniqueTurn
  <2>2. IsThinning(r, h, 0)
    BY <2>1 DEF IsThinning
  <2> QED BY <2>2
<1>2. ASSUME NEW k \in Nat, k \in S PROVE k + 1 \in S
  <2>1. PICK r : IsThinning(r, h, k)
    BY <1>2
  <2> DEFINE t == [n \in 0..(k + 1) |-> uniqueTurn(h, n, r[n - 1])]
  <2>2. \A n \in 0..k : t[n] = r[n]
    BY <2>1 DEF IsThinning
  <2>3. ASSUME NEW n \in 0..(k + 1) PROVE uniqueTurn(h, n, r[n - 1]) = uniqueTurn(h, n, t[n - 1])
    <3>1. CASE n = 0
      BY <3>1 DEF uniqueTurn
    <3>2. CASE n # 0
      <4>1. n - 1 \in 0..k
        BY <3>2
      <4> QED BY <4>1, <2>2
    <3> QED BY <3>1, <3>2
  <2>4. IsThinning(t, h, k + 1)
    BY <2>3 DEF IsThinning
  <2> HIDE DEF t
  <2> QED BY <2>4
<1> HIDE DEF S
<1>3. m \in S
  BY <1>1, <1>2, SetInduction
<1> QED
  BY <1>3 DEF S

LEMMA UniquedIs ==
  ASSUME NEW h, NEW g, Sound(h), g = uniqued(h)
  PROVE  /\ Sound(g) /\ g.kept = h.kept /\ g.arr.len <= h.arr.len
         /\ \E f \in [1..Len(array(g)) -> 1..Len(array(h))] :
              FirstOfEach(array(h), f) /\ array(g) = [x \in 1..Len(array(g)) |-> array(h)[f[x]]]
<1> DEFINE n == h.arr.len
           m == h.arr.len * h.arr.len
<1>1. n \in Nat /\ array(h) \in Seq(Vals)
  BY ArrayIs
<1>2. m \in Nat /\ m = n * n
  <2>1. \A x \in Nat : x * x \in Nat
    OBVIOUS
  <2> QED BY <1>1, <2>1
<1>3. PICK r : IsThinning(r, h, m) /\ g = r[m].heap
  <2>1. PICK t : IsThinning(t, h, m)
    BY <1>2, ThinningExists
  <2> DEFINE r == CHOOSE q : IsThinning(q, h, m)
  <2>2. IsThinning(r, h, m)
    BY <2>1
  <2>3. g = r[m].heap
    BY DEF uniqued, IsThinning, uniqueTurn
  <2> QED BY <2>2, <2>3
<1>n. n = h.arr.len
  OBVIOUS
<1> HIDE DEF n, m
<1>4. r[0] = [heap |-> h, i |-> 0, j |-> 1] /\ \A k \in 1..m : r[k] = compared(r[k - 1])
  <2>1. \A k \in 0..m : r[k] = uniqueTurn(h, k, r[k - 1])
    BY <1>3 DEF IsThinning
  <2>2. 0 \in 0..m /\ \A k \in 1..m : k \in 0..m /\ k # 0
    BY <1>2
  <2> QED BY <2>1, <2>2 DEF uniqueTurn
<1> DEFINE S == {k \in Nat : k <= m => Thinned(r[k], h, k)}
<1>5. 0 \in S
  BY <1>4, ThinnedNone
<1>6. ASSUME NEW k \in Nat, k \in S PROVE k + 1 \in S
  <2> SUFFICES ASSUME k + 1 <= m PROVE Thinned(r[k + 1], h, k + 1)
    OBVIOUS
  <2>1. Thinned(r[k], h, k)
    BY <1>2, <1>6
  <2>2. k + 1 \in 1..m /\ (k + 1) - 1 = k
    BY <1>2
  <2>3. r[k + 1] = compared(r[k])
    BY <1>4, <2>2
  <2> QED BY <2>1, <2>3, ThinnedMore
<1> HIDE DEF S
<1>7. m \in S
  BY <1>2, <1>5, <1>6, SetInduction
<1> DEFINE x == r[m]
           a == array(g)
           q == array(h)
<1>8. Thinned(x, h, m) /\ g = x.heap
  BY <1>2, <1>3, <1>7 DEF S
<1> HIDE DEF x
<1>9. /\ Sound(g) /\ g.kept = h.kept /\ g.arr.len <= n
      /\ \E f : Thins(a, q, f)
      /\ x.i \in Nat /\ x.j \in Nat /\ Apart(a, x.i, x.j)
      /\ g.arr.len - 1 <= x.i \/ (x.i < x.j /\ x.j <= g.arr.len /\ Spent(g.arr.len, x.i, x.j, n, n * n))
  <2>1. /\ Sound(g) /\ g.kept = h.kept /\ g.arr.len <= h.arr.len
        /\ \E f : Thins(a, q, f)
        /\ x.i \in Nat /\ x.j \in Nat /\ Apart(a, x.i, x.j)
    BY <1>8 DEF Thinned
  <2>2. g.arr.len - 1 <= x.i \/ (x.i < x.j /\ x.j <= g.arr.len /\ Spent(g.arr.len, x.i, x.j, h.arr.len, m))
    BY <1>8 DEF Thinned
  <2> HIDE DEF a, q
  <2>3. g.arr.len <= n /\ h.arr.len = n /\ m = n * n
    BY <1>2, <2>1, <1>n
  <2> QED BY <2>1, <2>2, <2>3
<1>10. g.arr.len \in Nat /\ Len(a) = g.arr.len
  BY <1>9, ArrayIs
<1>11. Len(a) - 1 <= x.i
  <2> DEFINE l == g.arr.len
             i == x.i
             j == x.j
  <2>1. l \in Nat /\ i \in Nat /\ j \in Nat /\ l <= n /\ Len(a) = l
    BY <1>9, <1>10
  <2>2. l - 1 <= i \/ (i < j /\ j <= l /\ Spent(l, i, j, n, n * n))
    BY <1>9
  <2> HIDE DEF l, i, j, a
  <2>3. l - 1 <= i
    BY <1>1, <2>1, <2>2, NoTurnLeft
  <2> QED BY <2>1, <2>3 DEF i
<1> HIDE DEF a, q
<1>12. q \in Seq(Vals)
  BY <1>1 DEF q
<1>13. PICK f : Thins(a, q, f)
  BY <1>9
<1>14. f \in [1..Len(a) -> 1..Len(q)] /\ FirstOfEach(q, f) /\ a = [y \in 1..Len(a) |-> q[f[y]]]
  BY <1>9, <1>11, <1>12, <1>13, FirstsAreLeft
<1>15. \E e \in [1..Len(a) -> 1..Len(q)] : FirstOfEach(q, e) /\ a = [y \in 1..Len(a) |-> q[e[y]]]
  BY <1>14
<1> QED
  BY <1>9, <1>15, <1>n DEF a, q


-----------------------------------------------------------------------------
(***************************************************************************)
(* Shuffle and Reverse: one exchange after the other.                      *)
(***************************************************************************)
swapTurn(q, to, n, x) == IF n = 0 THEN q ELSE swapped(x, n, to[n])

IsSwapping(r, q, to, m) == r = [n \in 0..m |-> swapTurn(q, to, n, r[n - 1])]

LEMMA SwappingExists ==
  ASSUME NEW q, NEW to, NEW m \in Nat
  PROVE  \E r : IsSwapping(r, q, to, m)
<1> DEFINE S == {n \in Nat : \E r : IsSwapping(r, q, to, n)}
<1>1. 0 \in S
  <2> DEFINE r == [n \in 0..0 |-> swapTurn(q, to, 0, 0)]
  <2>1. \A n \in 0..0 : swapTurn(q, to, n, r[n - 1]) = swapTurn(q, to, 0, 0)
    BY DEF swapTurn
  <2>2. IsSwapping(r, q, to, 0)
    BY <2>1 DEF IsSwapping
  <2> QED BY <2>2
<1>2. ASSUME NEW k \in Nat, k \in S PROVE k + 1 \in S
  <2>1. PICK r : IsSwapping(r, q, to, k)
    BY <1>2
  <2> DEFINE t == [n \in 0..(k + 1) |-> swapTurn(q, to, n, r[n - 1])]
  <2>2. \A n \in 0..k : t[n] = r[n]
    BY <2>1 DEF IsSwapping
  <2>3. ASSUME NEW n \in 0..(k + 1) PROVE swapTurn(q, to, n, r[n - 1]) = swapTurn(q, to, n, t[n - 1])
    <3>1. CASE n = 0
      BY <3>1 DEF swapTurn
    <3>2. CASE n # 0
      <4>1. n - 1 \in 0..k
        BY <3>2
      <4> QED BY <4>1, <2>2
    <3> QED BY <3>1, <3>2
  <2>4. IsSwapping(t, q, to, k + 1)
    BY <2>3 DEF IsSwapping
  <2> HIDE DEF t
  <2> QED BY <2>4
<1> HIDE DEF S
<1>3. m \in S
  BY <1>1, <1>2, SetInduction
<1> QED
  BY <1>3 DEF S

\* t is s with the items at i and j exchanged.
IsSwapped(t, s, i, j) ==
  /\ t \in Seq(Vals) /\ Len(t) = Len(s)
  /\ \A k \in 1..Len(s) : t[k] = IF k = i THEN s[j] ELSE IF k = j THEN s[i] ELSE s[k]

LEMMA SwappedIs ==
  ASSUME NEW s, NEW i, NEW j, NEW t, s \in Seq(Vals), i \in 1..Len(s), j \in 1..Len(s), t = swapped(s, i, j)
  PROVE  IsSwapped(t, s, i, j)
<1> DEFINE n == Len(s)
<1>1. n \in Nat /\ DOMAIN s = 1..n
  BY LengthIsNat
<1>2. s[i] \in Vals /\ s[j] \in Vals /\ \A k \in 1..n : s[k] \in Vals
  BY Item
<1>3. i \in 1..n /\ j \in 1..n
  OBVIOUS
<1> HIDE DEF n
<1>4. t = [k \in 1..n |-> IF k = j THEN s[i] ELSE IF k = i THEN s[j] ELSE s[k]]
  <2> DEFINE u == [s EXCEPT ![i] = s[j]]
  <2>1. t = [u EXCEPT ![j] = s[i]]
    BY DEF swapped
  <2>2. u = [k \in 1..n |-> IF k = i THEN s[j] ELSE s[k]]
    BY <1>1
  <2> HIDE DEF u
  <2> QED BY <1>1, <1>3, <2>1, <2>2
<1>5. \A k \in 1..n : t[k] = IF k = i THEN s[j] ELSE IF k = j THEN s[i] ELSE s[k]
  BY <1>4
<1>6. t = [k \in 1..n |-> t[k]] /\ \A k \in 1..n : t[k] \in Vals
  BY <1>2, <1>4
<1>7. t \in Seq(Vals) /\ Len(t) = n
  BY <1>1, <1>6, SeqOfItems
<1> QED
  BY <1>5, <1>7 DEF IsSwapped, n

LEMMA SwapPermutes ==
  ASSUME NEW p, NEW s, NEW i, NEW j, NEW t, p \in Seq(Vals), s \in Seq(Vals), Len(s) = Len(p),
         i \in 1..Len(s), j \in 1..Len(s), t = swapped(s, i, j), Permutes(p, s)
  PROVE  Permutes(p, t) /\ t \in Seq(Vals) /\ Len(t) = Len(p)
<1> DEFINE n == Len(s)
           f == [k \in 1..n |-> IF k = i THEN j ELSE IF k = j THEN i ELSE k]
<1>1. n \in Nat /\ i \in 1..n /\ j \in 1..n /\ n = Len(p)
  BY LengthIsNat
<1>2. t \in Seq(Vals) /\ Len(t) = n /\ \A k \in 1..n : t[k] = IF k = i THEN s[j] ELSE IF k = j THEN s[i] ELSE s[k]
  <2>1. IsSwapped(t, s, i, j)
    BY SwappedIs
  <2> QED BY <2>1 DEF IsSwapped
<1> HIDE DEF n
<1>3. f \in perms(n)
  <2>1. f \in [1..n -> 1..n]
    BY <1>1
  <2>2. \A k \in 1..n : f[k] = IF k = i THEN j ELSE IF k = j THEN i ELSE k
    OBVIOUS
  <2> HIDE DEF f
  <2>3. \A x, y \in 1..n : f[x] = f[y] => x = y
    BY <2>2
  <2> QED BY <2>1, <2>3 DEF perms
<1>4. \A k \in 1..n : t[k] = s[f[k]]
  BY <1>2
<1> HIDE DEF f
<1>5. IsPermuted(t, s, f)
  BY <1>2, <1>4 DEF IsPermuted, n
<1>6. f \in perms(Len(p))
  BY <1>1, <1>3
<1>7. Permutes(p, t)
  BY <1>5, <1>6, PermutesAgain
<1> QED
  BY <1>1, <1>2, <1>7

LEMMA ShuffledIs ==
  ASSUME NEW q, NEW perm, q \in Seq(Vals), perm \in perms(Len(q))
  PROVE  /\ Permutes(q, shuffled(q, perm))
         /\ shuffled(q, perm) \in Seq(Vals) /\ Len(shuffled(q, perm)) = Len(q)
<1> DEFINE m == Len(q)
<1>1. m \in Nat
  BY LengthIsNat
<1>2. PICK r : IsSwapping(r, q, perm, m) /\ shuffled(q, perm) = r[m]
  <2>1. PICK t : IsSwapping(t, q, perm, m)
    BY <1>1, SwappingExists
  <2> DEFINE r == CHOOSE e : IsSwapping(e, q, perm, m)
  <2>2. IsSwapping(r, q, perm, m)
    BY <2>1
  <2>3. shuffled(q, perm) = r[m]
    BY DEF shuffled, IsSwapping, swapTurn
  <2> QED BY <2>2, <2>3
<1>3. \A k \in 1..m : perm[k] \in 1..m
  BY PermIs
<1>m. m = Len(q)
  OBVIOUS
<1> HIDE DEF m
<1>4. r[0] = q /\ \A k \in 1..m : r[k] = swapped(r[k - 1], k, perm[k])
  <2>1. \A k \in 0..m : r[k] = swapTurn(q, perm, k, r[k - 1])
    BY <1>2 DEF IsSwapping
  <2>2. 0 \in 0..m /\ \A k \in 1..m : k \in 0..m /\ k # 0
    BY <1>1
  <2> QED BY <2>1, <2>2 DEF swapTurn
<1> DEFINE Good(x) == Permutes(q, x) /\ x \in Seq(Vals) /\ Len(x) = m
           S == {k \in Nat : k <= m => Good(r[k])}
<1>5. 0 \in S
  BY <1>4, <1>m, PermutesItself
<1>6. ASSUME NEW k \in Nat, k \in S PROVE k + 1 \in S
  <2> SUFFICES ASSUME k + 1 <= m PROVE Good(r[k + 1])
    OBVIOUS
  <2> DEFINE s == r[k]
  <2>1. Permutes(q, s) /\ s \in Seq(Vals) /\ Len(s) = m
    BY <1>1, <1>6
  <2>2. k + 1 \in 1..m /\ (k + 1) - 1 = k
    BY <1>1
  <2>3. r[k + 1] = swapped(s, k + 1, perm[k + 1])
    BY <1>4, <2>2
  <2> HIDE DEF s
  <2>4. k + 1 \in 1..Len(s) /\ perm[k + 1] \in 1..Len(s) /\ Len(s) = Len(q)
    BY <1>3, <1>m, <2>1, <2>2
  <2> DEFINE i == k + 1
             j == perm[k + 1]
             t == r[k + 1]
  <2>5. t = swapped(s, i, j) /\ i \in 1..Len(s) /\ j \in 1..Len(s)
    BY <2>3, <2>4
  <2> HIDE DEF i, j, t
  <2>6. Permutes(q, t) /\ t \in Seq(Vals) /\ Len(t) = Len(q)
    BY <2>1, <2>4, <2>5, SwapPermutes
  <2> QED BY <1>m, <2>6 DEF t
<1> HIDE DEF S
<1>7. m \in S
  BY <1>1, <1>5, <1>6, SetInduction
<1>8. Good(r[m])
  BY <1>1, <1>7 DEF S
<1> QED
  BY <1>2, <1>8, <1>m

\* q with its first k and its last k items reversed.
PartReversed(x, q, k) ==
  /\ x \in Seq(Vals) /\ Len(x) = Len(q)
  /\ \A t \in 1..Len(q) : x[t] = IF t <= k \/ Len(q) - k < t THEN q[Len(q) + 1 - t] ELSE q[t]

LEMMA ReversedIs ==
  ASSUME NEW q, q \in Seq(Vals)
  PROVE  /\ reversed(q) = Seqs!Reverse(q)
         /\ reversed(q) \in Seq(Vals) /\ Len(reversed(q)) = Len(q)
<1> DEFINE n == Len(q)
           m == Len(q) \div 2
           to == [k \in 0..m |-> Len(q) + 1 - k]
<1>1. n \in Nat
  BY LengthIsNat
<1>2. m \in Nat /\ m + m <= n /\ n <= m + m + 1
  BY <1>1
<1>3. PICK r : r = [k \in 0..m |-> IF k = 0 THEN q ELSE swapped(r[k - 1], k, Len(q) + 1 - k)] /\ reversed(q) = r[m]
  <2>1. PICK t : IsSwapping(t, q, to, m)
    BY <1>2, SwappingExists
  <2>2. t = [k \in 0..m |-> IF k = 0 THEN q ELSE swapped(t[k - 1], k, Len(q) + 1 - k)]
    <3>1. \A k \in 0..m : to[k] = Len(q) + 1 - k
      OBVIOUS
    <3> HIDE DEF to
    <3>2. \A k \in 0..m : swapTurn(q, to, k, t[k - 1]) = IF k = 0 THEN q ELSE swapped(t[k - 1], k, Len(q) + 1 - k)
      BY <3>1 DEF swapTurn
    <3>3. t = [k \in 0..m |-> swapTurn(q, to, k, t[k - 1])]
      BY <2>1 DEF IsSwapping
    <3> HIDE DEF m
    <3> QED BY <3>2, <3>3
  <2> DEFINE r == CHOOSE e : e = [k \in 0..m |-> IF k = 0 THEN q ELSE swapped(e[k - 1], k, Len(q) + 1 - k)]
  <2>3. r = [k \in 0..m |-> IF k = 0 THEN q ELSE swapped(r[k - 1], k, Len(q) + 1 - k)]
    BY <2>2
  <2>4. reversed(q) = r[m]
    BY DEF reversed
  <2> QED BY <2>3, <2>4
<1>n. n = Len(q)
  OBVIOUS
<1> HIDE DEF m, n, to
<1>4. r[0] = q /\ \A k \in 1..m : r[k] = swapped(r[k - 1], k, n + 1 - k)
  <2>1. 0 \in 0..m /\ \A k \in 1..m : k \in 0..m /\ k # 0
    BY <1>2
  <2>2. \A k \in 0..m : r[k] = IF k = 0 THEN q ELSE swapped(r[k - 1], k, n + 1 - k)
    BY <1>3, <1>n
  <2> QED BY <2>1, <2>2
<1> DEFINE S == {k \in Nat : k <= m => PartReversed(r[k], q, k)}
<1>5. 0 \in S
  <2>1. \A t \in 1..n : ~(t <= 0) /\ ~(n - 0 < t)
    BY <1>1
  <2>2. PartReversed(q, q, 0)
    BY <2>1, <1>n DEF PartReversed
  <2> QED BY <1>4, <2>2
<1>6. ASSUME NEW k \in Nat, k \in S PROVE k + 1 \in S
  <2> SUFFICES ASSUME k + 1 <= m PROVE PartReversed(r[k + 1], q, k + 1)
    OBVIOUS
  <2> DEFINE s == r[k]
             i == k + 1
             j == n + 1 - (k + 1)
             u == r[k + 1]
  <2>1. PartReversed(s, q, k)
    BY <1>2, <1>6
  <2>2. s \in Seq(Vals) /\ Len(s) = n /\ \A t \in 1..n : s[t] = IF t <= k \/ n - k < t THEN q[n + 1 - t] ELSE q[t]
    BY <2>1, <1>n DEF PartReversed
  <2>3. k + 1 \in 1..m /\ (k + 1) - 1 = k /\ i \in 1..n /\ j \in 1..n
    BY <1>1, <1>2
  <2>4. u = swapped(s, i, j)
    BY <1>4, <2>3
  <2>5. i = k + 1 /\ j = n - k /\ i < j /\ n + 1 - i = j /\ n + 1 - j = i /\ ~(i <= k) /\ ~(n - k < i) /\ ~(j <= k) /\ ~(n - k < j)
    BY <1>1, <1>2
  <2> HIDE DEF s, u, i, j
  <2>6. i \in 1..Len(s) /\ j \in 1..Len(s)
    BY <2>2, <2>3
  <2>7. IsSwapped(u, s, i, j)
    BY <2>2, <2>4, <2>6, SwappedIs
  <2>8. u \in Seq(Vals) /\ Len(u) = n /\ \A t \in 1..n : u[t] = IF t = i THEN s[j] ELSE IF t = j THEN s[i] ELSE s[t]
    BY <2>2, <2>7 DEF IsSwapped
  <2>9. s[i] = q[i] /\ s[j] = q[j]
    BY <2>2, <2>3, <2>5
  <2>10. ASSUME NEW t \in 1..n
         PROVE  u[t] = IF t <= k + 1 \/ n - (k + 1) < t THEN q[n + 1 - t] ELSE q[t]
    <3>1. CASE t = i
      <4>1. t <= k + 1 /\ n + 1 - t = j
        BY <2>5, <3>1
      <4> QED BY <2>8, <2>9, <3>1, <4>1
    <3>2. CASE t = j
      <4>1. n - (k + 1) < t /\ n + 1 - t = i /\ t # i
        BY <1>1, <2>5, <3>2
      <4> QED BY <2>8, <2>9, <3>2, <4>1
    <3>3. CASE t # i /\ t # j
      <4>1. (t <= k + 1 <=> t <= k) /\ (n - (k + 1) < t <=> n - k < t)
        BY <1>1, <2>5, <3>3
      <4>2. u[t] = s[t] /\ s[t] = IF t <= k \/ n - k < t THEN q[n + 1 - t] ELSE q[t]
        BY <2>2, <2>8, <3>3
      <4> QED BY <4>1, <4>2
    <3> QED BY <3>1, <3>2, <3>3
  <2>11. PartReversed(u, q, k + 1)
    BY <1>n, <2>8, <2>10 DEF PartReversed
  <2> QED BY <2>11 DEF u
<1> HIDE DEF S
<1>7. m \in S
  BY <1>2, <1>5, <1>6, SetInduction
<1> DEFINE z == r[m]
<1>8. PartReversed(z, q, m)
  BY <1>2, <1>7 DEF S
<1> HIDE DEF z
<1>9. z \in Seq(Vals) /\ Len(z) = n /\ \A t \in 1..n : z[t] = IF t <= m \/ n - m < t THEN q[n + 1 - t] ELSE q[t]
  BY <1>8, <1>n DEF PartReversed
<1>10. ASSUME NEW t \in 1..n PROVE z[t] = q[(n - t) + 1]
  <2>1. n + 1 - t = (n - t) + 1 /\ (~(t <= m \/ n - m < t) => (n - t) + 1 = t)
    BY <1>1, <1>2
  <2>2. z[t] = IF t <= m \/ n - m < t THEN q[n + 1 - t] ELSE q[t]
    BY <1>9
  <2> QED BY <2>1, <2>2
<1>11. z = Seqs!Reverse(q)
  <2>1. z = [t \in 1..n |-> z[t]]
    BY <1>9
  <2>2. z = [t \in 1..n |-> q[(n - t) + 1]]
    BY <1>10, <2>1
  <2> QED BY <1>n, <2>2 DEF Seqs!Reverse
<1>12. reversed(q) = z
  BY <1>3 DEF z
<1> QED
  BY <1>9, <1>11, <1>12, <1>n


-----------------------------------------------------------------------------
(***************************************************************************)
(* Search, and what RemoveValue removes.                                   *)
(***************************************************************************)
\* The first v of q is at i, counted from 0.
FirstAt(q, v, i) == i \in Nat /\ i < Len(q) /\ q[i + 1] = v /\ \A k \in 1..i : q[k] # v

LEMMA SearchIs ==
  ASSUME NEW h, NEW v, Sound(h), search(h, v) # -1
  PROVE  FirstAt(array(h), v, search(h, v))
<1> DEFINE at == {i \in 0..h.arr.len - 1 : array(h)[i + 1] = v}
           n == h.arr.len
           q == array(h)
<1>1. Len(q) = n /\ n \in Nat
  BY ArrayIs
<1>2. at # {} /\ search(h, v) = Min(at)
  BY DEF search
<1>3. at \in SUBSET Nat
  BY <1>1
<1> HIDE DEF at
<1> DEFINE i == Min(at)
<1>4. i \in at /\ \A k \in at : i <= k
  BY <1>2, <1>3, LeastIs
<1> HIDE DEF i
<1>5. i \in 0..n - 1 /\ q[i + 1] = v
  BY <1>4 DEF at
<1>6. ASSUME NEW k \in 1..i, q[k] = v PROVE FALSE
  <2>1. k - 1 \in 0..n - 1 /\ (k - 1) + 1 = k /\ k - 1 < i
    BY <1>1, <1>5
  <2>2. k - 1 \in at
    BY <1>6, <2>1 DEF at
  <2> QED BY <1>4, <1>5, <2>1, <2>2
<1>7. i \in Nat /\ i < Len(q)
  BY <1>1, <1>5
<1>8. FirstAt(q, v, i)
  BY <1>5, <1>6, <1>7 DEF FirstAt
<1> QED
  BY <1>2, <1>8 DEF i

LEMMA RemoveFirstIs ==
  ASSUME NEW q, NEW v, NEW i, q \in Seq(Vals), FirstAt(q, v, i)
  PROVE  Seqs!RemoveFirst(q, v) = Seqs!RemoveAt(q, i + 1)
<1> DEFINE at == {k \in 1..Len(q) : q[k] = v}
           m == CHOOSE x \in at : \A y \in at : x <= y
<1>1. Len(q) \in Nat /\ i \in Nat /\ i < Len(q) /\ q[i + 1] = v /\ \A k \in 1..i : q[k] # v
  BY LengthIsNat DEF FirstAt
<1>2. i + 1 \in at
  BY <1>1
<1>3. \A y \in at : y \in Nat /\ i + 1 <= y
  <2> SUFFICES ASSUME NEW y \in 1..Len(q), q[y] = v PROVE y \in Nat /\ i + 1 <= y
    OBVIOUS
  <2>1. y \in 1..i \/ i + 1 <= y
    BY <1>1
  <2> QED BY <1>1, <2>1
<1>4. Seqs!RemoveFirst(q, v) = Seqs!RemoveAt(q, m)
  BY <1>2 DEF Seqs!RemoveFirst, Seqs!SelectInSeq, Min, Seqs!Min
<1> HIDE DEF at
<1>5. m \in at /\ \A y \in at : m <= y
  BY <1>2, <1>3
<1> HIDE DEF m
<1>6. m = i + 1
  <2>1. m <= i + 1 /\ i + 1 <= m /\ m \in Nat
    BY <1>2, <1>3, <1>5
  <2> QED BY <1>1, <2>1
<1> QED
  BY <1>4, <1>6


-----------------------------------------------------------------------------
(***************************************************************************)
(* The other operations.                                                   *)
(***************************************************************************)
\* h is a heap an operation on g may end with.
Keeps(g, h) == Sound(h) /\ h.arr.len <= g.arr.len

LEMMA LeavesLength ==
  ASSUME NEW h, NEW g, NEW q, Leaves(h, g, q), q \in Seq(Vals)
  PROVE  Sound(g) /\ array(g) = q /\ g.arr.len = Len(q)
BY DEF Leaves

LEMMA SoundKeeps ==
  ASSUME NEW h, Sound(h)
  PROVE  Keeps(h, h)
<1>1. h.arr.len \in Nat
  BY ArrayIs
<1> QED
  BY <1>1 DEF Keeps

LEMMA SetKeeps ==
  ASSUME NEW h, NEW i, NEW v, Sound(h), v \in Vals, i \in Int
  PROVE  Keeps(h, setAt(h, i, v))
<1> DEFINE g == setAt(h, i, v)
           n == h.arr.len
<1>1. n \in Nat
  BY ArrayIs
<1>2. CASE inRange(h, i)
  <2>1. i \in 0..n - 1
    BY <1>1, <1>2 DEF inRange
  <2>2. g = put(h, h.arr, i, <<v>>)
    BY <1>2 DEF setAt
  <2> HIDE DEF g
  <2>3. i \in Nat /\ i + 1 <= n
    BY <1>1, <2>1
  <2>4. <<v>> \in Seq(Vals) /\ Len(<<v>>) = 1
    BY OneItem
  <2> DEFINE one == <<v>>
  <2> HIDE DEF one
  <2>5. one \in Seq(Vals) /\ i + Len(one) <= h.arr.len /\ g = put(h, h.arr, i, one)
    BY <2>2, <2>3, <2>4 DEF one
  <2>6. Leaves(h, g, Overlaid(array(h), i, one, h.arr.len)) /\ g.arr = h.arr
    BY <2>3, <2>5, PutIs
  <2>7. Sound(g) /\ g.arr.len = n
    BY <2>6 DEF Leaves
  <2>8. n <= n
    BY <1>1
  <2> QED BY <2>7, <2>8 DEF Keeps, g
<1>3. CASE ~inRange(h, i)
  BY <1>3, SoundKeeps DEF setAt
<1> QED
  BY <1>2, <1>3

LEMMA RemoveKeeps ==
  ASSUME NEW h, NEW i, Sound(h), i \in Int
  PROVE  Keeps(h, removedAt(h, i))
<1> DEFINE g == removedAt(h, i)
           n == h.arr.len
           m == g.arr.len
<1>1. n \in Nat
  BY ArrayIs
<1>2. CASE inRange(h, i)
  <2>1. i \in 0..n - 1
    BY <1>1, <1>2 DEF inRange
  <2>2. Leaves(h, g, LeftOut(array(h), i)) /\ m = n - 1
    BY <2>1, RemovedAtIs
  <2> HIDE DEF g, m, n
  <2>3. Sound(g) /\ m <= n
    BY <1>1, <2>2 DEF Leaves
  <2> QED BY <2>3 DEF Keeps, g, m, n
<1>3. CASE ~inRange(h, i)
  <2>1. g = h
    BY <1>3 DEF removedAt
  <2> QED BY <2>1, SoundKeeps
<1> QED
  BY <1>2, <1>3

LEMMA SlicedKeeps ==
  ASSUME NEW h, NEW i, NEW j, Sound(h), i \in Nat, j \in Nat, i <= j, j <= h.arr.len
  PROVE  Keeps(h, Sliced(h, i, j))
<1> DEFINE g == Sliced(h, i, j)
<1>1. Sound(g) /\ g.arr = part(h.arr, i, j)
  BY SlicedIs
<1>2. h.arr.len \in Nat
  BY ArrayIs
<1>3. part(h.arr, i, j).len = j - i
  BY DEF part
<1> DEFINE m == g.arr.len
           n == h.arr.len
<1>4. m = j - i
  BY <1>1, <1>3
<1> HIDE DEF m, n, g
<1>5. n \in Nat /\ j <= n
  BY <1>2 DEF n
<1>6. m <= n
  BY <1>4, <1>5
<1> QED
  BY <1>1, <1>6 DEF Keeps, m, n, g

LEMMA PopKeeps ==
  ASSUME NEW h, Sound(h)
  PROVE  Keeps(h, poppedLeft(h)) /\ Keeps(h, poppedRight(h))
<1> DEFINE n == h.arr.len
<1>1. n \in Nat
  BY ArrayIs
<1>2. CASE n = 0
  BY <1>2, SoundKeeps DEF poppedLeft, poppedRight
<1>3. CASE n # 0
  <2>1. 1 <= n /\ n - 1 \in Nat /\ 0 <= n - 1 /\ n - 1 <= n /\ n <= n
    BY <1>1, <1>3
  <2>2. poppedLeft(h) = Sliced(h, 1, n) /\ poppedRight(h) = Sliced(h, 0, n - 1)
    BY <1>3 DEF poppedLeft, poppedRight, Sliced
  <2>n. n = h.arr.len
    OBVIOUS
  <2> DEFINE d == n - 1
  <2> HIDE DEF n, d
  <2>3. Keeps(h, Sliced(h, 1, n))
    BY <1>1, <2>1, <2>n, SlicedKeeps
  <2>4. d \in Nat /\ 0 <= d /\ d <= h.arr.len
    BY <2>1, <2>n DEF d
  <2>5. Keeps(h, Sliced(h, 0, d))
    BY <2>4, SlicedKeeps
  <2> QED BY <2>2, <2>3, <2>5 DEF d
<1> QED
  BY <1>2, <1>3

LEMMA RewriteKeeps ==
  ASSUME NEW h, NEW q, Sound(h), q \in Seq(Vals), Len(q) = h.arr.len
  PROVE  Keeps(h, put(h, h.arr, 0, q))
<1> DEFINE g == put(h, h.arr, 0, q)
           n == h.arr.len
<1>1. n \in Nat /\ 0 + Len(q) <= h.arr.len /\ n <= n
  BY ArrayIs
<1>2. Leaves(h, g, Overlaid(array(h), 0, q, h.arr.len)) /\ g.arr = h.arr
  BY <1>1, PutIs
<1> HIDE DEF g
<1>3. Sound(g) /\ g.arr.len = n
  BY <1>2 DEF Leaves
<1> QED
  BY <1>1, <1>3 DEF Keeps, g

LEMMA CopyKeeps ==
  ASSUME NEW h, NEW q, Sound(h), q \in Seq(Vals)
  PROVE  Keeps(h, copied(h, q))
<1> DEFINE g == copied(h, q)
<1>1. Sound(g) /\ g.arr = h.arr
  BY CopiedIs
<1> HIDE DEF g
<1>2. h.arr.len <= h.arr.len
  BY ArrayIs
<1> QED
  BY <1>1, <1>2 DEF Keeps, g

LEMMA LockKeeps ==
  ASSUME NEW h, NEW q, Sound(h), q \in Seq(Vals), Len(q) = h.arr.len
  PROVE  Keeps(h, shared(put(h, h.arr, 0, q), h.arr, FALSE))
<1> DEFINE g == put(h, h.arr, 0, q)
           e == shared(g, h.arr, FALSE)
<1>1. Sound(g) /\ g.arr.len <= h.arr.len
  BY RewriteKeeps DEF Keeps
<1>2. h.arr \in Windows
  BY ArrayIs
<1> DEFINE w == h.arr
<1>w. w \in Windows
  BY <1>2
<1>e. e = shared(g, w, FALSE)
  OBVIOUS
<1> HIDE DEF g, e, w
<1> DEFINE f == shared(g, w, FALSE)
<1>4. /\ Sound(f) /\ f.mem = g.mem /\ f.arr = g.arr /\ array(f) = array(g)
      /\ f.kept.win = w /\ ~f.kept.firm
  BY <1>1, <1>w, SharedIs
<1> HIDE DEF f
<1>f. e = f
  BY <1>e DEF f
<1>3. Sound(e) /\ e.arr = g.arr
  BY <1>4, <1>f
<1> QED
  BY <1>1, <1>3 DEF Keeps, e, g, w

LEMMA ReplaceKeeps ==
  ASSUME NEW h, NEW q, Sound(h), q \in Seq(Vals)
  PROVE  Keeps(h, replaced(h, q))
<1> DEFINE g == replaced(h, q)
           a == array(h)
           s == [j \in 1..Len(a) |-> IF j <= Len(q) THEN q[j] ELSE a[j]]
<1>1. Leaves(h, g, s)
  BY ReplacedIs
<1>2. a \in Seq(Vals) /\ Len(a) = h.arr.len /\ h.arr.len \in Nat
  BY ArrayIs
<1> HIDE DEF g, a
<1>3. Len(s) = Len(a)
  BY <1>2
<1> HIDE DEF s
<1>4. Sound(g) /\ g.arr.len = h.arr.len
  BY <1>1, <1>2, <1>3 DEF Leaves
<1>5. h.arr.len <= h.arr.len
  BY <1>2
<1> QED
  BY <1>4, <1>5 DEF Keeps, g


-----------------------------------------------------------------------------
(***************************************************************************)
(* The invariant.                                                          *)
(***************************************************************************)
Removals == [i : 0..MaxLen, v : Vals, quiet : BOOLEAN]

PendInv == pend # None => (pend.quiet => FirstAt(Now, pend.v, pend.i))

ArrayInv ==
  /\ Sound(heap) /\ Tidy(heap) /\ heap.arr.len <= MaxLen
  /\ safe \in BOOLEAN
  /\ pend \in {None} \cup Removals
  /\ PendInv

LEMMA Starts == ArrayInit => ArrayInv
<1> SUFFICES ASSUME ArrayInit PROVE ArrayInv
  OBVIOUS
<1> DEFINE w == [buf |-> 1, off |-> 0, len |-> 0]
           m == [b \in Bufs |-> <<>>]
           k == [win |-> w, was |-> <<>>, firm |-> FALSE]
<1>1. heap = [mem |-> m, arr |-> w, kept |-> k]
  BY DEF ArrayInit
<1>2. w \in Windows /\ w.len = 0 /\ w.off = 0 /\ w.buf = 1 /\ 1 \in Bufs
  BY DEF Windows, Bufs
<1>3. k \in [win : Windows, was : Seq(Vals), firm : BOOLEAN] /\ ~k.firm /\ k.win = w
  BY <1>2
<1>4. m \in [Bufs -> Seq(Cells)] /\ \A b \in Bufs : m[b] = <<>>
  BY DEF Cells
<1> HIDE DEF w, k, m
<1>5. heap \in Heaps
  BY <1>1, <1>2, <1>3, <1>4 DEF Heaps, Cells
<1>6. heap.arr = w /\ heap.mem = m /\ heap.kept = k
  BY <1>1
<1>7. Len(<<>>) = 0 /\ DOMAIN <<>> = {}
  OBVIOUS
<1>8. Fits(heap, heap.arr)
  BY <1>2, <1>4, <1>6, <1>7 DEF Fits
<1>9. Shows(heap, heap.arr)
  BY <1>2, <1>6 DEF Shows
<1>10. Sound(heap)
  BY <1>3, <1>5, <1>6, <1>8, <1>9 DEF Sound, KeptInv
<1>11. Tidy(heap)
  <2>1. \A v \in {heap.arr, heap.kept.win} : v.off + v.len <= Len(heap.mem[v.buf])
    BY <1>2, <1>3, <1>4, <1>6, <1>7
  <2>2. \A b \in Bufs : DOMAIN heap.mem[b] = {}
    BY <1>4, <1>6, <1>7
  <2> QED BY <1>5, <2>1, <2>2 DEF Tidy
<1>12. heap.arr.len <= MaxLen
  BY <1>2, <1>6, CArrayConstants
<1>13. safe \in BOOLEAN /\ pend = None
  BY DEF ArrayInit
<1> QED
  BY <1>10, <1>11, <1>12, <1>13 DEF ArrayInv, PendInv

LEMMA NotNone == ASSUME NEW p, p \in Removals PROVE p # None
<1>1. DOMAIN p = {"i", "v", "quiet"} /\ DOMAIN None = {"i"}
  BY DEF Removals, None
<1>2. "v" \notin {"i"}
  OBVIOUS
<1> QED
  BY <1>1, <1>2

\* Whatever sound heap an operation has made, the invariant holds again.
LEMMA TakeKeeps ==
  ASSUME ArrayInv, NEW h, Sound(h), h.arr.len <= MaxLen, Take(h)
  PROVE  ArrayInv'
<1>1. Sound(h) /\ h.arr.len <= MaxLen
  OBVIOUS
<1>2. heap' = settled(h) /\ safe' = safe
      /\ pend' = IF pend = None \/ array(h) = array(heap) THEN pend ELSE [pend EXCEPT !.quiet = FALSE]
  BY DEF Take
<1>3. Sound(heap') /\ Tidy(heap') /\ array(heap') = array(h) /\ heap'.arr.len = h.arr.len
  BY <1>1, <1>2, SettlesTo
<1>4. (Sound(heap) /\ Tidy(heap) /\ heap.arr.len <= MaxLen)'
  BY <1>1, <1>3
<1>5. safe' \in BOOLEAN
  BY <1>2 DEF ArrayInv
<1>6. CASE pend = None
  <2>1. pend' = None
    BY <1>2, <1>6
  <2>2. pend' \in {None} \cup Removals /\ PendInv'
    BY <2>1 DEF PendInv, None
  <2> QED BY <1>4, <1>5, <2>2 DEF ArrayInv, Removals, None
<1>7. CASE pend # None /\ array(h) = array(heap)
  <2>1. pend' = pend /\ Now' = Now
    BY <1>2, <1>3, <1>7 DEF Now
  <2>2. pend' \in {None} \cup Removals /\ PendInv'
    BY <2>1 DEF ArrayInv, PendInv, None
  <2> QED BY <1>4, <1>5, <2>2 DEF ArrayInv, Removals, None
<1>8. CASE pend # None /\ array(h) # array(heap)
  <2>1. pend \in Removals /\ pend' = [pend EXCEPT !.quiet = FALSE]
    BY <1>2, <1>8 DEF ArrayInv
  <2>2. pend' \in Removals /\ ~pend'.quiet
    BY <2>1 DEF Removals
  <2>3. PendInv'
    BY <2>2 DEF PendInv
  <2> QED BY <1>4, <1>5, <2>2, <2>3 DEF ArrayInv, Removals, None
<1> QED
  BY <1>6, <1>7, <1>8

LEMMA TakeSmaller ==
  ASSUME ArrayInv, NEW h, Keeps(heap, h), Take(h)
  PROVE  ArrayInv'
<1>1. Sound(h) /\ h.arr.len <= heap.arr.len
  BY DEF Keeps
<1>2. h.arr.len \in Nat /\ heap.arr.len \in Nat /\ heap.arr.len <= MaxLen /\ MaxLen \in Nat
  BY <1>1, ArrayIs, CArrayConstants DEF ArrayInv
<1>3. h.arr.len <= MaxLen
  BY <1>1, <1>2
<1> QED
  BY <1>1, <1>3, TakeKeeps


LEMMA SlicesAre ==
  ASSUME NEW n, NEW q, n \in Nat, q \in Slices(n)
  PROVE  q \in Seq(Vals) /\ Len(q) \in Nat /\ Len(q) <= n
<1>1. PICK m \in 0..n : q \in [1..m -> Vals]
  BY DEF Slices
<1>2. m \in Nat /\ m <= n /\ q = [k \in 1..m |-> q[k]] /\ \A k \in 1..m : q[k] \in Vals
  BY <1>1
<1>3. q \in Seq(Vals) /\ Len(q) = m
  BY <1>2, SeqOfItems
<1> QED
  BY <1>2, <1>3

LEMMA GrowthFits ==
  ASSUME ArrayInv, NEW h, NEW k, k \in Nat, Room(k), Sound(h), h.arr.len = heap.arr.len + k
  PROVE  h.arr.len <= MaxLen
BY DEF Room

LEMMA StepRemoveIndex == ASSUME ArrayInv, NEW i \in Indices, RemoveIndex(i) PROVE ArrayInv'
<1>1. i \in Int /\ Sound(heap)
  BY CArrayConstants DEF Indices, ArrayInv
<1>2. Keeps(heap, removedAt(heap, i))
  BY <1>1, RemoveKeeps
<1> QED
  BY <1>2, TakeSmaller DEF RemoveIndex

LEMMA StepSet == ASSUME ArrayInv, NEW i \in Indices, NEW v \in Vals, Set(i, v) PROVE ArrayInv'
<1>1. i \in Int /\ Sound(heap) /\ v \in Vals
  BY CArrayConstants DEF Indices, ArrayInv
<1>2. Keeps(heap, setAt(heap, i, v))
  BY <1>1, SetKeeps
<1> QED
  BY <1>2, TakeSmaller DEF Set

LEMMA StepInserted ==
  ASSUME ArrayInv, NEW i, NEW v \in Vals, NEW h, i \in Nat, i <= heap.arr.len, Room(1), h \in insertedAt(heap, i, v), Take(h)
  PROVE  ArrayInv'
<1>1. Sound(heap) /\ v \in Vals
  BY DEF ArrayInv
<1>2. Leaves(heap, h, With(array(heap), i, v)) /\ h.arr.len = heap.arr.len + 1
  BY <1>1, InsertedAtIs
<1>3. Sound(h)
  BY <1>2 DEF Leaves
<1>4. h.arr.len <= MaxLen
  BY <1>2 DEF Room
<1> QED
  BY <1>3, <1>4, TakeKeeps

LEMMA StepInsertBefore == ASSUME ArrayInv, NEW i \in Indices, NEW v \in Vals, InsertBefore(i, v) PROVE ArrayInv'
<1>1. PICK h \in insertedBefore(heap, i, v) : Room(1) /\ Take(h)
  BY DEF InsertBefore
<1>2. i \in Int /\ Sound(heap) /\ heap.arr.len \in Nat
  BY ArrayIs, CArrayConstants DEF Indices, ArrayInv
<1>3. CASE inRange(heap, i)
  <2>1. h \in insertedAt(heap, i, v) /\ i \in Nat /\ i <= heap.arr.len
    BY <1>1, <1>2, <1>3 DEF insertedBefore, inRange
  <2> QED BY <1>1, <2>1, StepInserted
<1>4. CASE ~inRange(heap, i)
  <2>1. h = heap
    BY <1>1, <1>4 DEF insertedBefore
  <2>2. Keeps(heap, heap)
    BY <1>2, SoundKeeps
  <2>3. Take(heap)
    BY <1>1, <2>1
  <2> QED BY <2>2, <2>3, TakeSmaller
<1> QED
  BY <1>3, <1>4

LEMMA StepInsertAfter == ASSUME ArrayInv, NEW i \in Indices, NEW v \in Vals, InsertAfter(i, v) PROVE ArrayInv'
<1>1. PICK h \in insertedAfter(heap, i, v) : Room(1) /\ Take(h)
  BY DEF InsertAfter
<1>2. i \in Int /\ Sound(heap) /\ heap.arr.len \in Nat
  BY ArrayIs, CArrayConstants DEF Indices, ArrayInv
<1>3. CASE inRange(heap, i)
  <2>1. h \in insertedAt(heap, i + 1, v) /\ i + 1 \in Nat /\ i + 1 <= heap.arr.len
    BY <1>1, <1>2, <1>3 DEF insertedAfter, inRange
  <2> DEFINE d == i + 1
  <2> HIDE DEF d
  <2>2. h \in insertedAt(heap, d, v) /\ d \in Nat /\ d <= heap.arr.len
    BY <2>1 DEF d
  <2> QED BY <1>1, <2>2, StepInserted
<1>4. CASE ~inRange(heap, i)
  <2>1. h = heap
    BY <1>1, <1>4 DEF insertedAfter
  <2>2. Keeps(heap, heap)
    BY <1>2, SoundKeeps
  <2>3. Take(heap)
    BY <1>1, <2>1
  <2> QED BY <2>2, <2>3, TakeSmaller
<1> QED
  BY <1>3, <1>4

LEMMA StepPushLeft == ASSUME ArrayInv, NEW q \in Slices(2), PushLeft(q) PROVE ArrayInv'
<1>1. PICK h \in pushedLeft(heap, q) : Room(Len(q)) /\ Take(h)
  BY DEF PushLeft
<1>2. Sound(heap) /\ heap.arr.len \in Nat
  BY ArrayIs DEF ArrayInv
<1>3. q \in Seq(Vals) /\ Len(q) \in Nat
  BY SlicesAre
<1>4. Leaves(heap, h, q \o array(heap)) /\ h.arr.len = Len(q) + heap.arr.len
  BY <1>1, <1>2, <1>3, PushedLeftIs
<1>5. Sound(h)
  BY <1>4 DEF Leaves
<1>6. h.arr.len <= MaxLen
  <2>1. heap.arr.len + Len(q) <= MaxLen
    BY <1>1 DEF Room
  <2>2. Len(q) + heap.arr.len = heap.arr.len + Len(q)
    BY <1>2, <1>3
  <2> QED BY <1>4, <2>1, <2>2
<1> QED
  BY <1>1, <1>5, <1>6, TakeKeeps

LEMMA StepPushRight == ASSUME ArrayInv, NEW q \in Slices(2), PushRight(q) PROVE ArrayInv'
<1>1. PICK h \in appended(heap, q) : Room(Len(q)) /\ Take(h)
  BY DEF PushRight
<1>2. Sound(heap) /\ heap.arr.len \in Nat /\ array(heap) \in Seq(Vals) /\ Len(array(heap)) = heap.arr.len
  BY ArrayIs DEF ArrayInv
<1>3. q \in Seq(Vals) /\ Len(q) \in Nat
  BY SlicesAre
<1>4. Leaves(heap, h, array(heap) \o q)
  BY <1>1, <1>2, <1>3, AppendedIs
<1>5. Len(array(heap) \o q) = heap.arr.len + Len(q)
  BY <1>2, <1>3, JoinIs DEF IsJoin
<1>6. Sound(h) /\ h.arr.len = heap.arr.len + Len(q)
  BY <1>4, <1>5 DEF Leaves
<1>7. h.arr.len <= MaxLen
  BY <1>1, <1>6 DEF Room
<1> QED
  BY <1>1, <1>6, <1>7, TakeKeeps

LEMMA StepMoved ==
  ASSUME ArrayInv, NEW q, NEW spare, q \in Seq(Vals), Len(q) <= MaxLen, spare \in Nat, Take(moved(heap, q, spare))
  PROVE  ArrayInv'
<1> DEFINE h == moved(heap, q, spare)
<1>1. Sound(heap)
  BY DEF ArrayInv
<1>2. Sound(h) /\ h.arr.len = Len(q)
  BY <1>1, MovedIs
<1> HIDE DEF h
<1>3. Take(h)
  BY DEF h
<1>4. h.arr.len <= MaxLen
  BY <1>2
<1> QED
  BY <1>2, <1>3, <1>4, TakeKeeps

LEMMA StepSetArray == ASSUME ArrayInv, NEW q \in Slices(2), NEW spare \in 0..MaxSpare, SetArray(q, spare) PROVE ArrayInv'
<1>1. q \in Seq(Vals) /\ Len(q) \in Nat /\ Len(q) <= 2
  BY SlicesAre
<1>2. Len(q) <= MaxLen /\ spare \in Nat
  BY <1>1, CArrayConstants
<1>3. Take(moved(heap, q, spare))
  BY DEF SetArray
<1> QED
  BY <1>1, <1>2, <1>3, StepMoved

LEMMA StepSetArrayTo == ASSUME ArrayInv, NEW w \in handles(heap), SetArrayTo(w) PROVE ArrayInv'
<1> DEFINE h == handedBack(heap, w)
<1>1. Sound(heap) /\ Tidy(heap)
  BY DEF ArrayInv
<1>2. w.len <= MaxLen /\ Take(h)
  BY DEF SetArrayTo
<1>3. Sound(h) /\ h.arr = w
  BY <1>1, HandedBackIs
<1> HIDE DEF h
<1>4. h.arr.len <= MaxLen
  BY <1>2, <1>3
<1> QED
  BY <1>2, <1>3, <1>4, TakeKeeps

LEMMA StepPushLeftOnto == ASSUME ArrayInv, NEW w \in handles(heap), PushLeftOnto(w) PROVE ArrayInv'
<1>1. PICK h \in pushedLeftOnto(heap, w) : Room(w.len) /\ Take(h)
  BY DEF PushLeftOnto
<1>2. Sound(heap) /\ Tidy(heap) /\ heap.arr.len \in Nat
  BY ArrayIs DEF ArrayInv
<1>3. Sound(h) /\ h.arr.len = w.len + heap.arr.len /\ w.len \in Nat
  BY <1>1, <1>2, PushedLeftOntoIs
<1>4. h.arr.len <= MaxLen
  <2>1. heap.arr.len + w.len <= MaxLen
    BY <1>1 DEF Room
  <2>2. w.len + heap.arr.len = heap.arr.len + w.len
    BY <1>2, <1>3
  <2> QED BY <1>3, <2>1, <2>2
<1> QED
  BY <1>1, <1>3, <1>4, TakeKeeps

LEMMA StepClear == ASSUME ArrayInv, ClearItems PROVE ArrayInv'
<1>1. <<>> \in Seq(Vals) /\ Len(<<>>) <= MaxLen /\ 0 \in Nat
  BY CArrayConstants
<1>2. Take(moved(heap, <<>>, 0))
  BY DEF ClearItems
<1> QED
  BY <1>1, <1>2, StepMoved

LEMMA StepReplace == ASSUME ArrayInv, NEW q \in Slices(2), Replace(q) PROVE ArrayInv'
<1>1. q \in Seq(Vals) /\ Sound(heap)
  BY SlicesAre DEF ArrayInv
<1>2. Keeps(heap, replaced(heap, q))
  BY <1>1, ReplaceKeeps
<1> QED
  BY <1>2, TakeSmaller DEF Replace

LEMMA StepPopLefts == ASSUME ArrayInv, NEW n \in Sizes, PopLefts(n) PROVE ArrayInv'
<1>1. n \in Nat /\ Sound(heap)
  BY CArrayConstants DEF Sizes, ArrayInv
<1>2. Keeps(heap, poppedLefts(heap, n))
  BY <1>1, PoppedLeftsIs DEF Keeps
<1> QED
  BY <1>2, TakeSmaller DEF PopLefts

LEMMA StepPopRights == ASSUME ArrayInv, NEW n \in Sizes, PopRights(n) PROVE ArrayInv'
<1>1. n \in Nat /\ Sound(heap)
  BY CArrayConstants DEF Sizes, ArrayInv
<1>2. Keeps(heap, poppedRights(heap, n))
  BY <1>1, PoppedRightsIs DEF Keeps
<1> QED
  BY <1>2, TakeSmaller DEF PopRights

LEMMA StepPopRands == ASSUME ArrayInv, NEW n \in Sizes, PopRands(n) PROVE ArrayInv'
<1>1. n \in Nat /\ Sound(heap)
  BY CArrayConstants DEF Sizes, ArrayInv
<1>2. PICK idx \in randIndices(heap, n) : Take(poppedRands(heap, idx))
  BY DEF PopRands
<1>3. Keeps(heap, poppedRands(heap, idx))
  BY <1>1, <1>2, PoppedRandsIs DEF Keeps
<1> QED
  BY <1>2, <1>3, TakeSmaller

LEMMA StepRands == ASSUME ArrayInv, NEW n \in Sizes, Rands(n) PROVE ArrayInv'
<1>1. n \in Nat /\ Sound(heap)
  BY CArrayConstants DEF Sizes, ArrayInv
<1>2. array(heap) \in Seq(Vals) /\ Len(array(heap)) = heap.arr.len
  BY <1>1, ArrayIs
<1>3. PICK idx \in [1..n -> 1..heap.arr.len] : Take(copied(heap, [k \in 1..n |-> array(heap)[idx[k]]]))
  BY DEF Rands
<1> DEFINE q == [k \in 1..n |-> array(heap)[idx[k]]]
<1>4. q \in Seq(Vals)
  <2>1. \A k \in 1..n : array(heap)[idx[k]] \in Vals
    BY <1>2, <1>3, Item
  <2>2. q = [k \in 1..n |-> q[k]] /\ \A k \in 1..n : q[k] \in Vals
    BY <2>1
  <2> HIDE DEF q
  <2> QED BY <1>1, <2>2, SeqOfItems
<1> HIDE DEF q
<1>5. Keeps(heap, copied(heap, q))
  BY <1>1, <1>4, CopyKeeps
<1>6. Take(copied(heap, q))
  BY <1>3 DEF q
<1> QED
  BY <1>5, <1>6, TakeSmaller

LEMMA StepGetRange == ASSUME ArrayInv, NEW n \in Sizes, NEW start \in Indices, GetRange(start, n) PROVE ArrayInv'
<1>1. n \in Nat /\ start \in Int /\ Sound(heap)
  BY CArrayConstants DEF Sizes, Indices, ArrayInv
<1> DEFINE h == ranged(heap, start, n)
<1>2. Sound(h) /\ h.arr = heap.arr
  BY <1>1, RangedIs
<1>3. heap.arr.len <= heap.arr.len
  BY <1>1, ArrayIs
<1>4. Take(h)
  BY DEF GetRange
<1> HIDE DEF h
<1>5. Keeps(heap, h)
  BY <1>2, <1>3 DEF Keeps
<1> QED
  BY <1>4, <1>5, TakeSmaller


LEMMA StepPopRand == ASSUME ArrayInv, PopRand PROVE ArrayInv'
<1>1. Sound(heap) /\ heap.arr.len \in Nat
  BY ArrayIs DEF ArrayInv
<1>2. PICK i \in 0..heap.arr.len - 1 : Take(removedAt(heap, i))
  BY DEF PopRand
<1>3. i \in Int
  BY <1>1
<1>4. Keeps(heap, removedAt(heap, i))
  BY <1>1, <1>3, RemoveKeeps
<1> QED
  BY <1>2, <1>4, TakeSmaller

LEMMA StepPopLeft == ASSUME ArrayInv, PopLeft PROVE ArrayInv'
<1>1. Keeps(heap, poppedLeft(heap))
  BY PopKeeps DEF ArrayInv
<1> QED
  BY <1>1, TakeSmaller DEF PopLeft

LEMMA StepPopRight == ASSUME ArrayInv, PopRight PROVE ArrayInv'
<1>1. Keeps(heap, poppedRight(heap))
  BY PopKeeps DEF ArrayInv
<1> QED
  BY <1>1, TakeSmaller DEF PopRight

LEMMA StepClone == ASSUME ArrayInv, Clone PROVE ArrayInv'
<1>1. Sound(heap) /\ array(heap) \in Seq(Vals)
  BY ArrayIs DEF ArrayInv
<1>2. Keeps(heap, copied(heap, array(heap)))
  BY <1>1, CopyKeeps
<1> QED
  BY <1>2, TakeSmaller DEF Clone

LEMMA StepUnique == ASSUME ArrayInv, Unique PROVE ArrayInv'
<1>1. Sound(heap)
  BY DEF ArrayInv
<1> DEFINE h == uniqued(heap)
<1>2. Sound(h) /\ h.arr.len <= heap.arr.len
  BY <1>1, UniquedIs
<1>3. Take(h)
  BY DEF Unique
<1> HIDE DEF h
<1> QED
  BY <1>2, <1>3, TakeSmaller DEF Keeps

LEMMA StepRewrite == ASSUME ArrayInv, NEW q, q \in Seq(Vals), Len(q) = heap.arr.len, Rewrite(q) PROVE ArrayInv'
<1>1. Sound(heap)
  BY DEF ArrayInv
<1>2. Keeps(heap, put(heap, heap.arr, 0, q))
  BY <1>1, RewriteKeeps
<1>3. Take(put(heap, heap.arr, 0, q))
  BY DEF Rewrite
<1> QED
  BY <1>2, <1>3, TakeSmaller

LEMMA StepSort == ASSUME ArrayInv, SortFunc PROVE ArrayInv'
<1> DEFINE a == array(heap)
<1>1. a \in Seq(Vals) /\ Len(a) = heap.arr.len
  BY ArrayIs DEF ArrayInv
<1>2. PICK perm \in perms(heap.arr.len) : Rewrite(permuted(a, perm))
  BY DEF SortFunc
<1> HIDE DEF a
<1>3. permuted(a, perm) \in Seq(Vals) /\ Len(permuted(a, perm)) = heap.arr.len
  BY <1>1, <1>2, PermutedIs DEF IsPermuted
<1> QED
  BY <1>2, <1>3, StepRewrite

LEMMA StepShuffle == ASSUME ArrayInv, Shuffle PROVE ArrayInv'
<1> DEFINE a == array(heap)
<1>1. a \in Seq(Vals) /\ Len(a) = heap.arr.len
  BY ArrayIs DEF ArrayInv
<1>2. PICK perm \in perms(heap.arr.len) : Rewrite(shuffled(a, perm))
  BY DEF Shuffle
<1> HIDE DEF a
<1>3. perm \in perms(Len(a))
  BY <1>1
<1>4. shuffled(a, perm) \in Seq(Vals) /\ Len(shuffled(a, perm)) = Len(a)
  BY <1>1, <1>3, ShuffledIs
<1> QED
  BY <1>1, <1>2, <1>4, StepRewrite

LEMMA StepReverse == ASSUME ArrayInv, ReverseItems PROVE ArrayInv'
<1> DEFINE a == array(heap)
<1>1. a \in Seq(Vals) /\ Len(a) = heap.arr.len
  BY ArrayIs DEF ArrayInv
<1>2. Rewrite(reversed(a))
  BY DEF ReverseItems
<1> HIDE DEF a
<1>3. reversed(a) \in Seq(Vals) /\ Len(reversed(a)) = Len(a)
  BY <1>1, ReversedIs
<1> QED
  BY <1>1, <1>2, <1>3, StepRewrite

LEMMA StepWalk == ASSUME ArrayInv, NEW f \in [Vals -> Vals], Walk(f) PROVE ArrayInv'
<1> DEFINE a == array(heap)
           n == heap.arr.len
           q == [i \in 1..heap.arr.len |-> f[array(heap)[i]]]
<1>1. a \in Seq(Vals) /\ Len(a) = n /\ n \in Nat
  BY ArrayIs DEF ArrayInv
<1>2. Rewrite(q)
  BY DEF Walk
<1>3. q = [i \in 1..n |-> q[i]] /\ \A i \in 1..n : q[i] \in Vals
  <2>1. \A i \in 1..n : a[i] \in Vals
    BY <1>1, Item
  <2>2. \A i \in 1..n : f[a[i]] \in Vals
    BY <2>1
  <2> QED BY <2>2
<1> HIDE DEF q, a, n
<1>4. q \in Seq(Vals) /\ Len(q) = n
  BY <1>1, <1>3, SeqOfItems
<1>5. Len(q) = heap.arr.len
  BY <1>4 DEF n
<1> QED
  BY <1>2, <1>4, <1>5, StepRewrite

LEMMA StepLockFunc == ASSUME ArrayInv, NEW q \in Slices(MaxLen), LockFunc(q) PROVE ArrayInv'
<1>1. q \in Seq(Vals) /\ Sound(heap)
  BY CArrayConstants, SlicesAre DEF ArrayInv
<1>2. Len(q) = heap.arr.len /\ Take(shared(put(heap, heap.arr, 0, q), heap.arr, FALSE))
  BY DEF LockFunc
<1>3. Keeps(heap, shared(put(heap, heap.arr, 0, q), heap.arr, FALSE))
  BY <1>1, <1>2, LockKeeps
<1> QED
  BY <1>2, <1>3, TakeSmaller

LEMMA StepRemoveValue == ASSUME ArrayInv, NEW v \in Vals, RemoveValue(v) PROVE ArrayInv'
<1> DEFINE i == search(heap, v)
           p == [i |-> search(heap, v), v |-> v, quiet |-> TRUE]
<1>1. Sound(heap) /\ heap.arr.len <= MaxLen /\ MaxLen \in Nat
  BY CArrayConstants DEF ArrayInv
<1>2. heap' = heap /\ safe' = safe /\ i # -1 /\ pend' = p
  BY DEF RemoveValue
<1>3. FirstAt(Now, v, i)
  BY <1>1, <1>2, SearchIs DEF Now
<1>4. Len(Now) = heap.arr.len /\ heap.arr.len \in Nat
  BY <1>1, ArrayIs DEF Now
<1>p. p.i = i /\ p.v = v /\ p.quiet
  OBVIOUS
<1>5. p \in Removals
  <2>1. i \in 0..MaxLen
    BY <1>1, <1>3, <1>4 DEF FirstAt
  <2> HIDE DEF i
  <2> QED BY <2>1 DEF Removals, i
<1> HIDE DEF p, i
<1>6. PendInv'
  <2>1. FirstAt(Now', p.v, p.i)
    BY <1>2, <1>3, <1>p DEF Now
  <2> QED BY <1>2, <2>1 DEF PendInv, None
<1>7. (Sound(heap) /\ Tidy(heap) /\ heap.arr.len <= MaxLen /\ safe \in BOOLEAN)'
  BY <1>2 DEF ArrayInv
<1>8. (pend \in {None} \cup Removals)'
  BY <1>2, <1>5 DEF Removals, None
<1> QED
  BY <1>6, <1>7, <1>8 DEF ArrayInv

LEMMA StepRemoveFound == ASSUME ArrayInv, RemoveFound PROVE ArrayInv'
<1>1. Sound(heap) /\ heap.arr.len <= MaxLen /\ MaxLen \in Nat /\ heap.arr.len \in Nat
  BY CArrayConstants, ArrayIs DEF ArrayInv
<1>2. pend # None /\ heap' = settled(found) /\ pend' = None /\ safe' = safe
  BY DEF RemoveFound
<1>3. pend.i \in Int
  <2>1. pend \in Removals
    BY <1>2 DEF ArrayInv
  <2>2. pend.i \in 0..MaxLen
    BY <2>1 DEF Removals
  <2> QED BY <1>1, <2>2
<1> DEFINE h == found
<1>4. Keeps(heap, h)
  BY <1>1, <1>3, RemoveKeeps DEF found
<1> HIDE DEF h
<1>5. Sound(h) /\ h.arr.len <= heap.arr.len
  BY <1>4 DEF Keeps
<1>6. h.arr.len \in Nat
  BY <1>5, ArrayIs
<1>7. h.arr.len <= MaxLen
  BY <1>1, <1>5, <1>6
<1>8. heap' = settled(h)
  BY <1>2 DEF h
<1>9. Sound(heap') /\ Tidy(heap') /\ heap'.arr.len = h.arr.len
  BY <1>5, <1>8, SettlesTo
<1>10. (Sound(heap) /\ Tidy(heap) /\ heap.arr.len <= MaxLen)'
  BY <1>7, <1>9
<1>11. PendInv' /\ (pend \in {None} \cup Removals)'
  BY <1>2 DEF PendInv, None
<1>12. (safe \in BOOLEAN)'
  BY <1>2 DEF ArrayInv
<1> QED
  BY <1>10, <1>11, <1>12 DEF ArrayInv

LEMMA StepStutter == ASSUME ArrayInv, UNCHANGED arrayVars PROVE ArrayInv'
<1>1. heap' = heap /\ safe' = safe /\ pend' = pend
  BY DEF arrayVars
<1>2. PendInv'
  BY <1>1 DEF ArrayInv, PendInv, Now, None
<1>3. (Sound(heap) /\ Tidy(heap) /\ heap.arr.len <= MaxLen /\ safe \in BOOLEAN)'
  BY <1>1 DEF ArrayInv
<1>4. (pend \in {None} \cup Removals)'
  BY <1>1 DEF ArrayInv, None, Removals
<1> QED
  BY <1>2, <1>3, <1>4 DEF ArrayInv

LEMMA Steps == ArrayInv /\ [ArrayNext]_arrayVars => ArrayInv'
<1> SUFFICES ASSUME ArrayInv, [ArrayNext]_arrayVars PROVE ArrayInv'
  OBVIOUS
<1>1. CASE UNCHANGED arrayVars
  BY <1>1, StepStutter
<1>2. CASE \E i \in Indices : RemoveIndex(i) \/ \E v \in Vals : Set(i, v) \/ InsertBefore(i, v) \/ InsertAfter(i, v)
  BY <1>2, StepRemoveIndex, StepSet, StepInsertBefore, StepInsertAfter
<1>3. CASE \E q \in Slices(2) : PushLeft(q) \/ PushRight(q) \/ Replace(q)
                                  \/ \E spare \in 0..MaxSpare : SetArray(q, spare)
  BY <1>3, StepPushLeft, StepPushRight, StepReplace, StepSetArray
<1>4. CASE \E n \in Sizes : PopLefts(n) \/ PopRights(n) \/ PopRands(n) \/ Rands(n)
                              \/ \E start \in Indices : GetRange(start, n)
  BY <1>4, StepPopLefts, StepPopRights, StepPopRands, StepRands, StepGetRange
<1>5. CASE PopRand \/ PopLeft \/ PopRight \/ Clone \/ ClearItems
  BY <1>5, StepPopRand, StepPopLeft, StepPopRight, StepClone, StepClear
<1>6. CASE SortFunc \/ Unique \/ Shuffle \/ ReverseItems
  BY <1>6, StepSort, StepUnique, StepShuffle, StepReverse
<1>7. CASE \E f \in [Vals -> Vals] : Walk(f)
  BY <1>7, StepWalk
<1>8. CASE \E q \in Slices(MaxLen) : LockFunc(q)
  BY <1>8, StepLockFunc
<1>9. CASE (\E v \in Vals : RemoveValue(v)) \/ RemoveFound
  BY <1>9, StepRemoveValue, StepRemoveFound
<1>10. CASE \E w \in handles(heap) : SetArrayTo(w) \/ PushLeftOnto(w)
  BY <1>10, StepSetArrayTo, StepPushLeftOnto
<1> QED
  BY <1>1, <1>2, <1>3, <1>4, <1>5, <1>6, <1>7, <1>8, <1>9, <1>10 DEF ArrayNext

\* The heap is sound after every operation, and the index RemoveValue remembers is that of
\* its value as long as nothing has come between.
THEOREM Inductive == ArraySpec => []ArrayInv
<1> QED
  BY Starts, Steps, PTL DEF ArraySpec

-----------------------------------------------------------------------------
(***************************************************************************)
(* What the invariant says of the properties.                              *)
(***************************************************************************)
LEMMA ImpliesType == ArrayInv => ArrayTypeOK
BY DEF ArrayInv, Tidy, ArrayTypeOK, Removals

LEMMA ImpliesKept == ArrayInv => KeptStaysPut
<1> SUFFICES ASSUME ArrayInv, heap.kept.firm PROVE KeptStaysPut
  BY DEF KeptStaysPut
<1> DEFINE v == heap.kept.win
           w == heap.arr
<1>1. Sound(heap) /\ heap \in Heaps
  BY DEF ArrayInv, Sound
<1>2. items(heap, v) = heap.kept.was /\ Behind(w, v)
  BY <1>1 DEF Sound, KeptInv
<1>3. v \in Windows /\ w \in Windows
  BY <1>1, HeapFields
<1>4. v.off \in Nat /\ v.len \in Nat /\ w.off \in Nat /\ w.len \in Nat
  BY <1>3, WindowFields
<1> HIDE DEF v, w
<1>5. ASSUME NEW b \in Bufs, NEW n \in DOMAIN heap.mem[b], Inside(v, b, n), Inside(w, b, n) PROVE FALSE
  <2>1. n \in Nat
    BY <1>1, BufferIs
  <2>2. v.buf = b /\ w.buf = b /\ n <= v.off + v.len /\ w.off < n
    BY <1>5 DEF Inside
  <2>3. v.off + v.len <= w.off
    BY <1>2, <2>2 DEF Behind
  <2> QED BY <1>4, <2>1, <2>2, <2>3
<1>6. Given(heap) = heap.kept.was
  BY <1>2 DEF Given, v
<1> QED
  BY <1>5, <1>6 DEF KeptStaysPut, v, w

LEMMA ImpliesShuffles == ArrayInv => ShufflePermutes
<1> SUFFICES ASSUME ArrayInv, NEW perm \in perms(Len(Now)) PROVE Permutes(Now, shuffled(Now, perm))
  BY DEF ShufflePermutes
<1>1. Now \in Seq(Vals)
  BY ArrayIs DEF ArrayInv, Now
<1> QED
  BY <1>1, ShuffledIs

LEMMA ImpliesPops == ArrayInv => PopsConserve
<1> SUFFICES ASSUME ArrayInv, NEW size \in Sizes \ {0}, Len(Now) > 0
             PROVE  /\ Given(poppedLefts(heap, size)) \o array(poppedLefts(heap, size)) = Now
                    /\ Len(Given(poppedLefts(heap, size))) <= size
                    /\ array(poppedRights(heap, size)) \o Given(poppedRights(heap, size)) = Now
                    /\ Len(Given(poppedRights(heap, size))) <= size
                    /\ \A idx \in randIndices(heap, size) :
                         /\ Permutes(Now, array(poppedRands(heap, idx)) \o Given(poppedRands(heap, idx)))
                         /\ Len(Given(poppedRands(heap, idx))) <= size
  BY DEF PopsConserve
<1>1. Sound(heap) /\ size \in Nat /\ size > 0
  BY CArrayConstants DEF ArrayInv, Sizes
<1>2. Now = array(heap) /\ Len(Now) = heap.arr.len
  BY <1>1, ArrayIs DEF Now
<1>3. heap.arr.len > 0
  BY <1>2
<1>4. /\ Given(poppedLefts(heap, size)) \o array(poppedLefts(heap, size)) = array(heap)
      /\ Len(Given(poppedLefts(heap, size))) <= size
  BY <1>1, <1>3, PoppedLeftsIs
<1>5. /\ array(poppedRights(heap, size)) \o Given(poppedRights(heap, size)) = array(heap)
      /\ Len(Given(poppedRights(heap, size))) <= size
  BY <1>1, <1>3, PoppedRightsIs
<1>6. ASSUME NEW idx \in randIndices(heap, size)
      PROVE  /\ Permutes(array(heap), array(poppedRands(heap, idx)) \o Given(poppedRands(heap, idx)))
             /\ Len(Given(poppedRands(heap, idx))) <= size
  BY <1>1, PoppedRandsIs
<1> QED
  BY <1>2, <1>4, <1>5, <1>6

LEMMA ImpliesQuiet == ArrayInv => RemovesValueWhenQuiet
<1> SUFFICES ASSUME ArrayInv, pend # None, pend.quiet PROVE array(found) = Seqs!RemoveFirst(Now, pend.v)
  BY DEF RemovesValueWhenQuiet
<1> DEFINE i == pend.i
           v == pend.v
           g == found
<1>1. Sound(heap) /\ FirstAt(Now, v, i)
  BY DEF ArrayInv, PendInv
<1>2. Now \in Seq(Vals) /\ Len(Now) = heap.arr.len /\ heap.arr.len \in Nat /\ Now = array(heap)
  BY <1>1, ArrayIs DEF Now
<1>3. i \in Nat /\ i < heap.arr.len
  BY <1>1, <1>2 DEF FirstAt
<1>4. g = removedAt(heap, i) /\ i \in 0..heap.arr.len - 1
  BY <1>2, <1>3 DEF found
<1> HIDE DEF g, i, v
<1>5. Leaves(heap, g, LeftOut(array(heap), i))
  BY <1>1, <1>4, RemovedAtIs
<1>6. array(g) = LeftOut(Now, i)
  BY <1>2, <1>5 DEF Leaves
<1>7. Seqs!RemoveFirst(Now, v) = Seqs!RemoveAt(Now, i + 1)
  BY <1>1, <1>2, RemoveFirstIs
<1>8. Seqs!RemoveAt(Now, i + 1) = LeftOut(Now, i)
  BY <1>2, <1>3, AsInLibrary
<1> QED
  BY <1>6, <1>7, <1>8 DEF g, v

LEMMA EditsAtIndex ==
  ASSUME ArrayInv, NEW i \in 0..Len(Now) - 1, NEW v \in Vals
  PROVE  /\ array(setAt(heap, i, v)) = Seqs!ReplaceAt(Now, i + 1, v)
         /\ \A h \in insertedBefore(heap, i, v) : array(h) = Seqs!InsertAt(Now, i + 1, v)
         /\ \A h \in insertedAfter(heap, i, v) : array(h) = Seqs!InsertAt(Now, i + 2, v)
         /\ array(removedAt(heap, i)) = Seqs!RemoveAt(Now, i + 1)
<1>1. Sound(heap) /\ Now \in Seq(Vals) /\ Len(Now) = heap.arr.len /\ heap.arr.len \in Nat /\ Now = array(heap)
  BY ArrayIs DEF ArrayInv, Now
<1>2. i \in Nat /\ i < heap.arr.len /\ i \in 0..heap.arr.len - 1 /\ i <= heap.arr.len /\ inRange(heap, i)
  BY <1>1 DEF inRange
<1>3. array(setAt(heap, i, v)) = Seqs!ReplaceAt(Now, i + 1, v)
  <2> DEFINE g == setAt(heap, i, v)
  <2>1. Leaves(heap, g, Seqs!ReplaceAt(array(heap), i + 1, v))
    BY <1>1, <1>2, SetAtIs
  <2> HIDE DEF g
  <2> QED BY <1>1, <2>1 DEF Leaves, g
<1>4. ASSUME NEW h \in insertedBefore(heap, i, v) PROVE array(h) = Seqs!InsertAt(Now, i + 1, v)
  <2>1. h \in insertedAt(heap, i, v)
    BY <1>2 DEF insertedBefore
  <2>2. Leaves(heap, h, With(array(heap), i, v))
    BY <1>1, <1>2, <2>1, InsertedAtIs
  <2>3. Seqs!InsertAt(Now, i + 1, v) = With(Now, i, v)
    BY <1>1, <1>2, AsInLibrary
  <2> QED BY <1>1, <2>2, <2>3 DEF Leaves
<1>5. ASSUME NEW h \in insertedAfter(heap, i, v) PROVE array(h) = Seqs!InsertAt(Now, i + 2, v)
  <2> DEFINE d == i + 1
  <2>1. h \in insertedAt(heap, d, v) /\ d \in Nat /\ d <= heap.arr.len /\ d + 1 = i + 2
    BY <1>1, <1>2 DEF insertedAfter
  <2> HIDE DEF d
  <2>2. Leaves(heap, h, With(array(heap), d, v))
    BY <1>1, <2>1, InsertedAtIs
  <2>3. Seqs!InsertAt(Now, d + 1, v) = With(Now, d, v)
    BY <1>1, <2>1, AsInLibrary
  <2> QED BY <1>1, <2>1, <2>2, <2>3 DEF Leaves
<1>6. array(removedAt(heap, i)) = Seqs!RemoveAt(Now, i + 1)
  <2> DEFINE g == removedAt(heap, i)
  <2>1. Leaves(heap, g, LeftOut(array(heap), i))
    BY <1>1, <1>2, RemovedAtIs
  <2> HIDE DEF g
  <2>2. Seqs!RemoveAt(Now, i + 1) = LeftOut(Now, i)
    BY <1>1, <1>2, AsInLibrary
  <2> QED BY <1>1, <2>1, <2>2 DEF Leaves, g
<1> QED
  BY <1>3, <1>4, <1>5, <1>6

LEMMA EditsByArray ==
  ASSUME ArrayInv, NEW q \in Slices(2)
  PROVE  /\ \A h \in pushedLeft(heap, q) : array(h) = q \o Now
         /\ \A h \in appended(heap, q) : array(h) = Now \o q
         /\ array(replaced(heap, q)) = [j \in 1..Len(Now) |-> IF j <= Len(q) THEN q[j] ELSE Now[j]]
<1>1. Sound(heap) /\ Now = array(heap)
  BY DEF ArrayInv, Now
<1>2. q \in Seq(Vals)
  BY SlicesAre
<1>3. ASSUME NEW h \in pushedLeft(heap, q) PROVE array(h) = q \o Now
  BY <1>1, <1>2, PushedLeftIs DEF Leaves
<1>4. ASSUME NEW h \in appended(heap, q) PROVE array(h) = Now \o q
  BY <1>1, <1>2, AppendedIs DEF Leaves
<1>5. array(replaced(heap, q)) = [j \in 1..Len(Now) |-> IF j <= Len(q) THEN q[j] ELSE Now[j]]
  <2> DEFINE g == replaced(heap, q)
             s == [j \in 1..Len(array(heap)) |-> IF j <= Len(q) THEN q[j] ELSE array(heap)[j]]
  <2>1. Leaves(heap, g, s)
    BY <1>1, <1>2, ReplacedIs
  <2>2. s = [j \in 1..Len(Now) |-> IF j <= Len(q) THEN q[j] ELSE Now[j]]
    BY <1>1
  <2> HIDE DEF g, s
  <2>3. array(g) = s
    BY <2>1 DEF Leaves
  <2> QED BY <2>2, <2>3 DEF g
<1> QED
  BY <1>3, <1>4, <1>5

LEMMA ImpliesEdits == ArrayInv => EditsAreExact
<1> SUFFICES ASSUME ArrayInv PROVE EditsAreExact
  OBVIOUS
<1>1. Sound(heap) /\ Now \in Seq(Vals) /\ Len(Now) = heap.arr.len /\ Now = array(heap)
  BY ArrayIs DEF ArrayInv, Now
<1> DEFINE u == array(uniqued(heap))
<1>2. \E f \in [1..Len(u) -> 1..Len(Now)] : FirstOfEach(Now, f) /\ u = [i \in 1..Len(u) |-> Now[f[i]]]
  <2> DEFINE g == uniqued(heap)
  <2>1. \E f \in [1..Len(array(g)) -> 1..Len(array(heap))] :
          FirstOfEach(array(heap), f) /\ array(g) = [x \in 1..Len(array(g)) |-> array(heap)[f[x]]]
    BY <1>1, UniquedIs
  <2> HIDE DEF g
  <2>2. u = array(g)
    BY DEF g
  <2> HIDE DEF u
  <2> QED BY <1>1, <2>1, <2>2
<1>3. reversed(Now) = Seqs!Reverse(Now)
  BY <1>1, ReversedIs
<1> HIDE DEF u
<1>4. \A i \in 0..Len(Now) - 1, v \in Vals :
        /\ array(setAt(heap, i, v)) = Seqs!ReplaceAt(Now, i + 1, v)
        /\ \A h \in insertedBefore(heap, i, v) : array(h) = Seqs!InsertAt(Now, i + 1, v)
        /\ \A h \in insertedAfter(heap, i, v) : array(h) = Seqs!InsertAt(Now, i + 2, v)
        /\ array(removedAt(heap, i)) = Seqs!RemoveAt(Now, i + 1)
  BY EditsAtIndex
<1>5. \A q \in Slices(2) :
        /\ \A h \in pushedLeft(heap, q) : array(h) = q \o Now
        /\ \A h \in appended(heap, q) : array(h) = Now \o q
        /\ array(replaced(heap, q)) = [j \in 1..Len(Now) |-> IF j <= Len(q) THEN q[j] ELSE Now[j]]
  BY EditsByArray
<1>6. ASSUME NEW w \in handles(heap), NEW h \in pushedLeftOnto(heap, w)
      PROVE  array(h) = items(heap, w) \o Now
  <2>1. Sound(heap) /\ Tidy(heap)
    BY DEF ArrayInv
  <2> QED BY <1>1, <2>1, PushedLeftOntoIs
<1> QED
  BY <1>2, <1>3, <1>4, <1>5, <1>6 DEF EditsAreExact, u

\* Every variable has its type in every state, every window lies within its buffer, and a
\* cell is junk exactly when no window shows it.
THEOREM TypeCorrect == ArraySpec => []ArrayTypeOK
<1> QED
  BY Inductive, ImpliesType, PTL

\* What Range of a safe array, Clone, Rands, PopRands and PopLefts of a part have returned
\* stays as it was, whatever is done with the array, and shares no cell with it, until its
\* holder gives it, or a part of it, to SetArray or PushLeft.
THEOREM ResultsStayPut == ArraySpec => []KeptStaysPut
<1> QED
  BY Inductive, ImpliesKept, PTL

\* SetIndex, InsertBefore and InsertAfter, RemoveIndex, PushLeft and PushRight, Replace, Unique
\* and Reverse edit the array as they would a sequence, with any capacity behind it, PushLeft
\* also when it is given a part of the array or of a slice that the array returned.
THEOREM EditsAreThoseOfASequence == ArraySpec => []EditsAreExact
<1> QED
  BY Inductive, ImpliesEdits, PTL

\* PopLefts, PopRights and PopRands return and leave together what there was, and return no
\* more than they were asked for.
THEOREM NothingIsLostByPopping == ArraySpec => []PopsConserve
<1> QED
  BY Inductive, ImpliesPops, PTL

\* Shuffle leaves the same items, in some order.
THEOREM ShufflesKeepItems == ArraySpec => []ShufflePermutes
<1> QED
  BY Inductive, ImpliesShuffles, PTL

\* RemoveValue removes the first item of that value unless another operation has changed
\* the items between its Search and its Remove.
THEOREM QuietRemovalIsRight == ArraySpec => []RemovesValueWhenQuiet
<1> QED
  BY Inductive, ImpliesQuiet, PTL

-----------------------------------------------------------------------------
(***************************************************************************)
(* Type correctness of a queue and an array put together with a stack,     *)
(* whichever of them runs.                                                 *)
(***************************************************************************)
THEOREM ContainersTypesCorrect == ContainersSpec => []TypesOK
<1>1. ContainersInit => Init /\ ArrayInit
  BY DEF ContainersInit
<1>2. [ContainersNext]_<<runs, vars, stackVars, arrayVars>> => [Next]_vars /\ [ArrayNext]_arrayVars
  BY DEF ContainersNext
<1>3. ContainersSpec => Spec /\ ArraySpec
  BY <1>1, <1>2, PTL DEF ContainersSpec, Spec, ArraySpec
<1> QED
  BY <1>3, QueueTypeCorrect, TypeCorrect, PTL DEF TypesOK

\* The theorems about a stack, about the one of MCContainers.
StackTheorems == INSTANCE StackProofs WITH list <- stackList, npushed <- stackPushed, popped <- stackPopped

\* The lists of TheStack and StackTheorems are those of one module.
LEMMA SameList ==
  /\ TheStack!NewList = StackTheorems!NewList /\ TheStack!Nil = StackTheorems!Nil
  /\ \A l : /\ TheStack!Back(l) = StackTheorems!Back(l)
            /\ TheStack!ListInit(l) = StackTheorems!ListInit(l)
            /\ TheStack!contents(l) = StackTheorems!contents(l)
  /\ \A l, e : /\ TheStack!PushBack(l, e) = StackTheorems!PushBack(l, e)
               /\ TheStack!ListRemove(l, e) = StackTheorems!ListRemove(l, e)
<1>1. TheStack!NewList = StackTheorems!NewList /\ TheStack!Nil = StackTheorems!Nil
  BY DEF TheStack!NewList, StackTheorems!NewList, TheStack!Nil, StackTheorems!Nil,
     TheStack!Nodes, StackTheorems!Nodes, TheStack!Root, StackTheorems!Root, TheStack!Elems,
     StackTheorems!Elems
<1>2. ASSUME NEW l
      PROVE  /\ TheStack!Back(l) = StackTheorems!Back(l)
             /\ TheStack!ListInit(l) = StackTheorems!ListInit(l)
  BY DEF TheStack!Back, StackTheorems!Back, TheStack!ListInit, StackTheorems!ListInit,
     TheStack!Nil, StackTheorems!Nil, TheStack!Root, StackTheorems!Root
<1>3. ASSUME NEW l PROVE TheStack!contents(l) = StackTheorems!contents(l)
  BY DEF TheStack!contents, StackTheorems!contents, TheStack!from, StackTheorems!from,
     TheStack!Nodes, StackTheorems!Nodes, TheStack!Nil, StackTheorems!Nil, TheStack!Root,
     StackTheorems!Root, TheStack!Elems, StackTheorems!Elems
<1>4. ASSUME NEW l, NEW e
      PROVE  /\ TheStack!PushBack(l, e) = StackTheorems!PushBack(l, e)
             /\ TheStack!ListRemove(l, e) = StackTheorems!ListRemove(l, e)
  BY DEF TheStack!PushBack, StackTheorems!PushBack, TheStack!ListRemove,
     StackTheorems!ListRemove, TheStack!linkAfter, StackTheorems!linkAfter, TheStack!unlink,
     StackTheorems!unlink, TheStack!Nil, StackTheorems!Nil, TheStack!Root, StackTheorems!Root
<1> QED
  BY <1>1, <1>2, <1>3, <1>4

(***************************************************************************)
(* The stack of the three is last in, first out, and Length is its length. *)
(***************************************************************************)
THEOREM ContainersStackIsLifo == ContainersSpec => IsLifo
<1>1. ContainersInit => StackTheorems!Init
  BY SameList DEF ContainersInit, TheStack!Init, StackTheorems!Init
<1>2. [ContainersNext]_<<runs, vars, stackVars, arrayVars>>
        => [StackTheorems!Next]_(StackTheorems!vars)
  BY SameList DEF ContainersNext, stackVars, StackTheorems!vars,
     TheStack!Next, StackTheorems!Next, TheStack!Push, StackTheorems!Push, TheStack!Pop,
     StackTheorems!Pop, TheStack!top, StackTheorems!top, TheStack!Clear, StackTheorems!Clear
<1>3. ContainersSpec => StackTheorems!IsLifo
  <2>1. StackTheorems!Init /\ [][StackTheorems!Next]_(StackTheorems!vars) => StackTheorems!IsLifo
    BY StackTheorems!StackIsLifo, GoListConstants
  <2> QED
    BY <1>1, <1>2, <2>1, PTL DEF ContainersSpec
<1>4. StackTheorems!Contract!Init => TheStack!Contract!Init
  BY SameList DEF TheStack!Contract!Init, StackTheorems!Contract!Init
<1>5. [\/ StackTheorems!Contract!Push
       \/ StackTheorems!Contract!Pop
       \/ StackTheorems!Contract!Clear]_<<StackTheorems!contents(stackList), stackPushed, stackPopped>>
      => [\/ TheStack!Contract!Push
          \/ TheStack!Contract!Pop
          \/ TheStack!Contract!Clear]_<<TheStack!contents(stackList), stackPushed, stackPopped>>
  BY SameList DEF TheStack!Contract!Push, StackTheorems!Contract!Push, TheStack!Contract!Pop,
     StackTheorems!Contract!Pop, TheStack!Contract!Clear, StackTheorems!Contract!Clear
<1>6. StackTheorems!Length = Len(StackTheorems!contents(stackList))
        => TheStack!Length = Len(TheStack!contents(stackList))
  BY SameList DEF TheStack!Length, StackTheorems!Length
<1> QED
  BY <1>3, <1>4, <1>5, <1>6, PTL DEF IsLifo, TheStack!IsLifo, StackTheorems!IsLifo, TheStack!Contract!Spec,
     StackTheorems!Contract!Spec

=============================================================================
