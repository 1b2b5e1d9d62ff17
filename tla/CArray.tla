------------------------------- MODULE CArray -------------------------------
(***************************************************************************)
(* container/carray: a slice under internal/rwmutex, a lock that an unsafe *)
(* array does without.  Every operation is one lock section, RemoveValue   *)
(* is two.  The operations cut, append to and hand out slices of one       *)
(* backing array, so the model has the memory: buffers, and windows on     *)
(* them.  Indices are those of Go, from 0.                                 *)
(***************************************************************************)
EXTENDS Integers, Sequences, FiniteSets, FiniteSetsExt

CONSTANTS
  Vals,       \* the items
  MaxLen,     \* bound: items in the array
  MaxSpare    \* bound: capacity append allocates beyond what it needs

\* Items differ from Junk and can be put in order; SetArray is called with up to two.
ASSUME CArrayConstants == Vals \subseteq Nat \ {0} /\ MaxLen \in Nat \ {0, 1} /\ MaxSpare \in Nat

Bufs    == 1..3   \* backing arrays: the array's own, a caller's, one just allocated
Junk    == 0      \* a cell no window shows
Windows == [buf : Bufs, off : Nat, len : Nat]

\* mem: the cells of each backing array; arr: the array's slice; kept: a slice a caller
\* has been given, what it showed then, and whether it must never change (firm).
Heaps ==
  [mem : [Bufs -> Seq(Vals \cup {Junk})], arr : Windows,
   kept : [win : Windows, was : Seq(Vals), firm : BOOLEAN]]

VARIABLES
  heap,
  safe,    \* whether the array was made with a lock (New and the like)
  pend     \* the RemoveValue between Search and Remove: index, value, whether the items
           \* are as Search saw them

arrayVars == <<heap, safe, pend>>

None == [i |-> -1]

items(h, w) == SubSeq(h.mem[w.buf], w.off + 1, w.off + w.len)
array(h) == items(h, h.arr)

Inside(w, b, n) == b = w.buf /\ n > w.off /\ n <= w.off + w.len

ArrayTypeOK ==
  /\ heap \in Heaps
  /\ \A w \in {heap.arr, heap.kept.win} : w.off + w.len <= Len(heap.mem[w.buf])
  /\ \A b \in Bufs : \A n \in DOMAIN heap.mem[b] :
       heap.mem[b][n] = Junk <=> ~Inside(heap.arr, b, n) /\ ~Inside(heap.kept.win, b, n)
  /\ safe \in BOOLEAN
  /\ pend \in {None} \cup [i : 0..MaxLen, v : Vals, quiet : BOOLEAN]

\* NewArraySize, with no item: a slice of nothing.
ArrayInit ==
  /\ LET nothing == [buf |-> 1, off |-> 0, len |-> 0]
      IN  heap = [mem |-> [b \in Bufs |-> <<>>], arr |-> nothing,
                  kept |-> [win |-> nothing, was |-> <<>>, firm |-> FALSE]]
  /\ safe \in BOOLEAN
  /\ pend = None

-----------------------------------------------------------------------------
\* Slices

\* w[i:j].
part(w, i, j) == [buf |-> w.buf, off |-> w.off + i, len |-> j - i]

\* The cells of w from its i-th on overwritten with q.
put(h, w, i, q) ==
  LET at == w.off + i
  IN  [h EXCEPT !.mem[w.buf] = [n \in DOMAIN h.mem[w.buf] |->
         IF n - at \in 1..Len(q) THEN q[n - at] ELSE h.mem[w.buf][n]]]

fresh(h) == Min(Bufs \ {h.arr.buf, h.kept.win.buf})

\* The array becomes a new slice of q.
moved(h, q, spare) ==
  LET b == fresh(h)
  IN  [h EXCEPT !.mem[b] = q \o [n \in 1..spare |-> Junk],
                !.arr = [buf |-> b, off |-> 0, len |-> Len(q)]]

\* append(arr, q...): in place when the capacity allows, or into a larger new buffer.
appended(h, q) ==
  LET w == h.arr
  IN  IF w.off + w.len + Len(q) <= Len(h.mem[w.buf])
      THEN {[put(h, w, w.len, q) EXCEPT !.arr.len = w.len + Len(q)]}
      ELSE {moved(h, array(h) \o q, spare) : spare \in 0..MaxSpare}

\* A caller keeps a copy of q, or a window on the array's own buffer.
copied(h, q) ==
  LET b == fresh(h)
  IN  [h EXCEPT !.mem[b] = q,
                !.kept = [win |-> [buf |-> b, off |-> 0, len |-> Len(q)], was |-> q, firm |-> TRUE]]
shared(h, w, firm) ==
  [h EXCEPT !.kept = [win |-> w, was |-> IF firm THEN items(h, w) ELSE <<>>, firm |-> firm]]

\* The heap after an operation.  What no window shows cannot be read again: cells before
\* the windows are dropped, others are junk, and buffers are renamed, the array's the first.
\* A slice that later operations may overwrite is not followed any further.
settled(h) ==
  LET held      == IF h.kept.firm THEN h.kept
                   ELSE [win |-> [h.arr EXCEPT !.len = 0], was |-> <<>>, firm |-> FALSE]
      own       == h.arr.buf
      other     == held.win.buf
      first(b)  == Min({w.off : w \in {x \in {h.arr, held.win} : x.buf = b}})
      cells(b)  == [n \in 1..Len(h.mem[b]) - first(b) |->
                      LET m == n + first(b)
                      IN  IF Inside(h.arr, b, m) \/ Inside(held.win, b, m) THEN h.mem[b][m] ELSE Junk]
      at(w)     == [buf |-> IF w.buf = own THEN 1 ELSE 2, off |-> w.off - first(w.buf), len |-> w.len]
  IN  [mem  |-> [b \in Bufs |-> IF b = 1 THEN cells(own)
                                ELSE IF b = 2 /\ other # own THEN cells(other) ELSE <<>>],
       arr  |-> at(h.arr),
       kept |-> [held EXCEPT !.win = at(held.win)]]

-----------------------------------------------------------------------------
\* What the operations do to the heap.  An index or a size out of range changes nothing.

inRange(h, i) == i >= 0 /\ i < h.arr.len

setAt(h, i, v) == IF inRange(h, i) THEN put(h, h.arr, i, <<v>>) ELSE h

replaced(h, q) == put(h, h.arr, 0, SubSeq(q, 1, Min({Len(q), h.arr.len})))

\* Faulty variant: the rear is read after the value has been appended.
insertedAt_NoCopy(h, i, v) ==
  LET rear == part(h.arr, i, h.arr.len)
  IN  UNION {appended(g, items(g, rear)) : g \in appended([h EXCEPT !.arr.len = i], <<v>>)}

\* The rear copied, the value appended to the front part, then the rear.
insertedAt(h, i, v) ==
  LET rear == items(h, part(h.arr, i, h.arr.len))
  IN  UNION {appended(g, rear) : g \in appended([h EXCEPT !.arr.len = i], <<v>>)}

insertedBefore(h, i, v) == IF inRange(h, i) THEN insertedAt(h, i, v) ELSE {h}
insertedAfter(h, i, v)  == IF inRange(h, i) THEN insertedAt(h, i + 1, v) ELSE {h}

\* append(arr[:i], arr[i+1:]...), in place.
cut(h, i) ==
  LET w == h.arr
  IN  [put(h, w, i, items(h, part(w, i + 1, w.len))) EXCEPT !.arr.len = w.len - 1]

removedAt(h, i) ==
  LET w == h.arr
      n == w.len
  IN  IF ~inRange(h, i) THEN h
      ELSE IF i = 0 THEN [h EXCEPT !.arr = part(w, 1, n)]
      ELSE IF i = n - 1 THEN [h EXCEPT !.arr = part(w, 0, i)]
      ELSE cut(h, i)

\* append(value, arr...), the value being a slice of its own.
pushedLeft(h, q) == {moved(h, q \o array(h), spare) : spare \in 0..MaxSpare}

\* The parts of a slice, and those a caller may have of the array's own memory: of the
\* array (from Range without a lock, or kept by a callback of LockFunc) and of what it keeps.
partsOf(w) == UNION {{part(w, i, j) : j \in i..w.len} : i \in 0..w.len}
handles(h) == partsOf(h.arr) \cup partsOf(h.kept.win)

\* The array becomes w itself.  A kept slice is firm no more once a part of it is the array.
handedBack(h, w) == [h EXCEPT !.arr = w, !.kept.firm = h.kept.firm /\ w \in partsOf(h.arr)]

\* append(w, arr...): into w's capacity, whatever lies there, if it is enough.
pushedLeftOnto(h, w) == appended(handedBack(h, w), array(h))

poppedLeft(h)  == IF h.arr.len = 0 THEN h ELSE [h EXCEPT !.arr = part(h.arr, 1, h.arr.len)]
poppedRight(h) == IF h.arr.len = 0 THEN h ELSE [h EXCEPT !.arr = part(h.arr, 0, h.arr.len - 1)]

\* Faulty variant: the items returned stay in the array.
poppedLefts_Off(h, size) ==
  LET w == h.arr
  IN  IF size <= 0 \/ w.len = 0 THEN h
      ELSE IF size >= w.len THEN [shared(h, w, FALSE) EXCEPT !.arr.len = 0]
      ELSE [shared(h, part(w, 0, size), TRUE) EXCEPT !.arr = part(w, size - 1, w.len)]

\* All the items: the array's own slice is returned, and its cells are used again.
poppedLefts(h, size) ==
  LET w == h.arr
  IN  IF size <= 0 \/ w.len = 0 THEN h
      ELSE IF size >= w.len THEN [shared(h, w, FALSE) EXCEPT !.arr.len = 0]
      ELSE [shared(h, part(w, 0, size), TRUE) EXCEPT !.arr = part(w, size, w.len)]

\* Faulty variant: more may be asked for than there is.
poppedRights_Long(h, size) ==
  LET w == h.arr
      at == w.len - size
  IN  IF size <= 0 \/ w.len = 0 THEN h
      ELSE [shared(h, part(w, at, w.len), FALSE) EXCEPT !.arr.len = at]

\* The slice returned lies in the capacity left to the array.
poppedRights(h, size) ==
  LET w == h.arr
      at == w.len - size
  IN  IF size <= 0 \/ w.len = 0 THEN h
      ELSE IF at <= 0 THEN [shared(h, w, FALSE) EXCEPT !.arr.len = 0]
      ELSE [shared(h, part(w, at, w.len), FALSE) EXCEPT !.arr.len = at]

\* idx: the indices rand.Intn gives, each within what is left.
randIndices(h, size) ==
  {idx \in [1..Min({size, h.arr.len}) -> 0..h.arr.len - 1] :
     \A n \in DOMAIN idx : idx[n] <= h.arr.len - n}

poppedAlso(r, i) ==
  [heap |-> removedAt(r.heap, i), got |-> Append(r.got, array(r.heap)[i + 1])]

poppedRands(h, idx) ==
  LET r[n \in 0..Len(idx)] ==
        IF n = 0 THEN [heap |-> h, got |-> <<>>] ELSE poppedAlso(r[n - 1], idx[n])
  IN  copied(r[Len(idx)].heap, r[Len(idx)].got)

IsSafe == safe

\* Faulty variant: no copy is made.
ranged_Shared(h, start, end) ==
  LET last  == Min({end, h.arr.len})
      first == Max({start, 0})
  IN  IF start > last THEN h ELSE shared(h, part(h.arr, first, last), IsSafe)

ranged(h, start, end) ==
  LET last  == Min({end, h.arr.len})
      first == Max({start, 0})
  IN  IF start > last THEN h
      ELSE IF IsSafe THEN copied(h, SubSeq(array(h), first + 1, last))
      ELSE shared(h, part(h.arr, first, last), FALSE)

\* One turn of the two loops, at i and j, or the end of the inner one.
compared(r) ==
  LET h == r.heap
  IN  IF r.i >= h.arr.len - 1 THEN r
      ELSE IF r.j >= h.arr.len THEN [r EXCEPT !.i = r.i + 1, !.j = r.i + 2]
      ELSE IF array(h)[r.i + 1] = array(h)[r.j + 1] THEN [r EXCEPT !.heap = cut(h, r.j)]
      ELSE [r EXCEPT !.j = r.j + 1]

\* After so many turns both loops have ended.
uniqued(h) ==
  LET turns == h.arr.len * h.arr.len
      r[n \in 0..turns] == IF n = 0 THEN [heap |-> h, i |-> 0, j |-> 1] ELSE compared(r[n - 1])
  IN  r[turns].heap

swapped(q, i, j) == [q EXCEPT ![i] = q[j], ![j] = q[i]]

\* perm: what rand.Perm gives; the i-th item changes places with the perm[i]-th, in turn.
perms(n) == {f \in [1..n -> 1..n] : \A i, j \in 1..n : f[i] = f[j] => i = j}
permuted(q, perm) == [i \in 1..Len(q) |-> q[perm[i]]]

\* Faulty variant: the item is copied, not swapped.
shuffled_Copy(q, perm) ==
  LET r[n \in 0..Len(q)] == IF n = 0 THEN q ELSE [r[n - 1] EXCEPT ![n] = r[n - 1][perm[n]]]
  IN  r[Len(q)]

shuffled(q, perm) ==
  LET r[n \in 0..Len(q)] == IF n = 0 THEN q ELSE swapped(r[n - 1], n, perm[n])
  IN  r[Len(q)]

reversed(q) ==
  LET r[n \in 0..Len(q) \div 2] == IF n = 0 THEN q ELSE swapped(r[n - 1], n, Len(q) + 1 - n)
  IN  r[Len(q) \div 2]

\* Faulty variant: the loop goes on after the first.
search_Last(h, v) ==
  LET at == {i \in 0..h.arr.len - 1 : array(h)[i + 1] = v}
  IN  IF at = {} THEN -1 ELSE Max(at)

\* The index of the first v, -1 when there is none.
search(h, v) ==
  LET at == {i \in 0..h.arr.len - 1 : array(h)[i + 1] = v}
  IN  IF at = {} THEN -1 ELSE Min(at)

-----------------------------------------------------------------------------
\* The operations

Slices(n) == UNION {[1..m -> Vals] : m \in 0..n}
Sizes     == 0..MaxLen + 1
Indices   == -1..MaxLen
Room(n)   == heap.arr.len + n <= MaxLen

\* Without a lock there is one goroutine, and nothing comes between two steps of it.
Take(h) ==
  /\ safe \/ pend = None
  /\ heap' = settled(h)
  /\ pend' = IF pend = None \/ array(h) = array(heap) THEN pend ELSE [pend EXCEPT !.quiet = FALSE]
  /\ UNCHANGED safe

Ascending(q) == \A i, j \in 1..Len(q) : i < j => q[i] <= q[j]

Rewrite(q) == Take(put(heap, heap.arr, 0, q))

Set(i, v)          == Take(setAt(heap, i, v))
SetArray(q, spare) == Take(moved(heap, q, spare))
Replace(q)         == Take(replaced(heap, q))
InsertBefore(i, v) == Room(1) /\ \E h \in insertedBefore(heap, i, v) : Take(h)
InsertAfter(i, v)  == Room(1) /\ \E h \in insertedAfter(heap, i, v) : Take(h)
RemoveIndex(i)     == Take(removedAt(heap, i))
PushLeft(q)        == Room(Len(q)) /\ \E h \in pushedLeft(heap, q) : Take(h)
SetArrayTo(w)      == w.len <= MaxLen /\ Take(handedBack(heap, w))
PushLeftOnto(w)    == Room(w.len) /\ \E h \in pushedLeftOnto(heap, w) : Take(h)
PushRight(q)       == Room(Len(q)) /\ \E h \in appended(heap, q) : Take(h)
PopRand            == heap.arr.len > 0 /\ \E i \in 0..heap.arr.len - 1 : Take(removedAt(heap, i))
PopLeft            == Take(poppedLeft(heap))
PopRight           == Take(poppedRight(heap))
PopLefts(size)     == Take(poppedLefts(heap, size))
PopRights(size)    == Take(poppedRights(heap, size))
GetRange(start, end) == Take(ranged(heap, start, end))
Clone              == Take(copied(heap, array(heap)))
ClearItems         == heap.arr.len > 0 /\ Take(moved(heap, <<>>, 0))
Unique             == Take(uniqued(heap))
Shuffle            == \E perm \in perms(heap.arr.len) : Rewrite(shuffled(array(heap), perm))
ReverseItems       == Rewrite(reversed(array(heap)))
Walk(f)            == Rewrite([i \in 1..heap.arr.len |-> f[array(heap)[i]]])

SortFunc ==
  \E perm \in perms(heap.arr.len) :
    LET q == permuted(array(heap), perm) IN Ascending(q) /\ Rewrite(q)

PopRands(size) ==
  /\ size > 0 /\ heap.arr.len > 0
  /\ \E idx \in randIndices(heap, size) : Take(poppedRands(heap, idx))

Rands(size) ==
  /\ size > 0 /\ heap.arr.len > 0
  /\ \E idx \in [1..size -> 1..heap.arr.len] :
       Take(copied(heap, [n \in 1..size |-> array(heap)[idx[n]]]))

\* LockFunc: the callback may write any item, and keep the slice.
LockFunc(q) ==
  /\ Len(q) = heap.arr.len
  /\ Take(shared(put(heap, heap.arr, 0, q), heap.arr, FALSE))

\* RemoveValue: Search, then Remove of the index it found.
RemoveValue(v) ==
  /\ pend = None
  /\ search(heap, v) # -1
  /\ pend' = [i |-> search(heap, v), v |-> v, quiet |-> TRUE]
  /\ UNCHANGED <<heap, safe>>

found == removedAt(heap, pend.i)

RemoveFound ==
  /\ pend # None
  /\ heap' = settled(found)
  /\ pend' = None
  /\ UNCHANGED safe

ArrayNext ==
  \/ \E i \in Indices : RemoveIndex(i) \/ \E v \in Vals : Set(i, v) \/ InsertBefore(i, v) \/ InsertAfter(i, v)
  \/ \E q \in Slices(2) : PushLeft(q) \/ PushRight(q) \/ Replace(q)
                            \/ \E spare \in 0..MaxSpare : SetArray(q, spare)
  \/ \E w \in handles(heap) : SetArrayTo(w) \/ PushLeftOnto(w)
  \/ \E n \in Sizes : PopLefts(n) \/ PopRights(n) \/ PopRands(n) \/ Rands(n)
                        \/ \E start \in Indices : GetRange(start, n)
  \/ PopRand \/ PopLeft \/ PopRight \/ Clone \/ ClearItems \/ SortFunc \/ Unique \/ Shuffle \/ ReverseItems
  \/ \E f \in [Vals -> Vals] : Walk(f)
  \/ \E q \in Slices(MaxLen) : LockFunc(q)
  \/ \E v \in Vals : RemoveValue(v)
  \/ RemoveFound

ArraySpec == ArrayInit /\ [][ArrayNext]_arrayVars

-----------------------------------------------------------------------------
Now   == array(heap)
Given(h) == items(h, h.kept.win)

Seqs == INSTANCE SequencesExt

\* What Unique keeps of p is its items at the places f, in this order: of each value the first.
FirstOfEach(p, f) ==
  /\ \A i, j \in DOMAIN f : i < j => f[i] < f[j]
  /\ \A n \in DOMAIN p : (\E i \in DOMAIN f : f[i] = n) <=> ~\E m \in 1..n - 1 : p[m] = p[n]

\* Whatever the capacity of the slice and wherever its window lies, an edit in place or
\* by two appends is the edit of a sequence: nothing is lost, doubled or overwritten.
EditsAreExact ==
  LET n == Len(Now)
  IN  /\ \A i \in 0..n - 1, v \in Vals :
           /\ array(setAt(heap, i, v)) = Seqs!ReplaceAt(Now, i + 1, v)
           /\ \A h \in insertedBefore(heap, i, v) : array(h) = Seqs!InsertAt(Now, i + 1, v)
           /\ \A h \in insertedAfter(heap, i, v) : array(h) = Seqs!InsertAt(Now, i + 2, v)
           /\ array(removedAt(heap, i)) = Seqs!RemoveAt(Now, i + 1)
      /\ \A q \in Slices(2) :
           /\ \A h \in pushedLeft(heap, q) : array(h) = q \o Now
           /\ \A h \in appended(heap, q) : array(h) = Now \o q
           /\ array(replaced(heap, q)) = [j \in 1..n |-> IF j <= Len(q) THEN q[j] ELSE Now[j]]
      /\ \A w \in handles(heap) : \A h \in pushedLeftOnto(heap, w) : array(h) = items(heap, w) \o Now
      /\ LET u == array(uniqued(heap))
         IN  \E f \in [1..Len(u) -> 1..n] : FirstOfEach(Now, f) /\ u = [i \in 1..Len(u) |-> Now[f[i]]]
      /\ reversed(Now) = Seqs!Reverse(Now)

\* q is p in another order.
Permutes(p, q) == \E f \in perms(Len(p)) : q = permuted(p, f)

\* What the popping functions return and what they leave are together what there was, and
\* no more than asked for is returned.
PopsConserve ==
  \A size \in Sizes \ {0} :
    Len(Now) > 0 =>
      LET left == poppedLefts(heap, size)
          right == poppedRights(heap, size)
      IN  /\ Given(left) \o array(left) = Now /\ Len(Given(left)) <= size
          /\ array(right) \o Given(right) = Now /\ Len(Given(right)) <= size
          /\ \A idx \in randIndices(heap, size) :
               LET h == poppedRands(heap, idx)
               IN  Permutes(Now, array(h) \o Given(h)) /\ Len(Given(h)) <= size

\* Shuffle keeps every item.
ShufflePermutes == \A perm \in perms(Len(Now)) : Permutes(Now, shuffled(Now, perm))

\* What Range of a safe array, Clone, Rands, PopRands and PopLefts of a part have returned
\* does not change and shares no cell with the array, whatever is done with the array
\* later, until its holder gives it, or a part of it, to SetArray or PushLeft: these make
\* the slice they are given the array's own.
KeptStaysPut ==
  heap.kept.firm =>
    /\ Given(heap) = heap.kept.was
    /\ \A b \in Bufs : \A n \in DOMAIN heap.mem[b] : ~(Inside(heap.kept.win, b, n) /\ Inside(heap.arr, b, n))

\* RemoveValue removes the first item of that value, if nothing has changed the items
\* between its Search and its Remove.
RemovesValueWhenQuiet ==
  pend # None =>
    (pend.quiet => array(found) = Seqs!RemoveFirst(Now, pend.v))

\* "RemoveValue removes an item by value. It returns true if value is found in the array"
\* (comment of RemoveValue): the item it removes has that value.
RemovesValue ==
  pend # None => \E j \in DOMAIN Now : Now[j] = pend.v /\ array(found) = Seqs!RemoveAt(Now, j)
=============================================================================
