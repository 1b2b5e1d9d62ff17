--------------------------- MODULE SkipListProofs ---------------------------
(***************************************************************************)
(* Theorems about SkipList, for every number of levels, nodes, keys,       *)
(* scores and goroutines: it implements SortedContract, and the properties *)
(* that its runs check hold.                                               *)
(*                                                                         *)
(* The invariant ListInv says of a list s that there is a sequence q of    *)
(* its nodes and, for each level i, a set T[i] of places in it, such that  *)
(* the links of the level hop from place to place and its spans are the    *)
(* lengths of the hops.  A search then ends at the last place of each      *)
(* level that is not after the entry looked for (DescendStops), and what   *)
(* insert and Del write moves the places after that entry by one           *)
(* (InsertKeeps, DeleteKeeps).                                             *)
(***************************************************************************)
EXTENDS SkipList, SequenceTheorems, FiniteSetTheorems, WellFoundedInduction, TLAPS

-----------------------------------------------------------------------------
(***************************************************************************)
(* Numbers.                                                                *)
(***************************************************************************)
LEMMA SmallestOf ==
  ASSUME NEW T \in SUBSET Nat, T # {}
  PROVE  \E n \in T : \A k \in T : n <= k
<1>1. PICK n \in T : \A k \in T : ~(<<k, n>> \in OpToRel(<, Nat))
  BY WFMin, NatLessThanWellFounded
<1>2. ASSUME NEW k \in T PROVE ~(k < n)
  <2>1. ~(<<k, n>> \in OpToRel(<, Nat))
    BY <1>1
  <2>2. <<k, n>> \in Nat \X Nat
    OBVIOUS
  <2> QED BY <2>1, <2>2 DEF OpToRel
<1> QED
  BY <1>2

LEMMA SetInduction ==
  ASSUME NEW S, 0 \in S, \A n \in Nat : n \in S => n + 1 \in S
  PROVE  \A n \in Nat : n \in S
<1> DEFINE T == {n \in Nat : n \notin S}
<1> SUFFICES ASSUME T # {} PROVE FALSE
  OBVIOUS
<1>1. PICK n \in T : \A k \in T : n <= k
  BY SmallestOf
<1>2. n # 0 /\ n - 1 \in Nat /\ n - 1 \notin T /\ (n - 1) + 1 = n
  BY <1>1
<1> QED
  BY <1>2

LEMMA GreatestOf ==
  ASSUME NEW N \in Nat, NEW T \in SUBSET (0..N), T # {}
  PROVE  \E n \in T : \A k \in T : k <= n
<1> DEFINE U == {N - t : t \in T}
<1>1. U \in SUBSET Nat /\ U # {}
  <2>1. \A t \in T : N - t \in Nat
    OBVIOUS
  <2>2. PICK t \in T : TRUE
    OBVIOUS
  <2>3. N - t \in U
    OBVIOUS
  <2> QED BY <2>1, <2>3
<1>2. PICK u \in U : \A k \in U : u <= k
  BY <1>1, SmallestOf
<1>3. PICK n \in T : u = N - n
  OBVIOUS
<1>4. ASSUME NEW k \in T PROVE k <= n
  <2>1. u <= N - k
    BY <1>2
  <2> QED BY <1>3, <2>1
<1> QED
  BY <1>4

LEMMA MaxIs ==
  ASSUME NEW N \in Nat, NEW T \in SUBSET (0..N), T # {}
  PROVE  Max(T) \in T /\ \A k \in T : k <= Max(T)
<1>1. \E n \in T : \A k \in T : n >= k
  BY GreatestOf
<1> QED
  BY <1>1 DEF Max

LEMMA MinIs ==
  ASSUME NEW a \in Nat, NEW b \in Nat
  PROVE  Min({a, b}) = IF a <= b THEN a ELSE b
<1>1. CASE a <= b
  BY <1>1 DEF Min
<1>2. CASE ~(a <= b)
  BY <1>2 DEF Min
<1> QED
  BY <1>1, <1>2

-----------------------------------------------------------------------------
(***************************************************************************)
(* The list as a sequence q of its nodes.  Place 0 is that of the header,  *)
(* place Len(q) + 1 is past the end.  The places that have a level are a   *)
(* set T; a hop leads from one of them to the next, or past the end.       *)
(***************************************************************************)
At(q, j) == IF j = 0 THEN Header ELSE IF j = Len(q) + 1 THEN Nil ELSE q[j]

Injective(q) == \A n, m \in 1..Len(q) : q[n] = q[m] => n = m

Hop(T, N, j, k) ==
  /\ j \in T /\ k \in T \cup {N + 1} /\ j < k
  /\ \A t \in T : ~(j < t /\ t < k)

\* The elements passed by a hop; the end of the list is none.
dist(N, j, k) == IF k = N + 1 THEN N - j ELSE k - j

\* The last of the places T that is not after c.
IsLast(T, c, l) == l \in T /\ l <= c /\ \A t \in T : ~(l < t /\ t <= c)

\* The forward links f of a level whose places are T, and its spans w.
Linked(f, q, T) ==
  /\ \A j \in 0..Len(q), k \in 1..(Len(q) + 1) :
       Hop(T, Len(q), j, k) => f[At(q, j)] = At(q, k)
  /\ \A n \in Nodes : f[n] # Nil => \E j \in T : n = At(q, j)

Spanned(w, q, T) ==
  \A j \in 0..Len(q), k \in 1..(Len(q) + 1) :
    Hop(T, Len(q), j, k) => w[At(q, j)] = dist(Len(q), j, k)

\* Which places have which level.
Tower(T, N, level) ==
  /\ T \in [Levels -> SUBSET (0..N)]
  /\ T[1] = 0..N
  /\ \A i \in Levels : 0 \in T[i] /\ (i + 1 \in Levels => T[i + 1] \subseteq T[i])
  /\ \A i \in Levels : i > level => T[i] = {0}

Ordered(s, q) ==
  \A j, k \in 1..Len(q) : j < k => ~before(s, q[k], s.key[q[j]], s.score[q[j]])

Backward(s, q) ==
  /\ s.tail = IF Len(q) = 0 THEN Nil ELSE q[Len(q)]
  /\ \A j \in 1..Len(q) : s.backward[q[j]] = IF j = 1 THEN Nil ELSE q[j - 1]

ListInv(s, q, T) ==
  /\ s \in SkipLists
  /\ q \in Seq(Elems) /\ Injective(q)
  /\ s.length = Len(q) /\ s.key[Header] = 0
  /\ Ordered(s, q) /\ Backward(s, q)
  /\ Tower(T, Len(q), s.level)
  /\ \A i \in Levels : Linked(s.forward[i], q, T[i])
  /\ \A i \in 1..s.level : Spanned(s.span[i], q, T[i])

-----------------------------------------------------------------------------
(***************************************************************************)
(* Hops.                                                                   *)
(***************************************************************************)
LEMMA HopExists ==
  ASSUME NEW N \in Nat, NEW T \in SUBSET (0..N), NEW j \in T
  PROVE  \E k \in 1..(N + 1) : Hop(T, N, j, k)
<1> DEFINE U == {k \in T \cup {N + 1} : j < k}
<1>1. U \in SUBSET Nat /\ U # {}
  <2>1. N + 1 \in U /\ j \in 0..N
    OBVIOUS
  <2>2. \A k \in T \cup {N + 1} : k \in Nat
    OBVIOUS
  <2>3. U \in SUBSET Nat
    BY <2>2
  <2> QED BY <2>1, <2>3
<1>2. PICK k \in U : \A m \in U : k <= m
  BY <1>1, SmallestOf
<1>3. k \in 1..(N + 1) /\ k \in T \cup {N + 1} /\ j < k
  OBVIOUS
<1>4. ASSUME NEW t \in T, j < t, t < k PROVE FALSE
  <2>1. t \in U
    BY <1>4
  <2> QED BY <1>2, <1>3, <1>4, <2>1
<1> QED
  BY <1>3, <1>4 DEF Hop

LEMMA LastExists ==
  ASSUME NEW N \in Nat, NEW T \in SUBSET (0..N), NEW c \in Nat, NEW u \in T, u <= c
  PROVE  \E l \in T : u <= l /\ IsLast(T, c, l)
<1> DEFINE U == {t \in T : t <= c}
<1>1. U \in SUBSET (0..N) /\ u \in U
  OBVIOUS
<1>2. PICK l \in U : \A k \in U : k <= l
  BY <1>1, GreatestOf
<1>3. l \in T /\ l <= c /\ u <= l
  BY <1>1, <1>2
<1>4. ASSUME NEW t \in T, l < t, t <= c PROVE FALSE
  <2>1. t \in U
    BY <1>4
  <2> QED BY <1>2, <1>3, <1>4, <2>1
<1> QED
  BY <1>3, <1>4 DEF IsLast

LEMMA LastIsOne ==
  ASSUME NEW N \in Nat, NEW T \in SUBSET (0..N), NEW c \in Nat, NEW l, IsLast(T, c, l),
         NEW m, IsLast(T, c, m)
  PROVE  l = m
BY DEF IsLast

-----------------------------------------------------------------------------
(***************************************************************************)
(* Places.                                                                 *)
(***************************************************************************)
LEMMA Names ==
  /\ Header \notin Elems /\ Nil \notin Elems /\ Header # Nil
  /\ Nodes = Elems \cup {Header} /\ Header \in Nodes /\ Elems \subseteq Nodes /\ Nil \notin Nodes
  /\ MaxLevel \in Nat /\ MaxLevel >= 1 /\ Levels = 1..MaxLevel
  /\ IsFiniteSet(Elems) /\ MaxNodes \in Nat
<1>1. IsFiniteSet(Elems)
  BY SkipListConstants
<1>2. MaxNodes \in Nat
  BY <1>1, FS_CardinalityType DEF MaxNodes
<1> QED
  BY <1>1, <1>2, SkipListConstants DEF Nodes, Levels

LEMMA PlacesDiffer ==
  ASSUME NEW q \in Seq(Elems), Injective(q)
  PROVE  /\ Len(q) \in Nat
         /\ \A j \in 1..Len(q) : At(q, j) = q[j] /\ q[j] \in Elems /\ q[j] # Header /\ q[j] # Nil
         /\ At(q, 0) = Header /\ At(q, Len(q) + 1) = Nil
         /\ \A j \in 0..Len(q) : At(q, j) \in Nodes /\ At(q, j) # Nil
         /\ \A j, k \in 0..(Len(q) + 1) : At(q, j) = At(q, k) => j = k
<1>1. Len(q) \in Nat
  OBVIOUS
<1>2. \A j \in 1..Len(q) : At(q, j) = q[j] /\ q[j] \in Elems /\ q[j] # Header /\ q[j] # Nil
  BY <1>1, Names DEF At
<1>3. At(q, 0) = Header /\ At(q, Len(q) + 1) = Nil
  BY <1>1 DEF At
<1>4. ASSUME NEW j \in 0..Len(q) PROVE At(q, j) \in Nodes /\ At(q, j) # Nil
  <2>1. j = 0 \/ j \in 1..Len(q)
    BY <1>1
  <2> QED BY <1>2, <1>3, <2>1, Names
<1>5. ASSUME NEW j \in 0..(Len(q) + 1), NEW k \in 0..(Len(q) + 1), At(q, j) = At(q, k) PROVE j = k
  <2>1. j = 0 \/ j \in 1..Len(q) \/ j = Len(q) + 1
    BY <1>1
  <2>2. k = 0 \/ k \in 1..Len(q) \/ k = Len(q) + 1
    BY <1>1
  <2> QED BY <1>2, <1>3, <1>5, <2>1, <2>2, Names DEF Injective
<1> QED
  BY <1>1, <1>2, <1>3, <1>4, <1>5

\* There are no more places than nodes.
LEMMA LengthBound ==
  ASSUME NEW q \in Seq(Elems), Injective(q)
  PROVE  Len(q) <= MaxNodes
<1> SUFFICES ASSUME MaxNodes < Len(q) PROVE FALSE
  BY Names
<1> DEFINE f == [j \in 1..Len(q) |-> q[j]]
<1>1. IsFiniteSet(Elems) /\ IsFiniteSet(1..Len(q)) /\ Cardinality(1..Len(q)) = Len(q)
  <2>1. Len(q) \in Nat /\ 1 \in Int
    OBVIOUS
  <2>2. /\ IsFiniteSet(1..Len(q))
        /\ Cardinality(1..Len(q)) = IF 1 > Len(q) THEN 0 ELSE Len(q) - 1 + 1
    BY <2>1, FS_Interval
  <2> QED BY <2>1, <2>2, Names
<1>2. f \in [1..Len(q) -> Elems] /\ \A j, k \in 1..Len(q) : f[j] = f[k] => j = k
  BY DEF Injective
<1> HIDE DEF f
<1>3. \E j, k \in 1..Len(q) : j # k /\ f[j] = f[k]
  <2>1. Cardinality(Elems) < Cardinality(1..Len(q))
    BY <1>1 DEF MaxNodes
  <2> QED BY <1>1, <1>2, <2>1, FS_PigeonHole
<1> QED
  BY <1>2, <1>3

-----------------------------------------------------------------------------
(***************************************************************************)
(* Walks.  met is the body of the recursive function in chain.             *)
(***************************************************************************)
met(next, left, r) ==
  [m \in Nodes \cup {Nil} |-> IF left = 0 \/ m = Nil THEN <<>> ELSE <<m>> \o r[next[m]]]

IsWalk(h, next, N) == h = [left \in 0..N |-> met(next, left, h[left - 1])]

LEMMA WalkExists ==
  ASSUME NEW next, NEW N \in Nat
  PROVE  \E h : IsWalk(h, next, N)
<1> DEFINE S == {n \in Nat : \E h : IsWalk(h, next, n)}
<1>1. 0 \in S
  <2> DEFINE h == [left \in 0..0 |-> met(next, 0, <<>>)]
  <2>1. \A left \in 0..0 : met(next, left, h[left - 1]) = met(next, 0, <<>>)
    BY DEF met
  <2>2. IsWalk(h, next, 0)
    BY <2>1 DEF IsWalk
  <2> QED BY <2>2
<1>2. ASSUME NEW n \in Nat, n \in S PROVE n + 1 \in S
  <2>1. PICK h : IsWalk(h, next, n)
    BY <1>2
  <2> DEFINE g == [left \in 0..(n + 1) |-> met(next, left, h[left - 1])]
  <2>2. \A left \in 0..n : g[left] = h[left]
    BY <2>1 DEF IsWalk
  <2>3. ASSUME NEW left \in 0..(n + 1) PROVE met(next, left, h[left - 1]) = met(next, left, g[left - 1])
    <3>1. CASE left = 0
      BY <3>1 DEF met
    <3>2. CASE left # 0
      <4>1. left - 1 \in 0..n
        BY <3>2
      <4> QED BY <4>1, <2>2
    <3> QED BY <3>1, <3>2
  <2>4. IsWalk(g, next, n + 1)
    BY <2>3 DEF IsWalk
  <2> HIDE DEF g
  <2> QED BY <2>4
<1> HIDE DEF S
<1>3. N \in S
  BY <1>1, <1>2, SetInduction
<1> QED
  BY <1>3 DEF S

\* The node after place j of a sequence of nodes.
After(r, j) == IF j = Len(r) THEN Nil ELSE r[j + 1]

LEMMA ChainIs ==
  ASSUME NEW r \in Seq(Elems), Len(r) <= MaxNodes, NEW next,
         \A j \in 1..Len(r) : next[r[j]] = After(r, j)
  PROVE  chain(next, After(r, 0)) = r
<1> DEFINE h == CHOOSE h : IsWalk(h, next, MaxNodes)
           n == Len(r)
<1>0. MaxNodes \in Nat /\ n \in Nat /\ n <= MaxNodes
  BY Names
<1>1. IsWalk(h, next, MaxNodes)
  BY <1>0, WalkExists
<1>2. chain(next, After(r, 0)) = h[MaxNodes][After(r, 0)]
  BY DEF chain, IsWalk, met
<1> HIDE DEF h, n
<1>3. \A left \in 0..MaxNodes : h[left] = met(next, left, h[left - 1])
  BY <1>1 DEF IsWalk
<1> DEFINE S == {k \in Nat : k <= n => \A left \in k..MaxNodes :
                                h[left][After(r, n - k)] = SubSeq(r, n - k + 1, n)}
<1>4. 0 \in S
  <2>1. After(r, n - 0) = Nil
    BY <1>0 DEF After, n
  <2>2. SubSeq(r, n - 0 + 1, n) = <<>>
    BY <1>0 DEF n
  <2>3. \A left \in 0..MaxNodes : h[left][Nil] = <<>>
    BY <1>3, Names DEF met
  <2> QED BY <2>1, <2>2, <2>3
<1>5. ASSUME NEW k \in Nat, k \in S PROVE k + 1 \in S
  <2> SUFFICES ASSUME k + 1 <= n, NEW left \in (k + 1)..MaxNodes
               PROVE  h[left][After(r, n - (k + 1))] = SubSeq(r, n - (k + 1) + 1, n)
    OBVIOUS
  <2> DEFINE j == n - k
  <2>1. j \in 1..n /\ n - (k + 1) = j - 1 /\ n - (k + 1) + 1 = j /\ j \in Nat
    BY <1>0
  <2>2. left \in 0..MaxNodes /\ left # 0 /\ left - 1 \in k..MaxNodes
    BY <1>0
  <2>3. h[left - 1][After(r, j)] = SubSeq(r, j + 1, n)
    BY <1>0, <1>5, <2>2
  <2> HIDE DEF j
  <2>4. After(r, j - 1) = r[j] /\ r[j] \in Elems
    BY <1>0, <2>1 DEF After, n
  <2>5. next[r[j]] = After(r, j)
    BY <2>1 DEF n
  <2>6. h[left][r[j]] = <<r[j]>> \o SubSeq(r, j + 1, n)
    <3>1. h[left] = met(next, left, h[left - 1])
      BY <1>3, <2>2
    <3>2. r[j] \in Nodes \cup {Nil} /\ r[j] # Nil
      BY <2>4, Names
    <3>3. h[left][r[j]] = <<r[j]>> \o h[left - 1][next[r[j]]]
      BY <2>2, <3>1, <3>2 DEF met
    <3> QED BY <2>3, <2>5, <3>3
  <2>7. <<r[j]>> \o SubSeq(r, j + 1, n) = SubSeq(r, j, n)
    <3>1. PICK m : m = n
      OBVIOUS
    <3>2. m \in j..Len(r) /\ j \in 1..Len(r)
      BY <1>0, <2>1, <3>1 DEF n
    <3>3. SubSeq(r, j, m) = <<r[j]>> \o SubSeq(r, j + 1, m)
      BY <3>2, SubSeqRecursiveFirst
    <3> QED BY <3>1, <3>3
  <2>8. h[left][After(r, j - 1)] = SubSeq(r, j, n)
    BY <2>4, <2>6, <2>7
  <2> QED BY <2>1, <2>8
<1> HIDE DEF S
<1>6. n \in S
  BY <1>0, <1>4, <1>5, SetInduction
<1>7. h[MaxNodes][After(r, n - n)] = SubSeq(r, n - n + 1, n)
  BY <1>0, <1>6 DEF S
<1>8. n - n = 0 /\ n - n + 1 = 1 /\ SubSeq(r, 1, n) = r
  BY <1>0 DEF n
<1> QED
  BY <1>2, <1>7, <1>8

LEMMA LastLevelHops ==
  ASSUME NEW N \in Nat, NEW j \in 0..N
  PROVE  Hop(0..N, N, j, j + 1)
BY DEF Hop

LEMMA AscendingIs ==
  ASSUME NEW s, NEW q, NEW T, ListInv(s, q, T)
  PROVE  ascending(s) = q
<1>1. q \in Seq(Elems) /\ Injective(q) /\ T[1] = 0..Len(q) /\ Linked(s.forward[1], q, T[1])
  BY Names DEF ListInv, Tower
<1>2. Len(q) \in Nat /\ Len(q) <= MaxNodes
  BY <1>1, LengthBound
<1>3. ASSUME NEW j \in 0..Len(q) PROVE s.forward[1][At(q, j)] = At(q, j + 1)
  <2>1. Hop(T[1], Len(q), j, j + 1) /\ j + 1 \in 1..(Len(q) + 1)
    BY <1>1, <1>2, LastLevelHops
  <2> QED BY <1>1, <2>1 DEF Linked
<1>4. \A j \in 0..Len(q) : At(q, j + 1) = After(q, j)
  BY <1>2 DEF At, After
<1>5. \A j \in 1..Len(q) : s.forward[1][q[j]] = After(q, j)
  BY <1>1, <1>2, <1>3, <1>4, PlacesDiffer
<1>6. s.forward[1][Header] = After(q, 0)
  BY <1>1, <1>2, <1>3, <1>4, PlacesDiffer
<1> QED
  BY <1>1, <1>2, <1>5, <1>6, ChainIs DEF ascending

LEMMA DescendingIs ==
  ASSUME NEW s, NEW q, NEW T, ListInv(s, q, T)
  PROVE  descending(s) = Reverse(q)
<1>1. q \in Seq(Elems) /\ Injective(q) /\ Backward(s, q)
  BY DEF ListInv
<1>2. Len(q) \in Nat /\ Len(q) <= MaxNodes
  BY <1>1, LengthBound
<1> DEFINE r == Reverse(q)
<1>3. /\ r \in Seq(Elems) /\ Len(r) = Len(q)
      /\ \A j \in 1..Len(q) : r[j] = q[(Len(q) - j) + 1]
  BY <1>1, <1>2 DEF Reverse
<1> HIDE DEF r
<1>4. ASSUME NEW j \in 1..Len(r) PROVE s.backward[r[j]] = After(r, j)
  <2> DEFINE k == (Len(q) - j) + 1
  <2>1. k \in 1..Len(q) /\ r[j] = q[k] /\ (k = 1 <=> j = Len(r))
    BY <1>2, <1>3
  <2>2. s.backward[q[k]] = IF k = 1 THEN Nil ELSE q[k - 1]
    BY <1>1, <2>1 DEF Backward
  <2>3. CASE j = Len(r)
    BY <2>1, <2>2, <2>3 DEF After
  <2>4. CASE j # Len(r)
    <3>1. j + 1 \in 1..Len(q) /\ (Len(q) - (j + 1)) + 1 = k - 1
      BY <1>2, <1>3, <2>4
    <3>2. r[j + 1] = q[k - 1]
      BY <1>3, <3>1
    <3> QED BY <2>1, <2>2, <2>4, <3>2 DEF After
  <2> QED BY <2>3, <2>4
<1>5. s.tail = After(r, 0)
  <2>1. CASE Len(q) = 0
    BY <1>1, <1>3, <2>1 DEF Backward, After
  <2>2. CASE Len(q) # 0
    <3>1. 0 + 1 \in 1..Len(q) /\ (Len(q) - (0 + 1)) + 1 = Len(q)
      BY <1>2, <2>2
    <3> QED BY <1>1, <1>3, <2>2, <3>1 DEF Backward, After
  <2> QED BY <2>1, <2>2
<1> QED
  BY <1>2, <1>3, <1>4, <1>5, ChainIs DEF descending, r

-----------------------------------------------------------------------------
(***************************************************************************)
(* Searches.  stride is the body of the recursive function in walk, lower  *)
(* that of the one in descend.                                             *)
(***************************************************************************)
stride(s, i, ahead, left, g) ==
  [n \in Nodes |-> [r \in Int |->
     LET next == s.forward[i][n]
         rank == r + s.span[i][n]
     IN  IF left # 0 /\ next # Nil /\ ahead[next][rank] THEN g[next][rank]
         ELSE [node |-> n, rank |-> r]]]

IsStride(h, s, i, ahead, N) == h = [left \in 0..N |-> stride(s, i, ahead, left, h[left - 1])]

LEMMA StrideExists ==
  ASSUME NEW s, NEW i, NEW ahead, NEW N \in Nat
  PROVE  \E h : IsStride(h, s, i, ahead, N)
<1> DEFINE S == {n \in Nat : \E h : IsStride(h, s, i, ahead, n)}
<1>0. \A g, h : stride(s, i, ahead, 0, g) = stride(s, i, ahead, 0, h)
  BY DEF stride
<1>1. 0 \in S
  <2> DEFINE h == [left \in 0..0 |-> stride(s, i, ahead, 0, 0)]
  <2>1. \A left \in 0..0 : stride(s, i, ahead, left, h[left - 1]) = stride(s, i, ahead, 0, 0)
    BY <1>0
  <2>2. IsStride(h, s, i, ahead, 0)
    BY <2>1 DEF IsStride
  <2> QED BY <2>2
<1>2. ASSUME NEW n \in Nat, n \in S PROVE n + 1 \in S
  <2>1. PICK h : IsStride(h, s, i, ahead, n)
    BY <1>2
  <2> DEFINE g == [left \in 0..(n + 1) |-> stride(s, i, ahead, left, h[left - 1])]
  <2>2. \A left \in 0..n : g[left] = h[left]
    BY <2>1 DEF IsStride
  <2>3. ASSUME NEW left \in 0..(n + 1)
        PROVE  stride(s, i, ahead, left, h[left - 1]) = stride(s, i, ahead, left, g[left - 1])
    <3>1. CASE left = 0
      BY <1>0, <3>1
    <3>2. CASE left # 0
      <4>1. left - 1 \in 0..n
        BY <3>2
      <4> QED BY <4>1, <2>2
    <3> QED BY <3>1, <3>2
  <2>4. IsStride(g, s, i, ahead, n + 1)
    BY <2>3 DEF IsStride
  <2> HIDE DEF g
  <2> QED BY <2>4
<1> HIDE DEF S
<1>3. N \in S
  BY <1>1, <1>2, SetInduction
<1> QED
  BY <1>3 DEF S

\* ahead holds of the first c elements, at their ranks, and of no other.
Ahead(q, ahead, c) == \A j \in 1..Len(q) : ahead[q[j]][j] <=> j <= c

LEMMA WalkStops ==
  ASSUME NEW s, NEW q, NEW T, ListInv(s, q, T), NEW i \in 1..s.level,
         NEW ahead, NEW c \in 0..Len(q), Ahead(q, ahead, c),
         NEW l, IsLast(T[i], c, l), NEW u \in T[i], u <= c
  PROVE  walk(s, i, ahead)[At(q, u)][u] = [node |-> At(q, l), rank |-> l]
<1> DEFINE N == Len(q)
           h == CHOOSE h : IsStride(h, s, i, ahead, MaxNodes)
           stop == [node |-> At(q, l), rank |-> l]
<1>1. q \in Seq(Elems) /\ Injective(q) /\ N \in Nat /\ N <= MaxNodes /\ MaxNodes \in Nat
  BY LengthBound, Names DEF ListInv
<1>2. i \in Levels /\ s.level \in Levels
  BY Names DEF ListInv, SkipLists
<1>3. T[i] \in SUBSET (0..N) /\ Linked(s.forward[i], q, T[i]) /\ Spanned(s.span[i], q, T[i])
  BY <1>2 DEF ListInv, Tower
<1>4. IsStride(h, s, i, ahead, MaxNodes)
  BY <1>1, StrideExists
<1>5. walk(s, i, ahead) = h[MaxNodes]
  BY DEF walk, IsStride, stride
<1> HIDE DEF h, stop
<1>6. \A left \in 0..MaxNodes : h[left] = stride(s, i, ahead, left, h[left - 1])
  BY <1>4 DEF IsStride
<1>7. ASSUME NEW v \in T[i], v <= c, NEW left \in 0..MaxNodes
      PROVE  \/ h[left][At(q, v)][v] = stop
             \/ \E k \in T[i] : v < k /\ k <= c /\ (left # 0 => h[left][At(q, v)][v] = h[left - 1][At(q, k)][k])
  <2>1. PICK k \in 1..(N + 1) : Hop(T[i], N, v, k)
    BY <1>1, <1>3, HopExists
  <2>2. v \in 0..N /\ v < k /\ (k \in T[i] \/ k = N + 1)
    BY <1>3, <2>1 DEF Hop
  <2>3. s.forward[i][At(q, v)] = At(q, k) /\ s.span[i][At(q, v)] = dist(N, v, k)
    BY <1>3, <2>1, <2>2 DEF Linked, Spanned
  <2>4. At(q, v) \in Nodes /\ v \in Int
    BY <1>1, <2>2, PlacesDiffer
  <2>5. h[left][At(q, v)][v] =
          IF left # 0 /\ At(q, k) # Nil /\ ahead[At(q, k)][v + dist(N, v, k)]
          THEN h[left - 1][At(q, k)][v + dist(N, v, k)]
          ELSE [node |-> At(q, v), rank |-> v]
    <3>1. h[left] = stride(s, i, ahead, left, h[left - 1])
      BY <1>6
    <3> DEFINE n == At(q, v)
               m == At(q, k)
               d == dist(N, v, k)
               g == h[left - 1]
    <3>2. s.forward[i][n] = m /\ s.span[i][n] = d /\ n \in Nodes
      BY <2>3, <2>4
    <3> HIDE DEF n, m, d, g
    <3>3. stride(s, i, ahead, left, g)[n][v] =
            IF left # 0 /\ m # Nil /\ ahead[m][v + d] THEN g[m][v + d] ELSE [node |-> n, rank |-> v]
      BY <2>4, <3>2 DEF stride
    <3> QED BY <3>1, <3>3 DEF n, m, d, g
  <2>6. CASE k <= c
    <3>1. k \in T[i] /\ k \in 1..N /\ v + dist(N, v, k) = k
      BY <1>1, <2>2, <2>6 DEF dist
    <3>2. At(q, k) = q[k] /\ At(q, k) # Nil
      BY <1>1, <3>1, PlacesDiffer
    <3>3. ahead[q[k]][k]
      BY <2>6, <3>1 DEF Ahead
    <3>4. left # 0 => h[left][At(q, v)][v] = h[left - 1][At(q, k)][k]
      BY <2>5, <3>1, <3>2, <3>3
    <3> QED BY <2>2, <2>6, <3>1, <3>4
  <2>7. CASE ~(k <= c)
    <3>1. l = v
      <4>1. IsLast(T[i], c, v)
        BY <1>1, <1>3, <1>7, <2>1, <2>2, <2>7 DEF IsLast, Hop
      <4>2. c \in Nat
        BY <1>1
      <4> QED BY <1>1, <1>3, <4>1, <4>2, LastIsOne
    <3>2. At(q, k) = Nil \/ ~ahead[At(q, k)][v + dist(N, v, k)]
      <4>1. CASE k = N + 1
        BY <1>1, <4>1, PlacesDiffer
      <4>2. CASE k # N + 1
        <5>1. k \in 1..N /\ v + dist(N, v, k) = k
          BY <1>1, <2>2, <4>2 DEF dist
        <5>2. ~ahead[q[k]][k]
          BY <2>7, <5>1 DEF Ahead
        <5> QED BY <1>1, <5>1, <5>2, PlacesDiffer
      <4> QED BY <4>1, <4>2
    <3> QED BY <2>5, <3>1, <3>2 DEF stop
  <2> QED BY <2>6, <2>7
<1> DEFINE S == {n \in Nat : \A left \in 0..MaxNodes, v \in T[i] :
                   n <= left /\ v <= c /\ c - v <= n => h[left][At(q, v)][v] = stop}
<1>8. \A v \in T[i] : v \in Nat
  BY <1>1, <1>3
<1>9. 0 \in S
  <2> SUFFICES ASSUME NEW left \in 0..MaxNodes, NEW v \in T[i], v <= c, c - v <= 0
               PROVE  h[left][At(q, v)][v] = stop
    OBVIOUS
  <2> QED BY <1>1, <1>7, <1>8
<1>10. ASSUME NEW n \in Nat, n \in S PROVE n + 1 \in S
  <2> SUFFICES ASSUME NEW left \in 0..MaxNodes, NEW v \in T[i], n + 1 <= left, v <= c, c - v <= n + 1
               PROVE  h[left][At(q, v)][v] = stop
    OBVIOUS
  <2>1. CASE h[left][At(q, v)][v] = stop
    BY <2>1
  <2>2. CASE \E k \in T[i] : v < k /\ k <= c /\ (left # 0 => h[left][At(q, v)][v] = h[left - 1][At(q, k)][k])
    <3>1. PICK k \in T[i] : v < k /\ k <= c /\ (left # 0 => h[left][At(q, v)][v] = h[left - 1][At(q, k)][k])
      BY <2>2
    <3>2. left # 0 /\ left - 1 \in 0..MaxNodes /\ n <= left - 1 /\ c - k <= n
      BY <1>1, <1>8, <3>1
    <3>3. h[left - 1][At(q, k)][k] = stop
      BY <1>10, <3>1, <3>2
    <3> QED BY <3>1, <3>2, <3>3
  <2> QED BY <1>7, <2>1, <2>2
<1> HIDE DEF S
<1>11. MaxNodes \in S
  BY <1>1, <1>9, <1>10, SetInduction
<1>12. c - u <= MaxNodes
  BY <1>1, <1>8
<1>13. h[MaxNodes][At(q, u)][u] = stop
  BY <1>1, <1>11, <1>12 DEF S
<1> QED
  BY <1>5, <1>13 DEF stop

lower(s, ahead, down, r) ==
  IF down = 0 THEN [node |-> Header, rank |-> 0]
  ELSE walk(s, s.level - down + 1, ahead)[r.node][r.rank]

IsDescent(h, s, ahead, N) == h = [down \in 0..N |-> lower(s, ahead, down, h[down - 1])]

LEMMA DescentExists ==
  ASSUME NEW s, NEW ahead, NEW N \in Nat
  PROVE  \E h : IsDescent(h, s, ahead, N)
<1> DEFINE S == {n \in Nat : \E h : IsDescent(h, s, ahead, n)}
<1>1. 0 \in S
  <2> DEFINE h == [down \in 0..0 |-> lower(s, ahead, 0, 0)]
  <2>1. \A down \in 0..0 : lower(s, ahead, down, h[down - 1]) = lower(s, ahead, 0, 0)
    BY DEF lower
  <2>2. IsDescent(h, s, ahead, 0)
    BY <2>1 DEF IsDescent
  <2> QED BY <2>2
<1>2. ASSUME NEW n \in Nat, n \in S PROVE n + 1 \in S
  <2>1. PICK h : IsDescent(h, s, ahead, n)
    BY <1>2
  <2> DEFINE g == [down \in 0..(n + 1) |-> lower(s, ahead, down, h[down - 1])]
  <2>2. \A down \in 0..n : g[down] = h[down]
    BY <2>1 DEF IsDescent
  <2>3. ASSUME NEW down \in 0..(n + 1)
        PROVE  lower(s, ahead, down, h[down - 1]) = lower(s, ahead, down, g[down - 1])
    <3>1. CASE down = 0
      BY <3>1 DEF lower
    <3>2. CASE down # 0
      <4>1. down - 1 \in 0..n
        BY <3>2
      <4> QED BY <4>1, <2>2
    <3> QED BY <3>1, <3>2
  <2>4. IsDescent(g, s, ahead, n + 1)
    BY <2>3 DEF IsDescent
  <2> HIDE DEF g
  <2> QED BY <2>4
<1> HIDE DEF S
<1>3. N \in S
  BY <1>1, <1>2, SetInduction
<1> QED
  BY <1>3 DEF S

\* Where a level stops: at its last place that is not after c.
StopsAt(q, T, c, l, stop) == IsLast(T, c, l) /\ stop = [node |-> At(q, l), rank |-> l]

LEMMA DescendStops ==
  ASSUME NEW s, NEW q, NEW T, ListInv(s, q, T),
         NEW ahead, NEW c \in 0..Len(q), Ahead(q, ahead, c)
  PROVE  \A i \in 1..s.level : \E l \in T[i] : StopsAt(q, T[i], c, l, descend(s, ahead)[i])
<1> DEFINE L == s.level
           h == CHOOSE h : IsDescent(h, s, ahead, L)
<1>1. L \in Nat /\ L >= 1 /\ L <= MaxLevel /\ MaxLevel \in Nat /\ Levels = 1..MaxLevel
  BY Names DEF ListInv, SkipLists
<1>2. q \in Seq(Elems) /\ Injective(q) /\ Len(q) \in Nat /\ c \in Nat
  BY DEF ListInv
<1>3. Tower(T, Len(q), L)
  BY DEF ListInv
<1>4. \A i \in 1..L : T[i] \in SUBSET (0..Len(q)) /\ 0 \in T[i] /\ (i + 1 \in 1..L => T[i + 1] \subseteq T[i])
  BY <1>1, <1>3 DEF Tower
<1>5. IsDescent(h, s, ahead, L)
  BY <1>1, DescentExists
<1>6. descend(s, ahead) = [i \in 1..L |-> h[L - i + 1]]
  BY DEF descend, IsDescent, lower
<1> HIDE DEF h
<1>7. \A down \in 0..L : h[down] = lower(s, ahead, down, h[down - 1])
  BY <1>5 DEF IsDescent
<1> DEFINE Stops(down) == \E l \in T[L - down + 1] : StopsAt(q, T[L - down + 1], c, l, h[down])
<1>8. ASSUME NEW i \in 1..L, NEW u \in T[i], u <= c, h[L - i] = [node |-> At(q, u), rank |-> u]
      PROVE  \E l \in T[i] : StopsAt(q, T[i], c, l, h[L - i + 1])
  <2>1. PICK l \in T[i] : IsLast(T[i], c, l)
    BY <1>2, <1>4, <1>8, LastExists
  <2>2. walk(s, i, ahead)[At(q, u)][u] = [node |-> At(q, l), rank |-> l]
    BY <1>8, <2>1, WalkStops
  <2>3. L - i + 1 \in 0..L /\ L - i + 1 # 0 /\ (L - i + 1) - 1 = L - i /\ L - (L - i + 1) + 1 = i
    BY <1>1
  <2>4. h[L - i + 1] = walk(s, i, ahead)[At(q, u)][u]
    <3>1. h[L - i + 1] = lower(s, ahead, L - i + 1, h[L - i])
      BY <1>7, <2>3
    <3>2. h[L - i].node = At(q, u) /\ h[L - i].rank = u
      BY <1>8
    <3> QED BY <2>3, <3>1, <3>2 DEF lower
  <2> QED BY <2>1, <2>2, <2>4 DEF StopsAt
<1> DEFINE S == {n \in Nat : n + 1 <= L => Stops(n + 1)}
<1>9. 0 \in S
  <2> SUFFICES Stops(1)
    OBVIOUS
  <2>1. h[0] = [node |-> At(q, 0), rank |-> 0]
    BY <1>1, <1>7 DEF lower, At
  <2>2. L - L = 0 /\ L - L + 1 = 1 /\ L - 1 + 1 = L /\ L \in 1..L /\ 0 <= c
    BY <1>1, <1>2
  <2> QED BY <1>4, <1>8, <2>1, <2>2
<1>10. ASSUME NEW n \in Nat, n \in S PROVE n + 1 \in S
  <2> SUFFICES ASSUME (n + 1) + 1 <= L PROVE Stops((n + 1) + 1)
    OBVIOUS
  <2> DEFINE i == L - (n + 1)
  <2>1. /\ i \in 1..L /\ i + 1 \in 1..L /\ L - (n + 1) + 1 = i + 1 /\ L - i = n + 1
        /\ L - ((n + 1) + 1) + 1 = i /\ L - i + 1 = (n + 1) + 1
    BY <1>1
  <2> HIDE DEF i
  <2>2. PICK u \in T[i + 1] : StopsAt(q, T[i + 1], c, u, h[n + 1])
    BY <1>1, <1>10, <2>1
  <2>3. u \in T[i] /\ u <= c /\ h[n + 1] = [node |-> At(q, u), rank |-> u]
    BY <1>4, <2>1, <2>2 DEF StopsAt, IsLast
  <2> QED BY <1>8, <2>1, <2>3
<1> HIDE DEF S
<1>11. \A n \in Nat : n \in S
  BY <1>9, <1>10, SetInduction
<1>12. ASSUME NEW i \in 1..L PROVE \E l \in T[i] : StopsAt(q, T[i], c, l, descend(s, ahead)[i])
  <2>1. L - i \in Nat /\ (L - i) + 1 <= L /\ (L - i) + 1 = L - i + 1 /\ L - (L - i + 1) + 1 = i
    BY <1>1
  <2>2. Stops(L - i + 1)
    BY <1>11, <2>1 DEF S
  <2>3. descend(s, ahead)[i] = h[L - i + 1]
    BY <1>6
  <2> QED BY <2>1, <2>2, <2>3
<1> QED
  BY <1>12

-----------------------------------------------------------------------------
(***************************************************************************)
(* A list with and without a node: r is q with x behind place c.  Both     *)
(* insert and Del are about such a pair.                                   *)
(***************************************************************************)
\* Where place j of q is in r.
Up(c, j) == IF j <= c THEN j ELSE j + 1

Wider(q, r, c, x) ==
  /\ q \in Seq(Elems) /\ Injective(q) /\ r \in Seq(Elems) /\ Injective(r)
  /\ c \in 0..Len(q) /\ Len(r) = Len(q) + 1
  /\ At(r, c + 1) = x
  /\ \A j \in 0..(Len(q) + 1) : At(r, Up(c, j)) = At(q, j)

\* The places T of a level of q, and those of the same level of r.
Widens(T, U, N, c) ==
  /\ T \subseteq 0..N /\ U \subseteq 0..(N + 1) /\ 0 \in T
  /\ \A t \in 0..N : t \in T <=> Up(c, t) \in U

\* The sequences that InsertAt and RemoveAt make.
HasInserted(q, r, c, x, S) ==
  /\ r \in Seq(S) /\ Len(r) = Len(q) + 1 /\ r[c + 1] = x
  /\ \A j \in 1..Len(q) : r[Up(c, j)] = q[j] /\ Up(c, j) \in 1..(Len(q) + 1)

LEMMA InsertAtIs ==
  ASSUME NEW S, NEW q \in Seq(S), NEW c \in 0..Len(q), NEW x \in S, NEW r, r = InsertAt(q, c + 1, x)
  PROVE  HasInserted(q, r, c, x, S)
<1> DEFINE N == Len(q)
           a == SubSeq(q, 1, c)
           b == SubSeq(q, c + 1, N)
<1>0. N \in Nat /\ c \in Nat /\ c <= N
  OBVIOUS
<1>1. a \in Seq(S) /\ Len(a) = c /\ \A i \in 1..c : a[i] = q[i]
  BY SubSeqProperties
<1>2. b \in Seq(S) /\ Len(b) = N - c /\ \A i \in 1..(N - c) : b[i] = q[i + c]
  BY SubSeqProperties
<1>3. r = (a \o <<x>>) \o b
  <2>1. (c + 1) - 1 = c
    OBVIOUS
  <2> QED BY <2>1 DEF InsertAt
<1> HIDE DEF a, b, N
<1> DEFINE ax == a \o <<x>>
<1>4. ax \in Seq(S) /\ Len(ax) = c + 1 /\ ax[c + 1] = x /\ \A i \in 1..c : ax[i] = q[i]
  <2>1. ax = Append(a, x)
    BY <1>1
  <2> QED BY <1>0, <1>1, <2>1
<1> HIDE DEF ax
<1>5. r \in Seq(S) /\ Len(r) = N + 1
      /\ \A i \in 1..(N + 1) : r[i] = IF i <= c + 1 THEN ax[i] ELSE b[i - (c + 1)]
  <2>1. r \in Seq(S) /\ Len(r) = Len(ax) + Len(b)
        /\ \A i \in 1..(Len(ax) + Len(b)) : r[i] = IF i <= Len(ax) THEN ax[i] ELSE b[i - Len(ax)]
    <3>1. /\ ax \o b \in Seq(S) /\ Len(ax \o b) = Len(ax) + Len(b)
          /\ \A i \in 1..(Len(ax) + Len(b)) :
               (ax \o b)[i] = IF i <= Len(ax) THEN ax[i] ELSE b[i - Len(ax)]
      BY <1>2, <1>4, ConcatProperties
    <3>2. r = ax \o b
      BY <1>3 DEF ax
    <3> QED BY <3>1, <3>2
  <2>2. Len(ax) + Len(b) = N + 1
    BY <1>0, <1>2, <1>4
  <2> QED BY <1>4, <2>1, <2>2
<1>6. r[c + 1] = x
  BY <1>0, <1>4, <1>5
<1>7. ASSUME NEW j \in 1..N PROVE r[Up(c, j)] = q[j] /\ Up(c, j) \in 1..(N + 1)
  <2>1. CASE j <= c
    BY <1>0, <1>4, <1>5, <2>1 DEF Up
  <2>2. CASE ~(j <= c)
    <3>1. j + 1 \in 1..(N + 1) /\ ~(j + 1 <= c + 1) /\ (j + 1) - (c + 1) = j - c /\ j - c \in 1..(N - c)
          /\ (j - c) + c = j
      BY <1>0, <2>2
    <3>2. r[j + 1] = b[j - c]
      BY <1>5, <3>1
    <3>3. b[j - c] = q[j]
      BY <1>2, <3>1
    <3> QED BY <2>2, <3>1, <3>2, <3>3 DEF Up
  <2> QED BY <2>1, <2>2
<1> QED
  BY <1>5, <1>6, <1>7 DEF N, HasInserted

LEMMA RemoveAtIs ==
  ASSUME NEW S, NEW r \in Seq(S), NEW c \in Nat, c + 1 \in 1..Len(r), NEW q, q = RemoveAt(r, c + 1)
  PROVE  /\ q \in Seq(S) /\ Len(q) = Len(r) - 1
         /\ \A j \in 1..Len(q) : r[Up(c, j)] = q[j] /\ Up(c, j) \in 1..Len(r)
<1> DEFINE N == Len(r) - 1
           a == SubSeq(r, 1, c)
           b == SubSeq(r, c + 2, N + 1)
<1>0. N \in Nat /\ c <= N /\ Len(r) = N + 1 /\ Len(r) \in Nat
  OBVIOUS
<1>1. a \in Seq(S) /\ Len(a) = c /\ \A i \in 1..c : a[i] = r[i]
  BY SubSeqProperties
<1>2. b \in Seq(S) /\ Len(b) = N - c /\ \A i \in 1..(N - c) : b[i] = r[i + (c + 1)]
  BY SubSeqProperties
<1>3. q = a \o b
  <2>1. (c + 1) - 1 = c /\ (c + 1) + 1 = c + 2
    OBVIOUS
  <2> QED BY <1>0, <2>1 DEF RemoveAt
<1> HIDE DEF a, b, N
<1>4. q \in Seq(S) /\ Len(q) = N
      /\ \A i \in 1..N : q[i] = IF i <= c THEN a[i] ELSE b[i - c]
  <2>1. q \in Seq(S) /\ Len(q) = Len(a) + Len(b)
        /\ \A i \in 1..(Len(a) + Len(b)) : q[i] = IF i <= Len(a) THEN a[i] ELSE b[i - Len(a)]
    <3>1. /\ a \o b \in Seq(S) /\ Len(a \o b) = Len(a) + Len(b)
          /\ \A i \in 1..(Len(a) + Len(b)) :
               (a \o b)[i] = IF i <= Len(a) THEN a[i] ELSE b[i - Len(a)]
      BY <1>1, <1>2, ConcatProperties
    <3> QED BY <1>3, <3>1
  <2>2. Len(a) + Len(b) = N
    BY <1>0, <1>1, <1>2
  <2> QED BY <1>1, <2>1, <2>2
<1>5. ASSUME NEW j \in 1..N PROVE r[Up(c, j)] = q[j] /\ Up(c, j) \in 1..(N + 1)
  <2>1. CASE j <= c
    BY <1>0, <1>1, <1>4, <2>1 DEF Up
  <2>2. CASE ~(j <= c)
    <3>1. j - c \in 1..(N - c) /\ (j - c) + (c + 1) = j + 1
      BY <1>0, <2>2
    <3>2. q[j] = b[j - c]
      BY <1>4, <2>2
    <3>3. b[j - c] = r[j + 1]
      BY <1>2, <3>1
    <3> QED BY <1>0, <2>2, <3>2, <3>3 DEF Up
  <2> QED BY <2>1, <2>2
<1> QED
  BY <1>0, <1>4, <1>5

LEMMA InsertWidens ==
  ASSUME NEW q \in Seq(Elems), Injective(q), NEW c \in 0..Len(q),
         NEW x \in Elems, \A j \in 1..Len(q) : q[j] # x,
         NEW r, r = InsertAt(q, c + 1, x)
  PROVE  Wider(q, r, c, x)
<1> DEFINE N == Len(q)
<1>0. N \in Nat /\ c \in Nat /\ c <= N
  OBVIOUS
<1>1. /\ r \in Seq(Elems) /\ Len(r) = Len(q) + 1 /\ r[c + 1] = x
      /\ \A j \in 1..Len(q) : r[Up(c, j)] = q[j] /\ Up(c, j) \in 1..(Len(q) + 1)
  <2>1. HasInserted(q, r, c, x, Elems)
    BY InsertAtIs
  <2> QED BY <2>1 DEF HasInserted
<1>5. r \in Seq(Elems) /\ Len(r) = N + 1 /\ r[c + 1] = x
  BY <1>1
<1>7. \A j \in 1..N : r[Up(c, j)] = q[j] /\ Up(c, j) \in 1..(N + 1)
  BY <1>1
<1> HIDE DEF N
<1>8. ASSUME NEW n \in 1..(N + 1), n # c + 1 PROVE \E j \in 1..N : n = Up(c, j)
  <2>1. CASE n <= c
    BY <1>0, <2>1 DEF Up
  <2>2. CASE n > c
    <3>1. n - 1 \in 1..N /\ n = Up(c, n - 1)
      BY <1>0, <1>8, <2>2 DEF Up
    <3> QED BY <3>1
  <2> QED BY <1>0, <2>1, <2>2
<1>9. Injective(r)
  <2> SUFFICES ASSUME NEW n \in 1..(N + 1), NEW m \in 1..(N + 1), r[n] = r[m] PROVE n = m
    BY <1>5 DEF Injective
  <2>1. CASE n = c + 1 \/ m = c + 1
    <3>1. ASSUME NEW k \in 1..(N + 1), k # c + 1 PROVE r[k] # x
      <4>1. PICK j \in 1..N : k = Up(c, j)
        BY <1>8, <3>1
      <4>2. r[k] = q[j] /\ q[j] # x
        BY <1>7, <4>1 DEF N
      <4> QED BY <4>2
    <3> QED BY <1>5, <2>1, <3>1
  <2>2. CASE n # c + 1 /\ m # c + 1
    <3>1. PICK j \in 1..N : n = Up(c, j)
      BY <1>8, <2>2
    <3>2. PICK k \in 1..N : m = Up(c, k)
      BY <1>8, <2>2
    <3>3. q[j] = q[k]
      BY <1>7, <3>1, <3>2
    <3> QED BY <3>1, <3>2, <3>3 DEF Injective, N
  <2> QED BY <2>1, <2>2
<1>10. ASSUME NEW j \in 0..(N + 1) PROVE At(r, Up(c, j)) = At(q, j)
  <2>1. CASE j = 0
    BY <1>0, <2>1 DEF Up, At
  <2>2. CASE j = N + 1
    BY <1>0, <1>5, <2>2 DEF Up, At, N
  <2>3. CASE j \in 1..N
    <3>1. Up(c, j) # 0 /\ Up(c, j) # Len(r) + 1
      BY <1>0, <1>5, <1>7, <2>3
    <3> QED BY <1>0, <1>7, <2>3, <3>1 DEF At, N
  <2> QED BY <1>0, <2>1, <2>2, <2>3
<1>11. At(r, c + 1) = x
  BY <1>0, <1>5 DEF At
<1> QED
  BY <1>0, <1>5, <1>9, <1>10, <1>11 DEF Wider, N

LEMMA RemoveWidens ==
  ASSUME NEW r \in Seq(Elems), Injective(r), NEW c \in Nat, c + 1 \in 1..Len(r),
         NEW q, q = RemoveAt(r, c + 1)
  PROVE  Wider(q, r, c, r[c + 1])
<1> DEFINE N == Len(r) - 1
<1>0. N \in Nat /\ c <= N /\ Len(r) = N + 1 /\ Len(r) \in Nat
  OBVIOUS
<1>4. q \in Seq(Elems) /\ Len(q) = N
  BY RemoveAtIs
<1>5. \A j \in 1..N : r[Up(c, j)] = q[j] /\ Up(c, j) \in 1..(N + 1)
  BY <1>0, <1>4, RemoveAtIs
<1> HIDE DEF N
<1>6. Injective(q)
  <2> SUFFICES ASSUME NEW n \in 1..N, NEW m \in 1..N, q[n] = q[m] PROVE n = m
    BY <1>4 DEF Injective
  <2>1. Up(c, n) = Up(c, m)
    BY <1>0, <1>5 DEF Injective
  <2> QED BY <1>0, <2>1 DEF Up
<1>7. ASSUME NEW j \in 0..(N + 1) PROVE At(r, Up(c, j)) = At(q, j)
  <2>1. CASE j = 0
    BY <1>0, <2>1 DEF Up, At
  <2>2. CASE j = N + 1
    BY <1>0, <1>4, <2>2 DEF Up, At
  <2>3. CASE j \in 1..N
    <3>1. Up(c, j) # 0 /\ Up(c, j) # Len(r) + 1
      BY <1>0, <1>5, <2>3
    <3> QED BY <1>0, <1>4, <1>5, <2>3, <3>1 DEF At
  <2> QED BY <1>0, <2>1, <2>2, <2>3
<1>8. At(r, c + 1) = r[c + 1]
  BY <1>0 DEF At
<1> QED
  BY <1>0, <1>4, <1>6, <1>7, <1>8 DEF Wider

LEMMA UpIsMonotone ==
  ASSUME NEW N \in Nat, NEW c \in 0..N
  PROVE  /\ \A j \in 0..(N + 1) : Up(c, j) \in 0..(N + 2) /\ Up(c, j) # c + 1
         /\ \A j, k \in 0..(N + 1) : j < k <=> Up(c, j) < Up(c, k)
         /\ \A j, k \in 0..(N + 1) : j = k <=> Up(c, j) = Up(c, k)
         /\ \A j \in 0..(N + 1) : j <= c => Up(c, j) = j
         /\ \A j \in 0..(N + 1) : j > c => Up(c, j) = j + 1
         /\ Up(c, N + 1) = N + 2
         /\ \A a \in 0..(N + 2) : a # c + 1 => \E j \in 0..(N + 1) : a = Up(c, j)
<1>1. \A j \in 0..(N + 1) : j <= c => Up(c, j) = j
  BY DEF Up
<1>2. \A j \in 0..(N + 1) : j > c => Up(c, j) = j + 1
  BY DEF Up
<1>3. ASSUME NEW a \in 0..(N + 2), a # c + 1 PROVE \E j \in 0..(N + 1) : a = Up(c, j)
  <2>1. CASE a <= c
    BY <1>1, <2>1
  <2>2. CASE a > c
    <3>1. a - 1 \in 0..(N + 1) /\ a - 1 > c /\ (a - 1) + 1 = a
      BY <1>3, <2>2
    <3> QED BY <1>2, <3>1
  <2> QED BY <2>1, <2>2
<1>4. \A j, k \in 0..(N + 1) : j < k <=> Up(c, j) < Up(c, k)
  BY DEF Up
<1>5. \A j, k \in 0..(N + 1) : j = k <=> Up(c, j) = Up(c, k)
  BY DEF Up
<1>6. \A j \in 0..(N + 1) : Up(c, j) \in 0..(N + 2) /\ Up(c, j) # c + 1
  BY DEF Up
<1> QED
  BY <1>1, <1>2, <1>3, <1>4, <1>5, <1>6

\* A hop of the narrow list is one of the wide list, or passes over the new place.
LEMMA HopUp ==
  ASSUME NEW N \in Nat, NEW c \in 0..N, NEW T, NEW U, Widens(T, U, N, c),
         NEW l, IsLast(T, c, l),
         NEW j \in 0..N, NEW k \in 1..(N + 1), Hop(T, N, j, k)
  PROVE  /\ c + 1 \notin U \/ j # l => Hop(U, N + 1, Up(c, j), Up(c, k))
         /\ c + 1 \in U /\ j = l => Hop(U, N + 1, l, c + 1) /\ Hop(U, N + 1, c + 1, Up(c, k))
<1>1. /\ T \subseteq 0..N /\ U \subseteq 0..(N + 1)
      /\ \A t \in 0..N : t \in T <=> Up(c, t) \in U
  BY DEF Widens
<1>2. /\ j \in T /\ k \in T \cup {N + 1} /\ j < k /\ \A t \in T : ~(j < t /\ t < k)
  BY DEF Hop
<1>3. /\ l \in T /\ l <= c /\ \A t \in T : ~(l < t /\ t <= c)
  BY DEF IsLast
<1>4. Up(c, j) \in U /\ Up(c, k) \in U \cup {N + 2} /\ Up(c, j) < Up(c, k)
  <2>1. Up(c, j) \in U /\ Up(c, j) < Up(c, k)
    BY <1>1, <1>2, UpIsMonotone
  <2>2. k = N + 1 \/ (k \in 0..N /\ k \in T)
    BY <1>1, <1>2
  <2> QED BY <1>1, <2>1, <2>2, UpIsMonotone
<1>5. ASSUME NEW a \in U, a # c + 1, Up(c, j) < a, a < Up(c, k) PROVE FALSE
  <2>1. a \in 0..(N + 1) /\ a \in 0..(N + 2) /\ j \in 0..(N + 1) /\ k \in 0..(N + 1)
    BY <1>1
  <2>2. PICK t \in 0..(N + 1) : a = Up(c, t)
    BY <1>5, <2>1, UpIsMonotone
  <2>3. t # N + 1
    <3>1. Up(c, N + 1) = N + 2 /\ a # N + 2
      BY <2>1, UpIsMonotone
    <3> QED BY <2>2, <3>1
  <2>4. t \in T
    BY <1>1, <2>2, <2>3
  <2>5. j < t /\ t < k
    <3>1. \A m, n \in 0..(N + 1) : m < n <=> Up(c, m) < Up(c, n)
      BY UpIsMonotone
    <3> QED BY <1>5, <2>1, <2>2, <3>1
  <2> QED BY <1>2, <2>4, <2>5
<1>6. (N + 1) + 1 = N + 2 /\ c \in Nat /\ l \in Nat
  BY <1>1, <1>3
<1>7. ASSUME c + 1 \notin U \/ j # l PROVE Hop(U, N + 1, Up(c, j), Up(c, k))
  <2>1. ASSUME c + 1 \in U PROVE ~(Up(c, j) < c + 1 /\ c + 1 < Up(c, k))
    <3> SUFFICES ASSUME Up(c, j) < c + 1, c + 1 < Up(c, k) PROVE FALSE
      OBVIOUS
    <3>1. j <= c /\ c < k
      BY DEF Up
    <3>2. j = l
      BY <1>1, <1>2, <1>3, <3>1
    <3> QED BY <1>7, <2>1, <3>2
  <2> QED BY <1>4, <1>5, <1>6, <2>1 DEF Hop
<1>8. ASSUME c + 1 \in U, j = l PROVE Hop(U, N + 1, l, c + 1) /\ Hop(U, N + 1, c + 1, Up(c, k))
  <2>1. c < k
    BY <1>1, <1>2, <1>3, <1>6, <1>8
  <2>2. Up(c, j) = l /\ Up(c, k) = k + 1
    BY <1>3, <1>8, <2>1, UpIsMonotone
  <2>3. l < c + 1 /\ c + 1 < k + 1
    BY <1>3, <1>6, <2>1
  <2>4. ASSUME NEW a \in U PROVE ~(l < a /\ a < c + 1) /\ ~(c + 1 < a /\ a < k + 1)
    <3>1. a = c + 1 \/ ~(l < a /\ a < k + 1)
      BY <1>5, <2>2
    <3>2. a \in Nat
      BY <1>1
    <3> QED BY <1>6, <2>3, <3>1, <3>2
  <2> QED BY <1>4, <1>6, <1>8, <2>2, <2>3, <2>4 DEF Hop
<1> QED
  BY <1>7, <1>8

\* A hop of the wide list is one of the narrow list, or leads to or from the new place.
LEMMA HopDown ==
  ASSUME NEW N \in Nat, NEW c \in 0..N, NEW T, NEW U, Widens(T, U, N, c),
         NEW l, IsLast(T, c, l),
         NEW a \in 0..(N + 1), NEW b \in 1..(N + 2), Hop(U, N + 1, a, b)
  PROVE  \/ c + 1 \in U /\ a = l /\ b = c + 1
         \/ \E k \in 1..(N + 1) : c + 1 \in U /\ a = c + 1 /\ b = Up(c, k) /\ Hop(T, N, l, k)
         \/ \E j \in 0..N, k \in 1..(N + 1) :
              /\ a = Up(c, j) /\ b = Up(c, k) /\ Hop(T, N, j, k)
              /\ c + 1 \in U => j # l
<1>1. /\ T \subseteq 0..N /\ U \subseteq 0..(N + 1)
      /\ \A t \in 0..N : t \in T <=> Up(c, t) \in U
  BY DEF Widens
<1>2. (N + 1) + 1 = N + 2 /\ c \in Nat
  OBVIOUS
<1>3. /\ a \in U /\ b \in U \cup {N + 2} /\ a < b /\ \A t \in U : ~(a < t /\ t < b)
  BY <1>2 DEF Hop
<1>4. /\ l \in T /\ l <= c /\ \A t \in T : ~(l < t /\ t <= c)
  BY DEF IsLast
<1>5. Up(c, l) = l /\ l \in U /\ l \in 0..N
  BY <1>1, <1>4, UpIsMonotone
<1>6. ASSUME NEW k \in 1..(N + 1), b = Up(c, k) PROVE k \in T \cup {N + 1}
  <2>1. CASE k = N + 1
    BY <2>1
  <2>2. CASE k # N + 1
    <3>1. k \in 0..N /\ Up(c, k) # N + 2
      BY <2>2, UpIsMonotone
    <3> QED BY <1>1, <1>3, <1>6, <3>1
  <2> QED BY <2>1, <2>2
<1>7. CASE b = c + 1
  <2>1. c + 1 \in U
    BY <1>2, <1>3, <1>7
  <2>2. a # c + 1 /\ a <= c
    BY <1>3, <1>7
  <2>3. a \in T
    <3>1. a \in 0..N /\ Up(c, a) = a
      BY <2>2, UpIsMonotone
    <3> QED BY <1>1, <1>3, <3>1
  <2>4. ~(l < a)
    BY <1>4, <2>2, <2>3
  <2>5. ~(a < l)
    BY <1>2, <1>3, <1>4, <1>5, <1>7
  <2>6. a = l
    BY <1>5, <2>4, <2>5
  <2> QED BY <1>7, <2>1, <2>6
<1>8. CASE b # c + 1
  <2>1. PICK k \in 0..(N + 1) : b = Up(c, k)
    BY <1>8, UpIsMonotone
  <2>2. k \in 1..(N + 1)
    <3>1. Up(c, 0) = 0
      BY UpIsMonotone
    <3> QED BY <2>1, <3>1
  <2>3. k \in T \cup {N + 1}
    BY <1>6, <2>1, <2>2
  <2>4. CASE a = c + 1
    <3>1. c < k
      BY <1>2, <1>3, <2>1, <2>4 DEF Up
    <3>2. ASSUME NEW t \in T, l < t, t < k PROVE FALSE
      <4>1. t \in 0..N /\ ~(t <= c)
        BY <1>1, <1>4, <3>2
      <4>2. Up(c, t) \in U /\ c + 1 < Up(c, t)
        BY <1>1, <4>1 DEF Up
      <4>3. Up(c, t) < b
        BY <2>1, <3>2, <4>1, UpIsMonotone
      <4> QED BY <1>3, <2>4, <4>2, <4>3
    <3>3. Hop(T, N, l, k)
      BY <1>4, <1>5, <2>3, <3>1, <3>2 DEF Hop
    <3> QED BY <1>3, <2>1, <2>2, <2>4, <3>3
  <2>5. CASE a # c + 1
    <3>1. PICK j \in 0..(N + 1) : a = Up(c, j)
      BY <2>5, UpIsMonotone
    <3>2. j # N + 1
      BY <3>1, UpIsMonotone
    <3>3. j \in 0..N /\ j \in T
      BY <1>1, <1>3, <3>1, <3>2
    <3>4. j < k
      BY <1>3, <2>1, <3>1, UpIsMonotone
    <3>5. ASSUME NEW t \in T, j < t, t < k PROVE FALSE
      <4>1. t \in 0..N /\ Up(c, t) \in U
        BY <1>1
      <4>2. a < Up(c, t) /\ Up(c, t) < b
        BY <2>1, <3>1, <3>5, <4>1, UpIsMonotone
      <4> QED BY <1>3, <4>1, <4>2
    <3>6. Hop(T, N, j, k)
      BY <2>3, <3>3, <3>4, <3>5 DEF Hop
    <3>7. c + 1 \in U => j # l
      <4> SUFFICES ASSUME c + 1 \in U, j = l PROVE FALSE
        OBVIOUS
      <4>1. ~(c + 1 < b)
        BY <1>2, <1>3, <1>4, <1>5, <3>1
      <4>2. k <= c
        BY <1>2, <1>8, <2>1, <4>1 DEF Up
      <4>3. k \in T
        BY <2>3, <4>2
      <4> QED BY <1>4, <3>4, <4>2, <4>3
    <3> QED BY <2>1, <2>2, <3>1, <3>3, <3>6, <3>7
  <2> QED BY <2>4, <2>5
<1> QED
  BY <1>7, <1>8

-----------------------------------------------------------------------------
(***************************************************************************)
(* One level: its links and its spans when a node comes in or goes.        *)
(***************************************************************************)
\* What a hop passes of place c.
LEMMA HopSide ==
  ASSUME NEW N \in Nat, NEW c \in 0..N, NEW T \in SUBSET (0..N), NEW l, IsLast(T, c, l),
         NEW j \in 0..N, NEW k \in 1..(N + 1), Hop(T, N, j, k)
  PROVE  IF j = l THEN c < k ELSE k <= c \/ c < j
<1>1. j \in T /\ k \in T \cup {N + 1} /\ j < k /\ \A t \in T : ~(j < t /\ t < k)
  BY DEF Hop
<1>2. l \in T /\ l \in Nat /\ l <= c /\ \A t \in T : ~(l < t /\ t <= c)
  BY DEF IsLast
<1>3. CASE j = l
  BY <1>1, <1>2, <1>3
<1>4. CASE j # l
  BY <1>1, <1>2, <1>4
<1> QED
  BY <1>3, <1>4

LEMMA DistUp ==
  ASSUME NEW N \in Nat, NEW c \in 0..N, NEW j \in 0..N, NEW k \in 1..(N + 1), j < k
  PROVE  /\ k <= c \/ c < j => dist(N + 1, Up(c, j), Up(c, k)) = dist(N, j, k)
         /\ j <= c /\ c < k =>
              /\ dist(N + 1, Up(c, j), Up(c, k)) = dist(N, j, k) + 1
              /\ dist(N + 1, j, c + 1) = c - j + 1
              /\ dist(N + 1, c + 1, Up(c, k)) = dist(N, j, k) - (c - j)
<1>1. CASE k <= c
  BY <1>1 DEF dist, Up
<1>2. CASE c < j
  BY <1>2 DEF dist, Up
<1>3. CASE j <= c /\ c < k
  <2>1. Up(c, j) = j /\ Up(c, k) = k + 1
    BY <1>3 DEF Up
  <2>2. CASE k = N + 1
    BY <1>3, <2>1, <2>2 DEF dist
  <2>3. CASE k # N + 1
    BY <1>3, <2>1, <2>3 DEF dist
  <2> QED BY <2>2, <2>3
<1> QED
  BY <1>1, <1>2, <1>3

\* The facts about the two lists that every lemma about a level needs.
LEMMA WiderFacts ==
  ASSUME NEW q, NEW r, NEW c, NEW x, Wider(q, r, c, x), NEW T, NEW U, Widens(T, U, Len(q), c),
         NEW l, IsLast(T, c, l)
  PROVE  /\ Len(q) \in Nat /\ Len(r) = Len(q) + 1 /\ c \in 0..Len(q) /\ c + 1 \in 0..Len(r)
         /\ T \in SUBSET (0..Len(q)) /\ U \in SUBSET (0..Len(r))
         /\ l \in T /\ l \in 0..Len(q) /\ l <= c /\ l \in U /\ Up(c, l) = l
         /\ x \in Nodes /\ At(r, c + 1) = x /\ At(r, l) = At(q, l) /\ At(q, l) \in Nodes
         /\ At(q, l) # x
<1>1. /\ q \in Seq(Elems) /\ Injective(q) /\ r \in Seq(Elems) /\ Injective(r)
      /\ c \in 0..Len(q) /\ Len(r) = Len(q) + 1 /\ At(r, c + 1) = x
      /\ \A j \in 0..(Len(q) + 1) : At(r, Up(c, j)) = At(q, j)
  BY DEF Wider
<1>2. Len(q) \in Nat /\ c + 1 \in 0..Len(r)
  BY <1>1
<1>3. /\ T \subseteq 0..Len(q) /\ U \subseteq 0..(Len(q) + 1)
      /\ \A t \in 0..Len(q) : t \in T <=> Up(c, t) \in U
  BY DEF Widens
<1>4. l \in T /\ l <= c
  BY DEF IsLast
<1>5. Up(c, l) = l
  BY <1>4 DEF Up
<1>6. l \in 0..Len(q) /\ l \in 0..(Len(q) + 1) /\ l \in U
  BY <1>2, <1>3, <1>4, <1>5
<1>7. At(r, l) = At(q, l)
  BY <1>1, <1>5, <1>6
<1>8. x \in Nodes /\ At(q, l) \in Nodes
  BY <1>1, <1>2, <1>6, PlacesDiffer
<1>9. At(q, l) # x
  <2>1. l \in 0..(Len(r) + 1) /\ c + 1 \in 0..(Len(r) + 1) /\ l # c + 1
    BY <1>1, <1>2, <1>4, <1>6
  <2>2. \A j, k \in 0..(Len(r) + 1) : At(r, j) = At(r, k) => j = k
    BY <1>1, PlacesDiffer
  <2> QED BY <1>1, <1>7, <2>1, <2>2
<1> QED
  BY <1>1, <1>2, <1>3, <1>4, <1>5, <1>6, <1>7, <1>8, <1>9

\* Places of the wide list, seen from the narrow one.
LEMMA AtUp ==
  ASSUME NEW q, NEW r, NEW c, NEW x, Wider(q, r, c, x), NEW j \in 0..(Len(q) + 1)
  PROVE  /\ At(r, Up(c, j)) = At(q, j) /\ At(q, j) # x
         /\ \A k \in 0..(Len(q) + 1) : At(q, j) = At(q, k) => j = k
<1>1. /\ q \in Seq(Elems) /\ Injective(q) /\ r \in Seq(Elems) /\ Injective(r)
      /\ c \in 0..Len(q) /\ Len(r) = Len(q) + 1 /\ At(r, c + 1) = x
      /\ At(r, Up(c, j)) = At(q, j) /\ Len(q) \in Nat
  BY DEF Wider
<1>2. Up(c, j) \in 0..(Len(r) + 1) /\ Up(c, j) # c + 1 /\ c + 1 \in 0..(Len(r) + 1)
  BY <1>1 DEF Up
<1>3. \A a, b \in 0..(Len(r) + 1) : At(r, a) = At(r, b) => a = b
  BY <1>1, PlacesDiffer
<1>4. \A k \in 0..(Len(q) + 1) : At(q, j) = At(q, k) => j = k
  BY <1>1, PlacesDiffer
<1> QED
  BY <1>1, <1>2, <1>3, <1>4

LEMMA LinkInsert ==
  ASSUME NEW q, NEW r, NEW c, NEW x, Wider(q, r, c, x), NEW T, NEW U, Widens(T, U, Len(q), c),
         NEW l, IsLast(T, c, l), c + 1 \in U,
         NEW f \in [Nodes -> Nodes \cup {Nil}], Linked(f, q, T)
  PROVE  Linked([f EXCEPT ![x] = f[At(q, l)], ![At(q, l)] = x], r, U)
<1> DEFINE N == Len(q)
           p == At(q, l)
           g == [f EXCEPT ![x] = f[p], ![p] = x]
<1>1. /\ N \in Nat /\ Len(r) = N + 1 /\ c \in 0..N /\ c + 1 \in 0..(N + 1)
      /\ T \in SUBSET (0..N) /\ U \in SUBSET (0..(N + 1))
      /\ l \in T /\ l \in 0..N /\ l \in 0..(N + 1) /\ l <= c /\ l \in U /\ Up(c, l) = l
      /\ x \in Nodes /\ At(r, c + 1) = x /\ At(r, l) = p /\ p \in Nodes /\ p # x
  BY WiderFacts
<1>2. g[x] = f[p] /\ g[p] = x /\ \A n \in Nodes : n # x /\ n # p => g[n] = f[n]
  BY <1>1
<1>3. \A j \in 0..N, k \in 1..(N + 1) : Hop(T, N, j, k) => f[At(q, j)] = At(q, k)
  BY DEF Linked
<1>4. \A n \in Nodes : f[n] # Nil => \E j \in T : n = At(q, j)
  BY DEF Linked
<1>5. q \in Seq(Elems) /\ Injective(q)
  BY DEF Wider
<1> HIDE DEF p, g, N
<1>6. ASSUME NEW a \in 0..(N + 1), NEW b \in 1..(N + 2), Hop(U, N + 1, a, b)
      PROVE  g[At(r, a)] = At(r, b)
  <2>1. CASE a = l /\ b = c + 1
    BY <1>1, <1>2, <2>1
  <2>2. ASSUME NEW k \in 1..(N + 1), a = c + 1, b = Up(c, k), Hop(T, N, l, k)
        PROVE  g[At(r, a)] = At(r, b)
    <3>1. f[p] = At(q, k)
      BY <1>1, <1>3, <2>2 DEF p
    <3>2. At(r, b) = At(q, k)
      BY <1>1, <2>2, AtUp DEF N
    <3> QED BY <1>1, <1>2, <2>2, <3>1, <3>2
  <2>3. ASSUME NEW j \in 0..N, NEW k \in 1..(N + 1), a = Up(c, j), b = Up(c, k), Hop(T, N, j, k), j # l
        PROVE  g[At(r, a)] = At(r, b)
    <3>1. j \in 0..(N + 1) /\ k \in 0..(N + 1)
      BY <1>1
    <3>2. At(r, a) = At(q, j) /\ At(r, b) = At(q, k)
      BY <2>3, <3>1, AtUp DEF N
    <3>3. At(q, j) # x /\ At(q, j) # p
      BY <1>1, <2>3, <3>1, AtUp DEF N, p
    <3>4. At(q, j) \in Nodes
      BY <1>5, PlacesDiffer DEF N
    <3> QED BY <1>2, <1>3, <2>3, <3>2, <3>3, <3>4
  <2>4. \/ c + 1 \in U /\ a = l /\ b = c + 1
        \/ \E k \in 1..(N + 1) : c + 1 \in U /\ a = c + 1 /\ b = Up(c, k) /\ Hop(T, N, l, k)
        \/ \E j \in 0..N, k \in 1..(N + 1) :
              /\ a = Up(c, j) /\ b = Up(c, k) /\ Hop(T, N, j, k)
              /\ c + 1 \in U => j # l
    <3>1. Widens(T, U, N, c)
      BY DEF N
    <3> QED BY <1>1, <1>6, <3>1, HopDown
  <2> QED BY <2>1, <2>2, <2>3, <2>4
<1>7. ASSUME NEW n \in Nodes, g[n] # Nil PROVE \E a \in U : n = At(r, a)
  <2>1. CASE n = x
    BY <1>1, <2>1
  <2>2. CASE n = p
    BY <1>1, <2>2
  <2>3. CASE n # x /\ n # p
    <3>1. PICK j \in T : n = At(q, j)
      BY <1>2, <1>4, <1>7, <2>3
    <3>2. j \in 0..N /\ j \in 0..(N + 1)
      BY <1>1
    <3>3. Up(c, j) \in U
      BY <3>2 DEF Widens, N
    <3>4. At(r, Up(c, j)) = At(q, j)
      BY <3>2, AtUp DEF N
    <3> QED BY <3>1, <3>3, <3>4
  <2> QED BY <2>1, <2>2, <2>3
<1>8. (N + 1) + 1 = N + 2
  BY <1>1
<1>9. Linked(g, r, U)
  BY <1>1, <1>6, <1>7, <1>8 DEF Linked
<1> QED
  BY <1>9 DEF g, p

LEMMA LinkWiden ==
  ASSUME NEW q, NEW r, NEW c, NEW x, Wider(q, r, c, x), NEW T, NEW U, Widens(T, U, Len(q), c),
         NEW l, IsLast(T, c, l), c + 1 \notin U, NEW f, Linked(f, q, T)
  PROVE  Linked(f, r, U)
<1> DEFINE N == Len(q)
<1>1. /\ N \in Nat /\ Len(r) = N + 1 /\ c \in 0..N
      /\ T \in SUBSET (0..N) /\ U \in SUBSET (0..(N + 1))
  BY WiderFacts
<1>2. \A j \in 0..N, k \in 1..(N + 1) : Hop(T, N, j, k) => f[At(q, j)] = At(q, k)
  BY DEF Linked
<1>3. \A n \in Nodes : f[n] # Nil => \E j \in T : n = At(q, j)
  BY DEF Linked
<1> HIDE DEF N
<1>4. ASSUME NEW a \in 0..(N + 1), NEW b \in 1..(N + 2), Hop(U, N + 1, a, b)
      PROVE  f[At(r, a)] = At(r, b)
  <2>1. PICK j \in 0..N, k \in 1..(N + 1) : a = Up(c, j) /\ b = Up(c, k) /\ Hop(T, N, j, k)
    BY <1>1, <1>4, HopDown DEF N
  <2>2. j \in 0..(N + 1) /\ k \in 0..(N + 1)
    BY <1>1
  <2>3. At(r, a) = At(q, j) /\ At(r, b) = At(q, k)
    BY <2>1, <2>2, AtUp DEF N
  <2> QED BY <1>2, <2>1, <2>3
<1>5. ASSUME NEW n \in Nodes, f[n] # Nil PROVE \E a \in U : n = At(r, a)
  <2>1. PICK j \in T : n = At(q, j)
    BY <1>3, <1>5
  <2>2. j \in 0..N /\ j \in 0..(N + 1)
    BY <1>1
  <2>3. Up(c, j) \in U
    BY <2>2 DEF Widens, N
  <2>4. At(r, Up(c, j)) = At(q, j)
    BY <2>2, AtUp DEF N
  <2> QED BY <2>1, <2>3, <2>4
<1>6. (N + 1) + 1 = N + 2
  BY <1>1
<1> QED
  BY <1>1, <1>4, <1>5, <1>6 DEF Linked

\* x follows the last place not after c if and only if it has the level.
LEMMA NextIsNew ==
  ASSUME NEW q, NEW r, NEW c, NEW x, Wider(q, r, c, x), NEW T, NEW U, Widens(T, U, Len(q), c),
         NEW l, IsLast(T, c, l), NEW g, Linked(g, r, U)
  PROVE  /\ g[At(q, l)] = x <=> c + 1 \in U
         /\ c + 1 \in U => Hop(U, Len(r), l, c + 1)
<1> DEFINE N == Len(q)
<1>1. /\ N \in Nat /\ Len(r) = N + 1 /\ c \in 0..N /\ c + 1 \in 0..(N + 1)
      /\ T \in SUBSET (0..N) /\ U \in SUBSET (0..(N + 1))
      /\ l \in T /\ l \in 0..N /\ l \in 0..(N + 1) /\ l <= c /\ l \in U /\ Up(c, l) = l
      /\ At(r, c + 1) = x /\ At(r, l) = At(q, l)
  BY WiderFacts
<1>2. \A a \in 0..(N + 1), b \in 1..(N + 2) : Hop(U, N + 1, a, b) => g[At(r, a)] = At(r, b)
  <2>1. (N + 1) + 1 = N + 2
    BY <1>1
  <2> QED BY <1>1, <2>1 DEF Linked
<1>3. r \in Seq(Elems) /\ Injective(r)
  BY DEF Wider
<1> HIDE DEF N
<1>4. PICK k \in 1..(N + 1) : Hop(T, N, l, k)
  BY <1>1, HopExists
<1>5. ASSUME c + 1 \in U PROVE Hop(U, N + 1, l, c + 1)
  BY <1>1, <1>4, <1>5, HopUp DEF N
<1>6. ASSUME c + 1 \in U PROVE g[At(q, l)] = x
  <2>1. c + 1 \in 1..(N + 2)
    BY <1>1
  <2> QED BY <1>1, <1>2, <1>5, <1>6, <2>1
<1>7. ASSUME c + 1 \notin U PROVE g[At(q, l)] # x
  <2>1. Hop(U, N + 1, l, Up(c, k))
    BY <1>1, <1>4, <1>7, HopUp DEF N
  <2>2. Up(c, k) \in 1..(N + 2) /\ Up(c, k) \in 0..(N + 2) /\ Up(c, k) # c + 1 /\ c + 1 \in 0..(N + 2)
    BY <1>1 DEF Up
  <2>3. g[At(q, l)] = At(r, Up(c, k))
    BY <1>1, <1>2, <2>1, <2>2
  <2>4. \A a, b \in 0..(N + 2) : At(r, a) = At(r, b) => a = b
    <3>1. N + 2 = Len(r) + 1
      BY <1>1
    <3> QED BY <1>3, <3>1, PlacesDiffer
  <2> QED BY <1>1, <2>2, <2>3, <2>4
<1> QED
  BY <1>1, <1>5, <1>6, <1>7

\* The link of the new place, if it has one, is cut out.
LEMMA LinkRemove ==
  ASSUME NEW q, NEW r, NEW c, NEW x, Wider(q, r, c, x), NEW T, NEW U, Widens(T, U, Len(q), c),
         NEW l, IsLast(T, c, l), c + 1 \in U,
         NEW g \in [Nodes -> Nodes \cup {Nil}], Linked(g, r, U)
  PROVE  Linked([g EXCEPT ![At(q, l)] = g[x], ![x] = Nil], q, T)
<1> DEFINE N == Len(q)
           p == At(q, l)
           f == [g EXCEPT ![p] = g[x], ![x] = Nil]
<1>1. /\ N \in Nat /\ Len(r) = N + 1 /\ c \in 0..N /\ c + 1 \in 0..(N + 1)
      /\ T \in SUBSET (0..N) /\ U \in SUBSET (0..(N + 1))
      /\ l \in T /\ l \in 0..N /\ l \in 0..(N + 1) /\ l <= c /\ l \in U /\ Up(c, l) = l
      /\ x \in Nodes /\ At(r, c + 1) = x /\ At(r, l) = p /\ p \in Nodes /\ p # x
  BY WiderFacts
<1>2. f[x] = Nil /\ f[p] = g[x] /\ \A n \in Nodes : n # x /\ n # p => f[n] = g[n]
  BY <1>1
<1>3. \A a \in 0..(N + 1), b \in 1..(N + 2) : Hop(U, N + 1, a, b) => g[At(r, a)] = At(r, b)
  <2>1. (N + 1) + 1 = N + 2
    BY <1>1
  <2> QED BY <1>1, <2>1 DEF Linked
<1>4. \A n \in Nodes : g[n] # Nil => \E a \in U : n = At(r, a)
  BY DEF Linked
<1>5. q \in Seq(Elems) /\ Injective(q)
  BY DEF Wider
<1>6. Widens(T, U, N, c) /\ Wider(q, r, c, x)
  OBVIOUS
<1> HIDE DEF p, f, N
<1>7. ASSUME NEW j \in 0..N, NEW k \in 1..(N + 1), Hop(T, N, j, k)
      PROVE  f[At(q, j)] = At(q, k)
  <2>1. j \in 0..(N + 1) /\ k \in 0..(N + 1) /\ Up(c, j) \in 0..(N + 1) /\ Up(c, k) \in 1..(N + 2)
        /\ c + 1 \in 0..(N + 1)
    BY <1>1 DEF Up
  <2>2. At(r, Up(c, j)) = At(q, j) /\ At(r, Up(c, k)) = At(q, k)
    BY <2>1, AtUp DEF N
  <2>3. CASE j = l
    <3>1. Hop(U, N + 1, c + 1, Up(c, k))
      BY <1>1, <1>6, <1>7, <2>3, HopUp
    <3>2. g[x] = At(q, k)
      BY <1>1, <1>3, <2>1, <2>2, <3>1
    <3> QED BY <1>2, <2>3, <3>2 DEF p
  <2>4. CASE j # l
    <3>1. Hop(U, N + 1, Up(c, j), Up(c, k))
      BY <1>1, <1>6, <1>7, <2>4, HopUp
    <3>2. g[At(q, j)] = At(q, k)
      BY <1>3, <2>1, <2>2, <3>1
    <3>3. At(q, j) # x /\ At(q, j) # p
      BY <1>1, <2>1, <2>4, AtUp DEF N, p
    <3>4. At(q, j) \in Nodes
      BY <1>5, PlacesDiffer DEF N
    <3> QED BY <1>2, <3>2, <3>3, <3>4
  <2> QED BY <2>3, <2>4
<1>8. ASSUME NEW n \in Nodes, f[n] # Nil PROVE \E t \in T : n = At(q, t)
  <2>1. CASE n = p
    BY <1>1, <2>1 DEF p
  <2>2. CASE n # p
    <3>1. n # x
      BY <1>2, <1>8
    <3>2. PICK a \in U : n = At(r, a)
      BY <1>2, <1>4, <1>8, <2>2, <3>1
    <3>3. a \in 0..(N + 1) /\ a \in 0..(N + 2) /\ a # c + 1
      BY <1>1, <3>1, <3>2
    <3>4. PICK t \in 0..(N + 1) : a = Up(c, t)
      BY <1>1, <3>3, UpIsMonotone
    <3>5. t # N + 1
      BY <1>1, <3>3, <3>4 DEF Up
    <3>6. t \in T
      BY <1>1, <1>6, <3>2, <3>4, <3>5 DEF Widens
    <3>7. At(q, t) = n
      BY <3>2, <3>4, AtUp DEF N
    <3> QED BY <3>6, <3>7
  <2> QED BY <2>1, <2>2
<1>9. Linked(f, q, T)
  BY <1>7, <1>8 DEF Linked, N
<1> QED
  BY <1>9 DEF f, p

LEMMA LinkNarrow ==
  ASSUME NEW q, NEW r, NEW c, NEW x, Wider(q, r, c, x), NEW T, NEW U, Widens(T, U, Len(q), c),
         NEW l, IsLast(T, c, l), c + 1 \notin U, NEW g, Linked(g, r, U)
  PROVE  Linked(g, q, T)
<1> DEFINE N == Len(q)
<1>1. /\ N \in Nat /\ Len(r) = N + 1 /\ c \in 0..N
      /\ T \in SUBSET (0..N) /\ U \in SUBSET (0..(N + 1))
  BY WiderFacts
<1>2. \A a \in 0..(N + 1), b \in 1..(N + 2) : Hop(U, N + 1, a, b) => g[At(r, a)] = At(r, b)
  <2>1. (N + 1) + 1 = N + 2
    BY <1>1
  <2> QED BY <1>1, <2>1 DEF Linked
<1>3. \A n \in Nodes : g[n] # Nil => \E a \in U : n = At(r, a)
  BY DEF Linked
<1>4. Widens(T, U, N, c) /\ Wider(q, r, c, x)
  OBVIOUS
<1> HIDE DEF N
<1>5. ASSUME NEW j \in 0..N, NEW k \in 1..(N + 1), Hop(T, N, j, k)
      PROVE  g[At(q, j)] = At(q, k)
  <2>1. j \in 0..(N + 1) /\ k \in 0..(N + 1) /\ Up(c, j) \in 0..(N + 1) /\ Up(c, k) \in 1..(N + 2)
    BY <1>1 DEF Up
  <2>2. At(r, Up(c, j)) = At(q, j) /\ At(r, Up(c, k)) = At(q, k)
    BY <2>1, AtUp DEF N
  <2>3. Hop(U, N + 1, Up(c, j), Up(c, k))
    BY <1>1, <1>4, <1>5, HopUp
  <2> QED BY <1>2, <2>1, <2>2, <2>3
<1>6. ASSUME NEW n \in Nodes, g[n] # Nil PROVE \E t \in T : n = At(q, t)
  <2>1. PICK a \in U : n = At(r, a)
    BY <1>3, <1>6
  <2>2. a \in 0..(N + 1) /\ a \in 0..(N + 2) /\ a # c + 1
    BY <1>1, <2>1
  <2>3. PICK t \in 0..(N + 1) : a = Up(c, t)
    BY <1>1, <2>2, UpIsMonotone
  <2>4. t # N + 1
    BY <1>1, <2>2, <2>3 DEF Up
  <2>5. t \in T
    BY <1>1, <1>4, <2>1, <2>3, <2>4 DEF Widens
  <2>6. At(q, t) = n
    BY <2>1, <2>3, AtUp DEF N
  <2> QED BY <2>5, <2>6
<1> QED
  BY <1>5, <1>6 DEF Linked, N

\* The spans w of a level, if that of the place l were old.
SpannedBut(w, q, T, l, old) ==
  \A j \in 0..Len(q), k \in 1..(Len(q) + 1) :
    Hop(T, Len(q), j, k) => (IF j = l THEN old ELSE w[At(q, j)]) = dist(Len(q), j, k)

LEMMA SpanInsert ==
  ASSUME NEW q, NEW r, NEW c, NEW x, Wider(q, r, c, x), NEW T, NEW U, Widens(T, U, Len(q), c),
         NEW l, IsLast(T, c, l), c + 1 \in U,
         NEW w \in [Nodes -> Int], NEW old \in Int, SpannedBut(w, q, T, l, old)
  PROVE  Spanned([w EXCEPT ![x] = old - (c - l), ![At(q, l)] = (c - l) + 1], r, U)
<1> DEFINE N == Len(q)
           p == At(q, l)
           v == [w EXCEPT ![x] = old - (c - l), ![p] = (c - l) + 1]
<1>1. /\ N \in Nat /\ Len(r) = N + 1 /\ c \in 0..N /\ c + 1 \in 0..(N + 1)
      /\ T \in SUBSET (0..N) /\ U \in SUBSET (0..(N + 1))
      /\ l \in T /\ l \in 0..N /\ l \in 0..(N + 1) /\ l <= c /\ l \in U /\ Up(c, l) = l
      /\ x \in Nodes /\ At(r, c + 1) = x /\ At(r, l) = p /\ p \in Nodes /\ p # x
  BY WiderFacts
<1>2. v[x] = old - (c - l) /\ v[p] = (c - l) + 1 /\ \A n \in Nodes : n # x /\ n # p => v[n] = w[n]
  BY <1>1
<1>3. \A j \in 0..N, k \in 1..(N + 1) :
        Hop(T, N, j, k) => (IF j = l THEN old ELSE w[At(q, j)]) = dist(N, j, k)
  BY DEF SpannedBut
<1>4. q \in Seq(Elems) /\ Injective(q)
  BY DEF Wider
<1>5. Widens(T, U, N, c) /\ Wider(q, r, c, x)
  OBVIOUS
<1> HIDE DEF p, v, N
<1>6. ASSUME NEW a \in 0..(N + 1), NEW b \in 1..(N + 2), Hop(U, N + 1, a, b)
      PROVE  v[At(r, a)] = dist(N + 1, a, b)
  <2>1. CASE a = l /\ b = c + 1
    <3>1. PICK k \in 1..(N + 1) : Hop(T, N, l, k)
      BY <1>1, HopExists
    <3>2. c < k /\ l < k
      BY <1>1, <3>1, HopSide DEF Hop
    <3>3. dist(N + 1, l, c + 1) = c - l + 1
      BY <1>1, <3>2, DistUp
    <3> QED BY <1>1, <1>2, <2>1, <3>3
  <2>2. ASSUME NEW k \in 1..(N + 1), a = c + 1, b = Up(c, k), Hop(T, N, l, k)
        PROVE  v[At(r, a)] = dist(N + 1, a, b)
    <3>1. old = dist(N, l, k)
      BY <1>1, <1>3, <2>2
    <3>2. c < k /\ l < k
      BY <1>1, <2>2, HopSide DEF Hop
    <3>3. dist(N + 1, c + 1, Up(c, k)) = dist(N, l, k) - (c - l)
      BY <1>1, <3>2, DistUp
    <3> QED BY <1>1, <1>2, <2>2, <3>1, <3>3
  <2>3. ASSUME NEW j \in 0..N, NEW k \in 1..(N + 1), a = Up(c, j), b = Up(c, k), Hop(T, N, j, k), j # l
        PROVE  v[At(r, a)] = dist(N + 1, a, b)
    <3>1. j \in 0..(N + 1)
      BY <1>1
    <3>2. At(r, a) = At(q, j)
      BY <2>3, <3>1, AtUp DEF N
    <3>3. At(q, j) # x /\ At(q, j) # p
      BY <1>1, <2>3, <3>1, AtUp DEF N, p
    <3>4. At(q, j) \in Nodes
      BY <1>4, PlacesDiffer DEF N
    <3>5. w[At(q, j)] = dist(N, j, k)
      BY <1>3, <2>3
    <3>6. (k <= c \/ c < j) /\ j < k
      BY <1>1, <2>3, HopSide DEF Hop
    <3>7. dist(N + 1, a, b) = dist(N, j, k)
      BY <1>1, <2>3, <3>6, DistUp
    <3> QED BY <1>2, <3>2, <3>3, <3>4, <3>5, <3>7
  <2>4. \/ c + 1 \in U /\ a = l /\ b = c + 1
        \/ \E k \in 1..(N + 1) : c + 1 \in U /\ a = c + 1 /\ b = Up(c, k) /\ Hop(T, N, l, k)
        \/ \E j \in 0..N, k \in 1..(N + 1) :
              /\ a = Up(c, j) /\ b = Up(c, k) /\ Hop(T, N, j, k)
              /\ c + 1 \in U => j # l
    BY <1>1, <1>5, <1>6, HopDown
  <2> QED BY <2>1, <2>2, <2>3, <2>4
<1>7. (N + 1) + 1 = N + 2
  BY <1>1
<1>8. Spanned(v, r, U)
  BY <1>1, <1>6, <1>7 DEF Spanned
<1> QED
  BY <1>8 DEF v, p

LEMMA SpanWiden ==
  ASSUME NEW q, NEW r, NEW c, NEW x, Wider(q, r, c, x), NEW T, NEW U, Widens(T, U, Len(q), c),
         NEW l, IsLast(T, c, l), c + 1 \notin U,
         NEW w \in [Nodes -> Int], Spanned(w, q, T)
  PROVE  Spanned([w EXCEPT ![At(q, l)] = @ + 1], r, U)
<1> DEFINE N == Len(q)
           p == At(q, l)
           v == [w EXCEPT ![p] = @ + 1]
<1>1. /\ N \in Nat /\ Len(r) = N + 1 /\ c \in 0..N
      /\ T \in SUBSET (0..N) /\ U \in SUBSET (0..(N + 1))
      /\ l \in T /\ l \in 0..N /\ l \in 0..(N + 1) /\ l <= c /\ Up(c, l) = l
      /\ p \in Nodes
  BY WiderFacts
<1>2. v[p] = w[p] + 1 /\ \A n \in Nodes : n # p => v[n] = w[n]
  BY <1>1
<1>3. \A j \in 0..N, k \in 1..(N + 1) : Hop(T, N, j, k) => w[At(q, j)] = dist(N, j, k)
  BY DEF Spanned
<1>4. q \in Seq(Elems) /\ Injective(q)
  BY DEF Wider
<1>5. Widens(T, U, N, c) /\ Wider(q, r, c, x)
  OBVIOUS
<1> HIDE DEF p, v, N
<1>6. ASSUME NEW a \in 0..(N + 1), NEW b \in 1..(N + 2), Hop(U, N + 1, a, b)
      PROVE  v[At(r, a)] = dist(N + 1, a, b)
  <2>1. PICK j \in 0..N, k \in 1..(N + 1) : a = Up(c, j) /\ b = Up(c, k) /\ Hop(T, N, j, k)
    BY <1>1, <1>5, <1>6, HopDown
  <2>2. j \in 0..(N + 1) /\ j < k
    BY <1>1, <2>1 DEF Hop
  <2>3. At(r, a) = At(q, j)
    BY <2>1, <2>2, AtUp DEF N
  <2>4. w[At(q, j)] = dist(N, j, k)
    BY <1>3, <2>1
  <2>5. CASE j = l
    <3>1. c < k
      BY <1>1, <2>1, <2>5, HopSide
    <3>2. dist(N + 1, a, b) = dist(N, j, k) + 1
      BY <1>1, <2>1, <2>2, <2>5, <3>1, DistUp
    <3> QED BY <1>2, <2>3, <2>4, <2>5, <3>2 DEF p
  <2>6. CASE j # l
    <3>1. k <= c \/ c < j
      BY <1>1, <2>1, <2>6, HopSide
    <3>2. dist(N + 1, a, b) = dist(N, j, k)
      BY <1>1, <2>1, <2>2, <3>1, DistUp
    <3>3. At(q, j) # p
      BY <1>1, <2>2, <2>6, AtUp DEF N, p
    <3>4. At(q, j) \in Nodes
      BY <1>4, PlacesDiffer DEF N
    <3> QED BY <1>2, <2>3, <2>4, <3>2, <3>3, <3>4
  <2> QED BY <2>5, <2>6
<1>7. (N + 1) + 1 = N + 2
  BY <1>1
<1>8. Spanned(v, r, U)
  BY <1>1, <1>6, <1>7 DEF Spanned
<1> QED
  BY <1>8 DEF v, p

\* Del takes one from the span before x, and adds that of x if the level has x.
LEMMA SpanRemove ==
  ASSUME NEW q, NEW r, NEW c, NEW x, Wider(q, r, c, x), NEW T, NEW U, Widens(T, U, Len(q), c),
         NEW l, IsLast(T, c, l), NEW w \in [Nodes -> Int], Spanned(w, r, U),
         NEW more, more = IF c + 1 \in U THEN w[x] ELSE 0
  PROVE  Spanned([w EXCEPT ![At(q, l)] = @ - 1 + more, ![x] = 0], q, T)
<1> DEFINE N == Len(q)
           p == At(q, l)
           v == [w EXCEPT ![p] = @ - 1 + more, ![x] = 0]
<1>1. /\ N \in Nat /\ Len(r) = N + 1 /\ c \in 0..N /\ c + 1 \in 0..(N + 1)
      /\ T \in SUBSET (0..N) /\ U \in SUBSET (0..(N + 1))
      /\ l \in T /\ l \in 0..N /\ l \in 0..(N + 1) /\ l <= c /\ l \in U /\ Up(c, l) = l
      /\ x \in Nodes /\ At(r, c + 1) = x /\ At(r, l) = p /\ p \in Nodes /\ p # x
  BY WiderFacts
<1>2. v[p] = w[p] - 1 + more /\ \A n \in Nodes : n # x /\ n # p => v[n] = w[n]
  BY <1>1
<1>3. \A a \in 0..(N + 1), b \in 1..(N + 2) : Hop(U, N + 1, a, b) => w[At(r, a)] = dist(N + 1, a, b)
  <2>1. (N + 1) + 1 = N + 2
    BY <1>1
  <2> QED BY <1>1, <2>1 DEF Spanned
<1>4. q \in Seq(Elems) /\ Injective(q)
  BY DEF Wider
<1>5. Widens(T, U, N, c) /\ Wider(q, r, c, x)
  OBVIOUS
<1>6. w[p] \in Int /\ w[x] \in Int /\ more \in Int
  BY <1>1
<1> HIDE DEF p, v, N
<1>7. ASSUME NEW j \in 0..N, NEW k \in 1..(N + 1), Hop(T, N, j, k)
      PROVE  v[At(q, j)] = dist(N, j, k)
  <2>1. /\ j \in 0..(N + 1) /\ k \in 0..(N + 1) /\ Up(c, j) \in 0..(N + 1) /\ Up(c, k) \in 1..(N + 2)
        /\ c + 1 \in 1..(N + 2) /\ j < k
    BY <1>1, <1>7 DEF Up, Hop
  <2>2. At(r, Up(c, j)) = At(q, j)
    BY <2>1, AtUp DEF N
  <2>3. dist(N, j, k) \in Int
    BY <1>1, <2>1 DEF dist
  <2>4. CASE j = l
    <3>1. c < k /\ j <= c
      BY <1>1, <1>7, <2>4, HopSide
    <3>2. /\ dist(N + 1, Up(c, j), Up(c, k)) = dist(N, j, k) + 1
          /\ dist(N + 1, j, c + 1) = c - j + 1
          /\ dist(N + 1, c + 1, Up(c, k)) = dist(N, j, k) - (c - j)
      BY <1>1, <2>1, <3>1, DistUp
    <3>3. CASE c + 1 \in U
      <4>1. Hop(U, N + 1, l, c + 1) /\ Hop(U, N + 1, c + 1, Up(c, k))
        BY <1>1, <1>5, <1>7, <2>4, <3>3, HopUp
      <4>2. w[p] = dist(N + 1, l, c + 1) /\ w[x] = dist(N + 1, c + 1, Up(c, k))
        BY <1>1, <1>3, <2>1, <4>1
      <4>3. w[p] - 1 + more = dist(N, j, k)
        BY <1>1, <1>6, <2>3, <2>4, <3>2, <3>3, <4>2
      <4> QED BY <1>2, <2>4, <4>3 DEF p
    <3>4. CASE c + 1 \notin U
      <4>1. Hop(U, N + 1, Up(c, j), Up(c, k))
        BY <1>1, <1>5, <1>7, <3>4, HopUp
      <4>2. w[p] = dist(N + 1, Up(c, j), Up(c, k))
        BY <1>1, <1>3, <2>1, <2>4, <4>1
      <4>3. w[p] - 1 + more = dist(N, j, k)
        BY <1>6, <2>3, <3>2, <3>4, <4>2
      <4> QED BY <1>2, <2>4, <4>3 DEF p
    <3> QED BY <3>3, <3>4
  <2>5. CASE j # l
    <3>1. Hop(U, N + 1, Up(c, j), Up(c, k))
      BY <1>1, <1>5, <1>7, <2>5, HopUp
    <3>2. w[At(q, j)] = dist(N + 1, Up(c, j), Up(c, k))
      BY <1>3, <2>1, <2>2, <3>1
    <3>3. k <= c \/ c < j
      BY <1>1, <1>7, <2>5, HopSide
    <3>4. dist(N + 1, Up(c, j), Up(c, k)) = dist(N, j, k)
      BY <1>1, <2>1, <3>3, DistUp
    <3>5. At(q, j) # x /\ At(q, j) # p
      BY <1>1, <2>1, <2>5, AtUp DEF N, p
    <3>6. At(q, j) \in Nodes
      BY <1>4, PlacesDiffer DEF N
    <3> QED BY <1>2, <3>2, <3>4, <3>5, <3>6
  <2> QED BY <2>4, <2>5
<1>8. Spanned(v, q, T)
  BY <1>7 DEF Spanned, N
<1> QED
  BY <1>8 DEF v, p

-----------------------------------------------------------------------------
(***************************************************************************)
(* Where an entry belongs.  c entries are before it; la[i] is the place    *)
(* where the search for it leaves level i.                                 *)
(***************************************************************************)
precedes(s, k, sc) == [n \in Elems |-> [r \in Int |-> before(s, n, k, sc)]]

Cut(s, q, T, k, sc, c, la) ==
  /\ c \in 0..Len(q)
  /\ \A j \in 1..Len(q) : before(s, q[j], k, sc) <=> j <= c
  /\ \A i \in Levels : IsLast(T[i], c, la[i])
  /\ la[1] = c
  /\ \A i \in 1..s.level :
       descend(s, precedes(s, k, sc))[i] = [node |-> At(q, la[i]), rank |-> la[i]]
  /\ \A i \in Levels : i > s.level => la[i] = 0

LEMMA Prefix ==
  ASSUME NEW N \in Nat, NEW J \in SUBSET (1..N), \A j, k \in 1..N : j < k /\ k \in J => j \in J
  PROVE  \E c \in 0..N : \A j \in 1..N : j \in J <=> j <= c
<1>1. J \cup {0} \in SUBSET (0..N) /\ J \cup {0} # {}
  OBVIOUS
<1>2. PICK c \in J \cup {0} : \A j \in J \cup {0} : j <= c
  BY <1>1, GreatestOf
<1>3. c \in 0..N
  BY <1>1
<1>4. ASSUME NEW j \in 1..N PROVE j \in J <=> j <= c
  <2>1. ASSUME j \in J PROVE j <= c
    BY <1>2, <2>1
  <2>2. ASSUME j <= c PROVE j \in J
    <3>1. c \in J /\ c \in 1..N
      BY <1>3, <2>2
    <3>2. j = c \/ j < c
      BY <2>2, <3>1
    <3> QED BY <3>1, <3>2
  <2> QED BY <2>1, <2>2
<1> QED
  BY <1>3, <1>4

LEMMA Entries ==
  ASSUME NEW s, NEW q, NEW T, ListInv(s, q, T)
  PROVE  /\ \A n \in Nodes : s.key[n] \in Nat /\ s.key[n] \in Keys /\ s.score[n] \in Int
         /\ \A j \in 1..Len(q) : q[j] \in Elems /\ q[j] \in Nodes
         /\ \A j, k \in 1..Len(q) : j < k => ~before(s, q[k], s.key[q[j]], s.score[q[j]])
<1>1. s \in SkipLists /\ q \in Seq(Elems) /\ Ordered(s, q)
  BY DEF ListInv
<1>2. s.key \in [Nodes -> Keys] /\ s.score \in [Nodes -> Scores \cup {0}]
  BY <1>1 DEF SkipLists
<1>3. \A n \in Nodes : s.key[n] \in Nat /\ s.key[n] \in Keys /\ s.score[n] \in Int
  <2>1. Keys \subseteq Nat /\ Scores \cup {0} \subseteq Int
    BY SkipListConstants
  <2> DEFINE f == s.key
             g == s.score
  <2>2. f \in [Nodes -> Keys] /\ g \in [Nodes -> Scores \cup {0}]
    BY <1>2
  <2> HIDE DEF f, g
  <2>3. \A n \in Nodes : f[n] \in Nat /\ f[n] \in Keys /\ g[n] \in Int
    BY <2>1, <2>2
  <2> QED BY <2>3 DEF f, g
<1>4. \A j \in 1..Len(q) : q[j] \in Elems /\ q[j] \in Nodes
  BY <1>1, Names
<1>5. \A j, k \in 1..Len(q) : j < k => ~before(s, q[k], s.key[q[j]], s.score[q[j]])
  BY <1>1 DEF Ordered
<1> QED
  BY <1>3, <1>4, <1>5

LEMMA CutExists ==
  ASSUME NEW s, NEW q, NEW T, ListInv(s, q, T), NEW k \in Nat, NEW sc \in Int
  PROVE  \E c, la : Cut(s, q, T, k, sc, c, la)
<1> DEFINE N == Len(q)
           J == {j \in 1..N : before(s, q[j], k, sc)}
           ahead == precedes(s, k, sc)
<1>1. N \in Nat /\ q \in Seq(Elems) /\ Tower(T, N, s.level) /\ s.level \in Levels
  BY DEF ListInv, SkipLists
<1>2. ASSUME NEW i \in 1..N, NEW j \in 1..N, i < j, before(s, q[j], k, sc) PROVE before(s, q[i], k, sc)
  <2>1. ~before(s, q[j], s.key[q[i]], s.score[q[i]])
    BY <1>2, Entries
  <2>2. /\ s.key[q[i]] \in Nat /\ s.score[q[i]] \in Int
        /\ s.key[q[j]] \in Nat /\ s.score[q[j]] \in Int
    BY Entries
  <2> QED BY <1>2, <2>1, <2>2 DEF before
<1>3. PICK c \in 0..N : \A j \in 1..N : j \in J <=> j <= c
  <2>1. J \in SUBSET (1..N) /\ \A i, j \in 1..N : i < j /\ j \in J => i \in J
    BY <1>2
  <2> HIDE DEF J
  <2> QED BY <1>1, <2>1, Prefix
<1>4. \A j \in 1..N : before(s, q[j], k, sc) <=> j <= c
  BY <1>3
<1>5. Ahead(q, ahead, c)
  <2>1. ASSUME NEW j \in 1..N PROVE ahead[q[j]][j] <=> j <= c
    <3>1. q[j] \in Elems /\ j \in Int
      BY <1>1
    <3> QED BY <1>4, <3>1 DEF precedes
  <2> QED BY <2>1 DEF Ahead
<1> HIDE DEF ahead, J
<1>6. \A i \in 1..s.level : \E l \in T[i] : StopsAt(q, T[i], c, l, descend(s, ahead)[i])
  BY <1>5, DescendStops
<1> DEFINE la == [i \in Levels |-> IF i > s.level THEN 0 ELSE descend(s, ahead)[i].rank]
<1>7. ASSUME NEW i \in Levels, i <= s.level
      PROVE  IsLast(T[i], c, la[i]) /\ descend(s, ahead)[i] = [node |-> At(q, la[i]), rank |-> la[i]]
  <2>1. i \in 1..s.level
    BY <1>1, <1>7, Names
  <2>2. PICK l \in T[i] : StopsAt(q, T[i], c, l, descend(s, ahead)[i])
    BY <1>6, <2>1
  <2>3. IsLast(T[i], c, l) /\ descend(s, ahead)[i] = [node |-> At(q, l), rank |-> l]
    BY <2>2 DEF StopsAt
  <2>4. la[i] = l
    BY <1>1, <1>7, <2>3, Names
  <2> QED BY <2>3, <2>4
<1>8. ASSUME NEW i \in Levels, i > s.level PROVE IsLast(T[i], c, la[i]) /\ la[i] = 0
  <2>1. T[i] = {0} /\ la[i] = 0
    BY <1>1, <1>8 DEF Tower
  <2> QED BY <1>1, <2>1 DEF IsLast
<1>9. 1 \in Levels /\ 1 <= s.level /\ s.level \in Nat /\ \A i \in Levels : i \in Nat
  BY <1>1, Names
<1>10. la[1] = c
  <2>1. IsLast(T[1], c, la[1]) /\ T[1] = 0..N
    BY <1>1, <1>7, <1>9 DEF Tower
  <2>2. IsLast(T[1], c, c)
    BY <1>1, <2>1 DEF IsLast
  <2> QED BY <1>1, <2>1, <2>2, LastIsOne
<1> HIDE DEF la
<1>11. \A i \in Levels : IsLast(T[i], c, la[i])
  <2>1. \A i \in Levels : i <= s.level \/ i > s.level
    BY <1>9
  <2> QED BY <1>7, <1>8, <2>1
<1>12. \A i \in 1..s.level : descend(s, ahead)[i] = [node |-> At(q, la[i]), rank |-> la[i]]
  <2>1. \A i \in 1..s.level : i \in Levels /\ i <= s.level
    BY <1>1, <1>9, Names
  <2> QED BY <1>7, <2>1
<1> QED
  BY <1>3, <1>4, <1>8, <1>10, <1>11, <1>12 DEF Cut, ahead

-----------------------------------------------------------------------------
(***************************************************************************)
(* insert.                                                                 *)
(***************************************************************************)
\* What insert writes, in terms of places.
InsertResult(s, q, k, sc, c, la, x, R, t) ==
  /\ t.level = Max({s.level, R}) /\ t.length = s.length + 1
  /\ t.tail = IF s.forward[1][At(q, c)] = Nil THEN x ELSE s.tail
  /\ t.key = [s.key EXCEPT ![x] = k] /\ t.score = [s.score EXCEPT ![x] = sc]
  /\ t.backward = [n \in Nodes |-> IF n = x THEN IF At(q, c) = Header THEN Nil ELSE At(q, c)
                                   ELSE IF n = s.forward[1][At(q, c)] THEN x
                                   ELSE s.backward[n]]
  /\ \A i \in Levels :
       t.forward[i] = IF i <= R
                      THEN [s.forward[i] EXCEPT ![x] = s.forward[i][At(q, la[i])], ![At(q, la[i])] = x]
                      ELSE s.forward[i]
  /\ \A i \in Levels :
       t.span[i] =
         IF i <= R
         THEN [s.span[i] EXCEPT ![x] = (IF i <= s.level THEN s.span[i][At(q, la[i])] ELSE s.length)
                                         - (c - la[i]),
                                ![At(q, la[i])] = (c - la[i]) + 1]
         ELSE IF i <= t.level THEN [s.span[i] EXCEPT ![At(q, la[i])] = @ + 1] ELSE s.span[i]
  /\ t.forward = [i \in Levels |-> t.forward[i]] /\ t.span = [i \in Levels |-> t.span[i]]
  /\ t = [level |-> t.level, length |-> t.length, tail |-> t.tail, key |-> t.key,
          score |-> t.score, backward |-> t.backward, forward |-> t.forward, span |-> t.span]

LEMMA InsertWrites ==
  ASSUME NEW s, NEW q, NEW T, ListInv(s, q, T), NEW k, NEW sc, NEW c, NEW la,
         Cut(s, q, T, k, sc, c, la), NEW x, NEW R \in Levels, NEW t, t = inserted(s, x, k, sc, R)
  PROVE  InsertResult(s, q, k, sc, c, la, x, R, t)
<1> DEFINE d == descend(s, [n \in Elems |-> [r \in Int |-> before(s, n, k, sc)]])
           u(i) == IF i <= s.level THEN d[i].node ELSE Header
           rk(i) == IF i <= s.level THEN d[i].rank ELSE 0
           old(i) == IF i <= s.level THEN s.span[i][u(i)] ELSE s.length
           lv == Max({s.level, R})
           fw == [i \in Levels |-> IF i <= R THEN [s.forward[i] EXCEPT ![x] = s.forward[i][u(i)], ![u(i)] = x]
                                   ELSE s.forward[i]]
           sp == [i \in Levels |->
                    IF i <= R
                    THEN [s.span[i] EXCEPT ![x] = old(i) - (rk(1) - rk(i)), ![u(i)] = (rk(1) - rk(i)) + 1]
                    ELSE IF i <= lv THEN [s.span[i] EXCEPT ![u(i)] = @ + 1] ELSE s.span[i]]
           bw == [n \in Nodes |-> IF n = x THEN IF u(1) = Header THEN Nil ELSE u(1)
                                  ELSE IF n = s.forward[1][u(1)] THEN x ELSE s.backward[n]]
<1>1. t = [level |-> lv, length |-> s.length + 1,
           tail |-> IF s.forward[1][u(1)] = Nil THEN x ELSE s.tail,
           key |-> [s.key EXCEPT ![x] = k], score |-> [s.score EXCEPT ![x] = sc],
           backward |-> bw, forward |-> fw, span |-> sp]
  BY DEF inserted
<1>2. s.level \in Levels /\ Levels = 1..MaxLevel /\ MaxLevel \in Nat
  BY Names DEF ListInv, SkipLists
<1>3. /\ \A i \in 1..s.level : d[i] = [node |-> At(q, la[i]), rank |-> la[i]]
      /\ \A i \in Levels : i > s.level => la[i] = 0
      /\ la[1] = c
  BY DEF Cut, precedes
<1> HIDE DEF d
<1>4. ASSUME NEW i \in Levels PROVE u(i) = At(q, la[i]) /\ rk(i) = la[i]
  <2>1. CASE i <= s.level
    <3>1. i \in 1..s.level
      BY <1>2, <2>1
    <3>2. d[i] = [node |-> At(q, la[i]), rank |-> la[i]]
      BY <1>3, <3>1
    <3>3. d[i].node = At(q, la[i]) /\ d[i].rank = la[i]
      BY <3>2
    <3> QED BY <2>1, <3>3
  <2>2. CASE ~(i <= s.level)
    <3>1. la[i] = 0
      BY <1>2, <1>3, <2>2
    <3> QED BY <2>2, <3>1 DEF At
  <2> QED BY <2>1, <2>2
<1>5. u(1) = At(q, c) /\ rk(1) = c
  BY <1>2, <1>3, <1>4
<1>6. /\ t.level = lv /\ t.length = s.length + 1
      /\ t.tail = (IF s.forward[1][u(1)] = Nil THEN x ELSE s.tail)
      /\ t.key = [s.key EXCEPT ![x] = k] /\ t.score = [s.score EXCEPT ![x] = sc]
      /\ t.backward = bw /\ t.forward = fw /\ t.span = sp
  <2> HIDE DEF bw, fw, sp, lv, u
  <2> QED BY <1>1
<1>7. \A i \in Levels : fw[i] = IF i <= R
                             THEN [s.forward[i] EXCEPT ![x] = s.forward[i][At(q, la[i])], ![At(q, la[i])] = x]
                             ELSE s.forward[i]
  <2> HIDE DEF u
  <2> QED BY <1>4
<1>8. \A i \in Levels :
         sp[i] = IF i <= R
                THEN [s.span[i] EXCEPT ![x] = (IF i <= s.level THEN s.span[i][At(q, la[i])] ELSE s.length)
                                                - (c - la[i]),
                                       ![At(q, la[i])] = (c - la[i]) + 1]
                ELSE IF i <= lv THEN [s.span[i] EXCEPT ![At(q, la[i])] = @ + 1] ELSE s.span[i]
  <2> HIDE DEF u, rk, lv
  <2> QED BY <1>4, <1>5
<1>9. bw = [n \in Nodes |-> IF n = x THEN IF At(q, c) = Header THEN Nil ELSE At(q, c)
                                          ELSE IF n = s.forward[1][At(q, c)] THEN x
                                          ELSE s.backward[n]]
  <2> HIDE DEF u
  <2> QED BY <1>5
<1>10. fw = [i \in Levels |-> fw[i]] /\ sp = [i \in Levels |-> sp[i]]
  OBVIOUS
<1> HIDE DEF bw, fw, sp, lv, u
<1>11. t = [level |-> t.level, length |-> t.length, tail |-> t.tail, key |-> t.key,
                 score |-> t.score, backward |-> t.backward, forward |-> t.forward, span |-> t.span]
  BY <1>1, <1>6
<1> QED
  BY <1>5, <1>6, <1>7, <1>8, <1>9, <1>10, <1>11 DEF lv, InsertResult

\* The places of the levels after an insert behind place c of a node of R levels.
Raised(T, c, R) == [i \in Levels |-> {Up(c, t) : t \in T[i]} \cup {n \in {c + 1} : i <= R}]

LEMMA RaisedWidens ==
  ASSUME NEW N \in Nat, NEW c \in 0..N, NEW T, NEW level \in Levels, Tower(T, N, level),
         NEW R \in Levels, NEW top \in Levels, level <= top, R <= top
  PROVE  /\ \A i \in Levels : /\ Widens(T[i], Raised(T, c, R)[i], N, c)
                              /\ c + 1 \in Raised(T, c, R)[i] <=> i <= R
         /\ Tower(Raised(T, c, R), N + 1, top)
<1> DEFINE U == Raised(T, c, R)
<1>1. Levels = 1..MaxLevel /\ MaxLevel \in Nat /\ 1 \in Levels /\ \A i \in Levels : i \in Nat /\ 1 <= i
  BY Names
<1>2. /\ \A i \in Levels : T[i] \in SUBSET (0..N) /\ 0 \in T[i] /\ (i + 1 \in Levels => T[i + 1] \subseteq T[i])
      /\ \A i \in Levels : i > level => T[i] = {0}
      /\ T[1] = 0..N
  BY <1>1 DEF Tower
<1>3. \A t \in 0..N : Up(c, t) \in 0..(N + 1) /\ Up(c, t) # c + 1
  BY DEF Up
<1>4. \A t, v \in 0..N : Up(c, t) = Up(c, v) => t = v
  BY DEF Up
<1>5. Up(c, 0) = 0
  BY DEF Up
<1>6. ASSUME NEW i \in Levels
      PROVE  /\ U[i] \subseteq 0..(N + 1) /\ 0 \in U[i]
             /\ \A t \in 0..N : t \in T[i] <=> Up(c, t) \in U[i]
             /\ c + 1 \in U[i] <=> i <= R
             /\ \A a \in U[i] : (\E t \in T[i] : a = Up(c, t)) \/ (a = c + 1 /\ i <= R)
  <2>1. U[i] = {Up(c, t) : t \in T[i]} \cup {n \in {c + 1} : i <= R}
    BY DEF Raised
  <2>2. T[i] \subseteq 0..N /\ 0 \in T[i]
    BY <1>2
  <2> HIDE DEF U
  <2>3. \A a : a \in U[i] <=> (\E t \in T[i] : a = Up(c, t)) \/ (a = c + 1 /\ i <= R)
    BY <2>1
  <2>4. U[i] \subseteq 0..(N + 1)
    BY <1>3, <2>2, <2>3
  <2>5. 0 \in U[i]
    BY <1>5, <2>2, <2>3
  <2>6. \A t \in 0..N : t \in T[i] <=> Up(c, t) \in U[i]
    BY <1>3, <1>4, <2>2, <2>3
  <2>7. c + 1 \in U[i] <=> i <= R
    BY <1>3, <2>2, <2>3
  <2> QED BY <2>3, <2>4, <2>5, <2>6, <2>7
<1>7. U \in [Levels -> SUBSET (0..(N + 1))]
  <2>1. \A i \in Levels : U[i] \in SUBSET (0..(N + 1))
    BY <1>6
  <2>2. U = [i \in Levels |-> U[i]]
    BY DEF Raised
  <2> HIDE DEF U
  <2> QED BY <2>1, <2>2
<1> HIDE DEF U
<1>8. U[1] = 0..(N + 1)
  <2> SUFFICES ASSUME NEW a \in 0..(N + 1) PROVE a \in U[1]
    BY <1>1, <1>6
  <2>1. CASE a = c + 1
    BY <1>1, <1>6, <2>1
  <2>2. CASE a # c + 1
    <3>1. a \in 0..(N + 2)
      OBVIOUS
    <3>2. PICK t \in 0..(N + 1) : a = Up(c, t)
      BY <2>2, <3>1, UpIsMonotone
    <3>3. t # N + 1
      BY <3>2 DEF Up
    <3> QED BY <1>1, <1>2, <1>6, <3>2, <3>3
  <2> QED BY <2>1, <2>2
<1>9. ASSUME NEW i \in Levels, i + 1 \in Levels PROVE U[i + 1] \subseteq U[i]
  <2> SUFFICES ASSUME NEW a \in U[i + 1] PROVE a \in U[i]
    OBVIOUS
  <2>1. CASE \E t \in T[i + 1] : a = Up(c, t)
    <3>1. PICK t \in T[i + 1] : a = Up(c, t)
      BY <2>1
    <3>2. t \in T[i] /\ t \in 0..N
      BY <1>2, <1>9
    <3> QED BY <1>6, <3>1, <3>2
  <2>2. CASE a = c + 1 /\ i + 1 <= R
    <3>1. i <= R
      BY <1>1, <2>2
    <3> QED BY <1>6, <2>2, <3>1
  <2> QED BY <1>6, <1>9, <2>1, <2>2
<1>10. ASSUME NEW i \in Levels, i > top PROVE U[i] = {0}
  <2>1. T[i] = {0} /\ ~(i <= R)
    BY <1>1, <1>2, <1>10
  <2>2. \A a \in U[i] : a = 0
    BY <1>5, <1>6, <2>1
  <2> QED BY <1>6, <2>2
<1>11. Tower(U, N + 1, top)
  BY <1>6, <1>7, <1>8, <1>9, <1>10 DEF Tower
<1>12. \A i \in Levels : Widens(T[i], U[i], N, c) /\ (c + 1 \in U[i] <=> i <= R)
  BY <1>2, <1>6 DEF Widens
<1> QED
  BY <1>11, <1>12 DEF U

LEMMA Fields ==
  ASSUME NEW s \in SkipLists
  PROVE  /\ s.level \in Levels /\ s.length \in Int /\ s.tail \in Nodes \cup {Nil}
         /\ s.key \in [Nodes -> Keys] /\ s.score \in [Nodes -> Scores \cup {0}]
         /\ s.backward \in [Nodes -> Nodes \cup {Nil}]
         /\ \A i \in Levels : s.forward[i] \in [Nodes -> Nodes \cup {Nil}] /\ s.span[i] \in [Nodes -> Int]
BY DEF SkipLists

LEMMA IsSkipList ==
  ASSUME NEW s,
         s = [level |-> s.level, length |-> s.length, tail |-> s.tail, key |-> s.key,
              score |-> s.score, backward |-> s.backward, forward |-> s.forward, span |-> s.span],
         s.level \in Levels, s.length \in Int, s.tail \in Nodes \cup {Nil},
         s.key \in [Nodes -> Keys], s.score \in [Nodes -> Scores \cup {0}],
         s.backward \in [Nodes -> Nodes \cup {Nil}],
         s.forward = [i \in Levels |-> s.forward[i]], s.span = [i \in Levels |-> s.span[i]],
         \A i \in Levels : s.forward[i] \in [Nodes -> Nodes \cup {Nil}],
         \A i \in Levels : s.span[i] \in [Nodes -> Int]
  PROVE  s \in SkipLists
<1>1. s.forward \in [Levels -> [Nodes -> Nodes \cup {Nil}]] /\ s.span \in [Levels -> [Nodes -> Int]]
  OBVIOUS
<1> QED
  BY <1>1 DEF SkipLists

\* The levels after an insert.
LEMMA InsertLevels ==
  ASSUME NEW s, NEW q, NEW T, ListInv(s, q, T), NEW k, NEW sc, NEW c, NEW la,
         Cut(s, q, T, k, sc, c, la), NEW x, NEW R \in Levels, NEW t, t = inserted(s, x, k, sc, R),
         NEW r, Wider(q, r, c, x)
  PROVE  /\ Tower(Raised(T, c, R), Len(r), t.level) /\ t.level \in Levels
         /\ \A i \in Levels : /\ Linked(t.forward[i], r, Raised(T, c, R)[i])
                              /\ t.forward[i] \in [Nodes -> Nodes \cup {Nil}]
                              /\ t.span[i] \in [Nodes -> Int]
         /\ \A i \in 1..t.level : Spanned(t.span[i], r, Raised(T, c, R)[i])
<1> DEFINE N == Len(q)
           U == Raised(T, c, R)
<1>0. InsertResult(s, q, k, sc, c, la, x, R, t)
  BY InsertWrites
<1>1. Levels = 1..MaxLevel /\ MaxLevel \in Nat /\ \A i \in Levels : i \in Nat /\ 1 <= i
  BY Names
<1>2. /\ s \in SkipLists /\ s.length = N /\ Tower(T, N, s.level)
      /\ \A i \in Levels : Linked(s.forward[i], q, T[i])
      /\ \A i \in 1..s.level : Spanned(s.span[i], q, T[i])
  BY DEF ListInv
<1>3. s.level \in Levels /\ c \in 0..N /\ N \in Nat /\ Len(r) = N + 1
  BY <1>2, Fields DEF Wider
<1>4. t.level = Max({s.level, R}) /\ t.level \in Levels /\ s.level <= t.level /\ R <= t.level
      /\ (t.level = R \/ t.level = s.level)
  <2>1. t.level = Max({s.level, R})
    BY <1>0 DEF InsertResult
  <2>2. {s.level, R} \in SUBSET (0..MaxLevel) /\ {s.level, R} # {}
    BY <1>1, <1>3
  <2>3. Max({s.level, R}) \in {s.level, R} /\ \A i \in {s.level, R} : i <= Max({s.level, R})
    BY <1>1, <2>2, MaxIs
  <2> QED BY <1>3, <2>1, <2>3
<1>5. Tower(U, N + 1, t.level) /\ \A i \in Levels : Widens(T[i], U[i], N, c) /\ (c + 1 \in U[i] <=> i <= R)
  BY <1>2, <1>3, <1>4, RaisedWidens
<1>6. \A i \in Levels : IsLast(T[i], c, la[i])
  BY DEF Cut
<1> HIDE DEF U
<1>7. ASSUME NEW i \in Levels
      PROVE  /\ Linked(t.forward[i], r, U[i])
             /\ t.forward[i] \in [Nodes -> Nodes \cup {Nil}]
             /\ t.span[i] \in [Nodes -> Int]
             /\ i <= t.level => Spanned(t.span[i], r, U[i])
  <2> DEFINE f == s.forward[i]
             w == s.span[i]
             l == la[i]
             p == At(q, l)
             old == IF i <= s.level THEN w[p] ELSE s.length
  <2>1. f \in [Nodes -> Nodes \cup {Nil}] /\ w \in [Nodes -> Int] /\ Linked(f, q, T[i])
    BY <1>2, Fields
  <2>2. Widens(T[i], U[i], Len(q), c) /\ IsLast(T[i], c, l) /\ (c + 1 \in U[i] <=> i <= R)
    BY <1>5, <1>6
  <2>3. x \in Nodes /\ p \in Nodes /\ p # x /\ l \in 0..N /\ T[i] \in SUBSET (0..N)
    BY <2>2, WiderFacts
  <2>4. t.forward[i] = IF i <= R THEN [f EXCEPT ![x] = f[p], ![p] = x] ELSE f
    BY <1>0 DEF InsertResult
  <2>5. t.span[i] = IF i <= R THEN [w EXCEPT ![x] = old - (c - l), ![p] = (c - l) + 1]
                    ELSE IF i <= t.level THEN [w EXCEPT ![p] = @ + 1] ELSE w
    BY <1>0 DEF InsertResult
  <2>6. old \in Int
    BY <1>2, <1>3, <2>1, <2>3
  <2>7. i <= s.level => Spanned(w, q, T[i])
    BY <1>1, <1>2, <1>3
  <2>8. i <= s.level \/ (i > s.level /\ T[i] = {0} /\ l = 0)
    BY <1>1, <1>2, <1>3 DEF Tower, Cut
  <2>9. s.length = N
    BY <1>2
  <2> HIDE DEF f, w, p, l
  <2>10. CASE i <= R
    <3>1. t.forward[i] = [f EXCEPT ![x] = f[p], ![p] = x]
      BY <2>4, <2>10
    <3>2. Linked(t.forward[i], r, U[i])
      <4>1. Linked([f EXCEPT ![x] = f[At(q, l)], ![At(q, l)] = x], r, U[i])
        BY <2>1, <2>2, <2>10, LinkInsert
      <4> QED BY <3>1, <4>1 DEF p
    <3>3. t.forward[i] \in [Nodes -> Nodes \cup {Nil}]
      BY <2>1, <2>3, <3>1
    <3>4. SpannedBut(w, q, T[i], l, old)
      <4>1. CASE i <= s.level
        <5>1. old = w[p] /\ Spanned(w, q, T[i])
          BY <2>7, <4>1
        <5> QED BY <5>1 DEF SpannedBut, Spanned, p
      <4>2. CASE ~(i <= s.level)
        <5>1. old = N /\ T[i] = {0} /\ l = 0
          BY <2>8, <2>9, <4>2
        <5>2. ASSUME NEW a \in 0..N, NEW b \in 1..(N + 1), Hop(T[i], N, a, b)
              PROVE  a = l /\ dist(N, a, b) = N
          BY <1>3, <5>1, <5>2 DEF Hop, dist
        <5> QED BY <5>1, <5>2 DEF SpannedBut
      <4> QED BY <4>1, <4>2
    <3>5. t.span[i] = [w EXCEPT ![x] = old - (c - l), ![p] = (c - l) + 1]
      BY <2>5, <2>10
    <3> HIDE DEF old
    <3>6. Spanned([w EXCEPT ![x] = old - (c - l), ![At(q, l)] = (c - l) + 1], r, U[i])
      BY <2>1, <2>2, <2>6, <2>10, <3>4, SpanInsert
    <3>7. t.span[i] \in [Nodes -> Int]
      BY <1>3, <2>1, <2>3, <2>6, <3>5
    <3> QED BY <3>2, <3>3, <3>5, <3>6, <3>7 DEF p
  <2>11. CASE ~(i <= R)
    <3>1. t.forward[i] = f
      BY <2>4, <2>11
    <3>2. Linked(t.forward[i], r, U[i])
      BY <2>1, <2>2, <2>11, <3>1, LinkWiden
    <3>3. CASE i <= t.level
      <4>1. t.span[i] = [w EXCEPT ![p] = @ + 1]
        BY <2>5, <2>11, <3>3
      <4>2. Spanned(w, q, T[i])
        BY <1>1, <1>3, <1>4, <2>7, <2>11, <3>3
      <4>3. Spanned([w EXCEPT ![At(q, l)] = @ + 1], r, U[i])
        BY <2>1, <2>2, <2>11, <4>2, SpanWiden
      <4>4. t.span[i] \in [Nodes -> Int]
        BY <2>1, <2>3, <4>1
      <4> QED BY <2>1, <3>1, <3>2, <4>1, <4>3, <4>4 DEF p
    <3>4. CASE ~(i <= t.level)
      <4>1. t.span[i] = w
        BY <2>5, <2>11, <3>4
      <4> QED BY <2>1, <3>1, <3>2, <3>4, <4>1
    <3> QED BY <3>3, <3>4
  <2> QED BY <2>10, <2>11
<1>8. \A i \in 1..t.level : i \in Levels /\ i <= t.level
  BY <1>1, <1>4
<1> QED
  BY <1>3, <1>4, <1>5, <1>7, <1>8 DEF U

\* x is at a place of its own: what is read at the other nodes does not change.
LEMMA InsertOrders ==
  ASSUME NEW s, NEW q, NEW T, ListInv(s, q, T), NEW k \in Nat, NEW sc \in Int, NEW c, NEW la,
         Cut(s, q, T, k, sc, c, la), NEW x, NEW r, Wider(q, r, c, x),
         NEW t, t.key = [s.key EXCEPT ![x] = k], t.score = [s.score EXCEPT ![x] = sc]
  PROVE  Ordered(t, r)
<1> DEFINE N == Len(q)
<1>1. N \in Nat /\ c \in 0..N /\ Len(r) = N + 1 /\ At(r, c + 1) = x
  BY DEF Wider
<1>2. /\ \A n \in Nodes : s.key[n] \in Nat /\ s.score[n] \in Int
      /\ \A j \in 1..N : q[j] \in Nodes
      /\ \A i, j \in 1..N : i < j => ~before(s, q[j], s.key[q[i]], s.score[q[i]])
  BY Entries
<1>3. s.key \in [Nodes -> Keys] /\ s.score \in [Nodes -> Scores \cup {0}] /\ q \in Seq(Elems) /\ Injective(q)
      /\ r \in Seq(Elems) /\ Injective(r)
  BY Fields DEF ListInv, Wider
<1>4. \A j \in 1..N : before(s, q[j], k, sc) <=> j <= c
  BY DEF Cut
<1>5. ASSUME NEW j \in 1..N
      PROVE  r[Up(c, j)] = q[j] /\ t.key[q[j]] = s.key[q[j]] /\ t.score[q[j]] = s.score[q[j]]
  <2>1. j \in 0..(N + 1) /\ Up(c, j) \in 1..(N + 1)
    BY <1>1 DEF Up
  <2>2. At(r, Up(c, j)) = At(q, j) /\ At(q, j) # x
    BY <2>1, AtUp
  <2>3. At(q, j) = q[j] /\ At(r, Up(c, j)) = r[Up(c, j)]
    BY <1>1, <1>3, <2>1, PlacesDiffer
  <2>4. q[j] # x /\ q[j] \in Nodes
    BY <1>2, <2>2, <2>3
  <2> QED BY <1>3, <2>2, <2>3, <2>4
<1>6. r[c + 1] = x /\ t.key[x] = k /\ t.score[x] = sc
  <2>1. c + 1 \in 1..Len(r)
    BY <1>1
  <2>2. r[c + 1] = x /\ x \in Nodes
    BY <1>1, <1>3, <2>1, PlacesDiffer, Names
  <2> QED BY <1>3, <2>2
<1> HIDE DEF N
<1>7. ASSUME NEW a \in 1..(N + 1), NEW b \in 1..(N + 1), a < b
      PROVE  ~before(t, r[b], t.key[r[a]], t.score[r[a]])
  <2>1. ASSUME NEW m \in 1..(N + 1), m # c + 1 PROVE \E j \in 1..N : m = Up(c, j)
    <3>1. CASE m <= c
      <4>1. m \in 1..N /\ m = Up(c, m)
        BY <1>1, <3>1 DEF Up
      <4> QED BY <4>1
    <3>2. CASE m > c
      <4>1. m - 1 \in 1..N /\ m = Up(c, m - 1)
        BY <1>1, <2>1, <3>2 DEF Up
      <4> QED BY <4>1
    <3> QED BY <1>1, <3>1, <3>2
  <2>2. CASE a = c + 1
    <3>1. PICK j \in 1..N : b = Up(c, j)
      BY <1>1, <1>7, <2>1, <2>2
    <3>2. ~(j <= c)
      BY <1>1, <1>7, <2>2, <3>1 DEF Up
    <3>3. ~before(s, q[j], k, sc)
      BY <1>4, <3>2 DEF N
    <3>4. r[b] = q[j] /\ t.key[q[j]] = s.key[q[j]] /\ t.score[q[j]] = s.score[q[j]]
      BY <1>5, <3>1
    <3> QED BY <1>6, <2>2, <3>3, <3>4 DEF before
  <2>3. CASE b = c + 1
    <3>1. PICK j \in 1..N : a = Up(c, j)
      BY <1>1, <1>7, <2>1, <2>3
    <3>2. j <= c
      BY <1>1, <1>7, <2>3, <3>1 DEF Up
    <3>3. before(s, q[j], k, sc)
      BY <1>4, <3>2 DEF N
    <3>4. r[a] = q[j] /\ t.key[q[j]] = s.key[q[j]] /\ t.score[q[j]] = s.score[q[j]]
      BY <1>5, <3>1
    <3>5. s.key[q[j]] \in Nat /\ s.score[q[j]] \in Int
      BY <1>2 DEF N
    <3> QED BY <1>6, <2>3, <3>3, <3>4, <3>5 DEF before
  <2>4. CASE a # c + 1 /\ b # c + 1
    <3>1. PICK i \in 1..N : a = Up(c, i)
      BY <2>1, <2>4
    <3>2. PICK j \in 1..N : b = Up(c, j)
      BY <2>1, <2>4
    <3>3. i < j
      BY <1>1, <1>7, <3>1, <3>2 DEF Up
    <3>4. ~before(s, q[j], s.key[q[i]], s.score[q[i]])
      BY <1>2, <3>3 DEF N
    <3>5. /\ r[a] = q[i] /\ t.key[q[i]] = s.key[q[i]] /\ t.score[q[i]] = s.score[q[i]]
          /\ r[b] = q[j] /\ t.key[q[j]] = s.key[q[j]] /\ t.score[q[j]] = s.score[q[j]]
      BY <1>5, <3>1, <3>2
    <3> QED BY <3>4, <3>5 DEF before
  <2> QED BY <2>2, <2>3, <2>4
<1> QED
  BY <1>1, <1>7 DEF Ordered

LEMMA InsertBackward ==
  ASSUME NEW s, NEW q, NEW T, ListInv(s, q, T), NEW c, NEW x, NEW r, Wider(q, r, c, x),
         NEW t, t.tail = IF s.forward[1][At(q, c)] = Nil THEN x ELSE s.tail,
         t.backward = [n \in Nodes |-> IF n = x THEN IF At(q, c) = Header THEN Nil ELSE At(q, c)
                                       ELSE IF n = s.forward[1][At(q, c)] THEN x
                                       ELSE s.backward[n]]
  PROVE  Backward(t, r) /\ t.tail \in Nodes \cup {Nil} /\ t.backward \in [Nodes -> Nodes \cup {Nil}]
<1> DEFINE N == Len(q)
           next == s.forward[1][At(q, c)]
<1>1. N \in Nat /\ c \in 0..N /\ Len(r) = N + 1 /\ At(r, c + 1) = x /\ Wider(q, r, c, x)
  BY DEF Wider
<1>2. q \in Seq(Elems) /\ Injective(q) /\ r \in Seq(Elems) /\ Injective(r)
  BY DEF Wider
<1>3. s \in SkipLists /\ Backward(s, q) /\ T[1] = 0..N /\ Linked(s.forward[1], q, T[1])
  BY Names DEF ListInv, Tower
<1>4. s.tail \in Nodes \cup {Nil} /\ s.backward \in [Nodes -> Nodes \cup {Nil}]
  BY <1>3, Fields
<1>5. next = At(q, c + 1)
  <2>1. Hop(0..N, N, c, c + 1) /\ c + 1 \in 1..(N + 1)
    <3>1. c + 1 \in 1..(N + 1)
      BY <1>1
    <3>2. Hop(0..N, N, c, c + 1)
      BY <1>1, LastLevelHops
    <3> QED BY <3>1, <3>2
  <2> QED BY <1>1, <1>3, <2>1 DEF Linked
<1>6. x \in Nodes /\ x # Header /\ x # Nil /\ r[c + 1] = x
  <2>1. c + 1 \in 1..Len(r)
    BY <1>1
  <2> QED BY <1>1, <1>2, <2>1, PlacesDiffer, Names
<1>7. /\ At(q, 0) = Header /\ At(q, N + 1) = Nil
      /\ \A j \in 1..N : At(q, j) = q[j] /\ q[j] \in Elems /\ q[j] \in Nodes /\ q[j] # Header /\ q[j] # Nil
      /\ \A j \in 0..N : At(q, j) \in Nodes /\ At(q, j) # Nil
      /\ \A i, j \in 0..(N + 1) : At(q, i) = At(q, j) => i = j
  BY <1>2, PlacesDiffer, Names
<1>8. ASSUME NEW j \in 1..N PROVE r[Up(c, j)] = q[j] /\ q[j] # x /\ Up(c, j) \in 1..(N + 1)
  <2>1. j \in 0..(N + 1) /\ Up(c, j) \in 1..(N + 1)
    BY <1>1 DEF Up
  <2>2. At(r, Up(c, j)) = At(q, j) /\ At(q, j) # x
    BY <1>1, <2>1, AtUp
  <2>3. At(q, j) = q[j] /\ At(r, Up(c, j)) = r[Up(c, j)]
    BY <1>1, <1>2, <2>1, PlacesDiffer
  <2> QED BY <2>1, <2>2, <2>3
<1>9. /\ s.tail = IF N = 0 THEN Nil ELSE q[N]
      /\ \A j \in 1..N : s.backward[q[j]] = IF j = 1 THEN Nil ELSE q[j - 1]
  BY <1>3 DEF Backward
<1>10. /\ t.tail = IF next = Nil THEN x ELSE s.tail
       /\ \A n \in Nodes : t.backward[n] = IF n = x THEN IF At(q, c) = Header THEN Nil ELSE At(q, c)
                                           ELSE IF n = next THEN x ELSE s.backward[n]
  OBVIOUS
<1>11. t.tail \in Nodes \cup {Nil}
  BY <1>4, <1>6, <1>10
<1>12. t.backward \in [Nodes -> Nodes \cup {Nil}]
  <2>1. At(q, c) \in Nodes
    BY <1>1, <1>7
  <2>2. \A n \in Nodes : s.backward[n] \in Nodes \cup {Nil}
    BY <1>4
  <2>3. \A n \in Nodes : (IF n = x THEN IF At(q, c) = Header THEN Nil ELSE At(q, c)
                          ELSE IF n = s.forward[1][At(q, c)] THEN x ELSE s.backward[n]) \in Nodes \cup {Nil}
    BY <1>6, <2>1, <2>2
  <2> QED BY <2>3
<1> HIDE DEF N, next
<1>13. t.tail = r[N + 1]
  <2>1. CASE c = N
    BY <1>5, <1>6, <1>7, <1>10, <2>1
  <2>2. CASE c # N
    <3>1. N \in 1..N /\ N # 0 /\ c + 1 \in 0..(N + 1) /\ N + 1 \in 0..(N + 1) /\ c + 1 # N + 1
      BY <1>1, <2>2
    <3>2. next # Nil
      BY <1>5, <1>7, <3>1
    <3>3. Up(c, N) = N + 1
      BY <1>1, <2>2 DEF Up
    <3> QED BY <1>8, <1>9, <1>10, <3>1, <3>2, <3>3
  <2> QED BY <2>1, <2>2
<1>14. ASSUME NEW a \in 1..(N + 1) PROVE t.backward[r[a]] = IF a = 1 THEN Nil ELSE r[a - 1]
  <2>1. CASE a = c + 1
    <3>1. t.backward[x] = IF At(q, c) = Header THEN Nil ELSE At(q, c)
      BY <1>6, <1>10
    <3>2. CASE c = 0
      BY <1>6, <1>7, <2>1, <3>1, <3>2
    <3>3. CASE c # 0
      <4>1. c \in 1..N /\ Up(c, c) = c /\ a - 1 = c /\ a # 1
        BY <1>1, <2>1, <3>3 DEF Up
      <4>2. r[c] = q[c] /\ At(q, c) = q[c] /\ q[c] # Header
        BY <1>7, <1>8, <4>1
      <4> QED BY <1>6, <2>1, <3>1, <4>1, <4>2
    <3> QED BY <3>2, <3>3
  <2>2. CASE a = c + 2
    <3>1. c + 1 \in 1..N /\ Up(c, c + 1) = a /\ a - 1 = c + 1 /\ a # 1
      BY <1>1, <2>2 DEF Up
    <3>2. r[a] = q[c + 1] /\ q[c + 1] # x /\ next = q[c + 1] /\ q[c + 1] \in Nodes
      BY <1>5, <1>7, <1>8, <3>1
    <3>3. t.backward[r[a]] = x
      BY <1>10, <3>2
    <3> QED BY <1>6, <3>1, <3>3
  <2>3. CASE a # c + 1 /\ a # c + 2
    <3> DEFINE j == IF a <= c THEN a ELSE a - 1
    <3>1. j \in 1..N /\ Up(c, j) = a /\ j # c + 1
      BY <1>1, <2>3 DEF Up
    <3> HIDE DEF j
    <3>2. r[a] = q[j] /\ q[j] # x /\ q[j] \in Nodes /\ At(q, j) = q[j]
      BY <1>7, <1>8, <3>1
    <3>3. q[j] # next
      <4>1. j \in 0..(N + 1) /\ c + 1 \in 0..(N + 1)
        BY <1>1, <3>1
      <4> QED BY <1>5, <1>7, <3>1, <3>2, <4>1
    <3>4. t.backward[r[a]] = s.backward[q[j]]
      BY <1>10, <3>2, <3>3
    <3>5. s.backward[q[j]] = IF j = 1 THEN Nil ELSE q[j - 1]
      BY <1>9, <3>1
    <3>6. CASE j = 1
      <4>1. a = 1
        BY <1>1, <2>3, <3>1, <3>6 DEF Up
      <4> QED BY <3>4, <3>5, <3>6, <4>1
    <3>7. CASE j # 1
      <4>1. j - 1 \in 1..N /\ Up(c, j - 1) = a - 1 /\ a # 1
        BY <1>1, <2>3, <3>1, <3>7 DEF Up
      <4>2. r[a - 1] = q[j - 1]
        BY <1>8, <4>1
      <4> QED BY <3>4, <3>5, <3>7, <4>1, <4>2
    <3> QED BY <3>6, <3>7
  <2> QED BY <2>1, <2>2, <2>3
<1>15. Backward(t, r)
  <2>1. Len(r) # 0 /\ Len(r) = N + 1
    BY <1>1
  <2> QED BY <1>13, <1>14, <2>1 DEF Backward
<1> QED
  BY <1>11, <1>12, <1>15

\* insert put x behind place c, that of the last entry before (k, sc).
PutIn(s, q, T, k, sc, x, R, t, c) ==
  /\ \A j \in 1..Len(q) : before(s, q[j], k, sc) <=> j <= c
  /\ ListInv(t, InsertAt(q, c + 1, x), Raised(T, c, R))
  /\ Wider(q, InsertAt(q, c + 1, x), c, x)
  /\ t.key = [s.key EXCEPT ![x] = k] /\ t.score = [s.score EXCEPT ![x] = sc]

\* insert keeps the list: x is put behind the entries that are before (k, sc).
LEMMA InsertKeeps ==
  ASSUME NEW s, NEW q, NEW T, ListInv(s, q, T), NEW k \in Keys, NEW sc \in Scores,
         NEW x \in Elems, \A j \in 1..Len(q) : q[j] # x, NEW R \in Levels,
         NEW t, t = inserted(s, x, k, sc, R)
  PROVE  \E c \in 0..Len(q) : PutIn(s, q, T, k, sc, x, R, t, c)
<1>1. k \in Nat /\ sc \in Int
  BY SkipListConstants
<1>2. PICK c, la : Cut(s, q, T, k, sc, c, la)
  BY <1>1, CutExists
<1>3. c \in 0..Len(q) /\ \A j \in 1..Len(q) : before(s, q[j], k, sc) <=> j <= c
  BY <1>2 DEF Cut
<1>4. PICK r : r = InsertAt(q, c + 1, x)
  OBVIOUS
<1>5. q \in Seq(Elems) /\ Injective(q) /\ s \in SkipLists /\ s.length = Len(q) /\ s.key[Header] = 0
  BY DEF ListInv
<1>6. Wider(q, r, c, x)
  BY <1>3, <1>4, <1>5, InsertWidens
<1>7. InsertResult(s, q, k, sc, c, la, x, R, t)
  BY <1>2, InsertWrites
<1>8. /\ t.length = s.length + 1
      /\ t.tail = IF s.forward[1][At(q, c)] = Nil THEN x ELSE s.tail
      /\ t.key = [s.key EXCEPT ![x] = k] /\ t.score = [s.score EXCEPT ![x] = sc]
      /\ t.backward = [n \in Nodes |-> IF n = x THEN IF At(q, c) = Header THEN Nil ELSE At(q, c)
                                       ELSE IF n = s.forward[1][At(q, c)] THEN x
                                       ELSE s.backward[n]]
      /\ t.forward = [i \in Levels |-> t.forward[i]] /\ t.span = [i \in Levels |-> t.span[i]]
      /\ t = [level |-> t.level, length |-> t.length, tail |-> t.tail, key |-> t.key,
              score |-> t.score, backward |-> t.backward, forward |-> t.forward, span |-> t.span]
  BY <1>7 DEF InsertResult
<1> DEFINE U == Raised(T, c, R)
<1>9. /\ Tower(U, Len(r), t.level) /\ t.level \in Levels
      /\ \A i \in Levels : /\ Linked(t.forward[i], r, U[i])
                           /\ t.forward[i] \in [Nodes -> Nodes \cup {Nil}]
                           /\ t.span[i] \in [Nodes -> Int]
      /\ \A i \in 1..t.level : Spanned(t.span[i], r, U[i])
  BY <1>2, <1>6, InsertLevels
<1>10. Ordered(t, r)
  <2>1. t.key = [s.key EXCEPT ![x] = k] /\ t.score = [s.score EXCEPT ![x] = sc]
    BY <1>8
  <2> QED BY <1>1, <1>2, <1>6, <2>1, InsertOrders
<1>11. Backward(t, r) /\ t.tail \in Nodes \cup {Nil} /\ t.backward \in [Nodes -> Nodes \cup {Nil}]
  BY <1>6, <1>8, InsertBackward
<1>12. /\ t.key \in [Nodes -> Keys] /\ t.score \in [Nodes -> Scores \cup {0}]
       /\ t.key[Header] = 0
  <2>1. s.key \in [Nodes -> Keys] /\ s.score \in [Nodes -> Scores \cup {0}] /\ x # Header /\ x \in Nodes
        /\ Header \in Nodes
    BY <1>5, Fields, Names
  <2> QED BY <1>5, <1>8, <2>1
<1>13. Len(r) = Len(q) + 1 /\ t.length = Len(r) /\ t.length \in Int /\ r \in Seq(Elems) /\ Injective(r)
  BY <1>5, <1>6, <1>8 DEF Wider
<1> HIDE DEF U
<1>14. t \in SkipLists
  <2>1. t.forward = [i \in Levels |-> t.forward[i]] /\ t.span = [i \in Levels |-> t.span[i]]
    BY <1>8
  <2>2. t = [level |-> t.level, length |-> t.length, tail |-> t.tail, key |-> t.key,
             score |-> t.score, backward |-> t.backward, forward |-> t.forward, span |-> t.span]
    BY <1>8
  <2>3. \A i \in Levels : t.forward[i] \in [Nodes -> Nodes \cup {Nil}] /\ t.span[i] \in [Nodes -> Int]
    BY <1>9
  <2> QED BY <1>9, <1>11, <1>12, <1>13, <2>1, <2>2, <2>3, IsSkipList
<1>15. ListInv(t, r, U)
  BY <1>9, <1>10, <1>11, <1>12, <1>13, <1>14 DEF ListInv
<1> QED
  BY <1>3, <1>4, <1>6, <1>8, <1>15 DEF U, PutIn
-----------------------------------------------------------------------------
(***************************************************************************)
(* Del.                                                                    *)
(***************************************************************************)
\* What Del writes when it finds its entry, in terms of places.
DeleteResult(s, q, la, x, t) ==
  /\ t.level = topLevel(s, t.forward) /\ t.length = s.length - 1
  /\ t.tail = IF s.forward[1][x] = Nil THEN s.backward[x] ELSE s.tail
  /\ t.key = [s.key EXCEPT ![x] = 0] /\ t.score = [s.score EXCEPT ![x] = 0]
  /\ t.backward = [n \in Nodes |-> IF n = x THEN Nil
                                   ELSE IF n = s.forward[1][x] THEN s.backward[x]
                                   ELSE s.backward[n]]
  /\ \A i \in Levels :
       t.forward[i] = IF i <= s.level /\ s.forward[i][At(q, la[i])] = x
                      THEN [s.forward[i] EXCEPT ![At(q, la[i])] = s.forward[i][x], ![x] = Nil]
                      ELSE s.forward[i]
  /\ \A i \in Levels :
       t.span[i] = IF i <= s.level
                   THEN [s.span[i] EXCEPT ![At(q, la[i])] =
                           @ - 1 + (IF s.forward[i][At(q, la[i])] = x THEN s.span[i][x] ELSE 0), ![x] = 0]
                   ELSE s.span[i]
  /\ t.forward = [i \in Levels |-> t.forward[i]] /\ t.span = [i \in Levels |-> t.span[i]]
  /\ t = [level |-> t.level, length |-> t.length, tail |-> t.tail, key |-> t.key,
          score |-> t.score, backward |-> t.backward, forward |-> t.forward, span |-> t.span]

LEMMA DeleteWrites ==
  ASSUME NEW s, NEW q, NEW T, ListInv(s, q, T), NEW k, NEW sc, NEW c, NEW la,
         Cut(s, q, T, k, sc, c, la), NEW t, t = deleted(s, k, sc)
  PROVE  IF c # Len(q) /\ entry(s, q[c + 1]) = [key |-> k, score |-> sc]
         THEN DeleteResult(s, q, la, q[c + 1], t)
         ELSE t = s
<1> DEFINE d == descend(s, [n \in Elems |-> [r \in Int |-> before(s, n, k, sc)]])
           upd == [i \in 1..s.level |-> d[i].node]
           x == s.forward[1][upd[1]]
<1>1. t = IF x # Nil /\ entry(s, x) = [key |-> k, score |-> sc] THEN unlinked(s, x, upd) ELSE s
  BY DEF deleted
<1>2. s.level \in Levels /\ Levels = 1..MaxLevel /\ MaxLevel \in Nat /\ 1 \in 1..s.level
  BY Names DEF ListInv, SkipLists
<1>3. /\ \A i \in 1..s.level : d[i] = [node |-> At(q, la[i]), rank |-> la[i]]
      /\ la[1] = c /\ c \in 0..Len(q)
  BY DEF Cut, precedes
<1> HIDE DEF d
<1>4. \A i \in 1..s.level : upd[i] = At(q, la[i])
  <2>1. ASSUME NEW i \in 1..s.level PROVE d[i].node = At(q, la[i])
    <3>1. d[i] = [node |-> At(q, la[i]), rank |-> la[i]]
      BY <1>3
    <3> QED BY <3>1
  <2> QED BY <2>1
<1>5. Len(q) \in Nat /\ q \in Seq(Elems) /\ Injective(q) /\ T[1] = 0..Len(q) /\ Linked(s.forward[1], q, T[1])
  BY Names DEF ListInv, Tower
<1>6. x = At(q, c + 1)
  <2>1. upd[1] = At(q, c)
    BY <1>2, <1>3, <1>4
  <2>2. Hop(0..Len(q), Len(q), c, c + 1) /\ c + 1 \in 1..(Len(q) + 1)
    BY <1>3, <1>5, LastLevelHops
  <2> QED BY <1>3, <1>5, <2>1, <2>2 DEF Linked
<1>7. IF c = Len(q) THEN x = Nil ELSE x = q[c + 1] /\ x # Nil
  <2>1. c # Len(q) => c + 1 \in 1..Len(q)
    BY <1>3, <1>5
  <2> QED BY <1>3, <1>5, <1>6, <2>1, PlacesDiffer
<1> HIDE DEF x
<1>8. ASSUME x # Nil, entry(s, x) = [key |-> k, score |-> sc] PROVE DeleteResult(s, q, la, x, t)
  <2> DEFINE fw == [i \in Levels |-> IF i <= s.level /\ s.forward[i][upd[i]] = x
                      THEN [s.forward[i] EXCEPT ![upd[i]] = s.forward[i][x], ![x] = Nil]
                      ELSE s.forward[i]]
             sp == [i \in Levels |-> IF i <= s.level THEN spanWithout(s, i, x, upd[i]) ELSE s.span[i]]
             bw == [n \in Nodes |-> IF n = x THEN Nil ELSE IF n = s.forward[1][x] THEN s.backward[x]
                                    ELSE s.backward[n]]
  <2>1. t = [level |-> topLevel(s, fw), length |-> s.length - 1, tail |-> tailWithout(s, x),
             key |-> [s.key EXCEPT ![x] = 0], score |-> [s.score EXCEPT ![x] = 0],
             backward |-> bw, forward |-> fw, span |-> sp]
    BY <1>1, <1>8 DEF unlinked
  <2> HIDE DEF upd
  <2>2. /\ t.level = topLevel(s, fw) /\ t.length = s.length - 1 /\ t.tail = tailWithout(s, x)
        /\ t.key = [s.key EXCEPT ![x] = 0] /\ t.score = [s.score EXCEPT ![x] = 0]
        /\ t.backward = bw /\ t.forward = fw /\ t.span = sp
    <3> HIDE DEF fw, sp, bw
    <3> QED BY <2>1
  <2>3. ASSUME NEW i \in Levels, i <= s.level PROVE upd[i] = At(q, la[i])
    <3>1. i \in 1..s.level
      BY <1>2, <2>3
    <3> QED BY <1>4, <3>1
  <2>4. \A i \in Levels :
          fw[i] = IF i <= s.level /\ s.forward[i][At(q, la[i])] = x
                  THEN [s.forward[i] EXCEPT ![At(q, la[i])] = s.forward[i][x], ![x] = Nil]
                  ELSE s.forward[i]
    BY <2>3
  <2>5. \A i \in Levels :
          sp[i] = IF i <= s.level
                  THEN [s.span[i] EXCEPT ![At(q, la[i])] =
                           @ - 1 + (IF s.forward[i][At(q, la[i])] = x THEN s.span[i][x] ELSE 0), ![x] = 0]
                  ELSE s.span[i]
    BY <2>3 DEF spanWithout
  <2>6. fw = [i \in Levels |-> fw[i]] /\ sp = [i \in Levels |-> sp[i]]
    OBVIOUS
  <2>7. tailWithout(s, x) = IF s.forward[1][x] = Nil THEN s.backward[x] ELSE s.tail
    BY DEF tailWithout
  <2>8. bw = [n \in Nodes |-> IF n = x THEN Nil ELSE IF n = s.forward[1][x] THEN s.backward[x]
                              ELSE s.backward[n]]
    OBVIOUS
  <2> HIDE DEF fw, sp, bw
  <2>9. t = [level |-> t.level, length |-> t.length, tail |-> t.tail, key |-> t.key,
             score |-> t.score, backward |-> t.backward, forward |-> t.forward, span |-> t.span]
    BY <2>1, <2>2
  <2> QED BY <2>2, <2>4, <2>5, <2>6, <2>7, <2>8, <2>9 DEF DeleteResult
<1>9. CASE c # Len(q) /\ entry(s, q[c + 1]) = [key |-> k, score |-> sc]
  BY <1>7, <1>8, <1>9
<1>10. CASE ~(c # Len(q) /\ entry(s, q[c + 1]) = [key |-> k, score |-> sc])
  BY <1>1, <1>7, <1>10
<1> QED
  BY <1>9, <1>10

\* The places of the levels when the node behind place c is gone; N are left.
Lowered(U, N, c) == [i \in Levels |-> {n \in 0..N : Up(c, n) \in U[i]}]

LoweredFits(T, U, N, c) ==
  /\ T \in [Levels -> SUBSET (0..N)] /\ T[1] = 0..N
  /\ \A i \in Levels : /\ 0 \in T[i] /\ (i + 1 \in Levels => T[i + 1] \subseteq T[i])
                       /\ Widens(T[i], U[i], N, c)
                       /\ \A l : IsLast(U[i], c, l) => IsLast(T[i], c, l)
                       /\ U[i] = {0} => T[i] = {0}

LEMMA LoweredWidens ==
  ASSUME NEW N \in Nat, NEW c \in 0..N, NEW U, NEW level \in Levels, Tower(U, N + 1, level),
         NEW T, T = Lowered(U, N, c)
  PROVE  LoweredFits(T, U, N, c)
<1>1. Levels = 1..MaxLevel /\ MaxLevel \in Nat /\ 1 \in Levels
  BY Names
<1>2. /\ \A i \in Levels : U[i] \in SUBSET (0..(N + 1)) /\ 0 \in U[i] /\ (i + 1 \in Levels => U[i + 1] \subseteq U[i])
      /\ U[1] = 0..(N + 1)
  BY <1>1 DEF Tower
<1>3. \A t \in 0..N : Up(c, t) \in 0..(N + 1) /\ (Up(c, t) = 0 => t = 0) /\ (t <= c => Up(c, t) = t)
  BY DEF Up
<1>4. Up(c, 0) = 0
  BY DEF Up
<1>5. \A i \in Levels : T[i] = {n \in 0..N : Up(c, n) \in U[i]}
  BY DEF Lowered
<1>6. T = [i \in Levels |-> T[i]]
  BY DEF Lowered
<1>7. \A i \in Levels : \A n : n \in T[i] <=> n \in 0..N /\ Up(c, n) \in U[i]
  BY <1>5
<1>8. T \in [Levels -> SUBSET (0..N)]
  <2>1. \A i \in Levels : T[i] \in SUBSET (0..N)
    BY <1>7
  <2> QED BY <1>6, <2>1
<1>9. T[1] = 0..N
  BY <1>1, <1>2, <1>3, <1>7
<1>10. ASSUME NEW i \in Levels
       PROVE  /\ 0 \in T[i] /\ (i + 1 \in Levels => T[i + 1] \subseteq T[i])
              /\ Widens(T[i], U[i], N, c)
              /\ U[i] = {0} => T[i] = {0}
  <2>1. 0 \in T[i]
    BY <1>2, <1>4, <1>7
  <2>2. i + 1 \in Levels => T[i + 1] \subseteq T[i]
    BY <1>2, <1>7
  <2>3. Widens(T[i], U[i], N, c)
    BY <1>2, <1>7, <2>1 DEF Widens
  <2>4. U[i] = {0} => T[i] = {0}
    BY <1>3, <1>7, <2>1
  <2> QED BY <2>1, <2>2, <2>3, <2>4
<1>11. ASSUME NEW i \in Levels, NEW l, IsLast(U[i], c, l) PROVE IsLast(T[i], c, l)
  <2>1. l \in U[i] /\ l <= c /\ l \in 0..N /\ \A t \in U[i] : ~(l < t /\ t <= c)
    BY <1>2, <1>11 DEF IsLast
  <2>2. l \in T[i]
    BY <1>3, <1>7, <2>1
  <2>3. ASSUME NEW t \in T[i], l < t, t <= c PROVE FALSE
    <3>1. t \in 0..N /\ Up(c, t) = t /\ t \in U[i]
      BY <1>3, <1>7, <2>3
    <3> QED BY <2>1, <2>3, <3>1
  <2> QED BY <2>1, <2>2, <2>3 DEF IsLast
<1> QED
  BY <1>8, <1>9, <1>10, <1>11 DEF LoweredFits

\* The levels after a Del.
LEMMA DeleteLevels ==
  ASSUME NEW s, NEW r, NEW U, ListInv(s, r, U), NEW k, NEW sc, NEW c, NEW la,
         Cut(s, r, U, k, sc, c, la), NEW x, NEW t, DeleteResult(s, r, la, x, t),
         NEW q, Wider(q, r, c, x), NEW T, T = Lowered(U, Len(q), c)
  PROVE  /\ Tower(T, Len(q), t.level) /\ t.level \in Levels
         /\ \A i \in Levels : /\ Linked(t.forward[i], q, T[i])
                              /\ t.forward[i] \in [Nodes -> Nodes \cup {Nil}]
                              /\ t.span[i] \in [Nodes -> Int]
         /\ \A i \in 1..t.level : Spanned(t.span[i], q, T[i])
<1> DEFINE N == Len(q)
<1>1. Levels = 1..MaxLevel /\ MaxLevel \in Nat /\ 1 \in Levels /\ \A i \in Levels : i \in Nat /\ 1 <= i
  BY Names
<1>2. /\ s \in SkipLists /\ Tower(U, Len(r), s.level) /\ s.level \in Levels
      /\ \A i \in Levels : Linked(s.forward[i], r, U[i])
      /\ \A i \in 1..s.level : Spanned(s.span[i], r, U[i])
  BY Fields DEF ListInv
<1>3. c \in 0..N /\ N \in Nat /\ Len(r) = N + 1 /\ q \in Seq(Elems) /\ Injective(q)
  BY DEF Wider
<1>4. /\ T \in [Levels -> SUBSET (0..N)] /\ T[1] = 0..N
      /\ \A i \in Levels : /\ 0 \in T[i] /\ (i + 1 \in Levels => T[i + 1] \subseteq T[i])
                           /\ Widens(T[i], U[i], N, c)
                           /\ \A l : IsLast(U[i], c, l) => IsLast(T[i], c, l)
                           /\ U[i] = {0} => T[i] = {0}
  <2>1. Tower(U, N + 1, s.level) /\ T = Lowered(U, N, c)
    BY <1>2, <1>3
  <2>2. LoweredFits(T, U, N, c)
    BY <1>2, <1>3, <2>1, LoweredWidens
  <2> QED BY <2>2 DEF LoweredFits
<1>5. \A i \in Levels : IsLast(T[i], c, la[i])
  BY <1>4 DEF Cut
<1>6. \A i \in Levels : i > s.level => U[i] = {0} /\ T[i] = {0}
  BY <1>2, <1>4 DEF Tower
<1>7. ASSUME NEW i \in Levels
      PROVE  /\ Linked(t.forward[i], q, T[i])
             /\ t.forward[i] \in [Nodes -> Nodes \cup {Nil}]
             /\ t.span[i] \in [Nodes -> Int]
             /\ i <= s.level => Spanned(t.span[i], q, T[i])
  <2> DEFINE g == s.forward[i]
             w == s.span[i]
             l == la[i]
             p == At(q, l)
             more == IF g[p] = x THEN w[x] ELSE 0
  <2>1. g \in [Nodes -> Nodes \cup {Nil}] /\ w \in [Nodes -> Int] /\ Linked(g, r, U[i])
    BY <1>2, Fields
  <2>2. Widens(T[i], U[i], Len(q), c) /\ IsLast(T[i], c, l)
    BY <1>4, <1>5
  <2>3. x \in Nodes /\ p \in Nodes /\ p # x /\ At(r, l) = p
    BY <2>2, WiderFacts
  <2>4. g[p] = x <=> c + 1 \in U[i]
    BY <2>1, <2>2, NextIsNew
  <2>5. t.forward[i] = IF i <= s.level /\ g[p] = x THEN [g EXCEPT ![p] = g[x], ![x] = Nil] ELSE g
    BY <2>3 DEF DeleteResult
  <2>6. t.span[i] = IF i <= s.level THEN [w EXCEPT ![p] = @ - 1 + more, ![x] = 0] ELSE w
    BY <2>3 DEF DeleteResult
  <2>7. more \in Int /\ more = IF c + 1 \in U[i] THEN w[x] ELSE 0
    BY <2>1, <2>3, <2>4
  <2>8. i > s.level => c + 1 \notin U[i]
    BY <1>3, <1>6
  <2>9. i <= s.level \/ i > s.level
    BY <1>1, <1>2
  <2>10. i <= s.level => Spanned(w, r, U[i])
    BY <1>1, <1>2
  <2> HIDE DEF g, w, l, p, more
  <2>11. Linked(t.forward[i], q, T[i]) /\ t.forward[i] \in [Nodes -> Nodes \cup {Nil}]
    <3>1. CASE i <= s.level /\ g[p] = x
      <4>1. t.forward[i] = [g EXCEPT ![p] = g[x], ![x] = Nil]
        BY <2>5, <3>1
      <4>2. c + 1 \in U[i]
        BY <2>4, <3>1
      <4>3. Linked([g EXCEPT ![At(q, l)] = g[x], ![x] = Nil], q, T[i])
        BY <2>1, <2>2, <4>2, LinkRemove
      <4> QED BY <2>1, <2>3, <4>1, <4>3 DEF p
    <3>2. CASE ~(i <= s.level /\ g[p] = x)
      <4>1. t.forward[i] = g /\ c + 1 \notin U[i]
        BY <2>4, <2>5, <2>8, <2>9, <3>2
      <4> QED BY <2>1, <2>2, <4>1, LinkNarrow
    <3> QED BY <3>1, <3>2
  <2>12. t.span[i] \in [Nodes -> Int]
    BY <2>1, <2>3, <2>6, <2>7
  <2>13. ASSUME i <= s.level PROVE Spanned(t.span[i], q, T[i])
    <3>1. t.span[i] = [w EXCEPT ![p] = @ - 1 + more, ![x] = 0]
      BY <2>6, <2>13
    <3>2. Spanned([w EXCEPT ![At(q, l)] = @ - 1 + more, ![x] = 0], q, T[i])
      BY <2>1, <2>2, <2>7, <2>10, <2>13, SpanRemove
    <3> QED BY <3>1, <3>2 DEF p
  <2> QED BY <2>11, <2>12, <2>13
<1> DEFINE J == {1} \cup {i \in 1..s.level : t.forward[i][Header] # Nil}
<1>8. t.level \in Levels /\ t.level <= s.level /\ \A i \in J : i <= t.level
  <2>1. t.level = Max(J)
    BY DEF DeleteResult, topLevel
  <2>2. J \in SUBSET (0..s.level) /\ J # {} /\ s.level \in Nat
    BY <1>1, <1>2
  <2> HIDE DEF J
  <2>3. Max(J) \in J /\ \A i \in J : i <= Max(J)
    BY <2>2, MaxIs
  <2>4. J \subseteq Levels
    BY <1>1, <1>2 DEF J
  <2>5. t.level \in J /\ \A i \in J : i <= t.level
    BY <2>1, <2>3
  <2>6. t.level \in 0..s.level
    BY <2>2, <2>5
  <2> QED BY <2>2, <2>4, <2>5, <2>6
<1>9. ASSUME NEW i \in Levels, i > t.level PROVE T[i] = {0}
  <2>1. CASE i > s.level
    BY <1>6, <2>1
  <2>2. CASE ~(i > s.level)
    <3>1. i \in 1..s.level /\ i \notin J
      BY <1>1, <1>2, <1>8, <1>9, <2>2
    <3>2. t.forward[i][Header] = Nil
      BY <3>1
    <3>3. T[i] \in SUBSET (0..N) /\ 0 \in T[i]
      BY <1>4
    <3>4. PICK b \in 1..(N + 1) : Hop(T[i], N, 0, b)
      BY <1>3, <3>3, HopExists
    <3>5. t.forward[i][At(q, 0)] = At(q, b)
      <4>1. Linked(t.forward[i], q, T[i]) /\ 0 \in 0..Len(q)
        BY <1>3, <1>7
      <4> QED BY <3>4, <4>1 DEF Linked
    <3>6. At(q, b) = Nil
      BY <1>3, <3>2, <3>5, PlacesDiffer
    <3>7. b = N + 1
      <4>1. b \in 0..N => At(q, b) # Nil
        BY <1>3, PlacesDiffer
      <4> QED BY <1>3, <3>6, <4>1
    <3>8. \A v \in T[i] : v = 0
      BY <1>3, <3>3, <3>4, <3>7 DEF Hop
    <3> QED BY <3>3, <3>8
  <2> QED BY <2>1, <2>2
<1>10. Tower(T, N, t.level)
  BY <1>4, <1>9 DEF Tower
<1>11. \A i \in 1..t.level : i \in Levels /\ i <= s.level
  BY <1>1, <1>2, <1>8
<1> QED
  BY <1>7, <1>8, <1>10, <1>11

Cleared(s, t, x) == t.key = [s.key EXCEPT ![x] = 0] /\ t.score = [s.score EXCEPT ![x] = 0]

\* The nodes that stay keep their entries.
LEMMA DeleteLeaves ==
  ASSUME NEW s, NEW r, NEW U, ListInv(s, r, U), NEW c, NEW x, NEW q, Wider(q, r, c, x),
         NEW t, Cleared(s, t, x),
         NEW j \in 1..Len(q)
  PROVE  /\ Up(c, j) \in 1..Len(r) /\ r[Up(c, j)] = q[j] /\ q[j] # x /\ q[j] \in Elems
         /\ t.key[q[j]] = s.key[q[j]] /\ t.score[q[j]] = s.score[q[j]]
<1>1. Len(q) \in Nat /\ c \in 0..Len(q) /\ Len(r) = Len(q) + 1 /\ At(r, c + 1) = x
  BY DEF Wider
<1>2. s.key \in [Nodes -> Keys] /\ s.score \in [Nodes -> Scores \cup {0}] /\ q \in Seq(Elems) /\ Injective(q)
      /\ r \in Seq(Elems) /\ Injective(r)
  BY Fields DEF ListInv, Wider
<1>3. j \in 0..(Len(q) + 1) /\ Up(c, j) \in 1..Len(r)
  BY <1>1 DEF Up
<1>4. At(r, Up(c, j)) = At(q, j) /\ At(q, j) # x
  BY <1>3, AtUp
<1>5. At(q, j) = q[j] /\ At(r, Up(c, j)) = r[Up(c, j)]
  BY <1>1, <1>2, <1>3, PlacesDiffer
<1>6. q[j] # x /\ q[j] \in Nodes /\ q[j] \in Elems
  BY <1>2, <1>4, <1>5, Names
<1>7. t.key[q[j]] = s.key[q[j]] /\ t.score[q[j]] = s.score[q[j]]
  BY <1>2, <1>6 DEF Cleared
<1>8. r[Up(c, j)] = q[j]
  BY <1>4, <1>5
<1> QED
  BY <1>3, <1>6, <1>7, <1>8

LEMMA DeleteOrders ==
  ASSUME NEW s, NEW r, NEW U, ListInv(s, r, U), NEW c, NEW x, NEW q, Wider(q, r, c, x),
         NEW t, Cleared(s, t, x)
  PROVE  Ordered(t, q)
<1>1. Len(q) \in Nat /\ c \in 0..Len(q) /\ Len(r) = Len(q) + 1
  BY DEF Wider
<1>2. \A i, j \in 1..Len(r) : i < j => ~before(s, r[j], s.key[r[i]], s.score[r[i]])
  BY Entries
<1>3. ASSUME NEW j \in 1..Len(q)
      PROVE  /\ Up(c, j) \in 1..Len(r) /\ r[Up(c, j)] = q[j]
             /\ t.key[q[j]] = s.key[q[j]] /\ t.score[q[j]] = s.score[q[j]]
  BY DeleteLeaves
<1>4. ASSUME NEW a \in 1..Len(q), NEW b \in 1..Len(q), a < b
      PROVE  ~before(t, q[b], t.key[q[a]], t.score[q[a]])
  <2>1. Up(c, a) < Up(c, b) /\ Up(c, a) \in 1..Len(r) /\ Up(c, b) \in 1..Len(r)
    BY <1>1, <1>4 DEF Up
  <2>2. ~before(s, q[b], s.key[q[a]], s.score[q[a]])
    <3>1. ~before(s, r[Up(c, b)], s.key[r[Up(c, a)]], s.score[r[Up(c, a)]])
      BY <1>2, <2>1
    <3> QED BY <1>3, <3>1
  <2> QED BY <1>3, <2>2 DEF before
<1> QED
  BY <1>4 DEF Ordered

LEMMA DeleteBackward ==
  ASSUME NEW s, NEW r, NEW U, ListInv(s, r, U), NEW c, NEW x, NEW q, Wider(q, r, c, x),
         NEW t, t.tail = IF s.forward[1][x] = Nil THEN s.backward[x] ELSE s.tail,
         t.backward = [n \in Nodes |-> IF n = x THEN Nil
                                       ELSE IF n = s.forward[1][x] THEN s.backward[x]
                                       ELSE s.backward[n]]
  PROVE  Backward(t, q) /\ t.tail \in Nodes \cup {Nil} /\ t.backward \in [Nodes -> Nodes \cup {Nil}]
<1> DEFINE N == Len(q)
           next == s.forward[1][x]
<1>1. N \in Nat /\ c \in 0..N /\ Len(r) = N + 1 /\ At(r, c + 1) = x /\ Wider(q, r, c, x)
  BY DEF Wider
<1>2. q \in Seq(Elems) /\ Injective(q) /\ r \in Seq(Elems) /\ Injective(r)
  BY DEF Wider
<1>3. s \in SkipLists /\ Backward(s, r) /\ U[1] = 0..(N + 1) /\ Linked(s.forward[1], r, U[1])
  BY <1>1, Names DEF ListInv, Tower
<1>4. s.tail \in Nodes \cup {Nil} /\ s.backward \in [Nodes -> Nodes \cup {Nil}]
  BY <1>3, Fields
<1>5. next = At(r, c + 2)
  <2>1. Hop(0..(N + 1), N + 1, c + 1, (c + 1) + 1)
    BY <1>1, LastLevelHops
  <2>2. c + 1 \in 0..Len(r) /\ c + 2 \in 1..(Len(r) + 1) /\ (c + 1) + 1 = c + 2
    BY <1>1
  <2>3. Hop(U[1], Len(r), c + 1, c + 2)
    BY <1>1, <1>3, <2>1, <2>2
  <2>4. s.forward[1][At(r, c + 1)] = At(r, c + 2)
    BY <1>3, <2>2, <2>3 DEF Linked
  <2> QED BY <1>1, <2>4
<1>6. x \in Nodes /\ x # Header /\ x # Nil /\ r[c + 1] = x
  <2>1. c + 1 \in 1..Len(r)
    BY <1>1
  <2> QED BY <1>1, <1>2, <2>1, PlacesDiffer, Names
<1>7. /\ At(r, 0) = Header /\ At(r, N + 2) = Nil
      /\ \A j \in 1..(N + 1) : At(r, j) = r[j] /\ r[j] \in Nodes /\ r[j] # Header /\ r[j] # Nil
      /\ \A i, j \in 0..(N + 2) : At(r, i) = At(r, j) => i = j
  <2>1. N + 2 = Len(r) + 1
    BY <1>1
  <2> QED BY <1>1, <1>2, <2>1, PlacesDiffer, Names
<1>8. ASSUME NEW j \in 1..N PROVE r[Up(c, j)] = q[j] /\ q[j] # x /\ q[j] \in Nodes /\ Up(c, j) \in 1..(N + 1)
  <2>1. j \in 0..(N + 1) /\ Up(c, j) \in 1..(N + 1)
    BY <1>1 DEF Up
  <2>2. At(r, Up(c, j)) = At(q, j) /\ At(q, j) # x
    BY <1>1, <2>1, AtUp
  <2>3. At(q, j) = q[j] /\ At(r, Up(c, j)) = r[Up(c, j)]
    BY <1>1, <1>2, <2>1, PlacesDiffer
  <2> QED BY <1>7, <2>1, <2>2, <2>3
<1>9. /\ s.tail = r[N + 1]
      /\ \A j \in 1..(N + 1) : s.backward[r[j]] = IF j = 1 THEN Nil ELSE r[j - 1]
  BY <1>1, <1>3 DEF Backward
<1>10. /\ t.tail = IF next = Nil THEN s.backward[x] ELSE s.tail
       /\ \A n \in Nodes : t.backward[n] = IF n = x THEN Nil
                                           ELSE IF n = next THEN s.backward[x] ELSE s.backward[n]
  OBVIOUS
<1>11. t.tail \in Nodes \cup {Nil} /\ s.backward[x] \in Nodes \cup {Nil}
  BY <1>4, <1>6, <1>10
<1>12. t.backward \in [Nodes -> Nodes \cup {Nil}]
  <2>1. \A n \in Nodes : s.backward[n] \in Nodes \cup {Nil}
    BY <1>4
  <2>2. \A n \in Nodes : (IF n = x THEN Nil ELSE IF n = s.forward[1][x] THEN s.backward[x]
                          ELSE s.backward[n]) \in Nodes \cup {Nil}
    BY <1>11, <2>1
  <2> QED BY <2>2
<1>13. s.backward[x] = IF c = 0 THEN Nil ELSE q[c]
  <2>1. c + 1 \in 1..(N + 1) /\ (c + 1 = 1 <=> c = 0) /\ (c + 1) - 1 = c
    BY <1>1
  <2>2. s.backward[x] = IF c = 0 THEN Nil ELSE r[c]
    BY <1>6, <1>9, <2>1
  <2>3. c # 0 => r[c] = q[c]
    <3>1. c # 0 => c \in 1..N /\ Up(c, c) = c
      BY <1>1 DEF Up
    <3> QED BY <1>8, <3>1
  <2> QED BY <2>2, <2>3
<1> HIDE DEF N, next
<1>14. t.tail = IF N = 0 THEN Nil ELSE q[N]
  <2>1. CASE c = N
    BY <1>1, <1>5, <1>7, <1>10, <1>13, <2>1
  <2>2. CASE c # N
    <3>1. N \in 1..N /\ N # 0 /\ c + 2 \in 1..(N + 1) /\ Up(c, N) = N + 1
      BY <1>1, <2>2 DEF Up
    <3>2. next # Nil
      BY <1>5, <1>7, <3>1
    <3> QED BY <1>8, <1>9, <1>10, <3>1, <3>2
  <2> QED BY <2>1, <2>2
<1>15. ASSUME NEW j \in 1..N PROVE t.backward[q[j]] = IF j = 1 THEN Nil ELSE q[j - 1]
  <2>1. r[Up(c, j)] = q[j] /\ q[j] # x /\ q[j] \in Nodes /\ Up(c, j) \in 1..(N + 1)
    BY <1>8
  <2>2. CASE j = c + 1
    <3>1. Up(c, j) = c + 2 /\ c + 2 \in 1..(N + 1) /\ j - 1 = c /\ (j = 1 <=> c = 0)
      BY <1>1, <2>2 DEF Up
    <3>2. q[j] = next
      BY <1>5, <1>7, <2>1, <3>1
    <3> QED BY <1>10, <1>13, <2>1, <3>1, <3>2
  <2>3. CASE j # c + 1
    <3>1. Up(c, j) # c + 2 /\ c + 2 \in 0..(N + 2) /\ Up(c, j) \in 0..(N + 2)
      BY <1>1, <2>1, <2>3 DEF Up
    <3>2. q[j] # next
      <4>1. At(r, Up(c, j)) = q[j]
        BY <1>7, <2>1
      <4> QED BY <1>5, <1>7, <3>1, <4>1
    <3>3. t.backward[q[j]] = s.backward[r[Up(c, j)]]
      BY <1>10, <2>1, <3>2
    <3>4. s.backward[r[Up(c, j)]] = IF Up(c, j) = 1 THEN Nil ELSE r[Up(c, j) - 1]
      BY <1>9, <2>1
    <3>5. CASE j = 1
      <4>1. Up(c, j) = 1
        BY <1>1, <2>3, <3>5 DEF Up
      <4> QED BY <3>3, <3>4, <3>5, <4>1
    <3>6. CASE j # 1
      <4>1. j - 1 \in 1..N /\ Up(c, j) - 1 = Up(c, j - 1) /\ Up(c, j) # 1
        BY <1>1, <2>3, <3>6 DEF Up
      <4>2. r[Up(c, j - 1)] = q[j - 1]
        BY <1>8, <4>1
      <4> QED BY <3>3, <3>4, <3>6, <4>1, <4>2
    <3> QED BY <3>5, <3>6
  <2> QED BY <2>2, <2>3
<1>16. Backward(t, q)
  BY <1>14, <1>15 DEF Backward, N
<1> QED
  BY <1>11, <1>12, <1>16

\* An entry that the list has is where the search for it ends.
LEMMA FoundIfThere ==
  ASSUME NEW s, NEW q, NEW T, ListInv(s, q, T), NEW k, NEW sc, NEW c, NEW la,
         Cut(s, q, T, k, sc, c, la),
         NEW j \in 1..Len(q), entry(s, q[j]) = [key |-> k, score |-> sc]
  PROVE  c # Len(q) /\ entry(s, q[c + 1]) = [key |-> k, score |-> sc]
<1>1. /\ \A n \in Nodes : s.key[n] \in Nat /\ s.score[n] \in Int
      /\ \A m \in 1..Len(q) : q[m] \in Nodes
      /\ \A i, m \in 1..Len(q) : i < m => ~before(s, q[m], s.key[q[i]], s.score[q[i]])
  BY Entries
<1>2. c \in 0..Len(q) /\ Len(q) \in Nat /\ \A m \in 1..Len(q) : before(s, q[m], k, sc) <=> m <= c
  BY DEF Cut, ListInv
<1>3. s.key[q[j]] = k /\ s.score[q[j]] = sc /\ k \in Nat /\ sc \in Int
  BY <1>1 DEF entry
<1>4. ~before(s, q[j], k, sc)
  BY <1>3 DEF before
<1>5. c < j /\ c + 1 \in 1..Len(q)
  BY <1>2, <1>4
<1>6. ~before(s, q[c + 1], k, sc)
  BY <1>2, <1>5
<1>7. s.key[q[c + 1]] \in Nat /\ s.score[q[c + 1]] \in Int
  BY <1>1, <1>5
<1>8. j = c + 1 \/ ~before(s, q[j], s.key[q[c + 1]], s.score[q[c + 1]])
  BY <1>1, <1>2, <1>5
<1>9. s.key[q[c + 1]] = k /\ s.score[q[c + 1]] = sc
  BY <1>3, <1>6, <1>7, <1>8 DEF before
<1> QED
  BY <1>2, <1>5, <1>9 DEF entry

\* t is the list s without its first entry (k, sc), at place n.
TakenOut(s, r, U, k, sc, t, n) ==
  /\ entry(s, r[n]) = [key |-> k, score |-> sc]
  /\ \A j \in 1..(n - 1) : entry(s, r[j]) # [key |-> k, score |-> sc]
  /\ ListInv(t, RemoveAt(r, n), Lowered(U, Len(r) - 1, n - 1))
  /\ Wider(RemoveAt(r, n), r, n - 1, r[n])
  /\ Cleared(s, t, r[n])

\* Del keeps the list: it takes out the first entry (k, sc), if there is one.
LEMMA DeleteKeeps ==
  ASSUME NEW s, NEW r, NEW U, ListInv(s, r, U), NEW k \in Keys, NEW sc \in Scores,
         NEW t, t = deleted(s, k, sc)
  PROVE  \/ t = s /\ \A j \in 1..Len(r) : entry(s, r[j]) # [key |-> k, score |-> sc]
         \/ \E n \in 1..Len(r) : TakenOut(s, r, U, k, sc, t, n)
<1>1. k \in Nat /\ sc \in Int
  BY SkipListConstants
<1>2. PICK c, la : Cut(s, r, U, k, sc, c, la)
  BY <1>1, CutExists
<1>3. r \in Seq(Elems) /\ Injective(r) /\ s \in SkipLists /\ s.length = Len(r) /\ s.key[Header] = 0
      /\ Len(r) \in Nat
  BY DEF ListInv
<1>4. c \in 0..Len(r) /\ \A j \in 1..Len(r) : before(s, r[j], k, sc) <=> j <= c
  BY <1>2 DEF Cut
<1> DEFINE there == c # Len(r) /\ entry(s, r[c + 1]) = [key |-> k, score |-> sc]
<1>5. CASE ~there
  <2>1. t = s
    BY <1>2, <1>5, DeleteWrites
  <2>2. \A j \in 1..Len(r) : entry(s, r[j]) # [key |-> k, score |-> sc]
    BY <1>2, <1>5, FoundIfThere
  <2> QED BY <2>1, <2>2
<1>6. CASE there
  <2>1. c \in Nat /\ c + 1 \in 1..Len(r) /\ (c + 1) - 1 = c
    BY <1>3, <1>4, <1>6
  <2>2. PICK x : x = r[c + 1]
    OBVIOUS
  <2>3. PICK q : q = RemoveAt(r, c + 1)
    OBVIOUS
  <2>4. DeleteResult(s, r, la, x, t)
    BY <1>2, <1>6, <2>2, DeleteWrites
  <2>5. Wider(q, r, c, x)
    BY <1>3, <2>1, <2>2, <2>3, RemoveWidens
  <2> DEFINE T == Lowered(U, Len(q), c)
  <2>6. /\ t.length = s.length - 1
        /\ t.tail = IF s.forward[1][x] = Nil THEN s.backward[x] ELSE s.tail
        /\ t.key = [s.key EXCEPT ![x] = 0] /\ t.score = [s.score EXCEPT ![x] = 0]
        /\ t.backward = [n \in Nodes |-> IF n = x THEN Nil
                                         ELSE IF n = s.forward[1][x] THEN s.backward[x]
                                         ELSE s.backward[n]]
        /\ t.forward = [i \in Levels |-> t.forward[i]] /\ t.span = [i \in Levels |-> t.span[i]]
    BY <2>4 DEF DeleteResult
  <2>7. t = [level |-> t.level, length |-> t.length, tail |-> t.tail, key |-> t.key,
             score |-> t.score, backward |-> t.backward, forward |-> t.forward, span |-> t.span]
    BY <2>4 DEF DeleteResult
  <2>8. /\ Tower(T, Len(q), t.level) /\ t.level \in Levels
        /\ \A i \in Levels : /\ Linked(t.forward[i], q, T[i])
                             /\ t.forward[i] \in [Nodes -> Nodes \cup {Nil}]
                             /\ t.span[i] \in [Nodes -> Int]
        /\ \A i \in 1..t.level : Spanned(t.span[i], q, T[i])
    BY <1>2, <2>4, <2>5, DeleteLevels
  <2> HIDE DEF T
  <2>9. Ordered(t, q)
    <3>1. Cleared(s, t, x)
      BY <2>6 DEF Cleared
    <3> QED BY <2>5, <3>1, DeleteOrders
  <2>10. Backward(t, q) /\ t.tail \in Nodes \cup {Nil} /\ t.backward \in [Nodes -> Nodes \cup {Nil}]
    <3>1. /\ t.tail = IF s.forward[1][x] = Nil THEN s.backward[x] ELSE s.tail
          /\ t.backward = [n \in Nodes |-> IF n = x THEN Nil
                                         ELSE IF n = s.forward[1][x] THEN s.backward[x]
                                         ELSE s.backward[n]]
      BY <2>6
    <3> QED BY <2>5, <3>1, DeleteBackward
  <2>11. t.key \in [Nodes -> Keys] /\ t.score \in [Nodes -> Scores \cup {0}] /\ t.key[Header] = 0
    <3>1. s.key \in [Nodes -> Keys] /\ s.score \in [Nodes -> Scores \cup {0}]
      BY <1>3, Fields
    <3>2. x \in Elems
      BY <1>3, <2>1, <2>2
    <3>3. x # Header /\ x \in Nodes /\ Header \in Nodes /\ 0 \in Keys
      BY <3>2, Names, SkipListConstants
    <3> QED BY <1>3, <2>6, <3>1, <3>3
  <2>12. Len(r) = Len(q) + 1 /\ t.length = Len(q) /\ t.length \in Int /\ q \in Seq(Elems) /\ Injective(q)
    BY <1>3, <2>5, <2>6 DEF Wider
  <2>13. t \in SkipLists
    <3>1. t.forward = [i \in Levels |-> t.forward[i]] /\ t.span = [i \in Levels |-> t.span[i]]
      BY <2>6
    <3>2. \A i \in Levels : t.forward[i] \in [Nodes -> Nodes \cup {Nil}] /\ t.span[i] \in [Nodes -> Int]
      BY <2>8
    <3> QED BY <2>7, <2>8, <2>10, <2>11, <2>12, <3>1, <3>2, IsSkipList
  <2>14. ListInv(t, q, T)
    BY <2>8, <2>9, <2>10, <2>11, <2>12, <2>13 DEF ListInv
  <2>15. \A j \in 1..c : entry(s, r[j]) # [key |-> k, score |-> sc]
    <3> SUFFICES ASSUME NEW j \in 1..c, entry(s, r[j]) = [key |-> k, score |-> sc] PROVE FALSE
      OBVIOUS
    <3>1. before(s, r[j], k, sc)
      BY <1>3, <1>4
    <3>2. s.key[r[j]] = k /\ s.score[r[j]] = sc
      BY DEF entry
    <3> QED BY <1>1, <3>1, <3>2 DEF before
  <2>16. Len(q) = Len(r) - 1
    BY <2>12
  <2>17. T = Lowered(U, Len(r) - 1, c)
    BY <2>16 DEF T
  <2>18. ListInv(t, RemoveAt(r, c + 1), Lowered(U, Len(r) - 1, (c + 1) - 1))
    BY <2>1, <2>3, <2>14, <2>17
  <2>19. Wider(RemoveAt(r, c + 1), r, (c + 1) - 1, r[c + 1])
    BY <2>1, <2>2, <2>3, <2>5
  <2>20. Cleared(s, t, r[c + 1])
    BY <2>2, <2>6 DEF Cleared
  <2>21. TakenOut(s, r, U, k, sc, t, c + 1)
    BY <1>6, <2>1, <2>15, <2>18, <2>19, <2>20 DEF TakenOut
  <2> QED BY <2>1, <2>21
<1> QED
  BY <1>5, <1>6

-----------------------------------------------------------------------------
(***************************************************************************)
(* The reads.                                                              *)
(***************************************************************************)
ent(s, q) == [j \in 1..Len(q) |-> entry(s, q[j])]

\* elements, of a list s.
elementsOf(s) == [j \in 1..Min({MaxNodes, Len(ascending(s))}) |-> entry(s, ascending(s)[j])]

LEMMA ElementsOfAre ==
  ASSUME NEW s, NEW q, NEW T, ListInv(s, q, T)
  PROVE  elementsOf(s) = ent(s, q)
<1>1. ascending(s) = q
  BY AscendingIs
<1>2. q \in Seq(Elems) /\ Len(q) \in Nat /\ Len(q) <= MaxNodes /\ MaxNodes \in Nat
  BY LengthBound, Names DEF ListInv
<1>3. Min({MaxNodes, Len(q)}) = Len(q)
  BY <1>2, MinIs
<1> QED
  BY <1>1, <1>3 DEF elementsOf, ent

LEMMA ElementsOf == elements = elementsOf(sl) /\ elements' = elementsOf(sl')
BY DEF elements, elementsOf, GetTopN, firstN

LEMMA ElementsAre ==
  ASSUME NEW q, NEW T, ListInv(sl, q, T)
  PROVE  elements = ent(sl, q)
BY ElementsOf, ElementsOfAre

LEMMA SearchEnds ==
  ASSUME NEW s, NEW q, NEW T, ListInv(s, q, T), NEW ahead, NEW c \in 0..Len(q), Ahead(q, ahead, c),
         NEW at, at = descend(s, ahead)
  PROVE  /\ s.level \in Nat /\ 1 \in 1..s.level
         /\ at[1].rank = c /\ at[1].node = At(q, c)
         /\ \A i \in 1..s.level : at[i].rank \in 0..Len(q) /\ at[i].node = At(q, at[i].rank)
<1>1. s.level \in Nat /\ 1 \in 1..s.level /\ Len(q) \in Nat /\ Tower(T, Len(q), s.level) /\ 1 \in Levels
      /\ \A i \in 1..s.level : i \in Levels
  BY Names DEF ListInv, SkipLists
<1>2. ASSUME NEW i \in 1..s.level
      PROVE  \E l \in T[i] : IsLast(T[i], c, l) /\ at[i].node = At(q, l) /\ at[i].rank = l
  <2>1. PICK l \in T[i] : StopsAt(q, T[i], c, l, at[i])
    BY DescendStops
  <2>2. IsLast(T[i], c, l) /\ at[i] = [node |-> At(q, l), rank |-> l]
    BY <2>1 DEF StopsAt
  <2>3. at[i].node = At(q, l) /\ at[i].rank = l
    BY <2>2
  <2> QED BY <2>2, <2>3
<1>3. at[1].rank = c /\ at[1].node = At(q, c)
  <2>1. PICK l \in T[1] : IsLast(T[1], c, l) /\ at[1].node = At(q, l) /\ at[1].rank = l
    BY <1>1, <1>2
  <2>2. T[1] = 0..Len(q)
    BY <1>1 DEF Tower
  <2>3. IsLast(T[1], c, c)
    BY <1>1, <2>2 DEF IsLast
  <2>4. l = c
    BY <1>1, <2>1, <2>2, <2>3 DEF IsLast
  <2> QED BY <2>1, <2>4
<1>4. ASSUME NEW i \in 1..s.level PROVE at[i].rank \in 0..Len(q) /\ at[i].node = At(q, at[i].rank)
  <2>1. PICK l \in T[i] : at[i].node = At(q, l) /\ at[i].rank = l
    BY <1>2
  <2>2. i \in Levels /\ T \in [Levels -> SUBSET (0..Len(q))]
    BY <1>1 DEF Tower
  <2>3. T[i] \in SUBSET (0..Len(q))
    BY <2>2
  <2> QED BY <2>1, <2>3
<1> QED
  BY <1>1, <1>3, <1>4

LEMMA RankASCIs ==
  ASSUME NEW q, NEW T, ListInv(sl, q, T), NEW rank \in 1..Len(q)
  PROVE  GetElementByRankASC(rank) = entry(sl, q[rank])
<1> DEFINE ahead == [n \in Elems |-> [r \in Int |-> r <= rank]]
           at == descend(sl, ahead)
           hit == {i \in 1..sl.level : at[i].rank = rank}
<1>1. q \in Seq(Elems) /\ Injective(q) /\ Len(q) \in Nat
  BY DEF ListInv
<1>2. Ahead(q, ahead, rank)
  <2>1. \A j \in 1..Len(q) : q[j] \in Elems /\ j \in Int
    BY <1>1
  <2> QED BY <2>1 DEF Ahead
<1>3. GetElementByRankASC(rank) = IF hit = {} THEN [key |-> 0, score |-> 0] ELSE entry(sl, at[Max(hit)].node)
  BY DEF GetElementByRankASC
<1> HIDE DEF ahead
<1>4. PICK a : a = at
  OBVIOUS
<1>5. /\ sl.level \in Nat /\ 1 \in 1..sl.level
      /\ at[1].rank = rank /\ at[1].node = At(q, rank)
      /\ \A i \in 1..sl.level : at[i].rank \in 0..Len(q) /\ at[i].node = At(q, at[i].rank)
  <2>1. rank \in 0..Len(q)
    OBVIOUS
  <2> QED BY <1>2, <2>1, SearchEnds
<1> HIDE DEF at
<1>6. 1 \in hit /\ hit \in SUBSET (0..sl.level)
  BY <1>5
<1>7. \A i \in hit : at[i].node = At(q, rank)
  BY <1>5
<1> HIDE DEF hit
<1>8. Max(hit) \in hit
  BY <1>5, <1>6, MaxIs
<1>9. At(q, rank) = q[rank]
  BY <1>1, PlacesDiffer
<1> QED
  BY <1>3, <1>6, <1>7, <1>8, <1>9

\* GetRank, of a list and a map.
rankOf(s, d, k) ==
  LET sc  == d[k]
      at  == descend(s, [n \in Elems |-> [r \in Int |->
                         s.score[n] < sc \/ (s.score[n] = sc /\ s.key[n] <= k)]])
      hit == {i \in 1..s.level : s.key[at[i].node] = k}
  IN  IF d[k] # NoScore /\ hit # {} THEN at[Max(hit)].rank ELSE 0

LEMMA GetRankIs == \A k : GetRank(k) = rankOf(sl, dict, k)
BY DEF GetRank, rankOf, HasKey

\* The entries that are not after (k, sc) come first, whatever is in the list.
LEMMA RankIs ==
  ASSUME NEW s, NEW q, NEW T, ListInv(s, q, T), NEW d \in [Keys -> Scores \cup {NoScore}], NEW k \in Keys
  PROVE  /\ rankOf(s, d, k) \in Int
         /\ \A j \in 1..Len(q) :
              /\ k # 0 /\ d[k] # NoScore /\ entry(s, q[j]) = [key |-> k, score |-> d[k]]
              /\ \A m \in 1..Len(q) : s.key[q[m]] = k => m = j
              => rankOf(s, d, k) = j
<1>1. CASE d[k] = NoScore
  BY <1>1 DEF rankOf
<1>2. CASE d[k] # NoScore
  <2> DEFINE N == Len(q)
             sc == d[k]
             upto(n) == s.score[n] < sc \/ (s.score[n] = sc /\ s.key[n] <= k)
             J == {j \in 1..N : upto(q[j])}
             ahead == [n \in Elems |-> [r \in Int |-> upto(n)]]
             at == descend(s, ahead)
             hit == {i \in 1..s.level : s.key[at[i].node] = k}
  <2>1. N \in Nat /\ q \in Seq(Elems) /\ Injective(q) /\ s.key[Header] = 0
    BY DEF ListInv
  <2>2. k \in Nat /\ sc \in Int
    BY <1>2, SkipListConstants
  <2>3. /\ \A n \in Nodes : s.key[n] \in Nat /\ s.score[n] \in Int
        /\ \A j \in 1..N : q[j] \in Elems /\ q[j] \in Nodes
        /\ \A i, j \in 1..N : i < j => ~before(s, q[j], s.key[q[i]], s.score[q[i]])
    BY Entries
  <2>4. rankOf(s, d, k) = IF hit # {} THEN at[Max(hit)].rank ELSE 0
    BY <1>2 DEF rankOf
  <2>5. ASSUME NEW i \in 1..N, NEW j \in 1..N, i < j, upto(q[j]) PROVE upto(q[i])
    <3>1. ~before(s, q[j], s.key[q[i]], s.score[q[i]])
      BY <2>3, <2>5
    <3>2. /\ s.key[q[i]] \in Nat /\ s.score[q[i]] \in Int
          /\ s.key[q[j]] \in Nat /\ s.score[q[j]] \in Int
      BY <2>3
    <3> HIDE DEF sc
    <3> QED BY <2>2, <2>5, <3>1, <3>2 DEF before
  <2> HIDE DEF sc
  <2>6. PICK c \in 0..N : \A j \in 1..N : j \in J <=> j <= c
    <3>1. J \in SUBSET (1..N) /\ \A i, j \in 1..N : i < j /\ j \in J => i \in J
      BY <2>5
    <3> HIDE DEF J
    <3> QED BY <2>1, <3>1, Prefix
  <2>7. Ahead(q, ahead, c)
    <3>1. ASSUME NEW j \in 1..N PROVE ahead[q[j]][j] <=> j <= c
      <4>1. q[j] \in Elems /\ j \in Int
        BY <2>3
      <4>2. ahead[q[j]][j] <=> upto(q[j])
        BY <4>1
      <4> QED BY <2>6, <4>2
    <3> QED BY <3>1 DEF Ahead
  <2>8. \A j \in 1..N : upto(q[j]) <=> j <= c
    BY <2>6
  <2> HIDE DEF ahead
  <2>9. /\ s.level \in Nat /\ 1 \in 1..s.level
        /\ at[1].rank = c /\ at[1].node = At(q, c)
        /\ \A i \in 1..s.level : at[i].rank \in 0..N /\ at[i].node = At(q, at[i].rank)
    BY <2>6, <2>7, SearchEnds
  <2> HIDE DEF at, J
  <2>10. hit # {} => Max(hit) \in hit
    <3>1. hit \in SUBSET (0..s.level)
      OBVIOUS
    <3> HIDE DEF hit
    <3> QED BY <2>9, <3>1, MaxIs
  <2>11. hit # {} => at[Max(hit)].rank \in 0..N /\ s.key[At(q, at[Max(hit)].rank)] = k
    BY <2>9, <2>10
  <2>12. ASSUME NEW j \in 1..N, k # 0, entry(s, q[j]) = [key |-> k, score |-> sc],
                \A m \in 1..N : s.key[q[m]] = k => m = j
         PROVE  rankOf(s, d, k) = j
    <3>1. s.key[q[j]] = k /\ s.score[q[j]] = sc
      BY <2>12 DEF entry
    <3>2. upto(q[j]) /\ j <= c
      BY <2>2, <2>8, <3>1
    <3>3. c = j
      <4> SUFFICES ASSUME j < c PROVE FALSE
        BY <2>1, <3>2
      <4>1. c \in 1..N /\ upto(q[c])
        BY <2>1, <2>8
      <4>2. ~before(s, q[c], k, sc)
        BY <2>3, <3>1, <4>1
      <4>3. s.key[q[c]] = k
        BY <2>2, <2>3, <4>1, <4>2 DEF before
      <4> QED BY <2>12, <4>1, <4>3
    <3>4. 1 \in hit
      <4>1. At(q, c) = q[j]
        BY <2>1, <3>3, PlacesDiffer
      <4> QED BY <2>9, <3>1, <4>1
    <3>5. at[Max(hit)].rank \in 0..N /\ s.key[At(q, at[Max(hit)].rank)] = k
      BY <2>11, <3>4
    <3>6. at[Max(hit)].rank # 0
      <4> SUFFICES ASSUME at[Max(hit)].rank = 0 PROVE FALSE
        OBVIOUS
      <4> QED BY <2>1, <2>12, <3>5 DEF At
    <3>7. at[Max(hit)].rank \in 1..N
      BY <2>1, <3>5, <3>6
    <3>8. s.key[q[at[Max(hit)].rank]] = k
      BY <2>1, <3>5, <3>7, PlacesDiffer
    <3>9. at[Max(hit)].rank = j
      BY <2>12, <3>7, <3>8
    <3> QED BY <2>4, <3>4, <3>9
  <2>13. rankOf(s, d, k) \in Int
    BY <2>1, <2>4, <2>11
  <2> QED BY <2>12, <2>13 DEF sc
<1> QED
  BY <1>1, <1>2

-----------------------------------------------------------------------------
(***************************************************************************)
(* The list and the map.                                                   *)
(***************************************************************************)
Entry == [key : Keys, score : Scores \cup {0}]

\* Every key of the map d is in the list, with its score.
Known(s, q, d) ==
  \A k \in Keys : d[k] # NoScore =>
    \E j \in 1..Len(q) : entry(s, q[j]) = [key |-> k, score |-> d[k]]

\* The list has the keys in K at most once each, as the map has them.
Once(s, q, d, K) ==
  \A k \in K : \A j \in 1..Len(q) : s.key[q[j]] = k =>
    /\ d[k] # NoScore /\ s.score[q[j]] = d[k]
    /\ \A m \in 1..Len(q) : s.key[q[m]] = k => m = j

\* What the contract says of a Put and of a Drop, of entries a before and b after it.
Puts(a, b, k, sc) ==
  \E n \in 0..Len(a) :
    /\ \A j \in 1..Len(a) : Sorted!Before(a[j], [key |-> k, score |-> sc]) <=> j <= n
    /\ b = InsertAt(a, n + 1, [key |-> k, score |-> sc])

Drops(a, b, e) ==
  \E n \in 1..Len(a) :
    /\ a[n] = e /\ \A j \in 1..n - 1 : a[j] # e
    /\ b = RemoveAt(a, n)

pair(k, sc) == [key |-> k, score |-> sc]

LEMMA UpOnto ==
  ASSUME NEW N \in Nat, NEW c \in 0..N, NEW j \in 1..(N + 1), j # c + 1
  PROVE  \E i \in 1..N : j = Up(c, i)
<1>1. CASE j <= c
  <2>1. j \in 1..N /\ j = Up(c, j)
    BY <1>1 DEF Up
  <2> QED BY <2>1
<1>2. CASE j > c
  <2>1. j - 1 \in 1..N /\ j = Up(c, j - 1)
    BY <1>2 DEF Up
  <2> QED BY <2>1
<1> QED
  BY <1>1, <1>2

LEMMA EntIsSeq ==
  ASSUME NEW s, NEW q, NEW T, ListInv(s, q, T)
  PROVE  /\ ent(s, q) \in Seq(Entry) /\ Len(ent(s, q)) = Len(q)
         /\ \A j \in 1..Len(q) : ent(s, q)[j] = entry(s, q[j])
<1>1. \A j \in 1..Len(q) : entry(s, q[j]) \in Entry
  <2>1. s.key \in [Nodes -> Keys] /\ s.score \in [Nodes -> Scores \cup {0}]
    BY Fields DEF ListInv
  <2>2. \A j \in 1..Len(q) : q[j] \in Nodes
    BY Entries
  <2>3. ASSUME NEW j \in 1..Len(q) PROVE s.key[q[j]] \in Keys /\ s.score[q[j]] \in Scores \cup {0}
    BY <2>1, <2>2
  <2> QED BY <2>3 DEF entry, Entry
<1>2. Len(q) \in Nat
  BY DEF ListInv
<1> QED
  BY <1>1, <1>2 DEF ent

LEMMA SameSeq ==
  ASSUME NEW S, NEW a \in Seq(S), NEW b \in Seq(S), Len(a) = Len(b),
         \A i \in 1..Len(a) : a[i] = b[i]
  PROVE  a = b
BY SeqEqual

LEMMA EntRemove ==
  ASSUME NEW s, NEW r, NEW U, ListInv(s, r, U), NEW n \in 1..Len(r), NEW t, NEW q, NEW T,
         ListInv(t, q, T), Wider(q, r, n - 1, r[n]), Cleared(s, t, r[n])
  PROVE  ent(t, q) = RemoveAt(ent(s, r), n)
<1>1. n - 1 \in Nat /\ n = (n - 1) + 1 /\ Len(r) \in Nat /\ Len(q) \in Nat /\ Len(r) = Len(q) + 1
  BY DEF ListInv, Wider
<1>2. PICK b : b = RemoveAt(ent(s, r), (n - 1) + 1)
  OBVIOUS
<1>3. /\ ent(s, r) \in Seq(Entry) /\ Len(ent(s, r)) = Len(r)
      /\ \A j \in 1..Len(r) : ent(s, r)[j] = entry(s, r[j])
  BY EntIsSeq
<1>4. /\ ent(t, q) \in Seq(Entry) /\ Len(ent(t, q)) = Len(q)
      /\ \A j \in 1..Len(q) : ent(t, q)[j] = entry(t, q[j])
  BY EntIsSeq
<1>5. PICK a : a = ent(s, r)
  OBVIOUS
<1>6. /\ b \in Seq(Entry) /\ Len(b) = Len(a) - 1
      /\ \A j \in 1..Len(b) : a[Up(n - 1, j)] = b[j] /\ Up(n - 1, j) \in 1..Len(a)
  <2>1. (n - 1) + 1 \in 1..Len(a) /\ a \in Seq(Entry) /\ b = RemoveAt(a, (n - 1) + 1)
    BY <1>1, <1>2, <1>3, <1>5
  <2> QED BY <1>1, <2>1, RemoveAtIs
<1>7. Len(b) = Len(q)
  BY <1>1, <1>3, <1>5, <1>6
<1>8. ASSUME NEW j \in 1..Len(q) PROVE ent(t, q)[j] = b[j]
  <2>1. /\ Up(n - 1, j) \in 1..Len(r) /\ r[Up(n - 1, j)] = q[j]
        /\ t.key[q[j]] = s.key[q[j]] /\ t.score[q[j]] = s.score[q[j]]
    BY DeleteLeaves
  <2>2. b[j] = entry(s, q[j])
    BY <1>3, <1>5, <1>6, <1>7, <2>1
  <2>3. entry(t, q[j]) = entry(s, q[j])
    BY <2>1 DEF entry
  <2> QED BY <1>4, <2>2, <2>3
<1>9. ent(t, q) = b
  BY <1>4, <1>6, <1>7, <1>8, SameSeq
<1> QED
  BY <1>1, <1>2, <1>9

LEMMA DelStep ==
  ASSUME NEW s, NEW q, NEW T, ListInv(s, q, T), NEW d \in [Keys -> Scores \cup {NoScore}],
         Known(s, q, d), NEW K \in SUBSET Keys, Once(s, q, d, K), NEW k \in Keys, d[k] # NoScore,
         NEW t, t = deleted(s, k, d[k]), NEW e, e = [d EXCEPT ![k] = NoScore],
         NEW z, z = pair(k, d[k])
  PROVE  \E q2, T2 : /\ ListInv(t, q2, T2) /\ Known(t, q2, e) /\ Once(t, q2, e, K)
                     /\ Drops(ent(s, q), ent(t, q2), z)
<1>1. d[k] \in Scores
  OBVIOUS
<1>2. PICK i \in 1..Len(q) : entry(s, q[i]) = [key |-> k, score |-> d[k]]
  BY DEF Known
<1>3. PICK n \in 1..Len(q) : TakenOut(s, q, T, k, d[k], t, n)
  BY <1>1, <1>2, DeleteKeeps
<1>4. PICK q2 : q2 = RemoveAt(q, n)
  OBVIOUS
<1>5. PICK T2 : T2 = Lowered(T, Len(q) - 1, n - 1)
  OBVIOUS
<1>6. ListInv(t, q2, T2) /\ Wider(q2, q, n - 1, q[n])
  BY <1>3, <1>4, <1>5 DEF TakenOut
<1>7. Cleared(s, t, q[n])
  BY <1>3 DEF TakenOut
<1>8. n - 1 \in 0..Len(q2) /\ (n - 1) + 1 = n /\ Len(q) = Len(q2) + 1 /\ Len(q2) \in Nat
  BY <1>6 DEF Wider
<1>9. ASSUME NEW j \in 1..Len(q2)
      PROVE  /\ Up(n - 1, j) \in 1..Len(q) /\ q[Up(n - 1, j)] = q2[j] /\ Up(n - 1, j) # n
             /\ t.key[q2[j]] = s.key[q2[j]] /\ t.score[q2[j]] = s.score[q2[j]]
  <2>1. /\ Up(n - 1, j) \in 1..Len(q) /\ q[Up(n - 1, j)] = q2[j]
        /\ t.key[q2[j]] = s.key[q2[j]] /\ t.score[q2[j]] = s.score[q2[j]]
    BY <1>6, <1>7, DeleteLeaves
  <2>2. Up(n - 1, j) # n
    BY <1>8 DEF Up
  <2> QED BY <2>1, <2>2
<1>10. s.key[q[n]] = k
  BY <1>3 DEF TakenOut, entry
<1>11. Known(t, q2, e)
  <2> SUFFICES ASSUME NEW k2 \in Keys, e[k2] # NoScore
               PROVE  \E j \in 1..Len(q2) : entry(t, q2[j]) = [key |-> k2, score |-> e[k2]]
    BY DEF Known
  <2>1. k2 # k /\ e[k2] = d[k2]
    OBVIOUS
  <2>2. PICK m \in 1..Len(q) : entry(s, q[m]) = [key |-> k2, score |-> d[k2]]
    BY <2>1 DEF Known
  <2>3. s.key[q[m]] = k2 /\ s.score[q[m]] = d[k2] /\ m # n
    BY <1>10, <2>1, <2>2 DEF entry
  <2>4. PICK j \in 1..Len(q2) : m = Up(n - 1, j)
    <3>1. m \in 1..(Len(q2) + 1) /\ m # (n - 1) + 1
      BY <1>8, <2>3
    <3> QED BY <1>8, <3>1, UpOnto
  <2>5. t.key[q2[j]] = k2 /\ t.score[q2[j]] = d[k2]
    BY <1>9, <2>3, <2>4
  <2> QED BY <2>1, <2>5 DEF entry
<1>12. Once(t, q2, e, K)
  <2> SUFFICES ASSUME NEW k2 \in K, NEW j \in 1..Len(q2), t.key[q2[j]] = k2
               PROVE  /\ e[k2] # NoScore /\ t.score[q2[j]] = e[k2]
                      /\ \A m \in 1..Len(q2) : t.key[q2[m]] = k2 => m = j
    BY DEF Once
  <2>1. Up(n - 1, j) \in 1..Len(q) /\ s.key[q[Up(n - 1, j)]] = k2 /\ s.score[q[Up(n - 1, j)]] = t.score[q2[j]]
        /\ Up(n - 1, j) # n
    BY <1>9
  <2>2. /\ d[k2] # NoScore /\ s.score[q[Up(n - 1, j)]] = d[k2]
        /\ \A m \in 1..Len(q) : s.key[q[m]] = k2 => m = Up(n - 1, j)
    BY <2>1 DEF Once
  <2>3. k2 # k
    BY <1>10, <2>1, <2>2
  <2>4. e[k2] = d[k2]
    BY <2>3
  <2>5. ASSUME NEW m \in 1..Len(q2), t.key[q2[m]] = k2 PROVE m = j
    <3>1. Up(n - 1, m) = Up(n - 1, j)
      BY <1>9, <2>2, <2>5
    <3> QED BY <1>8, <3>1 DEF Up
  <2> QED BY <2>1, <2>2, <2>4, <2>5
<1>13. Drops(ent(s, q), ent(t, q2), z)
  <2>1. ent(t, q2) = RemoveAt(ent(s, q), n)
    BY <1>6, <1>7, EntRemove
  <2>2. Len(ent(s, q)) = Len(q) /\ \A j \in 1..Len(q) : ent(s, q)[j] = entry(s, q[j])
    BY EntIsSeq
  <2>3. \A j \in 1..n - 1 : j \in 1..Len(q)
    BY <1>8
  <2> QED BY <1>3, <2>1, <2>2, <2>3 DEF TakenOut, Drops, pair
<1> QED
  BY <1>6, <1>11, <1>12, <1>13

Written(s, t, x, k, sc) == t.key = [s.key EXCEPT ![x] = k] /\ t.score = [s.score EXCEPT ![x] = sc]

\* The node x of r has the entry (k, sc) and the nodes of q have theirs.
Joined(s, t, q, r, c, x, k, sc) ==
  /\ r[c + 1] = x /\ c + 1 \in 1..Len(r) /\ entry(t, x) = [key |-> k, score |-> sc]
  /\ \A j \in 1..Len(q) : /\ Up(c, j) \in 1..Len(r) /\ r[Up(c, j)] = q[j]
                          /\ entry(t, q[j]) = entry(s, q[j])

\* The nodes that were there keep their entries.
LEMMA InsertLeaves ==
  ASSUME NEW s, NEW q, NEW T, ListInv(s, q, T), NEW c, NEW x, NEW r, Wider(q, r, c, x),
         NEW k, NEW sc, NEW t, Written(s, t, x, k, sc)
  PROVE  Joined(s, t, q, r, c, x, k, sc)
<1>1. Len(q) \in Nat /\ c \in 0..Len(q) /\ Len(r) = Len(q) + 1 /\ At(r, c + 1) = x /\ c + 1 \in 1..Len(r)
  BY DEF Wider
<1>2. s.key \in [Nodes -> Keys] /\ s.score \in [Nodes -> Scores \cup {0}] /\ q \in Seq(Elems) /\ Injective(q)
      /\ r \in Seq(Elems) /\ Injective(r)
  BY Fields DEF ListInv, Wider
<1>3. r[c + 1] = x /\ x \in Nodes
  BY <1>1, <1>2, PlacesDiffer, Names
<1>4. entry(t, x) = [key |-> k, score |-> sc]
  BY <1>2, <1>3 DEF entry, Written
<1>5. ASSUME NEW j \in 1..Len(q)
      PROVE  Up(c, j) \in 1..Len(r) /\ r[Up(c, j)] = q[j] /\ entry(t, q[j]) = entry(s, q[j])
  <2>1. j \in 0..(Len(q) + 1) /\ Up(c, j) \in 1..Len(r)
    BY <1>1 DEF Up
  <2>2. At(r, Up(c, j)) = At(q, j) /\ At(q, j) # x
    BY <2>1, AtUp
  <2>3. At(q, j) = q[j] /\ At(r, Up(c, j)) = r[Up(c, j)]
    BY <1>1, <1>2, <2>1, PlacesDiffer
  <2>4. q[j] # x /\ q[j] \in Nodes
    BY <1>2, <2>2, <2>3, Names
  <2>5. t.key[q[j]] = s.key[q[j]] /\ t.score[q[j]] = s.score[q[j]]
    BY <1>2, <2>4 DEF Written
  <2> QED BY <2>1, <2>2, <2>3, <2>5 DEF entry
<1> QED
  BY <1>1, <1>3, <1>4, <1>5 DEF Joined

LEMMA EntInsert ==
  ASSUME NEW s, NEW q, NEW T, ListInv(s, q, T), NEW c \in 0..Len(q), NEW x \in Elems,
         NEW r, Wider(q, r, c, x), NEW k \in Keys, NEW sc \in Scores,
         NEW t, NEW U, ListInv(t, r, U),
         Written(s, t, x, k, sc)
  PROVE  ent(t, r) = InsertAt(ent(s, q), c + 1, [key |-> k, score |-> sc])
<1> DEFINE e == [key |-> k, score |-> sc]
<1>1. Len(q) \in Nat /\ Len(r) = Len(q) + 1
  BY DEF ListInv, Wider
<1>2. PICK a : a = ent(s, q)
  OBVIOUS
<1>3. PICK b : b = InsertAt(a, c + 1, e)
  OBVIOUS
<1>4. /\ a \in Seq(Entry) /\ Len(a) = Len(q)
      /\ \A j \in 1..Len(q) : a[j] = entry(s, q[j])
  <2>1. /\ ent(s, q) \in Seq(Entry) /\ Len(ent(s, q)) = Len(q)
        /\ \A j \in 1..Len(q) : ent(s, q)[j] = entry(s, q[j])
    BY EntIsSeq
  <2> QED BY <1>2, <2>1
<1>5. /\ ent(t, r) \in Seq(Entry) /\ Len(ent(t, r)) = Len(r)
      /\ \A j \in 1..Len(r) : ent(t, r)[j] = entry(t, r[j])
  BY EntIsSeq
<1>6. e \in Entry
  BY DEF Entry
<1> HIDE DEF e
<1>7. HasInserted(a, b, c, e, Entry)
  <2>1. c \in 0..Len(a)
    BY <1>4
  <2> QED BY <1>3, <1>4, <1>6, <2>1, InsertAtIs
<1>8. /\ b \in Seq(Entry) /\ Len(b) = Len(a) + 1 /\ b[c + 1] = e
      /\ \A j \in 1..Len(a) : b[Up(c, j)] = a[j] /\ Up(c, j) \in 1..(Len(a) + 1)
  BY <1>7 DEF HasInserted
<1>9. /\ r[c + 1] = x /\ c + 1 \in 1..Len(r) /\ entry(t, x) = e
      /\ \A j \in 1..Len(q) : /\ Up(c, j) \in 1..Len(r) /\ r[Up(c, j)] = q[j]
                              /\ entry(t, q[j]) = entry(s, q[j])
  <2>1. Joined(s, t, q, r, c, x, k, sc)
    BY InsertLeaves
  <2> QED BY <2>1 DEF Joined, e
<1>10. ASSUME NEW j \in 1..Len(r) PROVE ent(t, r)[j] = b[j]
  <2>1. CASE j = c + 1
    BY <1>5, <1>8, <1>9, <2>1
  <2>2. CASE j # c + 1
    <3>1. PICK i \in 1..Len(q) : j = Up(c, i)
      <4>1. j \in 1..(Len(q) + 1)
        BY <1>1
      <4> QED BY <1>1, <2>2, <4>1, UpOnto
    <3>2. b[j] = entry(s, q[i])
      BY <1>4, <1>8, <3>1
    <3>3. ent(t, r)[j] = entry(s, q[i])
      BY <1>5, <1>9, <3>1
    <3> QED BY <3>2, <3>3
  <2> QED BY <2>1, <2>2
<1>11. Len(ent(t, r)) = Len(b)
  BY <1>1, <1>4, <1>5, <1>8
<1>12. ent(t, r) = b
  BY <1>5, <1>8, <1>10, <1>11, SameSeq
<1> QED
  BY <1>2, <1>3, <1>12 DEF e

LEMMA BeforeIs ==
  ASSUME NEW s, NEW n, NEW k, NEW sc
  PROVE  Sorted!Before(entry(s, n), [key |-> k, score |-> sc]) <=> before(s, n, k, sc)
BY DEF Sorted!Before, before, entry

LEMMA PutStep ==
  ASSUME NEW s, NEW q, NEW T, ListInv(s, q, T), NEW d \in [Keys -> Scores \cup {NoScore}],
         Known(s, q, d), NEW K \in SUBSET Keys, Once(s, q, d, K), NEW k \in Keys, NEW sc \in Scores,
         NEW x \in Elems, \A j \in 1..Len(q) : q[j] # x, NEW R \in Levels,
         k \in K => d[k] = NoScore,
         NEW t, t = inserted(s, x, k, sc, R), NEW e, e = [d EXCEPT ![k] = sc]
  PROVE  \E q2, T2 : /\ ListInv(t, q2, T2) /\ Known(t, q2, e) /\ Once(t, q2, e, K)
                     /\ Puts(ent(s, q), ent(t, q2), k, sc)
<1>1. PICK c \in 0..Len(q) : PutIn(s, q, T, k, sc, x, R, t, c)
  BY InsertKeeps
<1>2. PICK q2 : q2 = InsertAt(q, c + 1, x)
  OBVIOUS
<1>3. PICK T2 : T2 = Raised(T, c, R)
  OBVIOUS
<1>4. ListInv(t, q2, T2) /\ Wider(q, q2, c, x)
  BY <1>1, <1>2, <1>3 DEF PutIn
<1>5. Written(s, t, x, k, sc)
  BY <1>1 DEF PutIn, Written
<1>6. /\ q2[c + 1] = x /\ c + 1 \in 1..Len(q2) /\ entry(t, x) = [key |-> k, score |-> sc]
      /\ \A j \in 1..Len(q) : /\ Up(c, j) \in 1..Len(q2) /\ q2[Up(c, j)] = q[j]
                              /\ entry(t, q[j]) = entry(s, q[j])
  <2>1. Joined(s, t, q, q2, c, x, k, sc)
    BY <1>4, <1>5, InsertLeaves
  <2> QED BY <2>1 DEF Joined
<1>7. Len(q2) = Len(q) + 1 /\ Len(q) \in Nat
  BY <1>4 DEF Wider, ListInv
<1>8. /\ t.key[q2[c + 1]] = k /\ t.score[q2[c + 1]] = sc
      /\ \A j \in 1..Len(q) : t.key[q[j]] = s.key[q[j]] /\ t.score[q[j]] = s.score[q[j]]
  BY <1>6 DEF entry
<1>9. NoScore \notin Scores /\ e[k] = sc /\ \A k2 \in Keys : k2 # k => e[k2] = d[k2]
  BY SkipListConstants
<1>10. Known(t, q2, e)
  <2> SUFFICES ASSUME NEW k2 \in Keys, e[k2] # NoScore
               PROVE  \E j \in 1..Len(q2) : entry(t, q2[j]) = [key |-> k2, score |-> e[k2]]
    BY DEF Known
  <2>1. CASE k2 = k
    BY <1>6, <1>9, <2>1
  <2>2. CASE k2 # k
    <3>1. PICK m \in 1..Len(q) : entry(s, q[m]) = [key |-> k2, score |-> d[k2]]
      BY <1>9, <2>2 DEF Known
    <3>2. entry(t, q2[Up(c, m)]) = [key |-> k2, score |-> e[k2]] /\ Up(c, m) \in 1..Len(q2)
      BY <1>6, <1>9, <2>2, <3>1
    <3> QED BY <3>2
  <2> QED BY <2>1, <2>2
<1>11. Once(t, q2, e, K)
  <2> SUFFICES ASSUME NEW k2 \in K, NEW j \in 1..Len(q2), t.key[q2[j]] = k2
               PROVE  /\ e[k2] # NoScore /\ t.score[q2[j]] = e[k2]
                      /\ \A m \in 1..Len(q2) : t.key[q2[m]] = k2 => m = j
    BY DEF Once
  <2>1. ASSUME NEW m \in 1..Len(q2), m # c + 1, t.key[q2[m]] = k2
        PROVE  \E i \in 1..Len(q) : m = Up(c, i) /\ s.key[q[i]] = k2 /\ t.score[q2[m]] = s.score[q[i]]
    <3>1. m \in 1..(Len(q) + 1)
      BY <1>7
    <3>2. PICK i \in 1..Len(q) : m = Up(c, i)
      BY <1>7, <2>1, <3>1, UpOnto
    <3>3. s.key[q[i]] = k2 /\ t.score[q2[m]] = s.score[q[i]]
      BY <1>6, <1>8, <2>1, <3>2
    <3> QED BY <3>2, <3>3
  <2>2. CASE k2 = k
    <3>1. d[k2] = NoScore
      BY <2>2
    <3>2. \A i \in 1..Len(q) : s.key[q[i]] # k2
      BY <3>1 DEF Once
    <3>3. \A m \in 1..Len(q2) : t.key[q2[m]] = k2 => m = c + 1
      BY <2>1, <3>2
    <3> QED BY <1>8, <1>9, <2>2, <3>3
  <2>3. CASE k2 # k
    <3>1. \A m \in 1..Len(q2) : t.key[q2[m]] = k2 => m # c + 1
      BY <1>8, <2>3
    <3>2. PICK i \in 1..Len(q) : j = Up(c, i) /\ s.key[q[i]] = k2 /\ t.score[q2[j]] = s.score[q[i]]
      BY <2>1, <3>1
    <3>3. /\ d[k2] # NoScore /\ s.score[q[i]] = d[k2]
          /\ \A m \in 1..Len(q) : s.key[q[m]] = k2 => m = i
      BY <3>2 DEF Once
    <3>4. ASSUME NEW m \in 1..Len(q2), t.key[q2[m]] = k2 PROVE m = j
      <4>1. PICK n \in 1..Len(q) : m = Up(c, n) /\ s.key[q[n]] = k2
        BY <2>1, <3>1, <3>4
      <4>2. n = i
        BY <3>3, <4>1
      <4> QED BY <3>2, <4>1, <4>2
    <3> QED BY <1>9, <2>3, <3>2, <3>3, <3>4
  <2> QED BY <2>2, <2>3
<1>12. Puts(ent(s, q), ent(t, q2), k, sc)
  <2>1. ent(t, q2) = InsertAt(ent(s, q), c + 1, [key |-> k, score |-> sc])
    BY <1>4, <1>5, EntInsert
  <2>2. Len(ent(s, q)) = Len(q) /\ \A j \in 1..Len(q) : ent(s, q)[j] = entry(s, q[j])
    BY EntIsSeq
  <2>3. \A j \in 1..Len(q) : before(s, q[j], k, sc) <=> j <= c
    BY <1>1 DEF PutIn
  <2>4. ASSUME NEW j \in 1..Len(ent(s, q))
        PROVE  Sorted!Before(ent(s, q)[j], [key |-> k, score |-> sc]) <=> j <= c
    BY <2>2, <2>3, BeforeIs
  <2>5. c \in 0..Len(ent(s, q))
    BY <2>2
  <2> QED BY <2>1, <2>4, <2>5 DEF Puts
<1> QED
  BY <1>4, <1>10, <1>11, <1>12

-----------------------------------------------------------------------------
(***************************************************************************)
(* The invariant, of a list s, a map d, the calls c and the raced keys R.  *)
(* It is stated of values and not of the variables, for a step to cite it  *)
(* of those before and of those after it.                                  *)
(***************************************************************************)
Holds(s, d, K) == \E q, T : ListInv(s, q, T) /\ Known(s, q, d) /\ Once(s, q, d, K)

IsSet(a, k) == a.op = "Set" /\ a.key = k

\* Of a key that no two Sets raced for, at most one Set is between its sections, and
\* the first of them has left no entry in the map.
Races(c, d, K) ==
  \A k \in K, p \in Procs : IsSet(c[p], k) =>
    d[k] = NoScore /\ \A p2 \in Procs : IsSet(c[p2], k) => p2 = p

\* What an undisturbed first section returned is what it would return now.
Quiet(s, d, a) ==
  /\ a.op = "GetRankDESC" /\ a.quiet => d[a.key] # NoScore /\ a.got = rankOf(s, d, a.key)
  /\ a.op = "GetElementByRankDESC" /\ a.quiet => a.got = s.length

Good(s, d, c, R) ==
  /\ Holds(s, d, Keys \ R)
  /\ d \in [Keys -> Scores \cup {NoScore}]
  /\ c \in [Procs -> Calls] /\ R \in SUBSET Keys
  /\ Races(c, d, Keys \ R)
  /\ \A p \in Procs : Quiet(s, d, c[p])

SkipInv == Good(sl, dict, call, raced)

LEMMA CallIs ==
  ASSUME NEW a \in Calls
  PROVE  \/ a = Idle /\ a.op = "none"
         \/ a.op = "Set" /\ a.key \in Keys
         \/ /\ a.op = "GetRankDESC" /\ a.key \in Keys /\ a.got \in Int /\ a.quiet \in BOOLEAN
            /\ a = [op |-> "GetRankDESC", key |-> a.key, got |-> a.got, quiet |-> a.quiet]
         \/ /\ a.op = "GetElementByRankDESC" /\ a.got \in Int /\ a.quiet \in BOOLEAN
            /\ a = [op |-> "GetElementByRankDESC", got |-> a.got, quiet |-> a.quiet]
BY DEF Calls, Idle

\* disturbed, of calls c.
disturbedOf(c) ==
  [p \in Procs |-> IF c[p].op \in {"GetRankDESC", "GetElementByRankDESC"}
                   THEN [c[p] EXCEPT !.quiet = FALSE] ELSE c[p]]

\* The calls c2 are those of c, and none is quiet.
Unquiet(c, c2) ==
  /\ c2 \in [Procs -> Calls]
  /\ \A p \in Procs : /\ \A k : IsSet(c2[p], k) <=> IsSet(c[p], k)
                      /\ c[p] = Idle => c2[p] = Idle
                      /\ \A s, d : Quiet(s, d, c2[p])

LEMMA Disturbed ==
  ASSUME NEW c \in [Procs -> Calls], NEW c2, c2 = disturbedOf(c)
  PROVE  Unquiet(c, c2)
<1>1. ASSUME NEW p \in Procs
      PROVE  /\ c2[p] \in Calls
             /\ \A k : IsSet(c2[p], k) <=> IsSet(c[p], k)
             /\ c[p] = Idle => c2[p] = Idle
             /\ \A s, d : Quiet(s, d, c2[p])
  <2> DEFINE a == c[p]
  <2>0. a \in Calls /\ c2[p] = IF a.op \in {"GetRankDESC", "GetElementByRankDESC"}
                               THEN [a EXCEPT !.quiet = FALSE] ELSE a
    BY DEF disturbedOf
  <2> HIDE DEF a
  <2>1. CASE a = Idle
    <3>1. c2[p] = Idle /\ Idle.op = "none"
      BY <2>0, <2>1 DEF Idle
    <3> QED BY <2>0, <2>1, <3>1 DEF a, Quiet
  <2>2. CASE a.op = "Set"
    <3>1. c2[p] = a
      BY <2>0, <2>2
    <3> QED BY <2>0, <2>2, <3>1 DEF a, Quiet
  <2>3. CASE a.op = "GetRankDESC" /\ a.key \in Keys /\ a.got \in Int
             /\ a = [op |-> "GetRankDESC", key |-> a.key, got |-> a.got, quiet |-> a.quiet]
    <3>1. c2[p] = [op |-> "GetRankDESC", key |-> a.key, got |-> a.got, quiet |-> FALSE]
      BY <2>0, <2>3
    <3>2. c2[p] \in Calls
      BY <2>3, <3>1 DEF Calls
    <3>3. c2[p].op = "GetRankDESC" /\ ~c2[p].quiet /\ a # Idle
      BY <2>3, <3>1 DEF Idle
    <3> QED BY <2>3, <3>2, <3>3 DEF a, Quiet, IsSet
  <2>4. CASE a.op = "GetElementByRankDESC" /\ a.got \in Int
             /\ a = [op |-> "GetElementByRankDESC", got |-> a.got, quiet |-> a.quiet]
    <3>1. c2[p] = [op |-> "GetElementByRankDESC", got |-> a.got, quiet |-> FALSE]
      BY <2>0, <2>4
    <3>2. c2[p] \in Calls
      BY <2>4, <3>1 DEF Calls
    <3>3. c2[p].op = "GetElementByRankDESC" /\ ~c2[p].quiet /\ a # Idle
      BY <2>4, <3>1 DEF Idle
    <3> QED BY <2>4, <3>2, <3>3 DEF a, Quiet, IsSet
  <2> QED BY <2>0, <2>1, <2>2, <2>3, <2>4, CallIs
<1>2. c2 \in [Procs -> Calls]
  BY <1>1 DEF disturbedOf
<1> QED
  BY <1>1, <1>2 DEF Unquiet
-----------------------------------------------------------------------------
\* What delSection writes, and that it is a Drop or nothing.
DelWrites(s, d, c, k, t, e, c2) ==
  /\ t = (IF d[k] # NoScore THEN deleted(s, k, d[k]) ELSE s)
  /\ e = [d EXCEPT ![k] = NoScore]
  /\ c2 = (IF d[k] # NoScore THEN disturbedOf(c) ELSE c)

Dropped(s, d, k, t) ==
  IF d[k] # NoScore
  THEN Drops(elementsOf(s), elementsOf(t), [key |-> k, score |-> d[k]])
  ELSE t = s

SameSets(c, c2) == \A p \in Procs : \A j : IsSet(c2[p], j) <=> IsSet(c[p], j)

\* Del, and the first section of Set.
LEMMA DropGood ==
  ASSUME NEW s, NEW d, NEW c, NEW R, Good(s, d, c, R), NEW k \in Keys,
         NEW t, NEW e, NEW c2, DelWrites(s, d, c, k, t, e, c2)
  PROVE  Good(t, e, c2, R) /\ e[k] = NoScore /\ SameSets(c, c2) /\ Dropped(s, d, k, t)
<1>1. /\ Holds(s, d, Keys \ R)
      /\ d \in [Keys -> Scores \cup {NoScore}]
      /\ c \in [Procs -> Calls] /\ R \in SUBSET Keys
      /\ Races(c, d, Keys \ R)
      /\ \A p \in Procs : Quiet(s, d, c[p])
  BY DEF Good
<1>e. e = [d EXCEPT ![k] = NoScore]
  BY DEF DelWrites
<1>2. e \in [Keys -> Scores \cup {NoScore}] /\ e[k] = NoScore
      /\ \A j \in Keys : e[j] = NoScore \/ e[j] = d[j]
  BY <1>1, <1>e
<1>3. CASE d[k] = NoScore
  <2>1. t = s /\ e = d /\ c2 = c
    BY <1>1, <1>3 DEF DelWrites
  <2> QED BY <1>2, <1>3, <2>1 DEF SameSets, Dropped
<1>4. CASE d[k] # NoScore
  <2>1. t = deleted(s, k, d[k]) /\ c2 = disturbedOf(c)
    BY <1>4 DEF DelWrites
  <2>2. PICK q, T : ListInv(s, q, T) /\ Known(s, q, d) /\ Once(s, q, d, Keys \ R)
    BY <1>1 DEF Holds
  <2>z. PICK z : z = pair(k, d[k])
    OBVIOUS
  <2>3. PICK q2, T2 : /\ ListInv(t, q2, T2) /\ Known(t, q2, e) /\ Once(t, q2, e, Keys \ R)
                      /\ Drops(ent(s, q), ent(t, q2), z)
    <3>1. Keys \ R \in SUBSET Keys
      OBVIOUS
    <3> QED BY <1>1, <1>4, <2>1, <1>e, <2>2, <2>z, <3>1, DelStep
  <2>4. elementsOf(s) = ent(s, q) /\ elementsOf(t) = ent(t, q2)
    BY <2>2, <2>3, ElementsOfAre
  <2>5. Holds(t, e, Keys \ R)
    BY <2>3 DEF Holds
  <2>6. /\ c2 \in [Procs -> Calls]
        /\ \A p \in Procs : /\ \A j : IsSet(c2[p], j) <=> IsSet(c[p], j)
                            /\ c[p] = Idle => c2[p] = Idle
                            /\ Quiet(t, e, c2[p])
    <3>1. Unquiet(c, c2)
      BY <1>1, <2>1, Disturbed
    <3> QED BY <3>1 DEF Unquiet
  <2>7. Races(c2, e, Keys \ R)
    <3> SUFFICES ASSUME NEW j \in Keys \ R, NEW p \in Procs, IsSet(c2[p], j)
                 PROVE  e[j] = NoScore /\ \A p2 \in Procs : IsSet(c2[p2], j) => p2 = p
      BY DEF Races
    <3>1. d[j] = NoScore /\ \A p2 \in Procs : IsSet(c[p2], j) => p2 = p
      BY <1>1, <2>6 DEF Races
    <3> QED BY <1>2, <2>6, <3>1
  <2>8. Good(t, e, c2, R)
    BY <1>1, <1>2, <2>5, <2>6, <2>7 DEF Good
  <2>9. Drops(elementsOf(s), elementsOf(t), [key |-> k, score |-> d[k]])
    BY <2>z, <2>3, <2>4 DEF pair
  <2> QED BY <1>2, <1>4, <2>6, <2>8, <2>9 DEF SameSets, Dropped
<1> QED
  BY <1>3, <1>4

\* p is a Set of k now, which has raced if there was another.
Begins(c, p, k, c2, R, R2) ==
  /\ c2 = [c EXCEPT ![p] = [op |-> "Set", key |-> k]]
  /\ R2 = R \/ R2 = R \cup {k}
  /\ k \notin R2 => \A p2 \in Procs : ~IsSet(c[p2], k)

\* Set, after its first section.
LEMMA BeginGood ==
  ASSUME NEW s, NEW d, NEW c, NEW R, Good(s, d, c, R), NEW k \in Keys, d[k] = NoScore,
         NEW p \in Procs, NEW c2, NEW R2, Begins(c, p, k, c2, R, R2)
  PROVE  Good(s, d, c2, R2)
<1>a. PICK a : a = [op |-> "Set", key |-> k]
  OBVIOUS
<1>b. /\ c2 = [c EXCEPT ![p] = a] /\ (R2 = R \/ R2 = R \cup {k})
      /\ k \notin R2 => \A p2 \in Procs : ~IsSet(c[p2], k)
  BY <1>a DEF Begins
<1>1. /\ Holds(s, d, Keys \ R)
      /\ d \in [Keys -> Scores \cup {NoScore}]
      /\ c \in [Procs -> Calls] /\ R \in SUBSET Keys
      /\ Races(c, d, Keys \ R)
      /\ \A p2 \in Procs : Quiet(s, d, c[p2])
  BY DEF Good
<1>2. a \in Calls /\ a.op = "Set" /\ a.key = k
  BY <1>a DEF Calls
<1>3. R2 \in SUBSET Keys /\ Keys \ R2 \subseteq Keys \ R
  BY <1>1, <1>b
<1>4. c2 \in [Procs -> Calls] /\ \A p2 \in Procs : c2[p2] = IF p2 = p THEN a ELSE c[p2]
  BY <1>1, <1>2, <1>b
<1>5. Holds(s, d, Keys \ R2)
  BY <1>1, <1>3 DEF Holds, Once
<1>6. Races(c2, d, Keys \ R2)
  <2> SUFFICES ASSUME NEW j \in Keys \ R2, NEW p1 \in Procs, IsSet(c2[p1], j)
               PROVE  d[j] = NoScore /\ \A p2 \in Procs : IsSet(c2[p2], j) => p2 = p1
    BY DEF Races
  <2>1. CASE j = k
    <3>1. \A p2 \in Procs : IsSet(c2[p2], j) => p2 = p
      BY <1>4, <1>b, <2>1
    <3> QED BY <2>1, <3>1
  <2>2. CASE j # k
    <3>1. ~IsSet(a, j)
      BY <1>2, <2>2 DEF IsSet
    <3>2. \A p2 \in Procs : IsSet(c2[p2], j) => IsSet(c[p2], j)
      BY <1>4, <3>1
    <3> QED BY <1>1, <1>3, <3>2 DEF Races
  <2> QED BY <2>1, <2>2
<1>7. \A p2 \in Procs : Quiet(s, d, c2[p2])
  <2>1. Quiet(s, d, a)
    BY <1>2 DEF Quiet
  <2> QED BY <1>1, <1>4, <2>1
<1> QED
  BY <1>1, <1>3, <1>4, <1>5, <1>6, <1>7 DEF Good

PutWrites(s, d, c, p, k, sc, L, t, e, c2) ==
  /\ \E x \in Elems \ ToSet(ascending(s)) : t = inserted(s, x, k, sc, L)
  /\ e = [d EXCEPT ![k] = sc]
  /\ c2 = [disturbedOf(c) EXCEPT ![p] = Idle]

\* Set, second section.
LEMMA PutGood ==
  ASSUME NEW s, NEW d, NEW c, NEW R, Good(s, d, c, R), NEW p \in Procs, NEW k, IsSet(c[p], k),
         NEW sc \in Scores, NEW L \in Levels,
         NEW t, NEW e, NEW c2, PutWrites(s, d, c, p, k, sc, L, t, e, c2)
  PROVE  k \in Keys /\ Good(t, e, c2, R) /\ Puts(elementsOf(s), elementsOf(t), k, sc)
<1>w. PICK x \in Elems \ ToSet(ascending(s)) : t = inserted(s, x, k, sc, L)
  BY DEF PutWrites
<1>e. e = [d EXCEPT ![k] = sc] /\ c2 = [disturbedOf(c) EXCEPT ![p] = Idle]
  BY DEF PutWrites
<1>1. /\ Holds(s, d, Keys \ R)
      /\ d \in [Keys -> Scores \cup {NoScore}]
      /\ c \in [Procs -> Calls] /\ R \in SUBSET Keys
      /\ Races(c, d, Keys \ R)
      /\ \A p2 \in Procs : Quiet(s, d, c[p2])
  BY DEF Good
<1>2. k \in Keys
  <2>1. c[p] \in Calls /\ c[p].op = "Set" /\ c[p].key = k
    BY <1>1 DEF IsSet
  <2> QED BY <2>1, CallIs DEF Idle
<1>3. k \in Keys \ R => d[k] = NoScore /\ \A p2 \in Procs : IsSet(c[p2], k) => p2 = p
  BY <1>1 DEF Races
<1>4. PICK q, T : ListInv(s, q, T) /\ Known(s, q, d) /\ Once(s, q, d, Keys \ R)
  BY <1>1 DEF Holds
<1>5. x \in Elems /\ \A j \in 1..Len(q) : q[j] # x
  <2>1. ascending(s) = q /\ q \in Seq(Elems)
    BY <1>4, AscendingIs DEF ListInv
  <2> QED BY <2>1 DEF ToSet
<1>6. PICK q2, T2 : /\ ListInv(t, q2, T2) /\ Known(t, q2, e) /\ Once(t, q2, e, Keys \ R)
                    /\ Puts(ent(s, q), ent(t, q2), k, sc)
  <2>1. Keys \ R \in SUBSET Keys /\ (k \in Keys \ R => d[k] = NoScore)
    BY <1>3
  <2> QED BY <1>1, <1>2, <1>4, <1>5, <1>w, <1>e, <2>1, PutStep
<1>7. elementsOf(s) = ent(s, q) /\ elementsOf(t) = ent(t, q2)
  BY <1>4, <1>6, ElementsOfAre
<1>8. Holds(t, e, Keys \ R)
  BY <1>6 DEF Holds
<1>9. PICK c1 : c1 = disturbedOf(c)
  OBVIOUS
<1>10. /\ c1 \in [Procs -> Calls]
       /\ \A p2 \in Procs : /\ \A j : IsSet(c1[p2], j) <=> IsSet(c[p2], j)
                            /\ Quiet(t, e, c1[p2])
  <2>1. Unquiet(c, c1)
    BY <1>1, <1>9, Disturbed
  <2> QED BY <2>1 DEF Unquiet
<1>11. Idle \in Calls /\ Idle.op = "none"
  BY DEF Calls, Idle
<1>12. Quiet(t, e, Idle) /\ \A j : ~IsSet(Idle, j)
  BY <1>11 DEF Quiet, IsSet
<1>13. c2 \in [Procs -> Calls] /\ \A p2 \in Procs : c2[p2] = IF p2 = p THEN Idle ELSE c1[p2]
  BY <1>9, <1>10, <1>11, <1>e
<1>14. e \in [Keys -> Scores \cup {NoScore}] /\ \A j \in Keys : j # k => e[j] = d[j]
  BY <1>1, <1>e
<1>15. Races(c2, e, Keys \ R)
  <2> SUFFICES ASSUME NEW j \in Keys \ R, NEW p1 \in Procs, IsSet(c2[p1], j)
               PROVE  e[j] = NoScore /\ \A p2 \in Procs : IsSet(c2[p2], j) => p2 = p1
    BY DEF Races
  <2>1. \A p2 \in Procs : IsSet(c2[p2], j) => p2 # p /\ IsSet(c[p2], j)
    BY <1>10, <1>12, <1>13
  <2>2. d[j] = NoScore /\ \A p2 \in Procs : IsSet(c[p2], j) => p2 = p1
    BY <1>1, <2>1 DEF Races
  <2>3. j # k
    BY <2>1, <2>2
  <2> QED BY <1>14, <2>1, <2>2, <2>3
<1>16. \A p2 \in Procs : Quiet(t, e, c2[p2])
  BY <1>10, <1>12, <1>13
<1>17. Good(t, e, c2, R)
  BY <1>1, <1>8, <1>13, <1>14, <1>15, <1>16 DEF Good
<1> QED
  BY <1>2, <1>6, <1>7, <1>17

\* A first section of a descending read, or its end: the call a of p becomes b.
LEMMA ReadGood ==
  ASSUME NEW s, NEW d, NEW c, NEW R, Good(s, d, c, R), NEW p \in Procs,
         NEW b \in Calls, Quiet(s, d, b), b.op # "Set", NEW c2, c2 = [c EXCEPT ![p] = b]
  PROVE  Good(s, d, c2, R)
<1>1. /\ c \in [Procs -> Calls] /\ Races(c, d, Keys \ R)
      /\ \A p2 \in Procs : Quiet(s, d, c[p2])
  BY DEF Good
<1>2. c2 \in [Procs -> Calls] /\ \A p2 \in Procs : c2[p2] = IF p2 = p THEN b ELSE c[p2]
  BY <1>1
<1>3. \A p2 \in Procs : \A k : IsSet(c2[p2], k) => IsSet(c[p2], k)
  BY <1>2 DEF IsSet
<1>4. Races(c2, d, Keys \ R)
  BY <1>1, <1>3 DEF Races
<1> QED
  BY <1>1, <1>2, <1>4 DEF Good

-----------------------------------------------------------------------------
(***************************************************************************)
(* The invariant holds of every reachable state.                           *)
(***************************************************************************)
\* The list that New makes.
LEMMA NewIsList == \A s : s = newSkipList => ListInv(s, <<>>, [i \in Levels |-> {0}])
<1> SUFFICES ASSUME NEW s, s = newSkipList PROVE ListInv(s, <<>>, [i \in Levels |-> {0}])
  OBVIOUS
<1>1. PICK q : q = <<>>
  OBVIOUS
<1>2. PICK T : T = [i \in Levels |-> {0}]
  OBVIOUS
<1>3. /\ q \in Seq(Elems) /\ Len(q) = 0 /\ Injective(q)
      /\ \A n, m \in 1..Len(q) : FALSE
      /\ At(q, 0) = Header /\ At(q, 1) = Nil
  BY <1>1 DEF Injective, At
<1>4. /\ s.level = 1 /\ s.length = 0 /\ s.tail = Nil
      /\ s.key = [n \in Nodes |-> 0] /\ s.score = [n \in Nodes |-> 0]
      /\ s.backward = [n \in Nodes |-> Nil]
      /\ s.forward = [i \in Levels |-> [n \in Nodes |-> Nil]]
      /\ s.span = [i \in Levels |-> [n \in Nodes |-> 0]]
      /\ s = [level |-> s.level, length |-> s.length, tail |-> s.tail, key |-> s.key,
              score |-> s.score, backward |-> s.backward, forward |-> s.forward, span |-> s.span]
  BY DEF newSkipList
<1>5. /\ Header \in Nodes /\ 1 \in Levels /\ 0 \in Keys /\ Levels = 1..MaxLevel /\ MaxLevel \in Nat
      /\ \A i \in Levels : s.forward[i] = [n \in Nodes |-> Nil] /\ s.span[i] = [n \in Nodes |-> 0]
  BY <1>4, Names, SkipListConstants
<1>6. s \in SkipLists
  <2>1. /\ s.level \in Levels /\ s.length \in Int /\ s.tail \in Nodes \cup {Nil}
        /\ s.key \in [Nodes -> Keys] /\ s.score \in [Nodes -> Scores \cup {0}]
        /\ s.backward \in [Nodes -> Nodes \cup {Nil}]
    BY <1>4, <1>5
  <2>2. \A i \in Levels : s.forward[i] \in [Nodes -> Nodes \cup {Nil}] /\ s.span[i] \in [Nodes -> Int]
    BY <1>5
  <2>3. s.forward = [i \in Levels |-> s.forward[i]] /\ s.span = [i \in Levels |-> s.span[i]]
    BY <1>4
  <2> QED BY <1>4, <2>1, <2>2, <2>3, IsSkipList
<1>7. s.key[Header] = 0
  BY <1>4, <1>5
<1>8. Ordered(s, q) /\ Backward(s, q)
  BY <1>3, <1>4 DEF Ordered, Backward
<1>9. Tower(T, Len(q), s.level)
  <2>1. 0..Len(q) = {0} /\ \A i \in Levels : T[i] = {0}
    BY <1>2, <1>3
  <2>2. T \in [Levels -> SUBSET (0..Len(q))]
    BY <1>2, <2>1
  <2> QED BY <1>5, <2>1, <2>2 DEF Tower
<1>10. ASSUME NEW i \in Levels PROVE Linked(s.forward[i], q, T[i]) /\ Spanned(s.span[i], q, T[i])
  <2>1. \A n \in Nodes : s.forward[i][n] = Nil /\ s.span[i][n] = 0
    BY <1>5
  <2>2. \A j \in 0..Len(q), k \in 1..(Len(q) + 1) : j = 0 /\ k = 1
    BY <1>3
  <2>3. dist(Len(q), 0, 1) = 0
    BY <1>3 DEF dist
  <2> QED BY <1>3, <1>5, <2>1, <2>2, <2>3 DEF Linked, Spanned
<1>11. \A i \in 1..s.level : i \in Levels
  BY <1>4, <1>5
<1> QED
  BY <1>1, <1>2, <1>3, <1>4, <1>6, <1>7, <1>8, <1>9, <1>10, <1>11 DEF ListInv

LEMMA InitGood == Init => SkipInv
<1> SUFFICES ASSUME Init PROVE SkipInv
  OBVIOUS
<1>1. /\ sl = newSkipList /\ dict = [k \in Keys |-> NoScore]
      /\ call = [p \in Procs |-> Idle] /\ raced = {}
  BY DEF Init
<1>2. ListInv(sl, <<>>, [i \in Levels |-> {0}])
  BY <1>1, NewIsList
<1>3. Known(sl, <<>>, dict) /\ Once(sl, <<>>, dict, Keys \ raced)
  <2>1. \A j \in 1..Len(<<>>) : FALSE
    OBVIOUS
  <2> QED BY <1>1, <2>1 DEF Known, Once
<1>4. Holds(sl, dict, Keys \ raced)
  BY <1>2, <1>3 DEF Holds
<1>5. Idle \in Calls /\ Idle.op = "none"
  BY DEF Calls, Idle
<1>6. Races(call, dict, Keys \ raced) /\ \A p \in Procs : Quiet(sl, dict, call[p])
  BY <1>1, <1>5 DEF Races, Quiet, IsSet
<1> QED
  BY <1>1, <1>4, <1>5, <1>6 DEF SkipInv, Good

LEMMA DisturbedIs == disturbed = disturbedOf(call)
BY DEF disturbed, disturbedOf

\* What Del does to the elements and the map, or nothing.
DropsOf(k) ==
  /\ IF dict[k] # NoScore
     THEN Drops(elements, elements', [key |-> k, score |-> dict[k]])
     ELSE elements' = elements
  /\ dict' = [dict EXCEPT ![k] = NoScore]

LEMMA DelKeeps ==
  ASSUME SkipInv, NEW p \in Procs, NEW k \in Keys, Del(p, k)
  PROVE  SkipInv' /\ DropsOf(k)
<1>1. DelWrites(sl, dict, call, k, sl', dict', call') /\ raced' = raced
  BY DisturbedIs DEF Del, delSection, HasKey, DelWrites
<1>2. Good(sl, dict, call, raced)
  BY DEF SkipInv
<1>3. Good(sl', dict', call', raced) /\ Dropped(sl, dict, k, sl')
  BY <1>1, <1>2, DropGood
<1> QED
  BY <1>1, <1>3, ElementsOf DEF SkipInv, DropsOf, Dropped, DelWrites

LEMMA SetDelKeeps ==
  ASSUME SkipInv, NEW p \in Procs, NEW k \in Keys, SetDel(p, k)
  PROVE  SkipInv' /\ DropsOf(k)
<1>1. PICK c1 : c1 = IF dict[k] # NoScore THEN disturbedOf(call) ELSE call
  OBVIOUS
<1>2. /\ DelWrites(sl, dict, call, k, sl', dict', c1)
      /\ call' = [c1 EXCEPT ![p] = [op |-> "Set", key |-> k]]
      /\ raced' = (IF setsOf(k) # {} THEN raced \cup {k} ELSE raced)
  BY <1>1, DisturbedIs DEF SetDel, delSection, HasKey, DelWrites
<1>3. Good(sl, dict, call, raced)
  BY DEF SkipInv
<1>4. /\ Good(sl', dict', c1, raced) /\ dict'[k] = NoScore
      /\ SameSets(call, c1) /\ Dropped(sl, dict, k, sl')
  BY <1>2, <1>3, DropGood
<1>5. k \notin raced' => \A p2 \in Procs : ~IsSet(c1[p2], k)
  BY <1>2, <1>4 DEF setsOf, IsSet, SameSets
<1>6. Begins(c1, p, k, call', raced, raced')
  BY <1>2, <1>5 DEF Begins
<1>7. Good(sl', dict', call', raced')
  BY <1>4, <1>6, BeginGood
<1> QED
  BY <1>2, <1>4, <1>7, ElementsOf DEF SkipInv, DropsOf, Dropped, DelWrites

LEMMA SetInsertKeeps ==
  ASSUME SkipInv, NEW p \in Procs, NEW sc \in Scores, NEW L \in Levels, SetInsert(p, sc, L)
  PROVE  /\ SkipInv'
         /\ \E k \in Keys : /\ Puts(elements, elements', k, sc)
                            /\ dict' = [dict EXCEPT ![k] = sc]
<1>1. PICK k : k = call[p].key
  OBVIOUS
<1>2. /\ IsSet(call[p], k) /\ raced' = raced
      /\ PutWrites(sl, dict, call, p, k, sc, L, sl', dict', call')
  BY <1>1, DisturbedIs DEF SetInsert, IsSet, PutWrites
<1>3. Good(sl, dict, call, raced)
  BY DEF SkipInv
<1>4. k \in Keys /\ Good(sl', dict', call', raced) /\ Puts(elementsOf(sl), elementsOf(sl'), k, sc)
  BY <1>2, <1>3, PutGood
<1>5. dict' = [dict EXCEPT ![k] = sc] /\ Puts(elements, elements', k, sc)
  BY <1>2, <1>4, ElementsOf DEF PutWrites
<1> QED
  BY <1>2, <1>4, <1>5 DEF SkipInv

LEMMA GetRankDESCKeeps ==
  ASSUME SkipInv, NEW p \in Procs, NEW k \in Keys, GetRankDESC(p, k)
  PROVE  SkipInv'
<1>1. PICK b : b = [op |-> "GetRankDESC", key |-> k, got |-> rankOf(sl, dict, k), quiet |-> TRUE]
  OBVIOUS
<1>2. /\ dict[k] # NoScore /\ call' = [call EXCEPT ![p] = b]
      /\ sl' = sl /\ dict' = dict /\ raced' = raced
  BY <1>1, GetRankIs DEF GetRankDESC, HasKey
<1>3. Good(sl, dict, call, raced)
  BY DEF SkipInv
<1>4. rankOf(sl, dict, k) \in Int
  <2>1. PICK q, T : ListInv(sl, q, T)
    BY <1>3 DEF Good, Holds
  <2> QED BY <1>3, <2>1, RankIs DEF Good
<1>5. b \in Calls /\ b.op = "GetRankDESC" /\ b.key = k /\ b.got = rankOf(sl, dict, k)
  BY <1>1, <1>4 DEF Calls
<1>6. Quiet(sl, dict, b)
  BY <1>2, <1>5 DEF Quiet
<1>7. Good(sl, dict, call', raced)
  BY <1>2, <1>3, <1>5, <1>6, ReadGood
<1> QED
  BY <1>2, <1>7 DEF SkipInv

LEMMA GetElementByRankDESCKeeps ==
  ASSUME SkipInv, NEW p \in Procs, GetElementByRankDESC(p)
  PROVE  SkipInv'
<1>1. PICK b : b = [op |-> "GetElementByRankDESC", got |-> sl.length, quiet |-> TRUE]
  OBVIOUS
<1>2. /\ call' = [call EXCEPT ![p] = b]
      /\ sl' = sl /\ dict' = dict /\ raced' = raced
  BY <1>1 DEF GetElementByRankDESC, GetLenth
<1>3. Good(sl, dict, call, raced)
  BY DEF SkipInv
<1>4. sl.length \in Int
  <2>1. PICK q, T : ListInv(sl, q, T)
    BY <1>3 DEF Good, Holds
  <2> QED BY <2>1 DEF ListInv
<1>5. b \in Calls /\ b.op = "GetElementByRankDESC" /\ b.got = sl.length
  BY <1>1, <1>4 DEF Calls
<1>6. Quiet(sl, dict, b)
  BY <1>5 DEF Quiet
<1>7. Good(sl, dict, call', raced)
  BY <1>2, <1>3, <1>5, <1>6, ReadGood
<1> QED
  BY <1>2, <1>7 DEF SkipInv

LEMMA DescReturnKeeps ==
  ASSUME SkipInv, NEW p \in Procs, DescReturn(p)
  PROVE  SkipInv'
<1>1. call' = [call EXCEPT ![p] = Idle] /\ sl' = sl /\ dict' = dict /\ raced' = raced
  BY DEF DescReturn
<1>2. Good(sl, dict, call, raced)
  BY DEF SkipInv
<1>3. Idle \in Calls /\ Idle.op = "none"
  BY DEF Calls, Idle
<1>4. Quiet(sl, dict, Idle)
  BY <1>3 DEF Quiet
<1>5. Good(sl, dict, call', raced)
  BY <1>1, <1>2, <1>3, <1>4, ReadGood
<1> QED
  BY <1>1, <1>5 DEF SkipInv

\* In every reachable state the list is well formed (ListInv) and has every key of the
\* map with its score, a key no two Sets raced for is in it at most once, and an
\* undisturbed descending read has what it would read now.
THEOREM Inductive == Spec => []SkipInv
<1>1. SkipInv /\ [Next]_vars => SkipInv'
  <2> SUFFICES ASSUME SkipInv, [Next]_vars PROVE SkipInv'
    OBVIOUS
  <2>1. CASE UNCHANGED vars
    BY <2>1 DEF vars, SkipInv
  <2>2. ASSUME NEW p \in Procs, NEW k \in Keys, Del(p, k) PROVE SkipInv'
    BY <2>2, DelKeeps
  <2>3. ASSUME NEW p \in Procs, NEW k \in Keys, SetDel(p, k) PROVE SkipInv'
    BY <2>3, SetDelKeeps
  <2>4. ASSUME NEW p \in Procs, NEW sc \in Scores, NEW L \in Levels, SetInsert(p, sc, L) PROVE SkipInv'
    BY <2>4, SetInsertKeeps
  <2>5. ASSUME NEW p \in Procs, NEW k \in Keys, GetRankDESC(p, k) PROVE SkipInv'
    BY <2>5, GetRankDESCKeeps
  <2>6. ASSUME NEW p \in Procs, GetElementByRankDESC(p) PROVE SkipInv'
    BY <2>6, GetElementByRankDESCKeeps
  <2>7. ASSUME NEW p \in Procs, DescReturn(p) PROVE SkipInv'
    BY <2>7, DescReturnKeeps
  <2> QED BY <2>1, <2>2, <2>3, <2>4, <2>5, <2>6, <2>7 DEF Next
<1> QED
  BY InitGood, <1>1, PTL DEF Spec

-----------------------------------------------------------------------------
(***************************************************************************)
(* What the runs check.                                                    *)
(***************************************************************************)
LEMMA ListIs ==
  SkipInv => \E q, T : /\ ListInv(sl, q, T) /\ Known(sl, q, dict) /\ Once(sl, q, dict, Keys \ raced)
                       /\ elements = ent(sl, q)
BY ElementsAre DEF SkipInv, Good, Holds

\* The fields of the list keep their types: insert and Del never leave a level out of
\* range, a link that is no node, or a backward link or tail of their own making.
THEOREM TypeCorrect == Spec => []TypeOK
<1>1. SkipInv => TypeOK
  BY ListIs DEF SkipInv, Good, ListInv, TypeOK
<1> QED
  BY Inductive, <1>1, PTL

\* The map and the list have the same keys with the same scores, and each once, but for
\* keys of which two Sets have run between each other's lock sections.
THEOREM ListAndMapAgree == Spec => []OnceUnlessRaced
<1>1. SkipInv => OnceUnlessRaced
  <2> SUFFICES ASSUME SkipInv, NEW k \in Keys \ raced
               PROVE  IF dict[k] # NoScore
                      THEN \E j \in DOMAIN elements : Places(k) = {j} /\ elements[j].score = dict[k]
                      ELSE Places(k) = {}
    BY DEF OnceUnlessRaced, HasKey, GetScore
  <2>1. PICK q, T : /\ ListInv(sl, q, T) /\ Known(sl, q, dict) /\ Once(sl, q, dict, Keys \ raced)
                    /\ elements = ent(sl, q)
    BY ListIs
  <2>2. /\ DOMAIN elements = 1..Len(q)
        /\ \A j \in 1..Len(q) : elements[j].key = sl.key[q[j]] /\ elements[j].score = sl.score[q[j]]
    BY <2>1 DEF ent, entry
  <2>3. \A j \in 1..Len(q) : j \in Places(k) <=> sl.key[q[j]] = k
    BY <2>2 DEF Places
  <2>4. Places(k) \subseteq 1..Len(q)
    BY <2>2 DEF Places
  <2>5. CASE dict[k] # NoScore
    <3>1. PICK j \in 1..Len(q) : entry(sl, q[j]) = [key |-> k, score |-> dict[k]]
      BY <2>1, <2>5 DEF Known
    <3>2. sl.key[q[j]] = k /\ sl.score[q[j]] = dict[k]
      BY <3>1 DEF entry
    <3>3. \A m \in 1..Len(q) : sl.key[q[m]] = k => m = j
      BY <2>1, <3>2 DEF Once
    <3> QED BY <2>2, <2>3, <2>4, <2>5, <3>2, <3>3
  <2>6. CASE dict[k] = NoScore
    <3>1. \A j \in 1..Len(q) : sl.key[q[j]] # k
      BY <2>1, <2>6 DEF Once
    <3> QED BY <2>3, <2>4, <2>6, <3>1
  <2> QED BY <2>5, <2>6
<1> QED
  BY Inductive, <1>1, PTL

\* A key that has one place, has it.
LEMMA OnePlace ==
  ASSUME NEW q, NEW T, ListInv(sl, q, T), Known(sl, q, dict), elements = ent(sl, q),
         dict \in [Keys -> Scores \cup {NoScore}],
         NEW k \in Keys, k # 0, dict[k] # NoScore, Cardinality(Places(k)) = 1
  PROVE  /\ rankOf(sl, dict, k) \in 1..Len(q) /\ Places(k) = {rankOf(sl, dict, k)}
         /\ sl.key[q[rankOf(sl, dict, k)]] = k
<1>1. /\ DOMAIN elements = 1..Len(q) /\ Len(q) \in Nat
      /\ \A j \in 1..Len(q) : elements[j].key = sl.key[q[j]]
  BY DEF ent, entry, ListInv
<1>2. Places(k) \in SUBSET (1..Len(q)) /\ \A j \in 1..Len(q) : j \in Places(k) <=> sl.key[q[j]] = k
  BY <1>1 DEF Places
<1>3. IsFiniteSet(Places(k))
  <2>1. IsFiniteSet(1..Len(q))
    BY <1>1, FS_Interval
  <2> QED BY <1>2, <2>1, FS_Subset
<1>4. PICK i : Places(k) = {i}
  BY <1>3, FS_Singleton
<1>5. PICK j \in 1..Len(q) : entry(sl, q[j]) = [key |-> k, score |-> dict[k]]
  BY DEF Known
<1>6. sl.key[q[j]] = k
  BY <1>5 DEF entry
<1>7. i = j /\ \A m \in 1..Len(q) : sl.key[q[m]] = k => m = j
  BY <1>2, <1>4, <1>6
<1>8. rankOf(sl, dict, k) = j
  BY <1>5, <1>7, RankIs
<1> QED
  BY <1>4, <1>6, <1>7, <1>8

\* GetElementByRankASC of each rank is the element at that place of the list, and
\* GetRank of each key that has one place is that place: the searches through the
\* levels add up spans to the places a walk along the lowest level counts.
THEOREM RankAndElementAreInverse == Spec => []RanksAgree
<1>1. SkipInv => RanksAgree
  <2> SUFFICES ASSUME SkipInv PROVE RanksAgree
    OBVIOUS
  <2>1. PICK q, T : ListInv(sl, q, T) /\ Known(sl, q, dict) /\ elements = ent(sl, q)
    BY ListIs
  <2>2. /\ DOMAIN elements = 1..Len(q)
        /\ \A j \in 1..Len(q) : elements[j] = entry(sl, q[j])
    BY <2>1 DEF ent
  <2>3. \A j \in 1..Len(q) : GetElementByRankASC(j) = entry(sl, q[j])
    BY <2>1, RankASCIs
  <2>4. ASSUME NEW k \in Keys \ {0}, HasKey(k), Cardinality(Places(k)) = 1
        PROVE  Places(k) = {GetRank(k)}
    <3>1. dict[k] # NoScore /\ dict \in [Keys -> Scores \cup {NoScore}]
      BY <2>4 DEF HasKey, SkipInv, Good
    <3>2. Places(k) = {rankOf(sl, dict, k)}
      BY <2>1, <2>4, <3>1, OnePlace
    <3> QED BY <3>2, GetRankIs
  <2> QED BY <2>2, <2>3, <2>4 DEF RanksAgree
<1> QED
  BY Inductive, <1>1, PTL

LEMMA TopNDESCIs ==
  ASSUME NEW q, NEW T, ListInv(sl, q, T), NEW n \in {Len(q), MaxNodes}
  PROVE  GetTopNDESC(n) = [j \in 1..Len(q) |-> entry(sl, q[(Len(q) - j) + 1])]
<1>1. q \in Seq(Elems) /\ Len(q) \in Nat /\ Len(q) <= MaxNodes /\ MaxNodes \in Nat
  BY LengthBound, Names DEF ListInv
<1>2. PICK r : r = descending(sl)
  OBVIOUS
<1>3. Len(r) = Len(q) /\ \A j \in 1..Len(q) : r[j] = q[(Len(q) - j) + 1]
  <2>1. r = Reverse(q)
    BY <1>2, DescendingIs
  <2> QED BY <1>1, <2>1 DEF Reverse
<1>4. Min({n, Len(r)}) = Len(q)
  BY <1>1, <1>3, MinIs
<1>5. GetTopNDESC(n) = [j \in 1..Len(q) |-> entry(sl, r[j])]
  BY <1>2, <1>4 DEF GetTopNDESC, firstN
<1> QED
  BY <1>3, <1>5

\* The backward links from the tail list the elements in the reverse of the order of
\* the forward links: GetTopNDESC is GetTopN backwards.
THEOREM BackwardsIsReverse == Spec => []BothWays
<1>1. SkipInv => BothWays
  <2> SUFFICES ASSUME SkipInv PROVE BothWays
    OBVIOUS
  <2>1. PICK q, T : ListInv(sl, q, T) /\ elements = ent(sl, q)
    BY ListIs
  <2>2. GetTopNDESC(MaxNodes) = [j \in 1..Len(q) |-> entry(sl, q[(Len(q) - j) + 1])]
    BY <2>1, TopNDESCIs
  <2>3. /\ Len(elements) = Len(q) /\ Len(q) \in Nat
        /\ \A j \in 1..Len(q) : elements[j] = entry(sl, q[j])
    BY <2>1 DEF ent, ListInv
  <2>4. \A j \in 1..Len(q) : (Len(q) - j) + 1 \in 1..Len(q)
    BY <2>3
  <2>5. Reverse(elements) = [j \in 1..Len(q) |-> entry(sl, q[(Len(q) - j) + 1])]
    BY <2>3, <2>4 DEF Reverse
  <2> QED BY <2>2, <2>5 DEF BothWays
<1> QED
  BY Inductive, <1>1, PTL

\* GetRankDESC and GetElementByRankDESC, whose two lock sections nothing came between,
\* answer with the mirror image of the ascending reads.
THEOREM DescendingReadsMirror == Spec => []DescMirrors
<1>1. SkipInv => DescMirrors
  <2> SUFFICES ASSUME SkipInv, NEW p \in Procs, NEW c, c = call[p], NEW n, n = Len(elements)
               PROVE  /\ c.op = "GetRankDESC" /\ c.quiet /\ c.key # 0
                         /\ Cardinality(Places(c.key)) = 1 =>
                           \E j \in 1..n : j = descRank(c) /\ GetTopNDESC(n)[j].key = c.key
                      /\ c.op = "GetElementByRankDESC" /\ c.quiet =>
                           \A rank \in 1..n : descElement(c, rank) = GetTopNDESC(n)[rank]
    BY DEF DescMirrors
  <2>1. PICK q, T : ListInv(sl, q, T) /\ Known(sl, q, dict) /\ elements = ent(sl, q)
    BY ListIs
  <2>2. n = Len(q) /\ Len(q) \in Nat /\ sl.length = Len(q)
    BY <2>1 DEF ent, ListInv
  <2>3. GetTopNDESC(n) = [j \in 1..n |-> entry(sl, q[(n - j) + 1])]
    BY <2>1, <2>2, TopNDESCIs
  <2>4. Quiet(sl, dict, c) /\ c \in Calls /\ dict \in [Keys -> Scores \cup {NoScore}]
    BY DEF SkipInv, Good
  <2>5. ASSUME c.op = "GetRankDESC", c.quiet, c.key # 0, Cardinality(Places(c.key)) = 1
        PROVE  \E j \in 1..n : j = descRank(c) /\ GetTopNDESC(n)[j].key = c.key
    <3>1. dict[c.key] # NoScore /\ c.got = rankOf(sl, dict, c.key)
      BY <2>4, <2>5 DEF Quiet
    <3>2. c.key \in Keys
      BY <2>4, <2>5, CallIs DEF Idle
    <3>3. c.got \in 1..n /\ sl.key[q[c.got]] = c.key
      BY <2>1, <2>2, <2>4, <2>5, <3>1, <3>2, OnePlace
    <3>4. descRank(c) = (n - c.got) + 1 /\ (n - c.got) + 1 \in 1..n /\ (n - ((n - c.got) + 1)) + 1 = c.got
      BY <2>2, <3>3 DEF descRank, GetLenth
    <3>5. GetTopNDESC(n)[descRank(c)] = entry(sl, q[c.got])
      BY <2>3, <3>4
    <3> QED BY <3>3, <3>4, <3>5 DEF entry
  <2>6. ASSUME c.op = "GetElementByRankDESC", c.quiet, NEW rank \in 1..n
        PROVE  descElement(c, rank) = GetTopNDESC(n)[rank]
    <3>1. c.got = n
      BY <2>2, <2>4, <2>6 DEF Quiet
    <3>2. (n - rank) + 1 \in 1..n /\ n - rank + 1 = (n - rank) + 1
      BY <2>2
    <3>3. descElement(c, rank) = GetElementByRankASC((n - rank) + 1)
      BY <3>1, <3>2 DEF descElement
    <3>4. GetElementByRankASC((n - rank) + 1) = entry(sl, q[(n - rank) + 1])
      BY <2>1, <2>2, <3>2, RankASCIs
    <3> QED BY <2>3, <3>3, <3>4
  <2> QED BY <2>5, <2>6
<1> QED
  BY Inductive, <1>1, PTL

\* On every level the span of a link is the number of elements it passes, whatever the
\* levels the nodes were given: insert and Del compute them from differences of ranks.
THEOREM SpansAreDistances == Spec => []SpansMeasure
<1>1. SkipInv => SpansMeasure
  <2> DEFINE qq == <<Header>> \o ascending(sl)
             place(n) == IF n = Nil THEN Len(qq) ELSE CHOOSE j \in DOMAIN qq : qq[j] = n
             linked(i) == {Header} \cup {n \in ToSet(qq) : \E m \in ToSet(qq) : sl.forward[i][m] = n}
  <2> SUFFICES ASSUME SkipInv
               PROVE  /\ sl.length = Len(qq) - 1
                      /\ \A i \in 1..sl.level : \A n \in linked(i) :
                           sl.span[i][n] = place(sl.forward[i][n]) - place(n)
    BY DEF SpansMeasure, GetLenth, GetLevel
  <2>1. PICK q, T : ListInv(sl, q, T)
    BY ListIs
  <2>2. /\ q \in Seq(Elems) /\ Injective(q) /\ sl.length = Len(q) /\ Tower(T, Len(q), sl.level)
        /\ sl.level \in Levels
        /\ \A i \in Levels : Linked(sl.forward[i], q, T[i])
        /\ \A i \in 1..sl.level : Spanned(sl.span[i], q, T[i])
    BY <2>1, Fields DEF ListInv
  <2> DEFINE N == Len(q)
  <2>3. N \in Nat /\ \A j \in 1..N : q[j] \in Elems
    BY <2>2
  <2>4. ascending(sl) = q
    BY <2>1, AscendingIs
  <2>5. /\ Len(qq) = N + 1 /\ DOMAIN qq = 1..(N + 1) /\ qq[1] = Header
        /\ \A j \in 1..N : qq[j + 1] = q[j]
    BY <2>2, <2>3, <2>4
  <2>6. ASSUME NEW j \in 0..N PROVE qq[j + 1] = At(q, j) /\ j + 1 \in 1..(N + 1)
    BY <2>2, <2>3, <2>5, PlacesDiffer
  <2> HIDE DEF qq
  <2>7. /\ \A j \in 0..N : At(q, j) \in Nodes /\ At(q, j) # Nil
        /\ \A j, k \in 0..(N + 1) : At(q, j) = At(q, k) => j = k
        /\ At(q, 0) = Header /\ At(q, N + 1) = Nil
    BY <2>2, PlacesDiffer
  <2>8. ASSUME NEW j \in 0..N PROVE place(At(q, j)) = j + 1
    <3>1. ASSUME NEW i \in 1..(N + 1), qq[i] = At(q, j) PROVE i = j + 1
      <4>1. i - 1 \in 0..N /\ (i - 1) + 1 = i
        BY <2>3
      <4>2. qq[i] = At(q, i - 1)
        BY <2>6, <4>1
      <4>3. i - 1 \in 0..(N + 1) /\ j \in 0..(N + 1)
        BY <2>3, <4>1
      <4>4. i - 1 = j
        BY <2>7, <3>1, <4>2, <4>3
      <4> QED BY <2>3, <4>4
    <3>2. (CHOOSE i \in 1..(N + 1) : qq[i] = At(q, j)) = j + 1
      BY <2>6, <3>1
    <3> QED BY <2>5, <2>7, <3>2
  <2>9. place(Nil) = N + 1
    BY <2>5
  <2> HIDE DEF place
  <2>10. ASSUME NEW m \in ToSet(qq) PROVE \E j \in 0..N : m = At(q, j)
    <3>1. PICK i \in 1..(N + 1) : m = qq[i]
      BY <2>5 DEF ToSet
    <3>2. i - 1 \in 0..N /\ (i - 1) + 1 = i
      BY <2>3
    <3> QED BY <2>6, <3>1, <3>2
  <2>11. ASSUME NEW i \in 1..sl.level, NEW n \in linked(i)
         PROVE  sl.span[i][n] = place(sl.forward[i][n]) - place(n)
    <3>1. i \in Levels /\ T[i] \in SUBSET (0..N) /\ 0 \in T[i]
      <4>1. i \in Levels
        BY <2>2, Names
      <4> QED BY <2>2, <4>1 DEF Tower
    <3>2. Linked(sl.forward[i], q, T[i]) /\ Spanned(sl.span[i], q, T[i])
      BY <2>2, <3>1
    <3>3. PICK j \in T[i] : n = At(q, j)
      <4>1. CASE n = Header
        BY <2>7, <3>1, <4>1
      <4>2. CASE n # Header
        <5>1. PICK m \in ToSet(qq) : n \in ToSet(qq) /\ sl.forward[i][m] = n
          BY <2>11, <4>2
        <5>2. m \in Nodes /\ n # Nil
          BY <2>7, <2>10, <5>1
        <5>3. PICK u \in T[i] : m = At(q, u)
          BY <3>2, <5>1, <5>2 DEF Linked
        <5>4. PICK k \in 1..(N + 1) : Hop(T[i], N, u, k)
          BY <2>3, <3>1, HopExists
        <5>5. u \in 0..N /\ n = At(q, k)
          BY <3>1, <3>2, <5>1, <5>3, <5>4 DEF Linked
        <5>6. k \in T[i]
          BY <2>7, <5>2, <5>4, <5>5 DEF Hop
        <5> QED BY <5>5, <5>6
      <4> QED BY <4>1, <4>2
    <3>4. PICK k \in 1..(N + 1) : Hop(T[i], N, j, k)
      BY <2>3, <3>1, HopExists
    <3>5. j \in 0..N
      BY <3>1
    <3>6. sl.forward[i][n] = At(q, k) /\ sl.span[i][n] = dist(N, j, k)
      BY <3>2, <3>3, <3>4, <3>5 DEF Linked, Spanned
    <3>7. place(n) = j + 1
      BY <2>8, <3>3, <3>5
    <3>8. place(sl.forward[i][n]) = k + (IF k = N + 1 THEN 0 ELSE 1)
      <4>1. CASE k = N + 1
        BY <2>3, <2>7, <2>9, <3>6, <4>1
      <4>2. CASE k # N + 1
        <5>1. k \in 0..N
          BY <2>3, <4>2
        <5>2. place(At(q, k)) = k + 1
          BY <2>8, <5>1
        <5> QED BY <3>6, <4>2, <5>2
      <4> QED BY <4>1, <4>2
    <3> QED BY <2>3, <3>4, <3>5, <3>6, <3>7, <3>8 DEF dist
  <2>12. sl.length = Len(qq) - 1
    BY <2>2, <2>3, <2>5
  <2> QED BY <2>11, <2>12
<1> QED
  BY Inductive, <1>1, PTL

\* The contract's InsertAt and RemoveAt are ours.
LEMMA SameOperators ==
  /\ \A a, n, e : Sorted!InsertAt(a, n, e) = InsertAt(a, n, e)
  /\ \A a, n : Sorted!RemoveAt(a, n) = RemoveAt(a, n)
BY DEF Sorted!InsertAt, Sorted!RemoveAt, InsertAt, RemoveAt

LEMMA DropStep ==
  ASSUME NEW k \in Keys, DropsOf(k), dict \in [Keys -> Scores \cup {NoScore}]
  PROVE  [Sorted!Next]_<<elements, dict>>
<1>1. CASE dict[k] # NoScore
  <2>1. Sorted!Drop(k)
    <3>1. PICK e : e = [key |-> k, score |-> dict[k]]
      OBVIOUS
    <3>2. PICK n \in 1..Len(elements) :
            /\ elements[n] = e /\ \A j \in 1..n - 1 : elements[j] # e
            /\ elements' = RemoveAt(elements, n)
      <4>1. Drops(elements, elements', e)
        BY <1>1, <3>1 DEF DropsOf
      <4> QED BY <4>1 DEF Drops
    <3>3. elements' = Sorted!RemoveAt(elements, n) /\ dict' = [dict EXCEPT ![k] = NoScore]
      BY <3>2, SameOperators DEF DropsOf
    <3> QED BY <1>1, <3>1, <3>2, <3>3 DEF Sorted!Drop
  <2> QED BY <2>1 DEF Sorted!Next
<1>2. CASE dict[k] = NoScore
  <2>1. elements' = elements /\ dict' = dict
    BY <1>2 DEF DropsOf
  <2> QED BY <2>1
<1> QED
  BY <1>1, <1>2

LEMMA PutIsPut ==
  ASSUME NEW k \in Keys, NEW sc \in Scores, Puts(elements, elements', k, sc),
         dict' = [dict EXCEPT ![k] = sc]
  PROVE  Sorted!Next
<1>1. Sorted!Put(k, sc)
  <2>1. PICK e : e = [key |-> k, score |-> sc]
    OBVIOUS
  <2>2. PICK n \in 0..Len(elements) :
          /\ \A j \in 1..Len(elements) : Sorted!Before(elements[j], e) <=> j <= n
          /\ elements' = InsertAt(elements, n + 1, e)
    BY <2>1 DEF Puts
  <2>3. elements' = Sorted!InsertAt(elements, n + 1, e)
    BY <2>2, SameOperators
  <2> QED BY <2>1, <2>2, <2>3 DEF Sorted!Put
<1> QED
  BY <1>1 DEF Sorted!Next

\* The skip list implements the sorted sequence of SortedContract: insert puts an entry
\* in its place by score and key, Del takes the first one equal to the map's entry out,
\* and nothing else changes what a walk along the lowest level meets.
THEOREM ImplementsSortedSet == Spec => IsSortedSet
<1>1. Init => Sorted!Init
  <2> SUFFICES ASSUME Init PROVE Sorted!Init
    OBVIOUS
  <2>1. sl = newSkipList /\ dict = [k \in Keys |-> NoScore]
    BY DEF Init
  <2>2. ListInv(sl, <<>>, [i \in Levels |-> {0}])
    BY <2>1, NewIsList
  <2>3. elements = ent(sl, <<>>)
    BY <2>2, ElementsAre
  <2>4. elements = <<>>
    BY <2>3 DEF ent
  <2> QED BY <2>1, <2>4 DEF Sorted!Init
<1>2. SkipInv /\ [Next]_vars => [Sorted!Next]_<<elements, dict>>
  <2> SUFFICES ASSUME SkipInv, [Next]_vars PROVE [Sorted!Next]_<<elements, dict>>
    OBVIOUS
  <2>0. dict \in [Keys -> Scores \cup {NoScore}]
    BY DEF SkipInv, Good
  <2>1. ASSUME sl' = sl, dict' = dict PROVE [Sorted!Next]_<<elements, dict>>
    BY <2>1, ElementsOf
  <2>2. ASSUME NEW p \in Procs, NEW k \in Keys, Del(p, k) PROVE [Sorted!Next]_<<elements, dict>>
    BY <2>0, <2>2, DelKeeps, DropStep
  <2>3. ASSUME NEW p \in Procs, NEW k \in Keys, SetDel(p, k) PROVE [Sorted!Next]_<<elements, dict>>
    BY <2>0, <2>3, SetDelKeeps, DropStep
  <2>4. ASSUME NEW p \in Procs, NEW sc \in Scores, NEW L \in Levels, SetInsert(p, sc, L)
        PROVE  [Sorted!Next]_<<elements, dict>>
    <3>1. PICK k \in Keys : Puts(elements, elements', k, sc) /\ dict' = [dict EXCEPT ![k] = sc]
      BY <2>4, SetInsertKeeps
    <3>2. Sorted!Next
      BY <3>1, PutIsPut
    <3> QED BY <3>2
  <2>5. ASSUME NEW p \in Procs, NEW k \in Keys, GetRankDESC(p, k) PROVE sl' = sl /\ dict' = dict
    BY <2>5 DEF GetRankDESC
  <2>6. ASSUME NEW p \in Procs, GetElementByRankDESC(p) PROVE sl' = sl /\ dict' = dict
    BY <2>6 DEF GetElementByRankDESC
  <2>7. ASSUME NEW p \in Procs, DescReturn(p) PROVE sl' = sl /\ dict' = dict
    BY <2>7 DEF DescReturn
  <2>8. UNCHANGED vars => sl' = sl /\ dict' = dict
    BY DEF vars
  <2> QED BY <2>1, <2>2, <2>3, <2>4, <2>5, <2>6, <2>7, <2>8 DEF Next
<1> QED
  BY Inductive, <1>1, <1>2, PTL DEF Spec, IsSortedSet, Sorted!Spec
=============================================================================
