---------------------------- MODULE GoListProofs ----------------------------
(***************************************************************************)
(* Facts about the ring of container/list, on which the proofs about Queue *)
(* and Stack rest: as long as the links form a ring through the root, what *)
(* a walk meets is a sequence, and each operation edits that sequence.     *)
(***************************************************************************)
EXTENDS GoList, FiniteSetTheorems, SequenceTheorems, TLAPS

\* The node at place n of the ring of s; the root is at both of its ends.
At(s, n) == IF n = 0 \/ n = Len(s) + 1 THEN Root ELSE s[n]

In(x, s) == \E n \in 1..Len(s) : s[n] = x

Injective(s) == \A n, m \in 1..Len(s) : s[n] = s[m] => n = m

\* s is what the links of l run through, in both directions.
Ring(l, s) ==
  /\ s \in Seq(Elems)
  /\ Injective(s)
  /\ \A n \in 0..Len(s) : /\ l.next[At(s, n)] = At(s, n + 1)
                          /\ l.prev[At(s, n + 1)] = At(s, n)

\* s without its n-th element.
Without(s, n) == SubSeq(s, 1, n - 1) \o SubSeq(s, n + 1, Len(s))

-----------------------------------------------------------------------------
(***************************************************************************)
(* Induction, as a fact about sets of numbers: the smallest number that is *)
(* not in the set would have a smaller one.                                *)
(***************************************************************************)
LEMMA SetInduction ==
  ASSUME NEW S, 0 \in S, \A n \in Nat : n \in S => n + 1 \in S
  PROVE  \A n \in Nat : n \in S
<1> SUFFICES ASSUME NEW m \in Nat, m \notin S PROVE FALSE
  OBVIOUS
<1> DEFINE T == {n \in 0..m : n \notin S}
<1>1. IsFiniteSet(T)
  <2>1. IsFiniteSet(0..m)
    BY FS_Interval
  <2> QED BY <2>1, FS_Subset
<1>2. m \in T
  OBVIOUS
<1>3. \A n \in T : n - 1 \in T /\ n \in Nat /\ n <= m
  OBVIOUS
<1> DEFINE f == [n \in T |-> n - 1]
<1> HIDE DEF T
<1>4. f \in [T -> T \ {m}]
  BY <1>3
<1>5. IsFiniteSet(T \ {m}) /\ Cardinality(T \ {m}) = Cardinality(T) - 1
  BY <1>1, <1>2, FS_RemoveElement
<1>6. Cardinality(T) \in Nat
  BY <1>1, FS_CardinalityType
<1>7. \E x, y \in T : x # y /\ f[x] = f[y]
  <2> HIDE DEF f
  <2> QED
    BY <1>1, <1>4, <1>5, <1>6, FS_PigeonHole
<1> QED
  BY <1>3, <1>7

-----------------------------------------------------------------------------
(***************************************************************************)
(* The walk.  met is the body of the recursive function in from.           *)
(***************************************************************************)
met(l, n, r) ==
  [e \in Nodes \cup {Nil} |->
     IF n = 0 \/ e \in {Root, Nil} THEN <<>> ELSE <<e>> \o r[l.next[e]]]

LEMMA WalkExists ==
  ASSUME NEW l
  PROVE  \E h : h = [n \in 0..MaxElems |-> met(l, n, h[n - 1])]
<1> DEFINE IsWalk(h, N) == h = [n \in 0..N |-> met(l, n, h[n - 1])]
           S == {N \in Nat : \E h : IsWalk(h, N)}
<1>1. 0 \in S
  <2> DEFINE h == [n \in 0..0 |-> met(l, 0, <<>>)]
  <2>1. \A n \in 0..0 : met(l, n, h[n - 1]) = met(l, 0, <<>>)
    BY DEF met
  <2>2. IsWalk(h, 0)
    BY <2>1
  <2> QED BY <2>2
<1>2. ASSUME NEW N \in Nat, N \in S PROVE N + 1 \in S
  <2>1. PICK h : IsWalk(h, N)
    BY <1>2
  <2> DEFINE g == [n \in 0..(N + 1) |-> met(l, n, h[n - 1])]
  <2>2. \A n \in 0..N : g[n] = h[n]
    BY <2>1
  <2>3. ASSUME NEW n \in 0..(N + 1) PROVE met(l, n, h[n - 1]) = met(l, n, g[n - 1])
    <3>1. CASE n = 0
      BY <3>1 DEF met
    <3>2. CASE n # 0
      <4>1. n - 1 \in 0..N
        BY <3>2
      <4> QED BY <4>1, <2>2
    <3> QED BY <3>1, <3>2
  <2>4. IsWalk(g, N + 1)
    BY <2>3
  <2> HIDE DEF g, IsWalk
  <2> QED BY <2>4
<1> HIDE DEF S
<1>3. MaxElems \in S
  BY <1>1, <1>2, SetInduction, GoListConstants
<1> QED
  BY <1>3 DEF S

LEMMA FromUnfolds ==
  ASSUME NEW l
  PROVE  from(l) = [n \in 0..MaxElems |-> met(l, n, from(l)[n - 1])]
<1>1. PICK h : h = [n \in 0..MaxElems |-> met(l, n, h[n - 1])]
  BY WalkExists
<1> QED
  BY <1>1 DEF from, met

LEMMA WalkGoesOn ==
  ASSUME NEW l, NEW n \in 1..MaxElems, NEW e \in Elems
  PROVE  from(l)[n][e] = <<e>> \o from(l)[n - 1][l.next[e]]
<1>1. from(l)[n] = met(l, n, from(l)[n - 1])
  BY FromUnfolds, GoListConstants
<1>2. n # 0 /\ e \notin {Root, Nil} /\ e \in Nodes
  BY GoListConstants DEF Elems, Root, Nil, Nodes
<1> QED
  BY <1>1, <1>2 DEF met

LEMMA WalkEnds ==
  ASSUME NEW l, NEW n \in 0..MaxElems
  PROVE  from(l)[n][Root] = <<>>
<1>1. from(l)[n] = met(l, n, from(l)[n - 1])
  BY FromUnfolds, GoListConstants
<1> QED
  BY <1>1 DEF met, Nodes

-----------------------------------------------------------------------------
(***************************************************************************)
(* Around the ring: at k elements from its end a walk meets the last k     *)
(* elements of s.  The bound of contents is never reached.                 *)
(***************************************************************************)
LEMMA ContentsOfRing ==
  ASSUME NEW l, NEW s, Ring(l, s), Len(s) <= MaxElems
  PROVE  contents(l) = s
<1> USE GoListConstants
<1>1. s \in Seq(Elems) /\ Len(s) \in Nat
  BY DEF Ring
<1> DEFINE Meets(k) ==
             k <= Len(s) =>
               \A n \in k..MaxElems :
                 from(l)[n][At(s, Len(s) + 1 - k)] = SubSeq(s, Len(s) + 1 - k, Len(s))
           S == {k \in Nat : Meets(k)}
<1>2. 0 \in S
  <2>1. At(s, Len(s) + 1 - 0) = Root
    BY <1>1 DEF At
  <2>2. SubSeq(s, Len(s) + 1 - 0, Len(s)) = <<>>
    BY <1>1
  <2> QED BY <2>1, <2>2, WalkEnds
<1>3. ASSUME NEW k \in Nat, k \in S PROVE k + 1 \in S
  <2> SUFFICES ASSUME k + 1 <= Len(s), NEW n \in (k + 1)..MaxElems
               PROVE  from(l)[n][At(s, Len(s) + 1 - (k + 1))]
                        = SubSeq(s, Len(s) + 1 - (k + 1), Len(s))
    OBVIOUS
  <2> DEFINE p == Len(s) - k
  <2>1. p \in 1..Len(s) /\ Len(s) + 1 - (k + 1) = p /\ Len(s) + 1 - k = p + 1
    BY <1>1
  <2> HIDE DEF p
  <2>2. s[p] \in Elems /\ At(s, p) = s[p] /\ l.next[s[p]] = At(s, p + 1)
    <3>1. At(s, p) = s[p]
      BY <1>1, <2>1 DEF At
    <3>2. l.next[At(s, p)] = At(s, p + 1)
      BY <1>1, <2>1 DEF Ring
    <3> QED BY <1>1, <2>1, <3>1, <3>2
  <2>3. from(l)[n][s[p]] = <<s[p]>> \o from(l)[n - 1][At(s, p + 1)]
    <3>1. n \in 1..MaxElems
      OBVIOUS
    <3> QED BY <2>2, <3>1, WalkGoesOn
  <2>4. from(l)[n - 1][At(s, p + 1)] = SubSeq(s, p + 1, Len(s))
    <3>1. n - 1 \in k..MaxElems /\ k <= Len(s)
      BY <1>1
    <3> QED BY <1>3, <2>1, <3>1
  <2>5. <<s[p]>> \o SubSeq(s, p + 1, Len(s)) = SubSeq(s, p, Len(s))
    BY <1>1, <2>1, SubSeqRecursiveFirst
  <2> QED BY <2>1, <2>2, <2>3, <2>4, <2>5
<1> HIDE DEF S
<1>4. Len(s) \in S
  BY <1>1, <1>2, <1>3, SetInduction
<1>5. from(l)[MaxElems][At(s, 1)] = SubSeq(s, 1, Len(s))
  BY <1>1, <1>4 DEF S
<1>6. l.next[Root] = At(s, 1)
  BY <1>1 DEF Ring, At
<1>7. SubSeq(s, 1, Len(s)) = s
  BY <1>1
<1> QED
  BY <1>5, <1>6, <1>7 DEF contents

-----------------------------------------------------------------------------
(***************************************************************************)
(* Places in the ring.                                                     *)
(***************************************************************************)
LEMMA PlacesDiffer ==
  ASSUME NEW s \in Seq(Elems), Injective(s)
  PROVE  /\ Len(s) \in Nat
         /\ \A n \in 0..(Len(s) + 1) : At(s, n) \in Nodes
         /\ \A n \in 1..Len(s) : At(s, n) = s[n] /\ s[n] \in Elems /\ s[n] # Root
         /\ At(s, 0) = Root /\ At(s, Len(s) + 1) = Root
         /\ \A n, m \in 0..Len(s) : At(s, n) = At(s, m) => n = m
         /\ \A n, m \in 1..(Len(s) + 1) : At(s, n) = At(s, m) => n = m
<1>1. Len(s) \in Nat
  OBVIOUS
<1>2. \A n \in 1..Len(s) : At(s, n) = s[n] /\ s[n] \in Elems /\ s[n] # Root
  BY <1>1, GoListConstants DEF At, Elems, Root
<1>3. At(s, 0) = Root /\ At(s, Len(s) + 1) = Root
  BY DEF At
<1>4. \A n \in 0..(Len(s) + 1) : n = 0 \/ n = Len(s) + 1 \/ n \in 1..Len(s)
  BY <1>1
<1>5. \A n \in 0..(Len(s) + 1) : At(s, n) \in Nodes
  BY <1>2, <1>3, <1>4 DEF Nodes
<1>6. ASSUME NEW n \in 0..Len(s), NEW m \in 0..Len(s), At(s, n) = At(s, m) PROVE n = m
  <2>1. (n = 0 \/ n \in 1..Len(s)) /\ (m = 0 \/ m \in 1..Len(s))
    BY <1>1
  <2> QED BY <1>2, <1>3, <1>6, <2>1 DEF Injective
<1>7. ASSUME NEW n \in 1..(Len(s) + 1), NEW m \in 1..(Len(s) + 1), At(s, n) = At(s, m)
      PROVE  n = m
  <2>1. (n = Len(s) + 1 \/ n \in 1..Len(s)) /\ (m = Len(s) + 1 \/ m \in 1..Len(s))
    BY <1>1
  <2> QED BY <1>2, <1>3, <1>7, <2>1 DEF Injective
<1> QED
  BY <1>1, <1>2, <1>3, <1>5, <1>6, <1>7

LEMMA PlacesWithout ==
  ASSUME NEW s \in Seq(Elems), Injective(s), NEW n \in 1..Len(s),
         NEW t, t = Without(s, n)
  PROVE  /\ t \in Seq(Elems) /\ Len(t) = Len(s) - 1
         /\ Injective(t)
         /\ \A i \in 0..Len(s) : At(t, i) = IF i < n THEN At(s, i) ELSE At(s, i + 1)
         /\ \A x : In(x, t) <=> x # s[n] /\ In(x, s)
<1> DEFINE a == SubSeq(s, 1, n - 1)
           b == SubSeq(s, n + 1, Len(s))
<1>1. a \in Seq(Elems) /\ Len(a) = n - 1 /\ \A i \in 1..(n - 1) : a[i] = s[i]
  BY SubSeqProperties
<1>2. b \in Seq(Elems) /\ Len(b) = Len(s) - n /\ \A i \in 1..(Len(s) - n) : b[i] = s[i + n]
  BY SubSeqProperties
<1>3. t = a \o b
  BY DEF Without
<1> HIDE DEF a, b
<1>4. t \in Seq(Elems) /\ Len(t) = Len(s) - 1
  <2>1. t \in Seq(Elems) /\ Len(t) = Len(a) + Len(b)
    BY <1>1, <1>2, <1>3, ConcatProperties
  <2> QED BY <1>1, <1>2, <2>1
<1>5. \A i \in 1..(Len(s) - 1) : t[i] = IF i < n THEN s[i] ELSE s[i + 1]
  <2> SUFFICES ASSUME NEW i \in 1..(Len(s) - 1)
               PROVE  t[i] = IF i < n THEN s[i] ELSE s[i + 1]
    OBVIOUS
  <2>1. t[i] = IF i <= Len(a) THEN a[i] ELSE b[i - Len(a)]
    BY <1>1, <1>2, <1>3, ConcatProperties
  <2>2. CASE i < n
    BY <1>1, <2>1, <2>2
  <2>3. CASE ~(i < n)
    <3>1. i - (n - 1) \in 1..(Len(s) - n)
      BY <2>3
    <3>2. b[i - (n - 1)] = s[i + 1]
      BY <1>2, <3>1
    <3> QED BY <1>1, <2>1, <2>3, <3>2
  <2> QED BY <2>2, <2>3
<1>6. Injective(t)
  <2> SUFFICES ASSUME NEW i \in 1..Len(t), NEW j \in 1..Len(t), t[i] = t[j]
               PROVE  i = j
    BY DEF Injective
  <2>1. i \in 1..(Len(s) - 1) /\ j \in 1..(Len(s) - 1)
    BY <1>4
  <2>2. \A x, y \in 1..Len(s) : s[x] = s[y] => x = y
    BY DEF Injective
  <2>3. CASE i < n /\ j < n
    BY <1>5, <2>1, <2>2, <2>3
  <2>4. CASE i < n /\ ~(j < n)
    BY <1>5, <2>1, <2>2, <2>4
  <2>5. CASE ~(i < n) /\ j < n
    BY <1>5, <2>1, <2>2, <2>5
  <2>6. CASE ~(i < n) /\ ~(j < n)
    BY <1>5, <2>1, <2>2, <2>6
  <2> QED BY <2>3, <2>4, <2>5, <2>6
<1>7. ASSUME NEW i \in 0..Len(s)
      PROVE  At(t, i) = IF i < n THEN At(s, i) ELSE At(s, i + 1)
  BY <1>4, <1>5 DEF At
<1>8. ASSUME NEW i \in 1..Len(t) PROVE t[i] # s[n] /\ In(t[i], s)
  BY <1>4, <1>5 DEF Injective, In
<1>9. ASSUME NEW i \in 1..Len(s), s[i] # s[n] PROVE In(s[i], t)
  <2>1. CASE i < n
    BY <1>4, <1>5, <2>1 DEF In
  <2>2. CASE i > n
    <3>1. i - 1 \in 1..Len(t) /\ t[i - 1] = s[i]
      BY <1>4, <1>5, <2>2
    <3> QED BY <3>1 DEF In
  <2> QED BY <1>9, <2>1, <2>2
<1>10. ASSUME NEW x PROVE In(x, t) <=> x # s[n] /\ In(x, s)
  <2>1. ASSUME In(x, t) PROVE x # s[n] /\ In(x, s)
    <3>1. PICK i \in 1..Len(t) : t[i] = x
      BY <2>1 DEF In
    <3> QED BY <1>8, <3>1
  <2>2. ASSUME x # s[n], In(x, s) PROVE In(x, t)
    <3>1. PICK i \in 1..Len(s) : s[i] = x
      BY <2>2 DEF In
    <3> QED BY <1>9, <2>2, <3>1
  <2> QED BY <2>1, <2>2
<1> QED
  BY <1>4, <1>6, <1>7, <1>10

LEMMA PlacesAppended ==
  ASSUME NEW s \in Seq(Elems), Injective(s), NEW e \in Elems,
         ~In(e, s)
  PROVE  /\ Append(s, e) \in Seq(Elems) /\ Len(Append(s, e)) = Len(s) + 1
         /\ Injective(Append(s, e))
         /\ \A i \in 0..Len(s) : At(Append(s, e), i) = At(s, i)
         /\ At(Append(s, e), Len(s) + 1) = e /\ At(Append(s, e), Len(s) + 2) = Root
         /\ \A x : In(x, Append(s, e)) <=> x = e \/ In(x, s)
<1> DEFINE t == Append(s, e)
<1>1. t \in Seq(Elems) /\ Len(t) = Len(s) + 1 /\ Len(s) \in Nat
  OBVIOUS
<1>2. t[Len(s) + 1] = e /\ \A i \in 1..Len(s) : t[i] = s[i]
  OBVIOUS
<1> HIDE DEF t
<1>3. Injective(t)
  BY <1>1, <1>2 DEF Injective, In
<1>4. /\ \A i \in 0..Len(s) : At(t, i) = At(s, i)
      /\ At(t, Len(s) + 1) = e /\ At(t, Len(s) + 2) = Root
  BY <1>1, <1>2 DEF At
<1>5. \A x : In(x, t) <=> x = e \/ In(x, s)
  BY <1>1, <1>2 DEF In
<1> QED
  BY <1>1, <1>3, <1>4, <1>5 DEF t

-----------------------------------------------------------------------------
(***************************************************************************)
(* Links.  Taking the n-th element out of a ring leaves the ring of the    *)
(* others, whatever becomes of its own two links.                          *)
(***************************************************************************)
LEMMA Unlinked ==
  ASSUME NEW l \in List, NEW s, Ring(l, s), NEW n \in 1..Len(s),
         NEW m, \A x \in Nodes \ {s[n]} : /\ m.next[x] = unlink(l, s[n]).next[x]
                                          /\ m.prev[x] = unlink(l, s[n]).prev[x]
  PROVE  Ring(m, Without(s, n))
<1> DEFINE e == s[n]
           t == Without(s, n)
<1>1. s \in Seq(Elems) /\ Injective(s)
  BY DEF Ring
<1>2. /\ l.next \in [Nodes -> Nodes \cup {Nil}] /\ l.prev \in [Nodes -> Nodes \cup {Nil}]
  BY DEF List
<1>3. l.next[e] = At(s, n + 1) /\ l.prev[e] = At(s, n - 1)
  <2>1. At(s, n) = e
    BY <1>1, PlacesDiffer
  <2>2. l.next[At(s, n)] = At(s, n + 1)
    BY DEF Ring
  <2>3. n - 1 \in 0..Len(s) /\ (n - 1) + 1 = n
    BY <1>1
  <2>4. l.prev[At(s, n)] = At(s, n - 1)
    BY <2>3 DEF Ring
  <2> QED BY <2>1, <2>2, <2>4
<1>4. /\ unlink(l, e).next = [l.next EXCEPT ![At(s, n - 1)] = At(s, n + 1)]
      /\ unlink(l, e).prev = [l.prev EXCEPT ![At(s, n + 1)] = At(s, n - 1)]
  BY <1>3 DEF unlink, List
<1>5. t \in Seq(Elems) /\ Len(t) = Len(s) - 1 /\ Injective(t)
  BY <1>1, PlacesWithout
<1>6. \A i \in 0..Len(s) : At(t, i) = IF i < n THEN At(s, i) ELSE At(s, i + 1)
  BY <1>1, PlacesWithout
<1>7. /\ \A i \in 0..(Len(s) + 1) : At(s, i) \in Nodes
      /\ \A i, j \in 0..Len(s) : At(s, i) = At(s, j) => i = j
      /\ \A i, j \in 1..(Len(s) + 1) : At(s, i) = At(s, j) => i = j
      /\ At(s, n) = e /\ e # Root /\ At(s, 0) = Root /\ At(s, Len(s) + 1) = Root
      /\ Len(s) \in Nat
  BY <1>1, PlacesDiffer
<1>8. \A i \in 0..Len(s) : l.next[At(s, i)] = At(s, i + 1) /\ l.prev[At(s, i + 1)] = At(s, i)
  BY DEF Ring
<1>9. \A i \in 0..(Len(s) + 1) : i # n => At(s, i) # e
  <2> SUFFICES ASSUME NEW i \in 0..(Len(s) + 1), i # n, At(s, i) = e PROVE FALSE
    OBVIOUS
  <2>1. i \in 0..Len(s) \/ i = Len(s) + 1
    BY <1>7
  <2> QED BY <1>7, <2>1
<1> HIDE DEF e, t
<1>10. ASSUME NEW i \in 0..(Len(s) - 1)
       PROVE  m.next[At(t, i)] = At(t, i + 1) /\ m.prev[At(t, i + 1)] = At(t, i)
  <2>1. CASE i < n - 1
    <3>1. At(t, i) = At(s, i) /\ At(t, i + 1) = At(s, i + 1)
      BY <1>6, <1>7, <2>1
    <3>2. /\ At(s, i) # At(s, n - 1) /\ At(s, i + 1) # At(s, n + 1)
          /\ At(s, i) # e /\ At(s, i + 1) # e
      BY <1>7, <1>9, <2>1
    <3>3. At(s, i) \in Nodes /\ At(s, i + 1) \in Nodes
      BY <1>7
    <3> QED BY <1>2, <1>4, <1>8, <3>1, <3>2, <3>3 DEF e
  <2>2. CASE i = n - 1
    <3>1. At(t, i) = At(s, n - 1) /\ At(t, i + 1) = At(s, n + 1)
      BY <1>6, <1>7, <2>2
    <3>2. At(s, n - 1) # e /\ At(s, n + 1) # e /\ At(s, n - 1) \in Nodes /\ At(s, n + 1) \in Nodes
      BY <1>7, <1>9
    <3> QED BY <1>2, <1>4, <3>1, <3>2 DEF e
  <2>3. CASE i > n - 1
    <3>1. At(t, i) = At(s, i + 1) /\ At(t, i + 1) = At(s, i + 2) /\ i + 1 \in 0..Len(s)
      BY <1>6, <1>7, <2>3
    <3>2. At(s, i + 1) # At(s, n - 1) /\ At(s, i + 2) # At(s, n + 1)
      BY <1>7, <2>3
    <3>3. At(s, i + 1) # e /\ At(s, i + 2) # e
      BY <1>7, <1>9, <2>3
    <3>4. At(s, i + 1) \in Nodes /\ At(s, i + 2) \in Nodes
      BY <1>7
    <3>5. l.next[At(s, i + 1)] = At(s, i + 2) /\ l.prev[At(s, i + 2)] = At(s, i + 1)
      BY <1>8, <3>1
    <3> QED BY <1>2, <1>4, <3>1, <3>2, <3>3, <3>4, <3>5 DEF e
  <2> QED BY <2>1, <2>2, <2>3
<1> QED
  BY <1>5, <1>10 DEF Ring, t

(***************************************************************************)
(* Putting a new element in between the last one and the root.             *)
(***************************************************************************)
LEMMA Linked ==
  ASSUME NEW l \in List, NEW s, Ring(l, s),
         NEW e \in Elems, ~In(e, s),
         NEW m, m.next = linkAfter(l, e, l.prev[Root]).next,
                m.prev = linkAfter(l, e, l.prev[Root]).prev
  PROVE  Ring(m, Append(s, e))
<1> DEFINE t == Append(s, e)
           k == Len(s)
           last == At(s, k)
<1>1. s \in Seq(Elems) /\ Injective(s)
  BY DEF Ring
<1>2. /\ l.next \in [Nodes -> Nodes \cup {Nil}] /\ l.prev \in [Nodes -> Nodes \cup {Nil}]
  BY DEF List
<1>3. /\ k \in Nat
      /\ \A i \in 0..(k + 1) : At(s, i) \in Nodes
      /\ \A i, j \in 0..k : At(s, i) = At(s, j) => i = j
      /\ \A i, j \in 1..(k + 1) : At(s, i) = At(s, j) => i = j
      /\ At(s, 0) = Root /\ At(s, k + 1) = Root
      /\ \A i \in 1..k : At(s, i) = s[i]
  BY <1>1, PlacesDiffer
<1>4. e # Root /\ e \in Nodes /\ Root \in Nodes
  BY GoListConstants DEF Elems, Root, Nodes
<1>5. \A i \in 0..k : l.next[At(s, i)] = At(s, i + 1) /\ l.prev[At(s, i + 1)] = At(s, i)
  BY DEF Ring
<1>6. l.prev[Root] = last /\ l.next[last] = Root /\ last \in Nodes
  BY <1>3, <1>5
<1>7. \A i \in 0..(k + 1) : At(s, i) # e
  <2> SUFFICES ASSUME NEW i \in 0..(k + 1) PROVE At(s, i) # e
    OBVIOUS
  <2>1. i = 0 \/ i = k + 1 \/ i \in 1..k
    BY <1>3
  <2> QED BY <1>3, <1>4, <2>1 DEF In
<1>8. /\ m.next = [l.next EXCEPT ![e] = Root, ![last] = e]
      /\ m.prev = [l.prev EXCEPT ![Root] = e, ![e] = last]
  BY <1>6 DEF linkAfter, List
<1>9. /\ t \in Seq(Elems) /\ Len(t) = k + 1 /\ Injective(t)
      /\ \A i \in 0..k : At(t, i) = At(s, i)
      /\ At(t, k + 1) = e /\ At(t, k + 2) = Root
  BY <1>1, PlacesAppended
<1> HIDE DEF t, k, last
<1>10. ASSUME NEW i \in 0..(k + 1)
       PROVE  m.next[At(t, i)] = At(t, i + 1) /\ m.prev[At(t, i + 1)] = At(t, i)
  <2>1. CASE i < k
    <3>1. At(t, i) = At(s, i) /\ At(t, i + 1) = At(s, i + 1)
      BY <1>3, <1>9, <2>1
    <3>2. At(s, i) # last /\ At(s, i + 1) # Root
      <4>1. i \in 0..k /\ k \in 0..k /\ i # k
        BY <1>3, <2>1
      <4>2. i + 1 \in 1..(k + 1) /\ k + 1 \in 1..(k + 1) /\ i + 1 # k + 1
        BY <1>3, <2>1
      <4>3. At(s, i) # At(s, k)
        BY <1>3, <4>1
      <4>4. At(s, i + 1) # At(s, k + 1)
        BY <1>3, <4>2
      <4> QED BY <1>3, <4>3, <4>4 DEF last
    <3>3. /\ At(s, i) \in Nodes /\ At(s, i + 1) \in Nodes
          /\ At(s, i) # e /\ At(s, i + 1) # e
      BY <1>3, <1>7, <2>1
    <3>4. l.next[At(s, i)] = At(s, i + 1) /\ l.prev[At(s, i + 1)] = At(s, i)
      BY <1>3, <1>5, <2>1
    <3> QED BY <1>2, <1>8, <3>1, <3>2, <3>3, <3>4
  <2>2. CASE i = k
    <3>1. At(t, i) = last /\ At(t, i + 1) = e
      BY <1>3, <1>9, <2>2 DEF last
    <3> QED BY <1>2, <1>4, <1>6, <1>8, <3>1
  <2>3. CASE i = k + 1
    <3>1. At(t, i) = e /\ At(t, i + 1) = Root
      BY <1>3, <1>9, <2>3
    <3>2. last # e
      BY <1>3, <1>7 DEF last
    <3> QED BY <1>2, <1>4, <1>6, <1>8, <3>1, <3>2
  <2> QED BY <1>3, <2>1, <2>2, <2>3
<1> QED
  BY <1>3, <1>9, <1>10 DEF Ring, t

-----------------------------------------------------------------------------
(***************************************************************************)
(* The operations.  Elements of the list point to nodes; the others keep   *)
(* whatever the operations of the past left them.                          *)
(***************************************************************************)
Pointing(l) == \A e \in l.mine \cup {Root} : l.next[e] \in Nodes /\ l.prev[e] \in Nodes

LEMMA NewListIsEmpty ==
  NewList \in List /\ Pointing(NewList) /\ Ring(NewList, <<>>)
<1> USE GoListConstants DEF Elems, Nodes, Root, Nil
<1>1. NewList \in List
  BY DEF NewList, List
<1>2. Pointing(NewList)
  BY DEF NewList, Pointing
<1>3. Ring(NewList, <<>>)
  BY DEF NewList, Ring, At, Injective
<1> QED
  BY <1>1, <1>2, <1>3

LEMMA InitEmpties ==
  ASSUME NEW l \in List, Pointing(l)
  PROVE  /\ ListInit(l) \in List /\ Pointing(ListInit(l)) /\ Ring(ListInit(l), <<>>)
         /\ ListInit(l).mine = l.mine /\ ListInit(l).len = 0
<1> DEFINE m == ListInit(l)
<1>1. Root \in Nodes
  BY DEF Nodes
<1>2. /\ m.next = [l.next EXCEPT ![Root] = Root] /\ m.prev = [l.prev EXCEPT ![Root] = Root]
      /\ m.mine = l.mine /\ m.len = 0
  BY DEF ListInit, List
<1>4. /\ l.next \in [Nodes -> Nodes \cup {Nil}] /\ l.prev \in [Nodes -> Nodes \cup {Nil}]
      /\ l.mine \in SUBSET Elems
  BY DEF List
<1>3. m \in List
  <2>1. [l.next EXCEPT ![Root] = Root] \in [Nodes -> Nodes \cup {Nil}]
    BY <1>1, <1>4
  <2>2. [l.prev EXCEPT ![Root] = Root] \in [Nodes -> Nodes \cup {Nil}]
    BY <1>1, <1>4
  <2>3. 0 \in Int
    OBVIOUS
  <2> QED BY <1>1, <1>4, <2>1, <2>2, <2>3 DEF ListInit, List
<1> HIDE DEF m
<1>5. Pointing(m)
  BY <1>1, <1>2, <1>4 DEF Pointing, Nodes
<1>6. Ring(m, <<>>)
  BY <1>1, <1>2, <1>4 DEF Ring, At, Injective
<1> QED
  BY <1>2, <1>3, <1>5, <1>6 DEF m

LEMMA LastOfRing ==
  ASSUME NEW l, NEW s, Ring(l, s)
  PROVE  /\ s = <<>> => l.next[Root] = Root /\ l.prev[Root] = Root
         /\ s # <<>> => /\ Len(s) \in 1..Len(s) /\ l.prev[Root] = s[Len(s)]
                        /\ 1 \in 1..Len(s) /\ l.next[Root] = s[1]
<1>1. s \in Seq(Elems) /\ Len(s) \in Nat /\ (s # <<>> => Len(s) > 0)
  BY DEF Ring
<1>2. l.next[At(s, 0)] = At(s, 1) /\ l.prev[At(s, Len(s) + 1)] = At(s, Len(s))
  BY <1>1 DEF Ring
<1> QED
  BY <1>1, <1>2 DEF At

LEMMA LinkIs ==
  ASSUME NEW f, NEW g, NEW mine, NEW len, NEW e, NEW at, NEW k,
         k = [next |-> f, prev |-> g, mine |-> mine, len |-> len]
  PROVE  linkAfter(k, e, at)
           = [next |-> [f EXCEPT ![e] = f[at], ![at] = e],
              prev |-> [g EXCEPT ![f[at]] = e, ![e] = at], mine |-> mine, len |-> len]
<1>1. k = [next |-> f, prev |-> g, mine |-> mine, len |-> len]
  OBVIOUS
<1>2. PICK after : after = k.next[at]
  OBVIOUS
<1>3. PICK a : a = [k EXCEPT !.prev[after] = e]
  OBVIOUS
<1>4. PICK b : b = [a EXCEPT !.prev[e] = at]
  OBVIOUS
<1>5. PICK c : c = [b EXCEPT !.next[e] = after]
  OBVIOUS
<1>6. PICK d : d = [c EXCEPT !.next[at] = e]
  OBVIOUS
<1>7. linkAfter(k, e, at) = d
  BY <1>2, <1>3, <1>4, <1>5, <1>6, Zenon DEF linkAfter
<1>8. after = f[at]
  BY <1>1, <1>2
<1>9. a = [next |-> f, prev |-> [g EXCEPT ![after] = e], mine |-> mine, len |-> len]
  BY <1>1, <1>3
<1>10. PICK q : q = [g EXCEPT ![after] = e, ![e] = at]
  OBVIOUS
<1>11. b = [next |-> f, prev |-> q, mine |-> mine, len |-> len]
  BY <1>4, <1>9, <1>10
<1>12. c = [next |-> [f EXCEPT ![e] = after], prev |-> q, mine |-> mine, len |-> len]
  BY <1>5, <1>11
<1>13. PICK p : p = [f EXCEPT ![e] = after, ![at] = e]
  OBVIOUS
<1>14. d = [next |-> p, prev |-> q, mine |-> mine, len |-> len]
  BY <1>6, <1>12, <1>13
<1> QED
  BY <1>1, <1>7, <1>8, <1>10, <1>13, <1>14

LEMMA PushBackAppends ==
  ASSUME NEW l \in List, Pointing(l), NEW s, Ring(l, s), NEW e \in Elems, ~In(e, s)
  PROVE  /\ PushBack(l, e) \in List /\ Pointing(PushBack(l, e))
         /\ Ring(PushBack(l, e), Append(s, e))
         /\ PushBack(l, e).mine = l.mine \cup {e} /\ PushBack(l, e).len = l.len + 1
<1> DEFINE k == linkAfter(l, e, l.prev[Root])
           m == PushBack(l, e)
           last == l.prev[Root]
<1>1. /\ l.next \in [Nodes -> Nodes \cup {Nil}] /\ l.prev \in [Nodes -> Nodes \cup {Nil}]
      /\ l.mine \in SUBSET Elems /\ l.len \in Int
  BY DEF List
<1>2. last \in Nodes /\ l.next[last] = Root
  <2>1. CASE s = <<>>
    BY <2>1, LastOfRing DEF Nodes
  <2>2. CASE s # <<>>
    <3>1. last = At(s, Len(s)) /\ Len(s) \in Nat /\ last = s[Len(s)] /\ s[Len(s)] \in Elems
      BY <2>2, LastOfRing DEF At, Ring
    <3>2. l.next[At(s, Len(s))] = At(s, Len(s) + 1) /\ At(s, Len(s) + 1) = Root
      BY <3>1 DEF Ring, At
    <3> QED BY <3>1, <3>2 DEF Nodes
  <2> QED BY <2>1, <2>2
<1>3. e \in Nodes /\ Root \in Nodes
  BY DEF Nodes
<1>4. k \in List
  BY <1>1, <1>2, <1>3 DEF linkAfter, List
<1>5. /\ k.next = [l.next EXCEPT ![e] = Root, ![last] = e]
      /\ k.prev = [l.prev EXCEPT ![Root] = e, ![e] = last]
      /\ k.mine = l.mine /\ k.len = l.len
  BY <1>2 DEF linkAfter, List
<1>6. /\ m = [k EXCEPT !.mine = @ \cup {e}, !.len = @ + 1]
  BY DEF PushBack
<1> HIDE DEF k, m
<1>7. m.next = k.next /\ m.prev = k.prev /\ m.mine = l.mine \cup {e} /\ m.len = l.len + 1
  BY <1>4, <1>5, <1>6 DEF List
<1>8. m \in List
  <2>1. m = [next |-> k.next, prev |-> k.prev, mine |-> l.mine \cup {e}, len |-> l.len + 1]
    BY <1>4, <1>5, <1>6 DEF List
  <2>2. k.next \in [Nodes -> Nodes \cup {Nil}] /\ k.prev \in [Nodes -> Nodes \cup {Nil}]
    BY <1>4 DEF List
  <2> QED BY <1>1, <2>1, <2>2 DEF List
<1>9. Pointing(m)
  <2> HIDE DEF last
  <2> SUFFICES ASSUME NEW x \in l.mine \cup {e} \cup {Root}
               PROVE  m.next[x] \in Nodes /\ m.prev[x] \in Nodes
    BY <1>7 DEF Pointing
  <2>1. x \in Nodes /\ (x # e => l.next[x] \in Nodes /\ l.prev[x] \in Nodes)
    BY <1>1, <1>3 DEF Pointing, Nodes
  <2> QED BY <1>1, <1>2, <1>3, <1>5, <1>7, <2>1
<1>10. Ring(m, Append(s, e))
  BY <1>7, Linked DEF k
<1> QED
  BY <1>7, <1>8, <1>9, <1>10 DEF m

LEMMA UnlinkLinks ==
  ASSUME NEW l \in List, NEW e \in Nodes
  PROVE  /\ unlink(l, e) \in List
         /\ unlink(l, e).next = [l.next EXCEPT ![l.prev[e]] = l.next[e]]
         /\ unlink(l, e).prev = [l.prev EXCEPT ![l.next[e]] = l.prev[e]]
         /\ unlink(l, e).mine = l.mine /\ unlink(l, e).len = l.len
<1> DEFINE p == [l.next EXCEPT ![l.prev[e]] = l.next[e]]
           q == [l.prev EXCEPT ![l.next[e]] = l.prev[e]]
<1>1. l.next \in [Nodes -> Nodes \cup {Nil}] /\ l.prev \in [Nodes -> Nodes \cup {Nil}]
  BY DEF List
<1>2. l.next[e] \in Nodes \cup {Nil} /\ l.prev[e] \in Nodes \cup {Nil}
  BY <1>1
<1>3. p \in [Nodes -> Nodes \cup {Nil}] /\ q \in [Nodes -> Nodes \cup {Nil}]
  BY <1>1, <1>2
<1>4. /\ unlink(l, e).next = p /\ unlink(l, e).prev = q
      /\ unlink(l, e).mine = l.mine /\ unlink(l, e).len = l.len
  BY DEF unlink, List
<1>5. unlink(l, e) \in List
  BY <1>1, <1>2, <1>3 DEF unlink, List
<1> QED
  BY <1>4, <1>5

LEMMA RemoveTakesOut ==
  ASSUME NEW l \in List, Pointing(l), NEW s, Ring(l, s), NEW n \in 1..Len(s), s[n] \in l.mine
  PROVE  /\ ListRemove(l, s[n]) \in List /\ Pointing(ListRemove(l, s[n]))
         /\ Ring(ListRemove(l, s[n]), Without(s, n))
         /\ ListRemove(l, s[n]).mine = l.mine \ {s[n]}
         /\ ListRemove(l, s[n]).len = l.len - 1
<1> DEFINE e == s[n]
           k == unlink(l, e)
           m == ListRemove(l, e)
<1>1. /\ l.next \in [Nodes -> Nodes \cup {Nil}] /\ l.prev \in [Nodes -> Nodes \cup {Nil}]
      /\ l.mine \in SUBSET Elems /\ l.len \in Int
  BY DEF List
<1>2. e \in Elems /\ e \in Nodes /\ e # Root /\ Root \in Nodes /\ e \in l.mine
  BY GoListConstants DEF Ring, Nodes, Elems, Root
<1>3. m = [k EXCEPT !.next[e] = Nil, !.prev[e] = Nil, !.mine = @ \ {e}, !.len = @ - 1]
  BY <1>2 DEF ListRemove
<1> HIDE DEF e
<1>4. /\ k \in List
      /\ k.next = [l.next EXCEPT ![l.prev[e]] = l.next[e]]
      /\ k.prev = [l.prev EXCEPT ![l.next[e]] = l.prev[e]]
      /\ k.mine = l.mine /\ k.len = l.len
  BY <1>2, UnlinkLinks
<1> HIDE DEF k, m
<1>5. k.next \in [Nodes -> Nodes \cup {Nil}] /\ k.prev \in [Nodes -> Nodes \cup {Nil}]
  BY <1>4 DEF List
<1>6. /\ m.next = [k.next EXCEPT ![e] = Nil] /\ m.prev = [k.prev EXCEPT ![e] = Nil]
      /\ m.mine = l.mine \ {e} /\ m.len = l.len - 1
  BY <1>3, <1>4 DEF List
<1>7. m \in List
  <2>1. [k.next EXCEPT ![e] = Nil] \in [Nodes -> Nodes \cup {Nil}]
    BY <1>2, <1>5
  <2>2. [k.prev EXCEPT ![e] = Nil] \in [Nodes -> Nodes \cup {Nil}]
    BY <1>2, <1>5
  <2>3. k.mine \ {e} \in SUBSET Elems /\ k.len - 1 \in Int
    BY <1>1, <1>4
  <2> QED BY <1>2, <1>3, <1>4, <2>1, <2>2, <2>3 DEF List
<1>8. Pointing(m)
  <2> SUFFICES ASSUME NEW x \in (l.mine \ {e}) \cup {Root}
               PROVE  m.next[x] \in Nodes /\ m.prev[x] \in Nodes
    BY <1>6 DEF Pointing
  <2>1. /\ x \in Nodes /\ x # e
        /\ l.next[x] \in Nodes /\ l.prev[x] \in Nodes
        /\ l.next[e] \in Nodes /\ l.prev[e] \in Nodes
    BY <1>1, <1>2 DEF Pointing, Nodes
  <2> QED BY <1>1, <1>4, <1>5, <1>6, <2>1
<1>9. \A x \in Nodes \ {e} : m.next[x] = k.next[x] /\ m.prev[x] = k.prev[x]
  BY <1>5, <1>6
<1>10. Ring(m, Without(s, n))
  BY <1>9, Unlinked DEF k, e
<1> QED
  BY <1>6, <1>7, <1>8, <1>10 DEF m, e

LEMMA MoveToBackMoves ==
  ASSUME NEW l \in List, Pointing(l), NEW s, Ring(l, s), NEW n \in 1..Len(s),
         s[n] \in l.mine, l.prev[Root] # s[n]
  PROVE  /\ MoveToBack(l, s[n]) \in List /\ Pointing(MoveToBack(l, s[n]))
         /\ Ring(MoveToBack(l, s[n]), Append(Without(s, n), s[n]))
         /\ MoveToBack(l, s[n]).mine = l.mine
         /\ MoveToBack(l, s[n]).len = l.len
<1> DEFINE e == s[n]
           k == unlink(l, e)
           t == Without(s, n)
           last == l.prev[Root]
           m == MoveToBack(l, e)
<1>1. /\ l.next \in [Nodes -> Nodes \cup {Nil}] /\ l.prev \in [Nodes -> Nodes \cup {Nil}]
      /\ l.mine \in SUBSET Elems /\ l.len \in Int
  BY DEF List
<1>2. e \in Elems /\ e \in Nodes /\ e # Root /\ Root \in Nodes /\ e \in l.mine
  BY GoListConstants DEF Ring, Nodes, Elems, Root
<1>3. m = linkAfter(k, e, last)
  BY <1>2 DEF MoveToBack
<1>4. s \in Seq(Elems) /\ Injective(s) /\ s # <<>> /\ Len(s) \in Nat
  BY DEF Ring
<1>5. last = s[Len(s)] /\ last \in Elems /\ n # Len(s)
  BY <1>4, LastOfRing
<1>6. t \in Seq(Elems) /\ Len(t) = Len(s) - 1 /\ ~In(e, t)
  BY <1>4, PlacesWithout
<1>7. At(t, Len(t)) = last /\ t # <<>>
  <2>1. At(t, Len(s) - 1) = At(s, Len(s))
    <3>1. Len(s) - 1 \in 0..Len(s) /\ ~(Len(s) - 1 < n)
      BY <1>4, <1>5
    <3> QED BY <1>4, <3>1, PlacesWithout
  <2> QED BY <1>4, <1>5, <1>6, <2>1 DEF At
<1>8. Ring(k, t)
  BY Unlinked
<1> HIDE DEF e, t
<1>9. /\ k \in List
      /\ k.next = [l.next EXCEPT ![l.prev[e]] = l.next[e]]
      /\ k.prev = [l.prev EXCEPT ![l.next[e]] = l.prev[e]]
      /\ k.mine = l.mine /\ k.len = l.len
  BY <1>2, UnlinkLinks
<1> HIDE DEF k, m
<1>10. k.prev[Root] = last /\ k.next[last] = Root
  <2>1. k.prev[Root] = last
    BY <1>6, <1>7, <1>8, LastOfRing DEF At
  <2>2. k.next[At(t, Len(t))] = At(t, Len(t) + 1)
    BY <1>6, <1>8 DEF Ring
  <2> QED BY <1>7, <2>1, <2>2 DEF At
<1> HIDE DEF last
<1>11. k.next \in [Nodes -> Nodes \cup {Nil}] /\ k.prev \in [Nodes -> Nodes \cup {Nil}]
  BY <1>9 DEF List
<1>12. last \in Nodes
  BY <1>5 DEF Nodes
<1>13. /\ m.next = [k.next EXCEPT ![e] = Root, ![last] = e]
       /\ m.prev = [k.prev EXCEPT ![Root] = e, ![e] = last]
       /\ m.mine = l.mine /\ m.len = l.len
  BY <1>3, <1>9, <1>10 DEF linkAfter, List
<1>14. m \in List
  <2>1. PICK f : f = k.next
    OBVIOUS
  <2>2. PICK g : g = k.prev
    OBVIOUS
  <2>3. k = [next |-> f, prev |-> g, mine |-> k.mine, len |-> k.len]
    BY <1>9, <2>1, <2>2 DEF List
  <2>4. f[last] = Root
    BY <1>10, <2>1
  <2>5. PICK p : p = [f EXCEPT ![e] = f[last], ![last] = e]
    OBVIOUS
  <2>6. PICK q : q = [g EXCEPT ![f[last]] = e, ![e] = last]
    OBVIOUS
  <2>7. m = [next |-> p, prev |-> q, mine |-> k.mine, len |-> k.len]
    BY <1>3, <2>3, <2>5, <2>6, LinkIs
  <2>8. p \in [Nodes -> Nodes \cup {Nil}] /\ q \in [Nodes -> Nodes \cup {Nil}]
    BY <1>2, <1>11, <1>12, <2>1, <2>2, <2>4, <2>5, <2>6
  <2>9. k.mine \in SUBSET Elems /\ k.len \in Int
    BY <1>1, <1>9
  <2> QED BY <2>7, <2>8, <2>9 DEF List
<1>15. Pointing(m)
  <2> SUFFICES ASSUME NEW x \in l.mine \cup {Root}
               PROVE  m.next[x] \in Nodes /\ m.prev[x] \in Nodes
    BY <1>13 DEF Pointing
  <2>1. /\ x \in Nodes
        /\ l.next[x] \in Nodes /\ l.prev[x] \in Nodes
        /\ l.next[e] \in Nodes /\ l.prev[e] \in Nodes
    BY <1>1, <1>2 DEF Pointing, Nodes
  <2>2. k.next[x] \in Nodes /\ k.prev[x] \in Nodes
    BY <1>1, <1>9, <2>1
  <2> QED BY <1>2, <1>11, <1>12, <1>13, <2>1, <2>2
<1>16. Ring(m, Append(t, e))
  BY <1>2, <1>3, <1>6, <1>8, <1>9, <1>10, Linked
<1> QED
  BY <1>13, <1>14, <1>15, <1>16 DEF m, e, t
-----------------------------------------------------------------------------
(***************************************************************************)
(* What the operations keep even after an element has been used that a     *)
(* Clear had dropped, when the links need not form a ring any more: they   *)
(* lead from elements of the list to elements of the list or to the root,  *)
(* and two elements agree on the link between them.                        *)
(***************************************************************************)
CoupledOn(f, g, S) ==
  \A x \in S :
    /\ f[x] \in S /\ g[x] \in S
    /\ f[x] # Root => g[f[x]] = x
    /\ g[x] # Root => f[g[x]] = x

Coupled(l) == CoupledOn(l.next, l.prev, l.mine \cup {Root})

LEMMA CoupledPoints ==
  ASSUME NEW l \in List, Coupled(l) PROVE Pointing(l)
<1>1. l.mine \cup {Root} \subseteq Nodes
  BY DEF List, Nodes
<1> QED
  BY <1>1 DEF Coupled, CoupledOn, Pointing

LEMMA UnlinkKeepsCoupled ==
  ASSUME NEW f \in [Nodes -> Nodes \cup {Nil}], NEW g \in [Nodes -> Nodes \cup {Nil}],
         NEW S \in SUBSET Nodes, CoupledOn(f, g, S), NEW e \in S, e # Root, Root \in S
  PROVE  CoupledOn([f EXCEPT ![g[e]] = f[e]], [g EXCEPT ![f[e]] = g[e]], S \ {e})
<1> DEFINE p == [f EXCEPT ![g[e]] = f[e]]
           q == [g EXCEPT ![f[e]] = g[e]]
<1>1. f[e] \in S /\ g[e] \in S
  BY DEF CoupledOn
<1>2. \A x \in S : p[x] = (IF x = g[e] THEN f[e] ELSE f[x]) /\ q[x] = (IF x = f[e] THEN g[e] ELSE g[x])
  BY <1>1
<1> HIDE DEF p, q
<1> SUFFICES ASSUME NEW x \in S \ {e}
             PROVE  /\ p[x] \in S \ {e} /\ q[x] \in S \ {e}
                    /\ p[x] # Root => q[p[x]] = x
                    /\ q[x] # Root => p[q[x]] = x
  BY DEF CoupledOn, p, q
<1>3. /\ f[x] \in S /\ g[x] \in S
      /\ f[x] # Root => g[f[x]] = x
      /\ g[x] # Root => f[g[x]] = x
      /\ f[e] # Root => g[f[e]] = e
      /\ g[e] # Root => f[g[e]] = e
  BY DEF CoupledOn
<1>4. p[x] \in S \ {e} /\ q[x] \in S \ {e}
  BY <1>1, <1>2, <1>3
<1>5. p[x] # Root => q[p[x]] = x
  BY <1>1, <1>2, <1>3, <1>4
<1>6. q[x] # Root => p[q[x]] = x
  BY <1>1, <1>2, <1>3, <1>4
<1> QED
  BY <1>4, <1>5, <1>6

LEMMA LinkKeepsCoupled ==
  ASSUME NEW f \in [Nodes -> Nodes \cup {Nil}], NEW g \in [Nodes -> Nodes \cup {Nil}],
         NEW S \in SUBSET Nodes, CoupledOn(f, g, S), Root \in S,
         NEW e \in Nodes \ S, NEW at \in S, at # Root => f[at] = Root
  PROVE  CoupledOn([f EXCEPT ![e] = f[at], ![at] = e], [g EXCEPT ![f[at]] = e, ![e] = at], S \cup {e})
<1> DEFINE p == [f EXCEPT ![e] = f[at], ![at] = e]
           q == [g EXCEPT ![f[at]] = e, ![e] = at]
<1>1. f[at] \in S /\ f[at] # e /\ at # e /\ e # Root
  BY DEF CoupledOn
<1>2. \A x \in S \cup {e} :
        /\ p[x] = (IF x = at THEN e ELSE IF x = e THEN f[at] ELSE f[x])
        /\ q[x] = (IF x = e THEN at ELSE IF x = f[at] THEN e ELSE g[x])
  BY <1>1
<1> HIDE DEF p, q
<1> SUFFICES ASSUME NEW x \in S \cup {e}
             PROVE  /\ p[x] \in S \cup {e} /\ q[x] \in S \cup {e}
                    /\ p[x] # Root => q[p[x]] = x
                    /\ q[x] # Root => p[q[x]] = x
  BY DEF CoupledOn, p, q
<1>3. x # e => /\ f[x] \in S /\ g[x] \in S
               /\ f[x] # Root => g[f[x]] = x
               /\ g[x] # Root => f[g[x]] = x
  BY DEF CoupledOn
<1>4. f[at] # Root => g[f[at]] = at
  BY DEF CoupledOn
<1>5. p[x] \in S \cup {e} /\ q[x] \in S \cup {e}
  BY <1>1, <1>2, <1>3
<1>6. p[x] # Root => q[p[x]] = x
  BY <1>1, <1>2, <1>3, <1>4, <1>5
<1>7. q[x] # Root => p[q[x]] = x
  BY <1>1, <1>2, <1>3, <1>4, <1>5
<1> QED
  BY <1>5, <1>6, <1>7

\* Links of elements outside the list do not matter.
LEMMA CoupledElsewhere ==
  ASSUME NEW f, NEW g, NEW p, NEW q, NEW S, CoupledOn(f, g, S),
         \A x \in S : p[x] = f[x] /\ q[x] = g[x]
  PROVE  CoupledOn(p, q, S)
BY DEF CoupledOn

LEMMA UnlinkIs ==
  ASSUME NEW l \in List, NEW e
  PROVE  unlink(l, e) = [next |-> [l.next EXCEPT ![l.prev[e]] = l.next[e]],
                         prev |-> [l.prev EXCEPT ![l.next[e]] = l.prev[e]],
                         mine |-> l.mine, len |-> l.len]
<1>1. l = [next |-> l.next, prev |-> l.prev, mine |-> l.mine, len |-> l.len]
  BY DEF List
<1>2. PICK a : a = l.next
  OBVIOUS
<1>3. PICK b : b = l.prev
  OBVIOUS
<1>4. unlink(l, e) = [[l EXCEPT !.next = [a EXCEPT ![b[e]] = a[e]]]
                         EXCEPT !.prev = [b EXCEPT ![a[e]] = b[e]]]
  BY <1>1, <1>2, <1>3 DEF unlink
<1> QED
  BY <1>1, <1>2, <1>3, <1>4

\* What ListRemove does to the fields of an element of the list.
LEMMA RemovalIs ==
  ASSUME NEW f, NEW g, NEW mine, NEW len, NEW e, NEW l, e \in l.mine,
         unlink(l, e) = [next |-> f, prev |-> g, mine |-> mine, len |-> len]
  PROVE  ListRemove(l, e) = [next |-> [f EXCEPT ![e] = Nil], prev |-> [g EXCEPT ![e] = Nil],
                             mine |-> mine \ {e}, len |-> len - 1]
<1>1. PICK k : k = unlink(l, e)
  OBVIOUS
<1>2. PICK a : a = [k EXCEPT !.next[e] = Nil]
  OBVIOUS
<1>3. PICK b : b = [a EXCEPT !.prev[e] = Nil]
  OBVIOUS
<1>4. PICK c : c = [b EXCEPT !.mine = @ \ {e}]
  OBVIOUS
<1>5. PICK d : d = [c EXCEPT !.len = @ - 1]
  OBVIOUS
<1>6. ListRemove(l, e) = [k EXCEPT !.next[e] = Nil, !.prev[e] = Nil, !.mine = @ \ {e}, !.len = @ - 1]
  BY <1>1, Zenon DEF ListRemove
<1>7. a = [next |-> [f EXCEPT ![e] = Nil], prev |-> g, mine |-> mine, len |-> len]
  BY <1>1, <1>2
<1>8. PICK p : p = [f EXCEPT ![e] = Nil]
  OBVIOUS
<1>9. PICK q : q = [g EXCEPT ![e] = Nil]
  OBVIOUS
<1>10. b = [next |-> p, prev |-> q, mine |-> mine, len |-> len]
  BY <1>3, <1>7, <1>8, <1>9
<1>11. c = [next |-> p, prev |-> q, mine |-> mine \ {e}, len |-> len]
  BY <1>4, <1>10
<1>12. d = [next |-> p, prev |-> q, mine |-> mine \ {e}, len |-> len - 1]
  BY <1>5, <1>11
<1>13. k.mine = mine /\ k.len = len
  BY <1>1
<1>14. a.prev = g /\ b.mine = mine /\ c.len = len
  BY <1>7, <1>10, <1>11
<1>15. ListRemove(l, e) = d
  BY <1>2, <1>3, <1>4, <1>5, <1>6, Zenon
<1> QED
  BY <1>8, <1>9, <1>12, <1>15

LEMMA NewListCoupled == Coupled(NewList)
BY GoListConstants DEF NewList, Coupled, CoupledOn, Elems, Nodes, Root, Nil

LEMMA InitKeepsCoupled ==
  ASSUME NEW l \in List, Coupled(l)
  PROVE  Coupled(ListInit(l))
<1>1. /\ ListInit(l).next = [l.next EXCEPT ![Root] = Root]
      /\ ListInit(l).prev = [l.prev EXCEPT ![Root] = Root]
      /\ ListInit(l).mine = l.mine
  BY DEF ListInit, List
<1>2. /\ l.next \in [Nodes -> Nodes \cup {Nil}] /\ l.prev \in [Nodes -> Nodes \cup {Nil}]
      /\ l.mine \in SUBSET Elems
  BY DEF List
<1>3. PICK S : S = l.mine \cup {Root}
  OBVIOUS
<1>4. PICK f : f = [l.next EXCEPT ![Root] = Root]
  OBVIOUS
<1>5. PICK g : g = [l.prev EXCEPT ![Root] = Root]
  OBVIOUS
<1>6. \A x \in S : /\ f[x] = IF x = Root THEN Root ELSE l.next[x]
                   /\ g[x] = IF x = Root THEN Root ELSE l.prev[x]
  BY <1>2, <1>3, <1>4, <1>5 DEF Nodes
<1>7. CoupledOn(l.next, l.prev, S) /\ Root \in S
  BY <1>3 DEF Coupled
<1>8. CoupledOn(f, g, S)
  BY <1>6, <1>7 DEF CoupledOn
<1> QED
  BY <1>1, <1>3, <1>4, <1>5, <1>8 DEF Coupled

LEMMA PushBackKeepsCoupled ==
  ASSUME NEW l \in List, Coupled(l), NEW e \in Elems, e \notin l.mine
  PROVE  PushBack(l, e) \in List /\ Coupled(PushBack(l, e)) /\ PushBack(l, e).mine = l.mine \cup {e}
<1>1. /\ l.next \in [Nodes -> Nodes \cup {Nil}] /\ l.prev \in [Nodes -> Nodes \cup {Nil}]
      /\ l.mine \in SUBSET Elems /\ l.len \in Int
  BY DEF List
<1>2. PICK S : S = l.mine \cup {Root}
  OBVIOUS
<1>3. PICK at : at = l.prev[Root]
  OBVIOUS
<1>4. S \in SUBSET Nodes /\ Root \in S /\ e \in Nodes \ S
  BY <1>1, <1>2, GoListConstants DEF Nodes, Elems, Root
<1>5. CoupledOn(l.next, l.prev, S)
  BY <1>2 DEF Coupled
<1>6. at \in S /\ (at # Root => l.next[at] = Root)
  BY <1>3, <1>4, <1>5 DEF CoupledOn
<1>7. PICK f : f = [l.next EXCEPT ![e] = l.next[at], ![at] = e]
  OBVIOUS
<1>8. PICK g : g = [l.prev EXCEPT ![l.next[at]] = e, ![e] = at]
  OBVIOUS
<1>9. CoupledOn(f, g, S \cup {e})
  BY <1>1, <1>4, <1>5, <1>6, <1>7, <1>8, LinkKeepsCoupled
<1>10. l.next[at] \in Nodes
  BY <1>4, <1>5, <1>6 DEF CoupledOn
<1>11. f \in [Nodes -> Nodes \cup {Nil}] /\ g \in [Nodes -> Nodes \cup {Nil}]
  BY <1>1, <1>4, <1>6, <1>7, <1>8, <1>10
<1>12. PushBack(l, e) = [next |-> f, prev |-> g, mine |-> l.mine \cup {e}, len |-> l.len + 1]
  <2>1. l = [next |-> l.next, prev |-> l.prev, mine |-> l.mine, len |-> l.len]
    BY DEF List
  <2>2. PICK k : k = linkAfter(l, e, at)
    OBVIOUS
  <2>3. k = [next |-> f, prev |-> g, mine |-> l.mine, len |-> l.len]
    <3>1. PICK a : a = l.next
      OBVIOUS
    <3>2. PICK b : b = l.prev
      OBVIOUS
    <3>3. l = [next |-> a, prev |-> b, mine |-> l.mine, len |-> l.len]
      BY <2>1, <3>1, <3>2
    <3>4. f = [a EXCEPT ![e] = a[at], ![at] = e] /\ g = [b EXCEPT ![a[at]] = e, ![e] = at]
      BY <1>7, <1>8, <3>1, <3>2
    <3>5. linkAfter(l, e, at) = [next |-> f, prev |-> g, mine |-> l.mine, len |-> l.len]
      BY <3>3, <3>4, LinkIs
    <3> QED BY <2>2, <3>5
  <2>4. PushBack(l, e) = [k EXCEPT !.mine = @ \cup {e}, !.len = @ + 1]
    BY <1>3, <2>2 DEF PushBack
  <2> QED BY <2>3, <2>4
<1>13. PushBack(l, e) \in List
  BY <1>1, <1>11, <1>12 DEF List
<1>14. S \cup {e} = l.mine \cup {e} \cup {Root}
  BY <1>2
<1>15. PICK m : m = PushBack(l, e)
  OBVIOUS
<1>16. m.next = f /\ m.prev = g /\ m.mine = l.mine \cup {e}
  BY <1>12, <1>15
<1>17. CoupledOn(m.next, m.prev, m.mine \cup {Root})
  BY <1>9, <1>14, <1>16
<1> QED
  BY <1>13, <1>15, <1>16, <1>17 DEF Coupled

LEMMA RemoveKeepsCoupled ==
  ASSUME NEW l \in List, Coupled(l), NEW e
  PROVE  ListRemove(l, e) \in List /\ Coupled(ListRemove(l, e)) /\ ListRemove(l, e).mine = l.mine \ {e}
<1>1. CASE e \notin l.mine
  BY <1>1 DEF ListRemove
<1>2. CASE e \in l.mine
  <2>1. /\ l.next \in [Nodes -> Nodes \cup {Nil}] /\ l.prev \in [Nodes -> Nodes \cup {Nil}]
        /\ l.mine \in SUBSET Elems /\ l.len \in Int
    BY DEF List
  <2>2. PICK S : S = l.mine \cup {Root}
    OBVIOUS
  <2>3. S \in SUBSET Nodes /\ Root \in S /\ e \in S /\ e # Root /\ e \in Nodes
    BY <1>2, <2>1, <2>2, GoListConstants DEF Nodes, Elems, Root
  <2>4. CoupledOn(l.next, l.prev, S)
    BY <2>2 DEF Coupled
  <2>5. PICK f : f = [l.next EXCEPT ![l.prev[e]] = l.next[e]]
    OBVIOUS
  <2>6. PICK g : g = [l.prev EXCEPT ![l.next[e]] = l.prev[e]]
    OBVIOUS
  <2>7. CoupledOn(f, g, S \ {e})
    BY <2>1, <2>3, <2>4, <2>5, <2>6, UnlinkKeepsCoupled
  <2>8. l.next[e] \in Nodes /\ l.prev[e] \in Nodes
    BY <2>3, <2>4 DEF CoupledOn
  <2>9. f \in [Nodes -> Nodes \cup {Nil}] /\ g \in [Nodes -> Nodes \cup {Nil}]
    BY <2>1, <2>5, <2>6, <2>8
  <2>10. PICK p : p = [f EXCEPT ![e] = Nil]
    OBVIOUS
  <2>11. PICK q : q = [g EXCEPT ![e] = Nil]
    OBVIOUS
  <2>12. p \in [Nodes -> Nodes \cup {Nil}] /\ q \in [Nodes -> Nodes \cup {Nil}]
    BY <2>9, <2>10, <2>11
  <2>13. \A x \in S \ {e} : p[x] = f[x] /\ q[x] = g[x]
    BY <2>3, <2>9, <2>10, <2>11
  <2>14. CoupledOn(p, q, S \ {e})
    BY <2>7, <2>13, CoupledElsewhere
  <2>15. ListRemove(l, e) = [next |-> p, prev |-> q, mine |-> l.mine \ {e}, len |-> l.len - 1]
    <3>1. unlink(l, e) = [next |-> f, prev |-> g, mine |-> l.mine, len |-> l.len]
      BY <2>5, <2>6, UnlinkIs
    <3> QED BY <1>2, <2>10, <2>11, <3>1, RemovalIs
  <2>16. ListRemove(l, e) \in List
    BY <2>1, <2>12, <2>15 DEF List
  <2>17. S \ {e} = (l.mine \ {e}) \cup {Root}
    BY <2>2, <2>3
  <2>18. PICK m : m = ListRemove(l, e)
    OBVIOUS
  <2>19. m.next = p /\ m.prev = q /\ m.mine = l.mine \ {e}
    BY <2>15, <2>18
  <2>20. CoupledOn(m.next, m.prev, m.mine \cup {Root})
    BY <2>14, <2>17, <2>19
  <2> QED BY <2>16, <2>18, <2>19, <2>20 DEF Coupled
<1> QED
  BY <1>1, <1>2

LEMMA MoveToBackKeepsCoupled ==
  ASSUME NEW l \in List, Coupled(l), NEW e
  PROVE  MoveToBack(l, e) \in List /\ Coupled(MoveToBack(l, e)) /\ MoveToBack(l, e).mine = l.mine
<1>1. CASE ~(e \in l.mine /\ l.prev[Root] # e)
  BY <1>1 DEF MoveToBack
<1>2. CASE e \in l.mine /\ l.prev[Root] # e
  <2>1. /\ l.next \in [Nodes -> Nodes \cup {Nil}] /\ l.prev \in [Nodes -> Nodes \cup {Nil}]
        /\ l.mine \in SUBSET Elems /\ l.len \in Int
    BY DEF List
  <2>2. PICK S : S = l.mine \cup {Root}
    OBVIOUS
  <2>3. S \in SUBSET Nodes /\ Root \in S /\ e \in S /\ e # Root /\ e \in Nodes
    BY <1>2, <2>1, <2>2, GoListConstants DEF Nodes, Elems, Root
  <2>4. CoupledOn(l.next, l.prev, S)
    BY <2>2 DEF Coupled
  <2>5. PICK f : f = [l.next EXCEPT ![l.prev[e]] = l.next[e]]
    OBVIOUS
  <2>6. PICK g : g = [l.prev EXCEPT ![l.next[e]] = l.prev[e]]
    OBVIOUS
  <2>7. CoupledOn(f, g, S \ {e})
    BY <2>1, <2>3, <2>4, <2>5, <2>6, UnlinkKeepsCoupled
  <2>8. l.next[e] \in Nodes /\ l.prev[e] \in Nodes
    BY <2>3, <2>4 DEF CoupledOn
  <2>9. f \in [Nodes -> Nodes \cup {Nil}] /\ g \in [Nodes -> Nodes \cup {Nil}]
    BY <2>1, <2>5, <2>6, <2>8
  <2>10. PICK at : at = l.prev[Root]
    OBVIOUS
  <2>11. at \in S \ {e} /\ (at # Root => l.next[at] = Root)
    BY <1>2, <2>3, <2>4, <2>10 DEF CoupledOn
  <2>12. at # Root => f[at] = Root
    <3> SUFFICES ASSUME at # Root PROVE f[at] = Root
      OBVIOUS
    <3>1. l.next[at] = Root /\ at \in Nodes
      BY <2>3, <2>11
    <3>2. CASE at = l.prev[e]
      \* Then e is what at leads to, and that is the root.
      BY <2>3, <2>4, <3>1, <3>2 DEF CoupledOn
    <3>3. CASE at # l.prev[e]
      BY <2>1, <2>5, <3>1, <3>3
    <3> QED BY <3>2, <3>3
  <2>13. PICK p : p = [f EXCEPT ![e] = f[at], ![at] = e]
    OBVIOUS
  <2>14. PICK q : q = [g EXCEPT ![f[at]] = e, ![e] = at]
    OBVIOUS
  <2>15. S \ {e} \in SUBSET Nodes /\ Root \in S \ {e} /\ e \in Nodes \ (S \ {e})
    BY <2>3
  <2>16. CoupledOn(p, q, (S \ {e}) \cup {e})
    BY <2>7, <2>9, <2>11, <2>12, <2>13, <2>14, <2>15, LinkKeepsCoupled
  <2>17. f[at] \in Nodes
    BY <2>3, <2>7, <2>11 DEF CoupledOn
  <2>18. p \in [Nodes -> Nodes \cup {Nil}] /\ q \in [Nodes -> Nodes \cup {Nil}]
    BY <2>3, <2>9, <2>11, <2>13, <2>14, <2>17
  <2>19. MoveToBack(l, e) = [next |-> p, prev |-> q, mine |-> l.mine, len |-> l.len]
    <3>1. unlink(l, e) = [next |-> f, prev |-> g, mine |-> l.mine, len |-> l.len]
      BY <2>5, <2>6, UnlinkIs
    <3>2. PICK k : k = unlink(l, e)
      OBVIOUS
    <3>3. k = [next |-> f, prev |-> g, mine |-> l.mine, len |-> l.len]
      BY <3>1, <3>2
    <3>4. MoveToBack(l, e) = linkAfter(k, e, at)
      BY <1>2, <2>10, <3>2 DEF MoveToBack
    <3>5. linkAfter(k, e, at) = [next |-> p, prev |-> q, mine |-> l.mine, len |-> l.len]
      BY <2>13, <2>14, <3>3, LinkIs
    <3> QED BY <3>4, <3>5
  <2>20. MoveToBack(l, e) \in List
    BY <2>1, <2>18, <2>19 DEF List
  <2>21. (S \ {e}) \cup {e} = l.mine \cup {Root}
    BY <2>2, <2>3
  <2>22. PICK m : m = MoveToBack(l, e)
    OBVIOUS
  <2>23. m.next = p /\ m.prev = q /\ m.mine = l.mine
    BY <2>19, <2>22
  <2>24. CoupledOn(m.next, m.prev, m.mine \cup {Root})
    BY <2>16, <2>21, <2>23
  <2> QED BY <2>20, <2>22, <2>23, <2>24 DEF Coupled
<1> QED
  BY <1>1, <1>2
=============================================================================
