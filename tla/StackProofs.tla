----------------------------- MODULE StackProofs -----------------------------
(***************************************************************************)
(* A Stack is a sequence whose end is pushed and popped.                   *)
(***************************************************************************)
EXTENDS Stack, GoListProofs

(***************************************************************************)
(* The inductive invariant.  After a Clear elements that have left the     *)
(* ring still say they are in the list, but nobody has them any more.      *)
(***************************************************************************)
ListInv == list \in List /\ Pointing(list) /\ npushed \in 0..MaxElems

RingInv(s) ==
  /\ Ring(list, s)
  /\ list.len = Len(s) /\ Len(s) <= npushed
  /\ \A e \in Elems : In(e, s) => e \in list.mine /\ e <= npushed

StackInv == ListInv /\ RingInv(contents(list))

-----------------------------------------------------------------------------
\* What an operation has to show: the new links form a ring of t.
LEMMA NewRing ==
  ASSUME NEW t, ListInv', RingInv(t)'
  PROVE  StackInv' /\ contents(list') = t
<1>1. t \in Seq(Elems) /\ Len(t) \in Nat
  BY DEF RingInv, Ring
<1>2. Len(t) <= MaxElems
  BY <1>1, GoListConstants DEF RingInv, ListInv
<1>3. contents(list') = t
  BY <1>2, ContentsOfRing DEF RingInv
<1> QED
  BY <1>3 DEF StackInv

LEMMA InvInit ==
  ASSUME Init PROVE StackInv /\ contents(list) = <<>>
<1>1. list \in List /\ Pointing(list) /\ Ring(list, <<>>) /\ npushed = 0 /\ list.len = 0
  BY NewListIsEmpty DEF Init, NewList
<1>2. contents(list) = <<>>
  BY <1>1, ContentsOfRing, GoListConstants
<1>3. \A e : ~In(e, <<>>)
  BY DEF In
<1> QED
  BY <1>1, <1>2, <1>3, GoListConstants DEF StackInv, ListInv, RingInv

LEMMA PushStep ==
  ASSUME StackInv, Push
  PROVE  StackInv' /\ Contract!Push
<1> DEFINE s == contents(list)
<1>1. PICK e : e = npushed + 1
  OBVIOUS
<1>2. PICK t : t = Append(s, e)
  OBVIOUS
<1>3. ListInv /\ RingInv(s)
  BY DEF StackInv
<1>4. Contract!Push <=> contents(list') = Append(s, e) /\ npushed' = e /\ popped' = popped
  BY <1>1 DEF Contract!Push
<1> HIDE DEF s
<1>5. Ring(list, s) /\ list.len = Len(s) /\ Len(s) <= npushed /\ s \in Seq(Elems) /\ Injective(s)
  BY <1>3 DEF RingInv, Ring
<1>6. e \in Elems /\ npushed \in Nat /\ npushed' = e
  BY <1>1, <1>3, GoListConstants DEF Push, ListInv, Elems
<1>7. ~In(e, s)
  BY <1>1, <1>3, <1>6 DEF RingInv
<1>8. /\ list' \in List /\ Pointing(list') /\ Ring(list', t)
      /\ list'.mine = list.mine \cup {e} /\ list'.len = list.len + 1
  BY <1>1, <1>2, <1>3, <1>5, <1>6, <1>7, PushBackAppends DEF Push, ListInv
<1>9. ListInv'
  BY <1>1, <1>3, <1>6, <1>8, GoListConstants DEF Push, ListInv
<1>10. t \in Seq(Elems) /\ Len(t) = Len(s) + 1 /\ \A x : In(x, t) <=> x = e \/ In(x, s)
  BY <1>2, <1>5, <1>6, <1>7, PlacesAppended
<1>11. RingInv(t)'
  BY <1>1, <1>3, <1>5, <1>6, <1>8, <1>10 DEF RingInv, Elems
<1>12. StackInv' /\ contents(list') = t
  BY <1>9, <1>11, NewRing
<1> QED
  BY <1>2, <1>4, <1>6, <1>12 DEF Push

\* The last element is the one the root points back to.
LEMMA TopIsLast ==
  ASSUME StackInv, top(list) # Nil
  PROVE  /\ contents(list) \in Seq(Elems) /\ contents(list) # <<>>
         /\ Len(contents(list)) \in 1..Len(contents(list))
         /\ top(list) = contents(list)[Len(contents(list))]
<1> DEFINE s == contents(list)
<1>1. Ring(list, s) /\ list.len = Len(s)
  BY DEF StackInv, RingInv
<1> HIDE DEF s
<1>2. s \in Seq(Elems) /\ s # <<>>
  BY <1>1 DEF Ring, top, Back
<1> QED
  BY <1>1, <1>2, LastOfRing DEF top, Back, s

LEMMA PopStep ==
  ASSUME StackInv, Pop
  PROVE  StackInv' /\ Contract!Pop
<1> DEFINE s == contents(list)
<1>1. PICK n : n = Len(s)
  OBVIOUS
<1>2. PICK e : e = s[n]
  OBVIOUS
<1>3. PICK t : t = Without(s, n)
  OBVIOUS
<1>4. s \in Seq(Elems) /\ s # <<>> /\ n \in 1..Len(s) /\ top(list) = e
  BY <1>1, <1>2, TopIsLast DEF Pop
<1>5. list' = ListRemove(list, e) /\ npushed' = npushed /\ popped' = Append(popped, e)
  BY <1>4 DEF Pop
<1>6. ListInv /\ RingInv(s)
  BY DEF StackInv
<1>7. Contract!Pop <=> /\ contents(list') = SubSeq(s, 1, n - 1)
                       /\ npushed' = npushed /\ popped' = Append(popped, e)
  BY <1>1, <1>2, <1>4 DEF Contract!Pop
<1> HIDE DEF s
<1>8. Ring(list, s) /\ list.len = Len(s) /\ Len(s) <= npushed /\ Injective(s)
  BY <1>6 DEF RingInv, Ring
<1>9. e \in Elems /\ In(e, s) /\ e \in list.mine
  BY <1>2, <1>4, <1>6 DEF RingInv, In
<1>10. /\ list' \in List /\ Pointing(list') /\ Ring(list', t)
       /\ list'.mine = list.mine \ {e} /\ list'.len = list.len - 1
  BY <1>2, <1>3, <1>4, <1>5, <1>6, <1>8, <1>9, RemoveTakesOut DEF ListInv
<1>11. t \in Seq(Elems) /\ Len(t) = Len(s) - 1 /\ \A x : In(x, t) <=> x # e /\ In(x, s)
  BY <1>2, <1>3, <1>4, <1>8, PlacesWithout
<1>12. ListInv'
  BY <1>5, <1>6, <1>10 DEF ListInv
<1>13. RingInv(t)'
  BY <1>5, <1>6, <1>8, <1>10, <1>11 DEF RingInv, ListInv
<1>14. StackInv' /\ contents(list') = t
  BY <1>12, <1>13, NewRing
<1>15. t = SubSeq(s, 1, n - 1)
  <2>1. SubSeq(s, n + 1, Len(s)) = <<>>
    BY <1>1, <1>4, SubSeqEmpty
  <2>2. SubSeq(s, 1, n - 1) \in Seq(Elems)
    BY <1>4
  <2> QED BY <1>3, <2>1, <2>2, ConcatEmptySeq DEF Without
<1> QED
  BY <1>5, <1>7, <1>14, <1>15

LEMMA ClearStep ==
  ASSUME StackInv, Clear
  PROVE  StackInv' /\ Contract!Clear
<1>1. ListInv /\ RingInv(contents(list))
  BY DEF StackInv
<1>2. /\ list' \in List /\ Pointing(list') /\ Ring(list', <<>>) /\ list'.len = 0
      /\ npushed' = npushed /\ popped' = popped
  BY <1>1, InitEmpties DEF Clear, ListInv
<1>3. ListInv'
  BY <1>1, <1>2 DEF ListInv
<1>4. RingInv(<<>>)'
  <2>1. \A x : ~In(x, <<>>)
    BY DEF In
  <2> QED BY <1>1, <1>2, <2>1, GoListConstants DEF RingInv, ListInv
<1>5. StackInv' /\ contents(list') = <<>>
  BY <1>3, <1>4, NewRing
<1> QED
  BY <1>2, <1>5 DEF Contract!Clear

-----------------------------------------------------------------------------
\* The linked list implements the sequence of LifoContract, and Length, which reads
\* a counter of the list, is the length of that sequence, for any number of elements.
THEOREM StackIsLifo == Init /\ [][Next]_vars => IsLifo
<1> DEFINE Steps == Contract!Push \/ Contract!Pop \/ Contract!Clear
<1>1. Init => StackInv /\ Contract!Init
  BY InvInit DEF Init, Contract!Init
<1>2. StackInv /\ [Next]_vars
        => StackInv' /\ [Steps]_<<contents(list), npushed, popped>>
  <2> SUFFICES ASSUME StackInv, [Next]_vars
               PROVE  StackInv' /\ [Steps]_<<contents(list), npushed, popped>>
    OBVIOUS
  <2>1. CASE Push
    BY <2>1, PushStep
  <2>2. CASE Pop
    BY <2>2, PopStep
  <2>3. CASE Clear
    BY <2>3, ClearStep
  <2>4. CASE UNCHANGED vars
    BY <2>4 DEF vars, StackInv, ListInv, RingInv
  <2> QED BY <2>1, <2>2, <2>3, <2>4 DEF Next
<1>3. StackInv => Length = Len(contents(list))
  BY DEF StackInv, RingInv, Length
<1> QED
  BY <1>1, <1>2, <1>3, PTL DEF IsLifo, Contract!Spec
=============================================================================
