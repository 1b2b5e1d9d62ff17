---------------------------- MODULE QueueProofs ----------------------------
(***************************************************************************)
(* A Queue is a sequence, whatever its callers do with the elements they   *)
(* keep, until one of them uses an element that a Clear has dropped        *)
(* (stale).  Its links stay links after that, and the next Clear makes it  *)
(* a sequence again.                                                       *)
(***************************************************************************)
EXTENDS Queue, GoListProofs

(***************************************************************************)
(* The inductive invariant.  LinksInv holds whatever callers do.           *)
(* MembersInv is why the elements callers keep do no harm: one that says   *)
(* it is in the list is in the ring, unless a Clear has dropped it.        *)
(***************************************************************************)
LinksInv == TypeOK /\ Coupled(list) /\ list.mine \cup cleared \subseteq 1..npushed

LengthInv(s) == list.len = Len(s) /\ Len(s) <= npushed

MembersInv(s) ==
  /\ \A e \in Elems : In(e, s) => e \in list.mine /\ e \notin cleared
  /\ \A e \in list.mine : In(e, s) \/ e \in cleared
  /\ list.mine \cup cleared \subseteq 1..npushed

RingInv(s) == Ring(list, s) /\ LengthInv(s) /\ MembersInv(s)

QueueInv == TypeOK /\ RingInv(contents(list))

Inv == LinksInv /\ (~stale => QueueInv)

-----------------------------------------------------------------------------
LEMMA TypeIsPointing ==
  ASSUME TypeOK PROVE list \in List /\ Pointing(list)
BY DEF TypeOK, Pointing

LEMMA RingIsContents ==
  ASSUME NEW s, RingInv(s), npushed \in 0..MaxElems
  PROVE  contents(list) = s
<1>1. s \in Seq(Elems) /\ Len(s) \in Nat
  BY DEF RingInv, Ring
<1>2. Len(s) <= MaxElems
  BY <1>1, GoListConstants DEF RingInv, LengthInv
<1> QED
  BY <1>2, ContentsOfRing DEF RingInv

LEMMA InvInit == Init => QueueInv
<1> SUFFICES ASSUME Init PROVE QueueInv
  OBVIOUS
<1>0. stale \in BOOLEAN
  BY DEF Init
<1>1. list \in List /\ Pointing(list) /\ Ring(list, <<>>)
  BY NewListIsEmpty DEF Init
<1>2. TypeOK
  <2>1. /\ npushed \in 0..MaxElems /\ popped \in Seq(Nodes) /\ cleared \in SUBSET Elems
    BY GoListConstants DEF Init
  <2> QED BY <1>0, <1>1, <2>1 DEF TypeOK, Pointing
<1>3. RingInv(<<>>)
  BY <1>1 DEF RingInv, LengthInv, MembersInv, In, NewList, Init
<1> QED
  BY <1>2, <1>3, RingIsContents DEF QueueInv, TypeOK

-----------------------------------------------------------------------------
(***************************************************************************)
(* What an operation has to show: the new links form a ring of t.          *)
(***************************************************************************)
LEMMA NewRing ==
  ASSUME NEW t, TypeOK', RingInv(t)'
  PROVE  QueueInv' /\ contents(list') = t
<1>1. t \in Seq(Elems) /\ Len(t) \in Nat
  BY DEF RingInv, Ring
<1>2. Len(t) <= MaxElems
  BY <1>1, GoListConstants DEF RingInv, LengthInv, TypeOK
<1>3. contents(list') = t
  BY <1>2, ContentsOfRing DEF RingInv
<1> QED
  BY <1>3 DEF QueueInv

LEMMA PushStep ==
  ASSUME QueueInv, Push
  PROVE  QueueInv' /\ contents(list') = Append(contents(list), npushed + 1)
<1> DEFINE s == contents(list)
<1>1. PICK e : e = npushed + 1
  OBVIOUS
<1>2. PICK t : t = Append(s, e)
  OBVIOUS
<1>3. TypeOK /\ RingInv(s)
  BY DEF QueueInv
<1> HIDE DEF s
<1>4. Ring(list, s) /\ LengthInv(s) /\ MembersInv(s) /\ s \in Seq(Elems) /\ Injective(s)
  BY <1>3 DEF RingInv, Ring
<1>5. e \in Elems /\ npushed \in Nat /\ npushed' = e
  BY <1>1, <1>3, GoListConstants DEF Push, TypeOK, Elems
<1>6. ~In(e, s)
  BY <1>1, <1>4, <1>5 DEF MembersInv
<1>7. /\ list' \in List /\ Pointing(list') /\ Ring(list', t)
      /\ list'.mine = list.mine \cup {e} /\ list'.len = list.len + 1
  BY <1>1, <1>2, <1>3, <1>4, <1>5, <1>6, PushBackAppends, TypeIsPointing DEF Push
<1>8. TypeOK'
  BY <1>1, <1>3, <1>5, <1>7, GoListConstants DEF Push, TypeOK, Pointing
<1>9. t \in Seq(Elems) /\ Len(t) = Len(s) + 1 /\ \A x : In(x, t) <=> x = e \/ In(x, s)
  BY <1>2, <1>4, <1>5, <1>6, PlacesAppended
<1>10. LengthInv(t)'
  BY <1>1, <1>4, <1>5, <1>7, <1>9 DEF LengthInv
<1>11. MembersInv(t)'
  <2>1. cleared' = cleared
    BY DEF Push
  <2>2. list.mine \in SUBSET Elems
    BY <1>3 DEF TypeOK, List
  <2>3. \A x \in Elems : In(x, t) => x \in list'.mine /\ x \notin cleared'
    BY <1>1, <1>4, <1>5, <1>7, <1>9, <2>1 DEF MembersInv
  <2>4. \A x \in list'.mine : In(x, t) \/ x \in cleared'
    BY <1>4, <1>7, <1>9, <2>1 DEF MembersInv
  <2>5. list'.mine \cup cleared' \subseteq 1..npushed'
    BY <1>1, <1>4, <1>5, <1>7, <2>1 DEF MembersInv
  <2> QED BY <2>3, <2>4, <2>5 DEF MembersInv
<1> QED
  BY <1>1, <1>2, <1>7, <1>8, <1>10, <1>11, NewRing DEF RingInv, s

(***************************************************************************)
(* ListRemove of the n-th element, which is what Pop and Remove do.        *)
(***************************************************************************)
LEMMA TakenOut ==
  ASSUME QueueInv, NEW n \in 1..Len(contents(list)),
         list' = ListRemove(list, contents(list)[n]),
         npushed' = npushed, cleared' = cleared, popped' \in Seq(Nodes), stale' \in BOOLEAN
  PROVE  QueueInv' /\ contents(list') = Without(contents(list), n)
<1> DEFINE s == contents(list)
<1>1. PICK e : e = s[n]
  OBVIOUS
<1>2. PICK t : t = Without(s, n)
  OBVIOUS
<1>3. TypeOK /\ RingInv(s)
  BY DEF QueueInv
<1>4. n \in 1..Len(s) /\ list' = ListRemove(list, e)
  BY <1>1
<1> HIDE DEF s
<1>5. Ring(list, s) /\ LengthInv(s) /\ MembersInv(s) /\ s \in Seq(Elems) /\ Injective(s)
  BY <1>3 DEF RingInv, Ring
<1>6. e \in Elems /\ In(e, s)
  BY <1>1, <1>4, <1>5 DEF In
<1>7. e \in list.mine
  BY <1>5, <1>6 DEF MembersInv
<1>8. /\ list' \in List /\ Pointing(list') /\ Ring(list', t)
      /\ list'.mine = list.mine \ {e} /\ list'.len = list.len - 1
  BY <1>1, <1>2, <1>3, <1>4, <1>5, <1>7, RemoveTakesOut, TypeIsPointing
<1>9. TypeOK'
  BY <1>3, <1>8 DEF TypeOK, Pointing
<1>10. t \in Seq(Elems) /\ Len(t) = Len(s) - 1 /\ \A x : In(x, t) <=> x # e /\ In(x, s)
  BY <1>1, <1>2, <1>4, <1>5, PlacesWithout
<1>11. LengthInv(t)'
  BY <1>3, <1>5, <1>8, <1>10 DEF LengthInv, TypeOK
<1>12. MembersInv(t)'
  BY <1>5, <1>8, <1>10 DEF MembersInv
<1> QED
  BY <1>2, <1>8, <1>9, <1>11, <1>12, NewRing DEF RingInv, s

LEMMA WithoutFirst ==
  ASSUME NEW s \in Seq(Elems), s # <<>>
  PROVE  Without(s, 1) = Tail(s) /\ Head(s) = s[1]
<1>1. SubSeq(s, 1, 0) = <<>> /\ SubSeq(s, 2, Len(s)) = Tail(s)
  BY TailIsSubSeq, SubSeqEmpty
<1>2. Tail(s) \in Seq(Elems)
  BY HeadTailProperties
<1>3. <<>> \o Tail(s) = Tail(s)
  BY <1>2, ConcatEmptySeq
<1> QED
  BY <1>1, <1>3 DEF Without

\* The first element is the one the root points to; there is none in an empty queue.
LEMMA HeadIsFirst ==
  ASSUME QueueInv
  PROVE  /\ contents(list) \in Seq(Elems) /\ list.len = Len(contents(list))
         /\ head(list) = Nil <=> contents(list) = <<>>
         /\ contents(list) # <<>> => /\ 1 \in 1..Len(contents(list))
                                     /\ head(list) = contents(list)[1]
<1> DEFINE s == contents(list)
<1>1. Ring(list, s) /\ list.len = Len(s)
  BY DEF QueueInv, RingInv, LengthInv
<1> HIDE DEF s
<1>2. s \in Seq(Elems)
  BY <1>1 DEF Ring
<1>3. s = <<>> <=> Len(s) = 0
  BY <1>2
<1>4. s # <<>> => 1 \in 1..Len(s) /\ head(list) = s[1] /\ s[1] \in Elems
  BY <1>1, <1>2, <1>3, LastOfRing DEF head, Front
<1>5. Nil \notin Elems
  BY GoListConstants DEF Nil, Elems
<1>6. s = <<>> => head(list) = Nil
  BY <1>1, <1>3 DEF head, Front
<1> QED
  BY <1>1, <1>2, <1>4, <1>5, <1>6 DEF s

LEMMA PopStep ==
  ASSUME QueueInv, Pop
  PROVE  QueueInv' /\ Contract!Pop
<1> DEFINE s == contents(list)
<1>1. s # <<>> /\ s \in Seq(Elems) /\ 1 \in 1..Len(s) /\ head(list) = s[1]
  BY HeadIsFirst DEF Pop
<1>2. /\ list' = ListRemove(list, s[1]) /\ npushed' = npushed /\ cleared' = cleared
      /\ popped' = Append(popped, s[1])
  BY <1>1 DEF Pop
<1>3. popped' \in Seq(Nodes) /\ stale' \in BOOLEAN
  BY <1>1, <1>2 DEF QueueInv, TypeOK, Nodes, Pop
<1>4. QueueInv' /\ contents(list') = Without(s, 1)
  BY <1>1, <1>2, <1>3, TakenOut
<1>5. Without(s, 1) = Tail(s) /\ Head(s) = s[1]
  BY <1>1, WithoutFirst
<1> QED
  BY <1>1, <1>2, <1>4, <1>5 DEF Contract!Pop

(***************************************************************************)
(* An element a caller still holds is in the ring if it says it is in the  *)
(* list.                                                                   *)
(***************************************************************************)
LEMMA HeldIsInRing ==
  ASSUME QueueInv, NEW e \in Elems, e \in list.mine, ~Dropped(e)
  PROVE  \E n \in 1..Len(contents(list)) : contents(list)[n] = e
BY DEF QueueInv, RingInv, MembersInv, Dropped, In

LEMMA NothingDone ==
  ASSUME QueueInv, list' = list, UNCHANGED <<npushed, popped, cleared>>, stale' \in BOOLEAN
  PROVE  QueueInv' /\ UNCHANGED <<contents(list), npushed, popped>>
BY DEF QueueInv, TypeOK, RingInv, LengthInv, MembersInv

LEMMA RemoveStep ==
  ASSUME QueueInv, NEW e \in Elems, Remove(e), ~stale'
  PROVE  QueueInv' /\ (Contract!Remove(e) \/ UNCHANGED <<contents(list), npushed, popped>>)
<1>1. CASE e \in list.mine
  <2>1. PICK n \in 1..Len(contents(list)) : contents(list)[n] = e
    BY <1>1, HeldIsInRing DEF Remove
  <2>2. popped' \in Seq(Nodes) /\ stale' \in BOOLEAN
    BY DEF Remove, QueueInv, TypeOK
  <2>3. QueueInv' /\ contents(list') = Without(contents(list), n)
    BY <2>1, <2>2, TakenOut DEF Remove
  <2>4. n \in DOMAIN contents(list)
    BY HeadIsFirst
  <2>5. Contract!Remove(e)
    BY <2>1, <2>3, <2>4 DEF Contract!Remove, Contract!Without, Without, Remove
  <2> QED BY <2>3, <2>5
<1>2. CASE e \notin list.mine
  BY <1>2, NothingDone DEF Remove, ListRemove
<1> QED
  BY <1>1, <1>2

LEMMA MovedToBack ==
  ASSUME QueueInv, NEW n \in 1..Len(contents(list)),
         list' = MoveToBack(list, contents(list)[n]), list.prev[Root] # contents(list)[n],
         UNCHANGED <<npushed, popped, cleared>>, stale' \in BOOLEAN
  PROVE  /\ QueueInv'
         /\ contents(list') = Append(Without(contents(list), n), contents(list)[n])
<1> DEFINE s == contents(list)
<1>1. PICK e : e = s[n]
  OBVIOUS
<1>2. PICK t : t = Append(Without(s, n), e)
  OBVIOUS
<1>3. TypeOK /\ RingInv(s)
  BY DEF QueueInv
<1>4. n \in 1..Len(s) /\ list' = MoveToBack(list, e) /\ list.prev[Root] # e
  BY <1>1
<1> HIDE DEF s
<1>5. Ring(list, s) /\ LengthInv(s) /\ MembersInv(s) /\ s \in Seq(Elems) /\ Injective(s)
  BY <1>3 DEF RingInv, Ring
<1>6. e \in Elems /\ In(e, s)
  BY <1>1, <1>4, <1>5 DEF In
<1>7. e \in list.mine
  BY <1>5, <1>6 DEF MembersInv
<1>8. /\ list' \in List /\ Pointing(list') /\ Ring(list', t)
      /\ list'.mine = list.mine /\ list'.len = list.len
  BY <1>1, <1>2, <1>3, <1>4, <1>5, <1>7, MoveToBackMoves, TypeIsPointing
<1>9. TypeOK'
  BY <1>3, <1>8 DEF TypeOK, Pointing
<1>10. PICK u : u = Without(s, n)
  OBVIOUS
<1>11. u \in Seq(Elems) /\ Len(u) = Len(s) - 1 /\ Injective(u) /\ \A x : In(x, u) <=> x # e /\ In(x, s)
  BY <1>1, <1>10, <1>4, <1>5, PlacesWithout
<1>12. Len(t) = Len(s) /\ \A x : In(x, t) <=> In(x, s)
  <2>1. Len(t) = Len(u) + 1 /\ \A x : In(x, t) <=> x = e \/ In(x, u)
    BY <1>2, <1>6, <1>10, <1>11, PlacesAppended
  <2> QED BY <1>5, <1>6, <1>11, <2>1
<1>13. LengthInv(t)'
  BY <1>5, <1>8, <1>12 DEF LengthInv
<1>14. MembersInv(t)'
  BY <1>5, <1>8, <1>12 DEF MembersInv
<1> QED
  BY <1>1, <1>2, <1>8, <1>9, <1>13, <1>14, NewRing DEF RingInv, s

LEMMA MoveBackStep ==
  ASSUME QueueInv, NEW e \in Elems, MoveBack(e), ~stale'
  PROVE  QueueInv' /\ (Contract!MoveBack(e) \/ UNCHANGED <<contents(list), npushed, popped>>)
<1> USE DEF MoveBack, moveBack
<1>1. CASE e \in list.mine /\ list.prev[Root] # e
  <2>1. PICK n \in 1..Len(contents(list)) : contents(list)[n] = e
    BY <1>1, HeldIsInRing
  <2>2. QueueInv' /\ contents(list') = Append(Without(contents(list), n), e)
    BY <1>1, <2>1, MovedToBack
  <2>3. n \in DOMAIN contents(list)
    BY HeadIsFirst
  <2>4. Contract!MoveBack(e)
    BY <2>1, <2>2, <2>3 DEF Contract!MoveBack, Contract!Without, Without
  <2> QED BY <2>2, <2>4
<1>2. CASE ~(e \in list.mine /\ list.prev[Root] # e)
  BY <1>2, NothingDone DEF MoveToBack
<1> QED
  BY <1>1, <1>2

\* Whatever has happened before, a Clear leaves an empty ring.
LEMMA ClearStep ==
  ASSUME LinksInv, Clear
  PROVE  QueueInv' /\ Contract!Clear
<1>1. TypeOK /\ list.mine \cup cleared \subseteq 1..npushed
  BY DEF LinksInv
<1>2. /\ list' \in List /\ Pointing(list') /\ Ring(list', <<>>)
      /\ list'.mine = list.mine /\ list'.len = 0
  BY <1>1, InitEmpties, TypeIsPointing DEF Clear, clearList
<1>3. list.mine \in SUBSET Elems
  BY <1>1 DEF TypeOK, List
<1>4. cleared' = cleared \cup list.mine /\ npushed' = npushed /\ popped' = popped
  BY <1>3 DEF Clear
<1>5. TypeOK'
  BY <1>1, <1>2, <1>3, <1>4 DEF TypeOK, Pointing, Clear
<1>6. RingInv(<<>>)'
  <2>1. \A x : ~In(x, <<>>)
    BY DEF In
  <2>2. npushed \in Nat
    BY <1>1, GoListConstants DEF TypeOK
  <2>3. LengthInv(<<>>)'
    BY <1>2, <1>4, <2>2 DEF LengthInv
  <2>4. MembersInv(<<>>)'
    BY <1>1, <1>2, <1>4, <2>1 DEF MembersInv
  <2> QED BY <1>2, <2>3, <2>4 DEF RingInv
<1>7. QueueInv' /\ contents(list') = <<>>
  BY <1>5, <1>6, NewRing
<1> QED
  BY <1>4, <1>7 DEF Contract!Clear

-----------------------------------------------------------------------------
(***************************************************************************)
(* What every step keeps, stale uses included: nil is never followed.      *)
(***************************************************************************)
LEMMA LinksInit == Init => LinksInv
<1>1. Init => QueueInv
  BY InvInit
<1> QED
  BY <1>1, NewListCoupled DEF Init, LinksInv, QueueInv, NewList

LEMMA LinksKept ==
  ASSUME TypeOK, list' \in List, Coupled(list'), list'.mine \cup cleared' \subseteq 1..npushed',
         npushed' \in 0..MaxElems, popped' \in Seq(Nodes), cleared' \in SUBSET Elems, stale' \in BOOLEAN
  PROVE  LinksInv'
<1>1. Pointing(list')
  BY CoupledPoints
<1> QED
  BY <1>1 DEF LinksInv, TypeOK, Pointing

LEMMA LinksNext ==
  ASSUME LinksInv, [Next]_vars
  PROVE  LinksInv'
<1>1. /\ TypeOK /\ list \in List /\ Coupled(list) /\ list.mine \cup cleared \subseteq 1..npushed
      /\ npushed \in 0..MaxElems /\ popped \in Seq(Nodes) /\ cleared \in SUBSET Elems /\ stale \in BOOLEAN
      /\ MaxElems \in Nat
  BY GoListConstants DEF LinksInv, TypeOK
<1>2. CASE Push
  <2>1. npushed + 1 \in Elems /\ npushed + 1 \notin list.mine
    BY <1>1, <1>2 DEF Push, Elems
  <2>2. list' \in List /\ Coupled(list') /\ list'.mine = list.mine \cup {npushed + 1}
    BY <1>1, <1>2, <2>1, PushBackKeepsCoupled DEF Push
  <2>3. npushed' = npushed + 1 /\ npushed' \in 0..MaxElems /\ UNCHANGED <<popped, cleared, stale>>
    BY <1>1, <1>2 DEF Push
  <2>4. list'.mine \cup cleared' \subseteq 1..npushed'
    BY <1>1, <2>2, <2>3
  <2> QED BY <1>1, <2>2, <2>3, <2>4, LinksKept
<1>3. CASE Pop
  <2>1. PICK e : e = head(list)
    OBVIOUS
  <2>2. /\ e # Nil /\ list' = ListRemove(list, e) /\ popped' = Append(popped, e)
        /\ UNCHANGED <<npushed, cleared, stale>>
    BY <1>3, <2>1 DEF Pop
  <2>3. e \in Nodes
    BY <1>1, <2>1, <2>2 DEF head, Front, TypeOK
  <2>4. list' \in List /\ Coupled(list') /\ list'.mine = list.mine \ {e}
    BY <1>1, <2>2, RemoveKeepsCoupled
  <2>5. popped' \in Seq(Nodes)
    BY <1>1, <2>2, <2>3
  <2> QED BY <1>1, <2>2, <2>4, <2>5, LinksKept
<1>4. CASE Clear
  <2>1. list' = ListInit(list) /\ stale' = FALSE /\ UNCHANGED <<npushed, popped>>
    BY <1>4 DEF Clear, clearList
  <2>2. cleared' = cleared \cup {e \in Elems : e \in list.mine}
    BY <1>4 DEF Clear
  <2>3. Coupled(list')
    BY <1>1, <2>1, InitKeepsCoupled
  <2>4. list' \in List /\ list'.mine = list.mine
    BY <1>1, <2>1, CoupledPoints, InitEmpties
  <2> QED BY <1>1, <2>1, <2>2, <2>3, <2>4, LinksKept
<1>5. ASSUME NEW e \in Elems, Remove(e) PROVE LinksInv'
  <2>1. /\ list' = ListRemove(list, e) /\ stale' = (stale \/ Dropped(e))
        /\ UNCHANGED <<npushed, popped, cleared>>
    BY <1>5 DEF Remove
  <2>2. list' \in List /\ Coupled(list') /\ list'.mine = list.mine \ {e}
    BY <1>1, <2>1, RemoveKeepsCoupled
  <2>3. stale' \in BOOLEAN
    BY <2>1
  <2> QED BY <1>1, <2>1, <2>2, <2>3, LinksKept
<1>6. ASSUME NEW e \in Elems, MoveBack(e) PROVE LinksInv'
  <2>1. /\ list' = MoveToBack(list, e) /\ stale' = (stale \/ Dropped(e))
        /\ UNCHANGED <<npushed, popped, cleared>>
    BY <1>6 DEF MoveBack, moveBack
  <2>2. list' \in List /\ Coupled(list') /\ list'.mine = list.mine
    BY <1>1, <2>1, MoveToBackKeepsCoupled
  <2>3. stale' \in BOOLEAN
    BY <2>1
  <2> QED BY <1>1, <2>1, <2>2, <2>3, LinksKept
<1>7. CASE UNCHANGED vars
  BY <1>1, <1>7, LinksKept DEF vars
<1> QED
  BY <1>2, <1>3, <1>4, <1>5, <1>6, <1>7 DEF Next

-----------------------------------------------------------------------------
(***************************************************************************)
(* A step after which the queue is not spoilt is one of the contract.      *)
(***************************************************************************)
LEMMA SoundNext ==
  ASSUME Inv, [Next]_vars, ~stale'
  PROVE  QueueInv' /\ (Contract!Next \/ UNCHANGED <<contents(list), npushed, popped>>)
<1> USE DEF Contract!Next
<1>1. CASE Push
  <2>1. QueueInv
    BY <1>1 DEF Inv, Push
  <2> QED BY <1>1, <2>1, PushStep DEF Push, Contract!Push
<1>2. CASE Pop
  <2>1. QueueInv
    BY <1>2 DEF Inv, Pop
  <2> QED BY <1>2, <2>1, PopStep
<1>3. CASE Clear
  BY <1>3, ClearStep DEF Inv
<1>4. ASSUME NEW e \in Elems, Remove(e) PROVE QueueInv' /\ (Contract!Next \/ UNCHANGED <<contents(list), npushed, popped>>)
  <2>1. QueueInv
    BY <1>4 DEF Inv, Remove
  <2> QED BY <1>4, <2>1, RemoveStep
<1>5. ASSUME NEW e \in Elems, MoveBack(e) PROVE QueueInv' /\ (Contract!Next \/ UNCHANGED <<contents(list), npushed, popped>>)
  <2>1. QueueInv
    BY <1>5 DEF Inv, MoveBack
  <2> QED BY <1>5, <2>1, MoveBackStep
<1>6. CASE UNCHANGED vars
  <2>1. QueueInv /\ stale' \in BOOLEAN
    BY <1>6 DEF Inv, LinksInv, TypeOK, vars
  <2> QED BY <1>6, <2>1, NothingDone DEF vars
<1> QED
  BY <1>1, <1>2, <1>3, <1>4, <1>5, <1>6 DEF Next

LEMMA InvNext ==
  ASSUME Inv, [Next]_vars
  PROVE  Inv' /\ (stale' \/ Contract!Next \/ UNCHANGED <<contents(list), npushed, popped>>)
<1>1. LinksInv'
  BY LinksNext DEF Inv
<1>2. ~stale' => QueueInv' /\ (Contract!Next \/ UNCHANGED <<contents(list), npushed, popped>>)
  BY SoundNext
<1> QED
  BY <1>1, <1>2 DEF Inv

LEMMA Invariant == Spec => []Inv
<1>1. Init => Inv
  BY InvInit, LinksInit DEF Inv
<1>2. Inv /\ [Next]_vars => Inv'
  BY InvNext
<1> QED
  BY <1>1, <1>2, PTL DEF Spec

\* The list stays a list, whatever callers do with the elements they hold: its elements
\* and the root point to nodes, never to nil, so that no operation follows a nil link.
THEOREM QueueTypeCorrect == Spec => []TypeOK
<1>1. Inv => TypeOK
  BY DEF Inv, LinksInv
<1> QED
  BY Invariant, <1>1, PTL

\* As long as no element that a Clear has dropped is used, and again after the next
\* Clear, Length is the number of elements a walk along the links meets, and Front and
\* Pop find nothing exactly when there is none, for any number of elements and of uses
\* of elements that have been popped or removed.
THEOREM LengthCountsContents == Spec => []LengthIsContents
<1>1. Inv => LengthIsContents
  BY HeadIsFirst DEF LengthIsContents, Length, Inv
<1> QED
  BY Invariant, <1>1, PTL

\* The linked list implements the sequence of FifoContract: every operation of Queue
\* is one of the contract or changes nothing, until an element is used that a Clear has
\* dropped, and again from the next Clear on.
THEOREM QueueIsFifo == Spec => IsFifo
<1>1. Init => Contract!Init
  <2>1. Init => contents(list) = <<>>
    <3>1. NewList \in List /\ Ring(NewList, <<>>)
      BY NewListIsEmpty
    <3> QED BY <3>1, ContentsOfRing, GoListConstants DEF Init
  <2> QED BY <2>1 DEF Init, Contract!Init
<1>2. Inv /\ [Next]_vars => [stale' \/ Contract!Next]_<<contents(list), npushed, popped>>
  BY InvNext
<1> QED
  BY Invariant, <1>1, <1>2, PTL DEF Spec, IsFifo
=============================================================================
