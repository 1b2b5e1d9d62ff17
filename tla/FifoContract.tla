---------------------------- MODULE FifoContract ----------------------------
(***************************************************************************)
(* What a Queue promises: a sequence of elements, appended at the end,     *)
(* taken from the front; an element can be taken out or moved to the end.  *)
(***************************************************************************)
EXTENDS Sequences, Naturals

CONSTANT Elems

VARIABLES
  q,
  npushed,   \* elements are numbered in the order they are pushed
  popped     \* the elements Pop has returned, in order

Without(n) == SubSeq(q, 1, n - 1) \o SubSeq(q, n + 1, Len(q))

Init == q = <<>> /\ npushed = 0 /\ popped = <<>>

Push ==
  /\ npushed' = npushed + 1
  /\ q' = Append(q, npushed + 1)
  /\ UNCHANGED popped

Pop ==
  /\ q # <<>>
  /\ q' = Tail(q)
  /\ popped' = Append(popped, Head(q))
  /\ UNCHANGED npushed

Remove(e) ==
  \E n \in DOMAIN q :
    /\ q[n] = e
    /\ q' = Without(n)
    /\ UNCHANGED <<npushed, popped>>

MoveBack(e) ==
  \E n \in DOMAIN q :
    /\ q[n] = e
    /\ q' = Append(Without(n), e)
    /\ UNCHANGED <<npushed, popped>>

Clear ==
  /\ q' = <<>>
  /\ UNCHANGED <<npushed, popped>>

Next ==
  \/ Push \/ Pop \/ Clear
  \/ \E e \in Elems : Remove(e) \/ MoveBack(e)

Spec == Init /\ [][Next]_<<q, npushed, popped>>
=============================================================================
