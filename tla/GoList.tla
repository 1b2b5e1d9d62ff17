------------------------------- MODULE GoList -------------------------------
(***************************************************************************)
(* container/list of the Go library, which Queue and Stack keep under      *)
(* their lock (external): a ring of linked elements through a root.  An    *)
(* element remembers the list it is in; Init forgets the elements, but     *)
(* they do not forget the list.                                            *)
(***************************************************************************)
EXTENDS Integers, Sequences, FiniteSets

CONSTANT MaxElems   \* bound: elements allocated

ASSUME GoListConstants == MaxElems \in Nat

Elems == 1..MaxElems
Root == 0
Nil  == -1     \* no element
Nodes == Elems \cup {Root}

\* mine: the elements whose list field is this list.
List == [next : [Nodes -> Nodes \cup {Nil}], prev : [Nodes -> Nodes \cup {Nil}],
         mine : SUBSET Elems, len : Int]

NewList == [next |-> [n \in Nodes |-> IF n = Root THEN Root ELSE Nil],
            prev |-> [n \in Nodes |-> IF n = Root THEN Root ELSE Nil],
            mine |-> {}, len |-> 0]

ListInit(l) == [l EXCEPT !.next[Root] = Root, !.prev[Root] = Root, !.len = 0]

Front(l) == IF l.len = 0 THEN Nil ELSE l.next[Root]
Back(l)  == IF l.len = 0 THEN Nil ELSE l.prev[Root]

\* Take e out of the ring, put it in after at.
unlink(l, e) == [l EXCEPT !.next[l.prev[e]] = l.next[e], !.prev[l.next[e]] = l.prev[e]]
linkAfter(l, e, at) ==
  LET after == l.next[at]
  IN  [l EXCEPT !.prev[after] = e, !.prev[e] = at, !.next[e] = after, !.next[at] = e]

PushBack(l, e) ==
  [linkAfter(l, e, l.prev[Root]) EXCEPT !.mine = @ \cup {e}, !.len = @ + 1]

ListRemove(l, e) ==
  IF e \in l.mine
  THEN [unlink(l, e) EXCEPT !.next[e] = Nil, !.prev[e] = Nil, !.mine = @ \ {e}, !.len = @ - 1]
  ELSE l

MoveToBack(l, e) ==
  IF e \in l.mine /\ l.prev[Root] # e
  THEN LET out == unlink(l, e) IN linkAfter(out, e, l.prev[Root])
  ELSE l

\* from(l)[n][e]: the elements met from e on, at most n of them.
from(l) ==
  LET f[n \in 0..MaxElems] ==
        [e \in Nodes \cup {Nil} |->
           IF n = 0 \/ e \in {Root, Nil} THEN <<>> ELSE <<e>> \o f[n - 1][l.next[e]]]
  IN  f

contents(l) == from(l)[MaxElems][l.next[Root]]
=============================================================================
