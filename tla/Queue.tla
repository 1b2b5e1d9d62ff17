------------------------------- MODULE Queue -------------------------------
(***************************************************************************)
(* container/queue/queue.go: a list.List under a RWMutex.  Every operation *)
(* is one lock section and so one step; what makes it more than a          *)
(* sequential program is that Push hands the list element to its caller,   *)
(* who may give it to Remove or MoveBack at any later time, after other    *)
(* goroutines have popped, removed or cleared it.  A cleared element still *)
(* points to the list, so that to use it then is to damage the queue.      *)
(***************************************************************************)
EXTENDS GoList

CONSTANT MaxPops   \* bound: elements popped

ASSUME QueueConstants == MaxPops \in Nat

VARIABLES
  list,
  npushed,    \* elements allocated so far
  popped,     \* history: what Pop has returned (Root: the root's nil value)
  cleared,    \* history: elements in the queue when Clear was called
  stale       \* history: such an element has been used since the last Clear

vars == <<list, npushed, popped, cleared, stale>>

TypeOK ==
  /\ list \in List
  /\ \A e \in list.mine \cup {Root} : list.next[e] \in Nodes /\ list.prev[e] \in Nodes
  /\ npushed \in 0..MaxElems
  /\ popped \in Seq(Nodes)
  /\ cleared \in SUBSET Elems
  /\ stale \in BOOLEAN

Init ==
  /\ list = NewList
  /\ npushed = 0
  /\ popped = <<>>
  /\ cleared = {}
  /\ stale = FALSE

\* The elements callers hold and may use: of another goroutine's Clear they know nothing.
held == 1..npushed

\* To use e now is to use an element that a Clear has taken out of the ring, not of the list.
Dropped(e) == e \in cleared /\ e \in list.mine

Length == list.len

\* Faulty variant: the newest element first.
head_Back(l) == Back(l)

\* The element whose value Front and Pop return; Nil stands for nil.
head(l) == Front(l)

Push ==
  /\ npushed < MaxElems
  /\ npushed' = npushed + 1
  /\ list' = PushBack(list, npushed + 1)
  /\ UNCHANGED <<popped, cleared, stale>>

Remove(e) ==
  /\ e \in held
  /\ list' = ListRemove(list, e)
  /\ stale' = (stale \/ Dropped(e))
  /\ UNCHANGED <<npushed, popped, cleared>>

Pop ==
  LET e == head(list)
  IN  /\ e # Nil
      /\ Len(popped) < MaxPops
      /\ list' = ListRemove(list, e)
      /\ popped' = Append(popped, e)
      /\ UNCHANGED <<npushed, cleared, stale>>

\* Faulty variant: an element that has left the queue is put back.
moveBack_Stale(l, e) ==
  IF e \in l.mine THEN MoveToBack(l, e) ELSE PushBack(l, e)

moveBack(l, e) == MoveToBack(l, e)

MoveBack(e) ==
  /\ e \in held
  /\ list' = moveBack(list, e)
  /\ stale' = (stale \/ Dropped(e))
  /\ UNCHANGED <<npushed, popped, cleared>>

\* Faulty variant: the list is overwritten with the zero value.
clearList_Zero(l) == [l EXCEPT !.next[Root] = Nil, !.prev[Root] = Nil, !.len = 0]

\* Faulty variant: the links are reset, the length is not.
clearList_Len(l) == [l EXCEPT !.next[Root] = Root, !.prev[Root] = Root]

clearList(l) == ListInit(l)

Clear ==
  /\ cleared' = cleared \cup {e \in Elems : e \in list.mine}
  /\ list' = clearList(list)
  /\ stale' = FALSE
  /\ UNCHANGED <<npushed, popped>>

Next ==
  \/ Push \/ Pop \/ Clear
  \/ \E e \in Elems : Remove(e) \/ MoveBack(e)

Spec == Init /\ [][Next]_vars

-----------------------------------------------------------------------------
\* Length returns the number of elements in the queue, and Front and Pop find
\* nothing exactly when there is none (comments of Length and Front): as long as no
\* dropped element has been used, and again from the next Clear on.
LengthIsContents ==
  ~stale =>
    /\ Length = Len(contents(list))
    /\ head(list) = Nil <=> contents(list) = <<>>

\* The queue is a sequence: nothing overtakes, nothing is popped twice, and elements
\* given to Remove and MoveBack after they have left the queue change nothing.  Only
\* the use of a dropped element may break this, and what follows it up to a Clear.
Contract == INSTANCE FifoContract WITH q <- contents(list)

IsFifo == Contract!Init /\ [][stale' \/ Contract!Next]_<<contents(list), npushed, popped>>
=============================================================================
