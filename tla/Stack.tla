------------------------------- MODULE Stack -------------------------------
(***************************************************************************)
(* container/stack/stack.go: a list.List under a RWMutex, every operation  *)
(* one lock section.  Unlike a Queue it keeps its elements to itself.      *)
(***************************************************************************)
EXTENDS GoList

VARIABLES
  list,
  npushed,    \* elements allocated so far
  popped      \* history: what Pop has returned

vars == <<list, npushed, popped>>

\* NewStack.
Init ==
  /\ list = NewList
  /\ npushed = 0
  /\ popped = <<>>

Length == list.len

Push ==
  /\ npushed < MaxElems
  /\ npushed' = npushed + 1
  /\ list' = PushBack(list, npushed + 1)
  /\ UNCHANGED popped

\* Faulty variant: the oldest element first.
top_Front(l) == Front(l)

\* The element Pop takes; Nil stands for nil.
top(l) == Back(l)

Pop ==
  LET e == top(list)
  IN  /\ e # Nil
      /\ list' = ListRemove(list, e)
      /\ popped' = Append(popped, e)
      /\ UNCHANGED npushed

Clear ==
  /\ list' = ListInit(list)
  /\ UNCHANGED <<npushed, popped>>

Next == Push \/ Pop \/ Clear

-----------------------------------------------------------------------------
Contract == INSTANCE LifoContract WITH s <- contents(list)

\* The stack is a sequence whose end is pushed and popped, and Length is its length.
IsLifo == Contract!Spec /\ [](Length = Len(contents(list)))
=============================================================================
