---------------------------- MODULE LifoContract ----------------------------
(* What a Stack promises: a sequence, appended and taken from at its end. *)
EXTENDS Naturals, Sequences

VARIABLES
  s,
  npushed,   \* elements are numbered in the order they are pushed
  popped     \* the elements Pop has returned, in order

Init == s = <<>> /\ npushed = 0 /\ popped = <<>>

Push ==
  /\ npushed' = npushed + 1
  /\ s' = Append(s, npushed + 1)
  /\ UNCHANGED popped

Pop ==
  /\ s # <<>>
  /\ s' = SubSeq(s, 1, Len(s) - 1)
  /\ popped' = Append(popped, s[Len(s)])
  /\ UNCHANGED npushed

Clear ==
  /\ s' = <<>>
  /\ UNCHANGED <<npushed, popped>>

Spec == Init /\ [][Push \/ Pop \/ Clear]_<<s, npushed, popped>>
=============================================================================
