--------------------------- MODULE SortedContract ---------------------------
(***************************************************************************)
(* What a sorted set promises: entries in the order of their scores, then  *)
(* of their keys, and the score each key has.                              *)
(***************************************************************************)
EXTENDS Integers, Sequences, SequencesExt

CONSTANTS Keys, Scores, NoScore

VARIABLES
  elems,   \* the entries, in ascending order
  of       \* of[k]: the score of k; NoScore when k is not in the set

Before(a, b) == a.score < b.score \/ (a.score = b.score /\ a.key < b.key)

Init == elems = <<>> /\ of = [k \in Keys |-> NoScore]

Put(k, sc) ==
  LET e == [key |-> k, score |-> sc]
  IN  /\ \E n \in 0..Len(elems) :
           /\ \A j \in 1..Len(elems) : Before(elems[j], e) <=> j <= n
           /\ elems' = InsertAt(elems, n + 1, e)
      /\ of' = [of EXCEPT ![k] = sc]

Drop(k) ==
  LET e == [key |-> k, score |-> of[k]]
  IN  /\ of[k] # NoScore
      /\ \E n \in 1..Len(elems) :
           /\ elems[n] = e /\ \A j \in 1..n - 1 : elems[j] # e
           /\ elems' = RemoveAt(elems, n)
      /\ of' = [of EXCEPT ![k] = NoScore]

Next == \E k \in Keys : Drop(k) \/ \E sc \in Scores : Put(k, sc)

Spec == Init /\ [][Next]_<<elems, of>>
=============================================================================
