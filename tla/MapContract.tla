---------------------------- MODULE MapContract ----------------------------
(***************************************************************************)
(* What a ConcurrentMap promises: one map, an operation on one key takes   *)
(* effect at one moment, an operation on many keys takes effect key by     *)
(* key, Clear in any number of parts.  What a walk over the whole map      *)
(* returns is not constrained here.                                        *)
(***************************************************************************)
EXTENDS Naturals

CONSTANTS Procs, Keys, MaxVals, KeyWrites, KeyReads, Walks

None == 0
Operations == KeyWrites \cup KeyReads \cup Walks \cup {"MSet", "MGet", "Clear", "none"}

VARIABLES
  store,   \* Keys -> value, None if absent
  pend     \* Procs -> the call in progress: keys still to do, and what was found

vars == <<store, pend>>

Free == [op |-> "none", todo |-> {}, val |-> 0, got |-> {}]

TypeOK ==
  /\ store \in [Keys -> 0..MaxVals]
  /\ pend \in [Procs -> [op : Operations, todo : SUBSET Keys, val : 0..MaxVals,
                         got : SUBSET (Keys \X (1..MaxVals))]]

Init == store \in [Keys -> 0..MaxVals] /\ pend = [p \in Procs |-> Free]

found(k) == IF store[k] = None THEN {} ELSE {<<k, store[k]>>}

\* The value of k after the operation.
result(op, k, val) ==
  CASE op \in {"Set", "MSet"}             -> val
    [] op = "SetNX"                       -> IF store[k] = None THEN val ELSE store[k]
    [] op \in {"Remove", "GetAndRemove"}  -> None
    [] OTHER                              -> store[k]

reports(op) == op \in {"Get", "Has", "MGet", "GetAndRemove", "SetNX"}

Begin(p) ==
  /\ pend[p] = Free
  /\ \E op \in Operations \ {"none"}, todo \in SUBSET Keys, val \in 0..MaxVals :
       pend' = [pend EXCEPT ![p] = [op |-> op, todo |-> todo, val |-> val, got |-> {}]]
  /\ UNCHANGED store

\* The call c after it took effect on k.
applied(c, k) ==
  [op |-> c.op, todo |-> c.todo \ {k}, val |-> c.val,
   got |-> IF reports(c.op) THEN c.got \cup found(k) ELSE c.got]

Apply(p, k) ==
  /\ k \in pend[p].todo /\ pend[p].op # "Clear"
  /\ store' = [store EXCEPT ![k] = result(pend[p].op, k, pend[p].val)]
  /\ pend' = [pend EXCEPT ![p] = applied(pend[p], k)]

Clear(p) ==
  /\ pend[p].op = "Clear"
  /\ \E part \in SUBSET pend[p].todo :
       /\ store' = [k \in Keys |-> IF k \in part THEN None ELSE store[k]]
       /\ pend' = [pend EXCEPT ![p].todo = @ \ part]

End(p) ==
  /\ pend[p].op # "none" /\ pend[p].todo = {}
  /\ pend' = [pend EXCEPT ![p] = Free]
  /\ UNCHANGED store

Next == \E p \in Procs : Begin(p) \/ (\E k \in Keys : Apply(p, k)) \/ Clear(p) \/ End(p)

Spec == Init /\ [][Next]_vars
=============================================================================
