------------------------------- MODULE MCCMap -------------------------------
(***************************************************************************)
(* Instances of CMap for TLC: keys 1 and 3 share a shard, key 2 is in the  *)
(* other one.                                                              *)
(***************************************************************************)
EXTENDS CMap

MCKeys == 1..3
MCKeyHash == [k \in Keys |-> k]

WalkCalls == {"GetAll", "Count", "Iter", "Remove", "Clear"}
LiveCalls == {"Iter", "IterBuffered", "Set", "SetNX", "Keys", "Clear", "GetAndRemove", "MGet", "Count"}
NXCalls   == {"SetNX", "Set"}
=============================================================================
