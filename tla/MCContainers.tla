---------------------------- MODULE MCContainers ----------------------------
(***************************************************************************)
(* A queue, a stack and an array for TLC.  They share nothing: in a        *)
(* behaviour one of them runs.                                             *)
(***************************************************************************)
EXTENDS Queue, CArray

VARIABLES
  runs,                                  \* which one
  stackList, stackPushed, stackPopped

stackVars == <<stackList, stackPushed, stackPopped>>

TheStack == INSTANCE Stack WITH list <- stackList, npushed <- stackPushed, popped <- stackPopped

ContainersInit ==
  /\ runs \in {"queue", "stack", "array"}
  /\ Init /\ TheStack!Init /\ ArrayInit

ContainersNext ==
  /\ \/ runs = "queue" /\ Next /\ UNCHANGED <<stackVars, arrayVars>>
     \/ runs = "stack" /\ TheStack!Next /\ UNCHANGED <<vars, arrayVars>>
     \/ runs = "array" /\ ArrayNext /\ UNCHANGED <<vars, stackVars>>
  /\ UNCHANGED runs

ContainersSpec == ContainersInit /\ [][ContainersNext]_<<runs, vars, stackVars, arrayVars>>

\* The variables of the queue and of the array have their types.
TypesOK == TypeOK /\ ArrayTypeOK

\* The stack is last in, first out (Stack!IsLifo).
IsLifo == TheStack!IsLifo
=============================================================================
