----------------------------- MODULE CMapProofs -----------------------------
(***************************************************************************)
(* Theorems about CMap, for every value of its constants.                  *)
(***************************************************************************)
EXTENDS CMap, TLAPS, FiniteSetTheorems, SequenceTheorems

(***************************************************************************)
(* The inductive invariant.  CallInv says what is left to do at each point *)
(* of a call; HoldInv says which lock a call or an iteration holds there,  *)
(* and that no key it has still to visit leaves the shard meanwhile.       *)
(***************************************************************************)
KeyOps == KeyWrites \cup KeyReads \cup {"MSet", "MGet"}
Inside == {"wait", "in", "mid", "read"}

CallInv(c) ==
  /\ c.pc = "idle" => c = NoCall
  /\ c.pc # "idle" => c.op # "none"
  /\ c.pc \in Inside \cup {"start"} => c.s \in Shards
  /\ c.pc \in {"wait", "in", "mid"} => writes(c.op)
  /\ c.pc = "read" => ~writes(c.op)
  /\ c.pc = "mid" => c.op \in {"SetNX", "GetAndRemove"}
  /\ c.op \in KeyOps /\ c.pc = "start" => c.todo # {}
  /\ c.op \in KeyOps /\ c.pc \in Inside => c.key \in c.todo /\ c.s = GetShard(c.key)
  /\ c.op \in KeyWrites => \A a, b \in c.todo : a = b
  /\ c.op \in Scans \cup Iterations => c.todo = {}
  /\ c.op = "Clear" => c.todo = {k \in Keys : GetShard(k) >= c.s}
  /\ writes(c.op) /\ c.pc \in {"start", "wait", "in"} => c.acc = {}
  /\ c.pc = "done" => c.todo = {}

CallHold(p) ==
  LET c == call[p]
  IN  /\ c.pc \in {"wait", "in", "mid"} => w[c.s] = p
      /\ c.pc \in {"in", "mid"} => readers[c.s] = {}
      /\ c.pc = "mid" => c.acc = entry(c.s, c.key)
      /\ c.pc = "read" => <<p, "call">> \in readers[c.s] /\ c.rest \subseteq keysIn(c.s)

IterHold(p) ==
  LET c == iter[p]
  IN  /\ c.pc \in {"lock", "send"} => c.s \in Shards
      /\ c.pc = "send" => <<p, "iter">> \in readers[c.s] /\ c.rest \subseteq keysIn(c.s)

HoldInv(p) == CallHold(p) /\ IterHold(p)

Inv == TypeOK /\ \A p \in Procs : CallInv(call[p]) /\ HoldInv(p)

-----------------------------------------------------------------------------
(***************************************************************************)
(* Helpers.                                                                *)
(***************************************************************************)
Contents == [Shards -> [Keys -> 0..MaxVals]]

LEMMA GetShardType == ASSUME NEW k \in Keys PROVE GetShard(k) \in Shards
BY CMapConstants DEF GetShard, Shards

LEMMA ContentsType ==
  ASSUME NEW m \in Contents
  PROVE  keysOf(m) \in SUBSET Keys /\ pairsOf(m) \in SUBSET Pairs
<1>1. \A k \in keysOf(m) : k \in Keys /\ m[GetShard(k)][k] \in 1..MaxVals
  BY GetShardType, CMapConstants DEF keysOf, Contents, None
<1> QED
  BY <1>1 DEF keysOf, pairsOf, Pairs

LEMMA EntryType ==
  ASSUME TypeOK, NEW s \in Shards, NEW k \in Keys
  PROVE  entry(s, k) \in SUBSET Pairs
BY CMapConstants DEF TypeOK, entry, Pairs, None

LEMMA CountType == ASSUME NEW s \in Shards PROVE Cardinality(keysIn(s)) \in Nat
<1>1. keysIn(s) \in SUBSET Keys
  BY DEF keysIn
<1> QED
  BY <1>1, CMapConstants, FS_Subset, FS_CardinalityType

\* The call as it goes on to the next key or shard, or to its return.
LEMMA NextKeyOK ==
  ASSUME NEW c \in CallState, CallInv(c), c.op \in KeyOps, c.pc \in Inside
  PROVE  /\ nextKey(c) \in CallState
         /\ CallInv(nextKey(c))
         /\ nextKey(c).pc \in {"start", "done"}
<1> DEFINE d == nextKey(c)
<1>1. /\ d \in CallState
      /\ d.todo = c.todo \ {c.key} /\ d.pc = IF c.todo = {c.key} THEN "done" ELSE "start"
      /\ d.op = c.op /\ d.key = c.key /\ d.s = c.s /\ d.acc = c.acc
  BY DEF nextKey, CallState, CallPcs
<1>2. c.op \in KeyWrites => c.todo = {c.key}
  BY DEF CallInv
<1>3. c.pc = "mid" => c.op \in KeyWrites
  BY DEF CallInv, KeyWrites
<1>4. c.op \notin Scans \cup Iterations /\ c.op # "Clear" /\ c.op # "none"
  BY DEF KeyOps, Scans, Iterations, KeyWrites, KeyReads
<1>5. writes(c.op) => c.pc \in {"wait", "in", "mid"}
  BY DEF CallInv, Inside
<1>6. d.pc \in {"start", "done"}
  BY <1>1
<1>7. writes(d.op) /\ d.pc = "start" => d.acc = {}
  BY <1>1, <1>2, <1>3, <1>5 DEF CallInv
<1>8. d.op \in KeyOps /\ d.pc = "start" => d.todo # {}
  BY <1>1 DEF CallInv, Inside
<1>9. d.pc = "done" => d.todo = {}
  BY <1>1
<1>10. d.op \in KeyWrites => \A a, b \in d.todo : a = b
  BY <1>1 DEF CallInv
<1>11. d.pc = "start" => d.s \in Shards
  BY <1>1 DEF CallInv, Inside
<1> HIDE DEF d
<1>12. CallInv(d)
  BY <1>1, <1>4, <1>6, <1>7, <1>8, <1>9, <1>10, <1>11 DEF CallInv, Inside
<1> QED
  BY <1>1, <1>6, <1>12 DEF d

LEMMA NextShardOK ==
  ASSUME NEW c \in CallState, CallInv(c), c.op \notin KeyOps, c.pc \in Inside
  PROVE  /\ nextShard(c) \in CallState
         /\ CallInv(nextShard(c))
         /\ nextShard(c).pc \in {"start", "done"}
<1> DEFINE d == nextShard(c)
<1>0. c.s \in Shards /\ c.s \in 0..(SHARD_COUNT - 1) /\ c.op # "none"
  BY DEF CallInv, Shards, Inside
<1>1. /\ d \in CallState
      /\ d.s = c.s + 1 /\ d.todo = {k \in c.todo : GetShard(k) # c.s}
      /\ d.pc = IF c.s + 1 = SHARD_COUNT THEN "done" ELSE "start"
      /\ d.op = c.op /\ d.acc = c.acc
  <2>1. {k \in c.todo : GetShard(k) # c.s} \in SUBSET Keys
    BY DEF CallState
  <2>2. c.s + 1 \in 0..SHARD_COUNT
    BY <1>0, CMapConstants
  <2> QED
    BY <2>1, <2>2 DEF nextShard, CallState, CallPcs
<1>2. d.pc = "start" => d.s \in Shards
  BY <1>0, <1>1, CMapConstants DEF Shards
<1>3. c.op \in Scans \cup Iterations \cup {"Clear"}
  BY <1>0 DEF CallState, AllOps, KeyOps
<1>4. c.op \in Scans \cup Iterations => d.todo = {}
  BY <1>1 DEF CallInv
<1>5. c.op = "Clear" => d.todo = {k \in Keys : GetShard(k) >= d.s}
  <2>1. \A k \in Keys : GetShard(k) \in Int
    BY GetShardType DEF Shards
  <2> QED
    BY <2>1, <1>0, <1>1 DEF CallInv
<1>6. d.pc = "done" => d.todo = {}
  <2>1. \A k \in Keys : GetShard(k) \in Int /\ GetShard(k) < SHARD_COUNT
    BY GetShardType, CMapConstants DEF Shards
  <2> QED
    BY <2>1, <1>0, <1>1, <1>3, <1>4, <1>5
<1>7. writes(c.op) /\ d.pc = "start" => d.acc = {}
  <2>1. writes(c.op) => c.pc \in {"wait", "in", "mid"} /\ c.op = "Clear"
    BY <1>3 DEF CallInv, Inside, writes, KeyWrites, Scans, Iterations
  <2> QED
    BY <2>1, <1>1 DEF CallInv
<1>8. c.op \notin KeyWrites
  BY DEF KeyOps
<1>9. d.pc \in {"start", "done"} /\ d.op \notin KeyOps /\ d.op # "none"
  BY <1>0, <1>1
<1> HIDE DEF d
<1>10. CallInv(d)
  BY <1>1, <1>2, <1>4, <1>5, <1>6, <1>7, <1>8, <1>9 DEF CallInv, Inside
<1> QED
  BY <1>1, <1>9, <1>10 DEF d

\* A step that replaces the call of p by a good one.
LEMMA CallChange ==
  ASSUME Inv, NEW p \in Procs, NEW X \in CallState, CallInv(X),
         call' = [call EXCEPT ![p] = X]
  PROVE  /\ call' \in [Procs -> CallState]
         /\ \A q \in Procs : CallInv(call'[q])
         /\ call'[p] = X
         /\ \A q \in Procs \ {p} : call'[q] = call[q]
BY DEF Inv, TypeOK

LEMMA ObserveType ==
  ASSUME TypeOK, NEW m \in Contents, observe(m)
  PROVE  watch' \in [Procs -> WatchState]
<1>1. keysOf(m) \in SUBSET Keys /\ pairsOf(m) \in SUBSET Pairs
  BY ContentsType
<1>2. ASSUME NEW q \in Procs
      PROVE  [stable |-> watch[q].stable \cap keysOf(m), seen |-> watch[q].seen \cup pairsOf(m),
              grown |-> watch[q].grown \/ ~(keysOf(m) \subseteq keysOf(items))] \in WatchState
  <2>1. watch[q].stable \in SUBSET Keys /\ watch[q].seen \in SUBSET Pairs /\ watch[q].grown \in BOOLEAN
    BY DEF TypeOK, WatchState
  <2>2. watch[q].stable \cap keysOf(m) \in SUBSET Keys
    BY <2>1
  <2>3. watch[q].seen \cup pairsOf(m) \in SUBSET Pairs
    BY <1>1, <2>1
  <2>4. (watch[q].grown \/ ~(keysOf(m) \subseteq keysOf(items))) \in BOOLEAN
    OBVIOUS
  <2> QED
    BY <2>2, <2>3, <2>4 DEF WatchState
<1>3. \A q \in Procs : watch[q] \in WatchState
  BY DEF TypeOK
<1> QED
  BY <1>2, <1>3 DEF observe

\* The writer leaves its shard: nobody else was in it.
LEMMA WriteHold ==
  ASSUME Inv, NEW p \in Procs, call[p].pc \in {"in", "mid"},
         call'[p].pc \in {"start", "done"}, \A q \in Procs \ {p} : call'[q] = call[q],
         \A t \in Shards \ {call[p].s} : items'[t] = items[t],
         w' = [w EXCEPT ![call[p].s] = Nobody], readers' = readers, iter' = iter
  PROVE  \A q \in Procs : HoldInv(q)'
<1> DEFINE s == call[p].s
<1>1. s \in Shards /\ w[s] = p /\ readers[s] = {}
  BY DEF Inv, CallInv, HoldInv, CallHold, IterHold, Inside
<1>2. \A t \in Shards \ {s} : w'[t] = w[t] /\ items'[t] = items[t] /\ keysIn(t)' = keysIn(t)
  BY <1>1 DEF Inv, TypeOK, keysIn
<1>3. SUFFICES ASSUME NEW q \in Procs PROVE HoldInv(q)'
  OBVIOUS
<1>4. iter[q].pc = "send" => iter[q].s \in Shards \ {s}
  BY <1>1 DEF Inv, HoldInv, CallHold, IterHold
<1>5. q # p /\ call[q].pc \in Inside => call[q].s \in Shards \ {s}
  <2>1. HoldInv(q) /\ CallInv(call[q])
    BY DEF Inv
  <2>2. call[q].pc \in {"wait", "in", "mid"} => w[call[q].s] = q
    BY <2>1 DEF HoldInv, CallHold, IterHold
  <2>3. call[q].pc = "read" => readers[call[q].s] # {}
    BY <2>1 DEF HoldInv, CallHold, IterHold
  <2>4. call[q].pc \in Inside => call[q].s \in Shards
    BY <2>1 DEF CallInv
  <2> QED
    BY <1>1, <2>2, <2>3, <2>4 DEF Inside
<1> HIDE DEF s
<1>7. CASE q = p
  BY <1>2, <1>4, <1>7 DEF Inv, HoldInv, CallHold, IterHold
<1>8. CASE q # p
  <2>1. call'[q] = call[q]
    BY <1>8
  <2>2. HoldInv(q)
    BY DEF Inv
  <2>3. call[q].pc = "mid" => entry(call[q].s, call[q].key)' = entry(call[q].s, call[q].key)
    BY <1>2, <1>5, <1>8, <2>1 DEF entry, Inside
  <2>4. /\ call[q].pc \in {"wait", "in", "mid"} => w'[call[q].s] = q
        /\ call[q].pc \in {"in", "mid"} => readers'[call[q].s] = {}
    BY <1>2, <1>5, <1>8, <2>2 DEF HoldInv, CallHold, IterHold, Inside
  <2>5. call[q].pc = "mid" => (call[q].acc = entry(call[q].s, call[q].key))'
    BY <2>1, <2>2, <2>3 DEF HoldInv, CallHold, IterHold
  <2>6. call[q].pc = "read"
          => <<q, "call">> \in readers'[call[q].s] /\ call[q].rest \subseteq keysIn(call[q].s)'
    BY <1>2, <1>5, <1>8, <2>1, <2>2 DEF HoldInv, CallHold, IterHold, Inside
  <2>7. iter[q].pc = "send"
          => <<q, "iter">> \in readers'[iter[q].s] /\ iter[q].rest \subseteq keysIn(iter[q].s)'
    BY <1>2, <1>4, <2>2 DEF HoldInv, CallHold, IterHold
  <2> QED
    BY <2>1, <2>2, <2>4, <2>5, <2>6, <2>7 DEF HoldInv, CallHold, IterHold, keysIn, entry
<1> QED
  BY <1>7, <1>8

\* The reader leaves its shard.
LEMMA ReadHold ==
  ASSUME Inv, NEW p \in Procs, call[p].pc = "read",
         call'[p].pc \in {"start", "done"}, \A q \in Procs \ {p} : call'[q] = call[q],
         readers' = [readers EXCEPT ![call[p].s] = @ \ {<<p, "call">>}],
         items' = items, w' = w, iter' = iter
  PROVE  \A q \in Procs : HoldInv(q)'
<1>1. call[p].s \in Shards
  BY DEF Inv, CallInv, Inside
<1>2. \A t \in Shards : keysIn(t)' = keysIn(t) /\ \A k \in Keys : entry(t, k)' = entry(t, k)
  BY DEF keysIn, entry
<1>3. \A t \in Shards : /\ readers'[t] \subseteq readers[t]
                        /\ \A h \in readers[t] : h # <<p, "call">> => h \in readers'[t]
  BY <1>1 DEF Inv, TypeOK
<1>4. SUFFICES ASSUME NEW q \in Procs PROVE HoldInv(q)'
  OBVIOUS
<1>5. HoldInv(q) /\ (call[q].pc \in Inside => call[q].s \in Shards)
  BY DEF Inv, CallInv
<1>6. <<q, "iter">> # <<p, "call">> /\ (q # p => <<q, "call">> # <<p, "call">>)
  OBVIOUS
<1>7. entry(call[q].s, call[q].key)' = entry(call'[q].s, call'[q].key)
  BY DEF entry
<1>8. CASE q = p
  BY <1>2, <1>3, <1>5, <1>6, <1>8 DEF HoldInv, CallHold, IterHold
<1>9. CASE q # p
  <2>1. call'[q] = call[q]
    BY <1>9
  <2> QED
    BY <1>2, <1>3, <1>5, <1>6, <1>7, <1>9, <2>1 DEF HoldInv, CallHold, IterHold, Inside
<1> QED
  BY <1>8, <1>9

\* A step that changes neither locks nor contents nor iterations.
LEMMA QuietHold ==
  ASSUME Inv, NEW p \in Procs, \A q \in Procs \ {p} : call'[q] = call[q],
         UNCHANGED <<items, w, readers, iter>>, CallHold(p)'
  PROVE  \A q \in Procs : HoldInv(q)'
<1> SUFFICES ASSUME NEW q \in Procs PROVE HoldInv(q)'
  OBVIOUS
<1>1. HoldInv(q)
  BY DEF Inv
<1>2. IterHold(q)'
  BY <1>1 DEF HoldInv, IterHold, keysIn
<1>3. CASE q = p
  BY <1>2, <1>3 DEF HoldInv
<1>4. CASE q # p
  <2>1. call'[q] = call[q]
    BY <1>4
  <2>2. CallHold(q)'
    BY <1>1, <2>1 DEF HoldInv, CallHold, keysIn, entry
  <2> QED
    BY <1>2, <2>2 DEF HoldInv
<1> QED
  BY <1>3, <1>4

\* A step of the iteration of p, which may take or give back its read lock.
LEMMA IterStepHold ==
  ASSUME Inv, NEW p \in Procs, UNCHANGED <<items, w, call>>,
         \A q \in Procs \ {p} : iter'[q] = iter[q], IterHold(p)',
         \A t \in Shards : \/ readers'[t] = readers[t]
                           \/ w[t] = Nobody /\ readers'[t] = readers[t] \cup {<<p, "iter">>}
                           \/ readers'[t] = readers[t] \ {<<p, "iter">>}
  PROVE  \A q \in Procs : HoldInv(q)'
<1> SUFFICES ASSUME NEW q \in Procs PROVE HoldInv(q)'
  OBVIOUS
<1>1. HoldInv(q) /\ CallInv(call[q])
  BY DEF Inv
<1>2. \A t \in Shards : <<q, "call">> \in readers[t] => <<q, "call">> \in readers'[t]
  BY <<q, "call">> # <<p, "iter">>
<1>3. \A t \in Shards : readers[t] = {} /\ w[t] = q => readers'[t] = {}
  BY DEF Procs, Nobody
<1>4. call[q].pc \in Inside => call[q].s \in Shards
  BY <1>1 DEF CallInv
<1>5. CallHold(q)'
  BY <1>1, <1>2, <1>3, <1>4 DEF HoldInv, CallHold, keysIn, entry, Inside
<1>6. CASE q = p
  BY <1>5, <1>6 DEF HoldInv
<1>7. CASE q # p
  <2>1. iter'[q] = iter[q]
    BY <1>7
  <2>2. \A t \in Shards : <<q, "iter">> \in readers[t] => <<q, "iter">> \in readers'[t]
    BY <1>7, <<q, "iter">> # <<p, "iter">>
  <2>3. IterHold(q)'
    BY <1>1, <2>1, <2>2 DEF HoldInv, IterHold, keysIn
  <2> QED
    BY <1>5, <2>3 DEF HoldInv
<1> QED
  BY <1>6, <1>7

\* A call takes a lock of a shard without a writer.
LEMMA LockHold ==
  ASSUME Inv, NEW p \in Procs, NEW t \in Shards, w[t] = Nobody,
         \A q \in Procs \ {p} : call'[q] = call[q], UNCHANGED <<items, iter>>, CallHold(p)',
         readers' = readers \/ readers' = [readers EXCEPT ![t] = @ \cup {<<p, "call">>}],
         w' = w \/ w' = [w EXCEPT ![t] = p]
  PROVE  \A q \in Procs : HoldInv(q)'
<1> SUFFICES ASSUME NEW q \in Procs PROVE HoldInv(q)'
  OBVIOUS
<1>1. HoldInv(q) /\ CallInv(call[q])
  BY DEF Inv
<1>2. \A u \in Shards : /\ readers[u] \subseteq readers'[u]
                        /\ u # t => readers'[u] = readers[u] /\ w'[u] = w[u]
  BY DEF Inv, TypeOK
<1>3. \A u \in Shards : w[u] = q => u # t
  BY DEF Procs, Nobody
<1>4. IterHold(q)'
  BY <1>1, <1>2 DEF HoldInv, IterHold, keysIn
<1>5. CASE q = p
  BY <1>4, <1>5 DEF HoldInv
<1>6. CASE q # p
  <2>1. call'[q] = call[q] /\ (call[q].pc \in Inside => call[q].s \in Shards)
    BY <1>1, <1>6 DEF CallInv
  <2>2. CallHold(q)'
    BY <1>1, <1>2, <1>3, <2>1 DEF HoldInv, CallHold, keysIn, entry, Inside
  <2> QED
    BY <1>4, <2>2 DEF HoldInv
<1> QED
  BY <1>5, <1>6

-----------------------------------------------------------------------------
LEMMA InvInit == Init => Inv
<1> SUFFICES ASSUME Init PROVE Inv
  OBVIOUS
<1>1. NoCall \in CallState
  BY CMapConstants DEF NoCall, CallState, AllOps, CallPcs
<1>2. NoIter \in IterState
  BY CMapConstants DEF NoIter, IterState
<1>3. NoWatch \in WatchState
  BY DEF NoWatch, WatchState
<1>4. TypeOK
  BY <1>1, <1>2, <1>3, CMapConstants DEF Init, TypeOK, None
<1>5. CallInv(NoCall)
  BY DEF CallInv, NoCall, Inside, KeyOps, KeyWrites, KeyReads, Scans, Iterations
<1>6. \A p \in Procs : HoldInv(p)
  BY DEF Init, HoldInv, CallHold, IterHold, NoCall, NoIter
<1> QED
  BY <1>4, <1>5, <1>6 DEF Inv, Init

\* A call begins with arguments on which it can be carried out.
LEMMA ArgumentsOK ==
  ASSUME NEW op \in AllOps, NEW todo \in arguments(op)
  PROVE  /\ todo \in SUBSET Keys
         /\ op \in KeyOps => todo # {}
         /\ op \in KeyWrites => \A a, b \in todo : a = b
         /\ op \in Scans \cup Iterations => todo = {}
         /\ op = "Clear" => todo = Keys
<1>1. CASE op \in KeyWrites \cup KeyReads
  BY <1>1 DEF arguments, KeyWrites, KeyReads, Scans, Iterations
<1>2. CASE op \in {"MSet", "MGet"}
  <2>1. Cardinality({}) = 0
    BY FS_EmptySet
  <2> QED
    BY <1>2, <2>1 DEF arguments, KeyWrites, KeyReads, Scans, Iterations
<1>3. CASE op = "Clear"
  BY <1>3 DEF arguments, KeyWrites, KeyReads, Scans, Iterations, KeyOps
<1>4. CASE op \in Scans \cup Iterations
  BY <1>4 DEF arguments, KeyWrites, KeyReads, Scans, Iterations, KeyOps
<1> QED
  BY <1>1, <1>2, <1>3, <1>4 DEF AllOps

LEMMA WatchFromType ==
  ASSUME TypeOK, NEW p \in Procs, NEW g \in BOOLEAN
  PROVE  watchFrom(p, g) \in [Procs -> WatchState]
<1>1. keysOf(items) \in SUBSET Keys /\ pairsOf(items) \in SUBSET Pairs
  BY ContentsType DEF TypeOK, Contents
<1>2. [stable |-> keysOf(items), seen |-> pairsOf(items), grown |-> g] \in WatchState
  BY <1>1 DEF WatchState
<1> QED
  BY <1>2 DEF TypeOK, watchFrom

LEMMA CallStepInv ==
  ASSUME Inv, NEW p \in Procs, NEW op \in AllOps, NEW todo \in arguments(op), Call(p, op, todo)
  PROVE  Inv'
<1> DEFINE fresh == op \in {"Set", "SetNX", "MSet"}
           X == [NoCall EXCEPT !.op = op, !.pc = firstPc(op), !.todo = todo,
                               !.val = IF fresh THEN nvals + 1 ELSE 0]
<1>0. TypeOK /\ HoldInv(p)
  BY DEF Inv
<1>1. nvals' \in 0..MaxVals /\ (fresh => nvals + 1 \in 0..MaxVals)
  BY <1>0, CMapConstants DEF Call, TypeOK
<1>2. X \in CallState
  <2>1. todo \in SUBSET Keys
    BY ArgumentsOK
  <2>2. 0 \in 0..MaxVals /\ 0 \in 0..SHARD_COUNT
    BY CMapConstants
  <2>3. firstPc(op) \in CallPcs
    BY DEF firstPc, CallPcs
  <2> QED
    BY <1>1, <2>1, <2>2, <2>3 DEF CallState, NoCall, Call
<1>3. /\ X.op = op /\ X.todo = todo /\ X.s = 0 /\ X.acc = {} /\ X.pc = firstPc(op)
      /\ X.pc \in {"start", "done"} /\ (X.pc = "done" <=> op = "Iter")
  BY DEF NoCall, firstPc
<1>4. call' = [call EXCEPT ![p] = X] /\ UNCHANGED <<items, w, readers, iter, loop, taken>>
  BY DEF Call
<1> HIDE DEF X
<1>5. CallInv(X)
  <2>1. 0 \in Shards /\ \A k \in Keys : GetShard(k) >= 0
    BY GetShardType, CMapConstants DEF Shards
  <2>2. op # "none" /\ (op = "Iter" => op \in Iterations)
    BY DEF AllOps, KeyWrites, KeyReads, Scans, Iterations
  <2>3. op = "Clear" => todo = {k \in Keys : GetShard(k) >= 0}
    BY <2>1, ArgumentsOK
  <2> QED
    BY <1>3, <2>1, <2>2, <2>3, ArgumentsOK DEF CallInv, Inside
<1>6. /\ call' \in [Procs -> CallState] /\ \A q \in Procs : CallInv(call'[q])
      /\ call'[p] = X /\ \A q \in Procs \ {p} : call'[q] = call[q]
  BY <1>2, <1>4, <1>5, CallChange
<1>7. \A q \in Procs : HoldInv(q)'
  <2>1. CallHold(p)'
    BY <1>3, <1>6 DEF CallHold
  <2> QED
    BY <1>4, <1>6, <2>1, QuietHold
<1>8. watch' \in [Procs -> WatchState]
  <2>1. grew(p) \in BOOLEAN
    BY DEF grew
  <2> QED
    BY <1>0, <2>1, WatchFromType DEF Call, TypeOK
<1>9. ncalls' \in [Procs -> 0..MaxCalls]
  BY <1>0, CMapConstants DEF Call, TypeOK
<1>10. TypeOK'
  BY <1>0, <1>1, <1>4, <1>6, <1>8, <1>9 DEF TypeOK
<1> QED
  BY <1>6, <1>7, <1>10 DEF Inv

LEMMA ReturnInv ==
  ASSUME Inv, NEW p \in Procs, Return(p)
  PROVE  Inv'
<1>0. TypeOK
  BY DEF Inv
<1>1. UNCHANGED <<items, w, readers, nvals, ncalls, taken>> /\ call' = [call EXCEPT ![p] = NoCall]
  BY DEF Return
<1>2. NoCall \in CallState /\ CallInv(NoCall)
  BY CMapConstants DEF NoCall, CallState, AllOps, CallPcs, CallInv, Inside, KeyOps, KeyWrites,
                       KeyReads, Scans, Iterations
<1>3. /\ call' \in [Procs -> CallState] /\ \A q \in Procs : CallInv(call'[q])
      /\ call'[p] = NoCall /\ \A q \in Procs \ {p} : call'[q] = call[q]
  BY <1>1, <1>2, CallChange
<1>4. \/ iter' = iter
      \/ /\ iter' = [iter EXCEPT ![p] = [NoIter EXCEPT !.pc = "lock", !.cap = call[p].n]]
         /\ [NoIter EXCEPT !.pc = "lock", !.cap = call[p].n] \in IterState
  <2>1. call[p].n \in Nat
    BY <1>0 DEF TypeOK, CallState
  <2>2. NoIter \in IterState
    BY CMapConstants DEF NoIter, IterState
  <2>3. [NoIter EXCEPT !.pc = "lock", !.cap = call[p].n] \in IterState
    BY <2>1, <2>2 DEF IterState
  <2> QED
    BY <2>3 DEF Return
<1>5. iter' \in [Procs -> IterState]
  BY <1>0, <1>4 DEF TypeOK
<1>6. \A q \in Procs : \/ iter'[q] = iter[q]
                       \/ iter'[q].pc = "lock" /\ iter'[q].s = 0
  BY <1>0, <1>4 DEF TypeOK, NoIter
<1>7. \A q \in Procs : HoldInv(q)'
  <2> SUFFICES ASSUME NEW q \in Procs PROVE HoldInv(q)'
    OBVIOUS
  <2>1. HoldInv(q) /\ 0 \in Shards
    BY CMapConstants DEF Inv, Shards
  <2>2. IterHold(q)'
    BY <1>1, <1>6, <2>1 DEF HoldInv, IterHold, keysIn
  <2>3. call'[q] = call[q] \/ call'[q].pc = "idle"
    BY <1>3 DEF NoCall
  <2>4. CallHold(q)'
    BY <1>1, <2>1, <2>3 DEF HoldInv, CallHold, keysIn, entry
  <2> QED
    BY <2>2, <2>4 DEF HoldInv
<1>8. watch' \in [Procs -> WatchState] /\ loop' \in SUBSET Procs
  <2>1. watch[p].grown \in BOOLEAN /\ grew(p) \in BOOLEAN
    BY <1>0 DEF TypeOK, WatchState, grew
  <2>2. [NoWatch EXCEPT !.grown = grew(p)] \in WatchState
    BY <2>1 DEF NoWatch, WatchState
  <2>3. watchFrom(p, watch[p].grown) \in [Procs -> WatchState]
    BY <1>0, <2>1, WatchFromType
  <2>4. \/ watch' = watchFrom(p, watch[p].grown)
        \/ watch' = [watch EXCEPT ![p] = [NoWatch EXCEPT !.grown = grew(p)]]
        \/ watch' = watch
    BY DEF Return
  <2>5. watch \in [Procs -> WatchState] /\ loop \in SUBSET Procs
    BY <1>0 DEF TypeOK
  <2>6. watch' \in [Procs -> WatchState]
    BY <2>2, <2>3, <2>4, <2>5
  <2> QED
    BY <2>5, <2>6 DEF Return
<1>9. TypeOK'
  BY <1>0, <1>1, <1>3, <1>5, <1>8 DEF TypeOK
<1> QED
  BY <1>3, <1>7, <1>9 DEF Inv

LEMMA TargetsOK ==
  ASSUME Inv, NEW p \in Procs, call[p].pc = "start", NEW t \in targets(p)
  PROVE  /\ t[1] \in Keys \cup {None} /\ t[2] \in Shards
         /\ call[p].op \in KeyOps => t[1] \in call[p].todo /\ t[2] = GetShard(t[1])
         /\ call[p].op \notin KeyOps => t[2] = call[p].s
<1>1. /\ CallInv(call[p]) /\ call[p].todo \in SUBSET Keys /\ call[p].op \in AllOps
      /\ call[p].op # "none" /\ call[p].s \in Shards
  BY DEF Inv, TypeOK, CallState, CallInv
<1>2. call[p].op \in KeyOps => call[p].todo # {} /\ call[p].op # "Clear"
  BY <1>1 DEF CallInv, KeyOps, KeyWrites, KeyReads
<1>3. call[p].op \notin KeyOps => call[p].op = "Clear" \/ call[p].todo = {}
  BY <1>1 DEF CallInv, KeyOps, AllOps
<1>4. \/ /\ call[p].todo # {} /\ call[p].op # "Clear"
         /\ t[1] \in call[p].todo /\ t[2] = GetShard(t[1])
      \/ ~(call[p].todo # {} /\ call[p].op # "Clear") /\ t[1] = None /\ t[2] = call[p].s
  BY DEF targets
<1> QED
  BY <1>1, <1>2, <1>3, <1>4, GetShardType

LEMMA LockInv ==
  ASSUME Inv, NEW p \in Procs, Lock(p)
  PROVE  Inv'
<1>0. TypeOK /\ CallInv(call[p]) /\ call[p] \in CallState
  BY DEF Inv, TypeOK
<1>1. PICK t \in targets(p) :
        /\ w[t[2]] = Nobody /\ w' = [w EXCEPT ![t[2]] = p]
        /\ call' = [call EXCEPT ![p].pc = "wait", ![p].key = t[1], ![p].s = t[2]]
  BY DEF Lock, noWriter
<1> DEFINE X == [call[p] EXCEPT !.pc = "wait", !.key = t[1], !.s = t[2]]
<1>2. /\ call[p].pc = "start" /\ writes(call[p].op)
      /\ UNCHANGED <<items, readers, iter, loop, nvals, ncalls, taken, watch>>
  BY DEF Lock
<1>3. /\ t[1] \in Keys \cup {None} /\ t[2] \in Shards
      /\ call[p].op \in KeyOps => t[1] \in call[p].todo /\ t[2] = GetShard(t[1])
      /\ call[p].op \notin KeyOps => t[2] = call[p].s
  BY <1>2, TargetsOK
<1>4. X \in CallState
  <2>1. t[2] \in 0..SHARD_COUNT
    BY <1>3, CMapConstants DEF Shards
  <2> QED
    BY <1>0, <1>3, <2>1 DEF CallState, CallPcs
<1>5. call' = [call EXCEPT ![p] = X]
  BY <1>0, <1>1 DEF TypeOK, CallState
<1>6. /\ X.op = call[p].op /\ X.todo = call[p].todo /\ X.acc = call[p].acc
      /\ X.pc = "wait" /\ X.key = t[1] /\ X.s = t[2]
  BY <1>0 DEF CallState
<1> HIDE DEF X
<1>7. CallInv(X)
  <2>1. X.op = "Clear" => X.op \notin KeyOps
    BY DEF KeyOps, KeyWrites, KeyReads
  <2> QED
    BY <1>0, <1>2, <1>3, <1>6, <2>1 DEF CallInv, Inside
<1>8. /\ call' \in [Procs -> CallState] /\ \A q \in Procs : CallInv(call'[q])
      /\ call'[p] = X /\ \A q \in Procs \ {p} : call'[q] = call[q]
  BY <1>4, <1>5, <1>7, CallChange
<1>9. \A q \in Procs : HoldInv(q)'
  <2>0. w'[t[2]] = p
    BY <1>0, <1>1, <1>3 DEF TypeOK
  <2>1. CallHold(p)'
    BY <1>6, <1>8, <2>0 DEF CallHold
  <2> QED
    BY <1>1, <1>2, <1>3, <1>8, <2>1, LockHold
<1>10. TypeOK'
  BY <1>0, <1>1, <1>2, <1>8 DEF TypeOK
<1> QED
  BY <1>8, <1>9, <1>10 DEF Inv

\* A step of p inside its lock section.
LEMMA QuietInv ==
  ASSUME Inv, NEW p \in Procs, NEW X \in CallState, CallInv(X), call' = [call EXCEPT ![p] = X],
         UNCHANGED <<items, w, readers, iter, loop, nvals, ncalls, taken, watch>>, CallHold(p)'
  PROVE  Inv'
<1>1. /\ call' \in [Procs -> CallState] /\ \A q \in Procs : CallInv(call'[q])
      /\ \A q \in Procs \ {p} : call'[q] = call[q]
  BY CallChange
<1>2. \A q \in Procs : HoldInv(q)'
  BY <1>1, QuietHold
<1>3. TypeOK'
  BY <1>1 DEF Inv, TypeOK
<1> QED
  BY <1>1, <1>2, <1>3 DEF Inv

LEMMA lockedInv ==
  ASSUME Inv, NEW p \in Procs, locked(p)
  PROVE  Inv'
<1>0. TypeOK /\ CallInv(call[p]) /\ HoldInv(p) /\ call[p] \in CallState
  BY DEF Inv, TypeOK
<1> DEFINE X == [call[p] EXCEPT !.pc = "in"]
<1>1. /\ call[p].pc = "wait" /\ readers[call[p].s] = {} /\ call' = [call EXCEPT ![p].pc = "in"]
      /\ UNCHANGED <<items, w, readers, iter, loop, nvals, ncalls, taken, watch>>
  BY DEF locked, noReaders
<1>2. X \in CallState
  BY <1>0 DEF CallState, CallPcs
<1>3. call' = [call EXCEPT ![p] = X] /\ call'[p] = X
  BY <1>0, <1>1 DEF TypeOK, CallState
<1>4. /\ X.op = call[p].op /\ X.todo = call[p].todo /\ X.acc = call[p].acc
      /\ X.pc = "in" /\ X.key = call[p].key /\ X.s = call[p].s
  BY <1>0 DEF CallState
<1> HIDE DEF X
<1>5. CallInv(X)
  BY <1>0, <1>1, <1>4 DEF CallInv, Inside
<1>6. CallHold(p)'
  BY <1>0, <1>1, <1>3, <1>4 DEF HoldInv, CallHold
<1> QED
  BY <1>1, <1>2, <1>3, <1>5, <1>6, QuietInv

LEMMA RLockInv ==
  ASSUME Inv, NEW p \in Procs, RLock(p)
  PROVE  Inv'
<1>0. TypeOK /\ CallInv(call[p]) /\ call[p] \in CallState
  BY DEF Inv, TypeOK
<1>1. PICK t \in targets(p) :
        /\ w[t[2]] = Nobody /\ readers' = [readers EXCEPT ![t[2]] = @ \cup {<<p, "call">>}]
        /\ call' = [call EXCEPT ![p].pc = "read", ![p].key = t[1], ![p].s = t[2],
                                ![p].rest = keysIn(t[2])]
  BY DEF RLock, noWriter
<1> DEFINE X == [call[p] EXCEPT !.pc = "read", !.key = t[1], !.s = t[2], !.rest = keysIn(t[2])]
<1>2. /\ call[p].pc = "start" /\ ~writes(call[p].op)
      /\ UNCHANGED <<items, w, iter, loop, nvals, ncalls, taken, watch>>
  BY DEF RLock
<1>3. /\ t[1] \in Keys \cup {None} /\ t[2] \in Shards
      /\ call[p].op \in KeyOps => t[1] \in call[p].todo /\ t[2] = GetShard(t[1])
      /\ call[p].op \notin KeyOps => t[2] = call[p].s
  BY <1>2, TargetsOK
<1>4. X \in CallState
  <2>1. t[2] \in 0..SHARD_COUNT
    BY <1>3, CMapConstants DEF Shards
  <2>2. keysIn(t[2]) \in SUBSET Keys
    BY DEF keysIn
  <2>3. "read" \in CallPcs
    BY DEF CallPcs
  <2> QED
    BY <1>0, <1>3, <2>1, <2>2, <2>3 DEF CallState
<1>5. call' = [call EXCEPT ![p] = X]
  BY <1>0, <1>1 DEF TypeOK, CallState
<1>6. /\ X.op = call[p].op /\ X.todo = call[p].todo /\ X.acc = call[p].acc
      /\ X.pc = "read" /\ X.key = t[1] /\ X.s = t[2] /\ X.rest = keysIn(t[2])
  BY <1>0 DEF CallState
<1> HIDE DEF X
<1>7. CallInv(X)
  <2>1. X.op = "Clear" => X.op \notin KeyOps
    BY DEF KeyOps, KeyWrites, KeyReads
  <2> QED
    BY <1>0, <1>2, <1>3, <1>6, <2>1 DEF CallInv, Inside
<1>8. /\ call' \in [Procs -> CallState] /\ \A q \in Procs : CallInv(call'[q])
      /\ call'[p] = X /\ \A q \in Procs \ {p} : call'[q] = call[q]
  BY <1>4, <1>5, <1>7, CallChange
<1>9. {<<p, "call">>} \in SUBSET Holders
  BY DEF Holders
<1>10. \A q \in Procs : HoldInv(q)'
  <2>1. <<p, "call">> \in readers'[t[2]]
    BY <1>0, <1>1, <1>3 DEF TypeOK
  <2>2. keysIn(t[2])' = keysIn(t[2])
    BY <1>2 DEF keysIn
  <2>3. CallHold(p)'
    BY <1>6, <1>8, <2>1, <2>2 DEF CallHold, keysIn
  <2> QED
    BY <1>1, <1>2, <1>3, <1>8, <2>3, LockHold
<1>11. readers' \in [Shards -> SUBSET Holders]
  BY <1>0, <1>1, <1>9 DEF TypeOK
<1>12. TypeOK'
  BY <1>0, <1>2, <1>8, <1>11 DEF TypeOK
<1> QED
  BY <1>8, <1>10, <1>12 DEF Inv

\* The key a call is at.
LEMMA KeyOK ==
  ASSUME Inv, NEW p \in Procs, call[p].op \in KeyOps, call[p].pc \in Inside
  PROVE  /\ call[p].key \in Keys /\ call[p].key \in call[p].todo
         /\ call[p].s = GetShard(call[p].key) /\ call[p].s \in Shards
<1>1. CallInv(call[p]) /\ call[p].todo \in SUBSET Keys
  BY DEF Inv, TypeOK, CallState
<1> QED
  BY <1>1 DEF CallInv

\* p writes its shard and leaves it.
LEMMA WriteInv ==
  ASSUME Inv, NEW p \in Procs, call[p].pc \in {"in", "mid"},
         NEW X \in CallState, CallInv(X), X.pc \in {"start", "done"},
         call' = [call EXCEPT ![p] = X],
         NEW row \in [Keys -> 0..MaxVals], items' = [items EXCEPT ![call[p].s] = row],
         Unlock(p), observe(items'), taken' \in SUBSET Pairs,
         UNCHANGED <<readers, iter, loop, nvals, ncalls>>
  PROVE  Inv'
<1>0. TypeOK
  BY DEF Inv
<1>1. /\ call' \in [Procs -> CallState] /\ \A q \in Procs : CallInv(call'[q])
      /\ call'[p] = X /\ \A q \in Procs \ {p} : call'[q] = call[q]
  BY CallChange
<1>2. items' \in Contents /\ \A t \in Shards \ {call[p].s} : items'[t] = items[t]
  BY <1>0 DEF TypeOK, Contents
<1>3. w' = [w EXCEPT ![call[p].s] = Nobody] /\ w' \in [Shards -> Procs \cup {Nobody}]
  BY <1>0 DEF TypeOK, Unlock
<1>4. \A q \in Procs : HoldInv(q)'
  BY <1>1, <1>2, <1>3, WriteHold
<1>5. watch' \in [Procs -> WatchState]
  BY <1>0, <1>2, ObserveType
<1>6. TypeOK'
  BY <1>0, <1>1, <1>2, <1>3, <1>5 DEF TypeOK, Contents
<1> QED
  BY <1>1, <1>4, <1>6 DEF Inv

\* p leaves a shard it has read.
LEMMA ReadInv ==
  ASSUME Inv, NEW p \in Procs, call[p].pc = "read",
         NEW X \in CallState, CallInv(X), X.pc \in {"start", "done"},
         call' = [call EXCEPT ![p] = X], RUnlock(p),
         UNCHANGED <<items, w, iter, loop, nvals, ncalls, taken, watch>>
  PROVE  Inv'
<1>0. TypeOK
  BY DEF Inv
<1>1. /\ call' \in [Procs -> CallState] /\ \A q \in Procs : CallInv(call'[q])
      /\ call'[p] = X /\ \A q \in Procs \ {p} : call'[q] = call[q]
  BY CallChange
<1>2. /\ readers' = [readers EXCEPT ![call[p].s] = @ \ {<<p, "call">>}]
      /\ readers' \in [Shards -> SUBSET Holders]
  BY <1>0 DEF TypeOK, RUnlock
<1>3. \A q \in Procs : HoldInv(q)'
  BY <1>1, <1>2, ReadHold
<1>4. TypeOK'
  BY <1>0, <1>1, <1>2 DEF TypeOK
<1> QED
  BY <1>1, <1>3, <1>4 DEF Inv

LEMMA SetInv ==
  ASSUME Inv, NEW p \in Procs, Set(p)
  PROVE  Inv'
<1>1. /\ call[p].pc = "in" /\ call[p].op \in KeyOps
      /\ items' = put(call[p].s, call[p].key, call[p].val)
      /\ call' = [call EXCEPT ![p] = nextKey(call[p])] /\ Unlock(p) /\ observe(items')
      /\ UNCHANGED <<readers, iter, loop, nvals, ncalls, taken>>
  BY DEF Set, Writing, KeyOps, KeyWrites
<1>2. TypeOK /\ call[p] \in CallState /\ CallInv(call[p])
  BY DEF Inv, TypeOK
<1>3. nextKey(call[p]) \in CallState /\ CallInv(nextKey(call[p]))
      /\ nextKey(call[p]).pc \in {"start", "done"}
  BY <1>1, <1>2, NextKeyOK DEF Inside
<1> DEFINE row == [items[call[p].s] EXCEPT ![call[p].key] = call[p].val]
<1>4. row \in [Keys -> 0..MaxVals] /\ items' = [items EXCEPT ![call[p].s] = row]
  <2>1. call[p].s \in Shards /\ call[p].key \in Keys /\ call[p].val \in 0..MaxVals
    BY <1>1, <1>2, KeyOK DEF CallState, Inside
  <2> QED
    BY <1>1, <1>2, <2>1 DEF TypeOK, put
<1>5. taken' \in SUBSET Pairs
  BY <1>1, <1>2 DEF TypeOK
<1> HIDE DEF row
<1> QED
  BY <1>1, <1>3, <1>4, <1>5, WriteInv

LEMMA lookupInv ==
  ASSUME Inv, NEW p \in Procs, lookup(p)
  PROVE  Inv'
<1>0. TypeOK /\ CallInv(call[p]) /\ HoldInv(p) /\ call[p] \in CallState
  BY DEF Inv, TypeOK
<1> DEFINE X == [call[p] EXCEPT !.pc = "mid", !.acc = entry(call[p].s, call[p].key)]
<1>1. /\ call[p].pc = "in" /\ call[p].op \in {"SetNX", "GetAndRemove"}
      /\ call' = [call EXCEPT ![p].pc = "mid", ![p].acc = entry(call[p].s, call[p].key)]
      /\ UNCHANGED <<items, w, readers, iter, loop, nvals, ncalls, taken, watch>>
  BY DEF lookup, Writing
<1>2. X \in CallState
  <2>1. call[p].s \in Shards /\ call[p].key \in Keys
    BY <1>1, KeyOK DEF Inside, KeyOps, KeyWrites
  <2>2. entry(call[p].s, call[p].key) \in SUBSET Pairs
    BY <1>0, <2>1, EntryType
  <2> QED
    BY <1>0, <2>2 DEF CallState, CallPcs
<1>3. call' = [call EXCEPT ![p] = X] /\ call'[p] = X
  BY <1>0, <1>1 DEF TypeOK, CallState
<1>4. /\ X.op = call[p].op /\ X.todo = call[p].todo /\ X.pc = "mid" /\ X.key = call[p].key
      /\ X.s = call[p].s /\ X.acc = entry(call[p].s, call[p].key)
  BY <1>0 DEF CallState
<1> HIDE DEF X
<1>5. CallInv(X)
  BY <1>0, <1>1, <1>4 DEF CallInv, Inside
<1>6. CallHold(p)'
  BY <1>0, <1>1, <1>3, <1>4 DEF HoldInv, CallHold, entry
<1> QED
  BY <1>1, <1>2, <1>3, <1>5, <1>6, QuietInv

LEMMA SetNXInv ==
  ASSUME Inv, NEW p \in Procs, SetNX(p)
  PROVE  Inv'
<1>1. /\ call[p].pc \in {"in", "mid"} /\ call[p].op \in KeyOps
      /\ items' = IF call[p].acc = {} THEN [items EXCEPT ![call[p].s][call[p].key] = call[p].val]
                ELSE items
      /\ call' = [call EXCEPT ![p] = nextKey(call[p])] /\ Unlock(p) /\ observe(items')
      /\ UNCHANGED <<readers, iter, loop, nvals, ncalls>>
  BY DEF SetNX, Writing, without, put, KeyOps, KeyWrites
<1>2. TypeOK /\ call[p] \in CallState /\ CallInv(call[p])
  BY DEF Inv, TypeOK
<1>3. nextKey(call[p]) \in CallState /\ CallInv(nextKey(call[p]))
      /\ nextKey(call[p]).pc \in {"start", "done"}
  BY <1>1, <1>2, NextKeyOK DEF Inside
<1>4. call[p].s \in Shards /\ call[p].key \in Keys
  BY <1>1, KeyOK DEF Inside
<1>5. taken' \in SUBSET Pairs
  BY <1>2 DEF TypeOK, CallState, SetNX
<1> DEFINE row == IF call[p].acc = {} THEN [items[call[p].s] EXCEPT ![call[p].key] = call[p].val]
                  ELSE items[call[p].s]
<1>6. row \in [Keys -> 0..MaxVals] /\ items' = [items EXCEPT ![call[p].s] = row]
  BY <1>1, <1>2, <1>4, CMapConstants DEF TypeOK, CallState, None
<1> HIDE DEF row
<1> QED
  BY <1>1, <1>3, <1>5, <1>6, WriteInv

LEMMA GetAndRemoveInv ==
  ASSUME Inv, NEW p \in Procs, GetAndRemove(p)
  PROVE  Inv'
<1>1. /\ call[p].pc \in {"in", "mid"} /\ call[p].op \in KeyOps
      /\ items' = [items EXCEPT ![call[p].s][call[p].key] = None]
      /\ call' = [call EXCEPT ![p] = nextKey(call[p])] /\ Unlock(p) /\ observe(items')
      /\ UNCHANGED <<readers, iter, loop, nvals, ncalls>>
  BY DEF GetAndRemove, Writing, without, put, KeyOps, KeyWrites
<1>2. TypeOK /\ call[p] \in CallState /\ CallInv(call[p])
  BY DEF Inv, TypeOK
<1>3. nextKey(call[p]) \in CallState /\ CallInv(nextKey(call[p]))
      /\ nextKey(call[p]).pc \in {"start", "done"}
  BY <1>1, <1>2, NextKeyOK DEF Inside
<1>4. call[p].s \in Shards /\ call[p].key \in Keys
  BY <1>1, KeyOK DEF Inside
<1>5. taken' \in SUBSET Pairs
  BY <1>2 DEF TypeOK, CallState, GetAndRemove
<1> DEFINE row == [items[call[p].s] EXCEPT ![call[p].key] = None]
<1>6. row \in [Keys -> 0..MaxVals] /\ items' = [items EXCEPT ![call[p].s] = row]
  BY <1>1, <1>2, <1>4, CMapConstants DEF TypeOK, CallState, None
<1> HIDE DEF row
<1> QED
  BY <1>1, <1>3, <1>5, <1>6, WriteInv

LEMMA RemoveInv ==
  ASSUME Inv, NEW p \in Procs, Remove(p)
  PROVE  Inv'
<1>1. /\ call[p].pc \in {"in", "mid"} /\ call[p].op \in KeyOps
      /\ items' = [items EXCEPT ![call[p].s][call[p].key] = None]
      /\ call' = [call EXCEPT ![p] = nextKey(call[p])] /\ Unlock(p) /\ observe(items')
      /\ UNCHANGED <<readers, iter, loop, nvals, ncalls>>
  BY DEF Remove, Writing, without, put, KeyOps, KeyWrites
<1>2. TypeOK /\ call[p] \in CallState /\ CallInv(call[p])
  BY DEF Inv, TypeOK
<1>3. nextKey(call[p]) \in CallState /\ CallInv(nextKey(call[p]))
      /\ nextKey(call[p]).pc \in {"start", "done"}
  BY <1>1, <1>2, NextKeyOK DEF Inside
<1>4. call[p].s \in Shards /\ call[p].key \in Keys
  BY <1>1, KeyOK DEF Inside
<1>5. taken' \in SUBSET Pairs
  BY <1>2 DEF TypeOK, CallState, Remove
<1> DEFINE row == [items[call[p].s] EXCEPT ![call[p].key] = None]
<1>6. row \in [Keys -> 0..MaxVals] /\ items' = [items EXCEPT ![call[p].s] = row]
  BY <1>1, <1>2, <1>4, CMapConstants DEF TypeOK, CallState, None
<1> HIDE DEF row
<1> QED
  BY <1>1, <1>3, <1>5, <1>6, WriteInv

LEMMA ClearInv ==
  ASSUME Inv, NEW p \in Procs, Clear(p)
  PROVE  Inv'
<1>1. /\ call[p].pc = "in" /\ call[p].op \notin KeyOps
      /\ items' = [items EXCEPT ![call[p].s] = [k \in Keys |-> None]]
      /\ call' = [call EXCEPT ![p] = nextShard(call[p])] /\ Unlock(p) /\ observe(items')
      /\ UNCHANGED <<readers, iter, loop, nvals, ncalls, taken>>
  BY DEF Clear, Writing, KeyOps, KeyWrites, KeyReads
<1>2. TypeOK /\ call[p] \in CallState /\ CallInv(call[p])
  BY DEF Inv, TypeOK
<1>3. nextShard(call[p]) \in CallState /\ CallInv(nextShard(call[p]))
      /\ nextShard(call[p]).pc \in {"start", "done"}
  BY <1>1, <1>2, NextShardOK DEF Inside
<1>4. taken' \in SUBSET Pairs
  BY <1>1, <1>2 DEF TypeOK
<1>5. [k \in Keys |-> None] \in [Keys -> 0..MaxVals]
  BY CMapConstants DEF None
<1> QED
  BY <1>1, <1>3, <1>4, <1>5, WriteInv

LEMMA GetInv ==
  ASSUME Inv, NEW p \in Procs, Get(p)
  PROVE  Inv'
<1> DEFINE c == [call[p] EXCEPT !.acc = @ \cup entry(call[p].s, call[p].key)]
<1>1. /\ call[p].pc = "read" /\ call[p].op \in KeyOps
      /\ call' = [call EXCEPT ![p] = nextKey(c)] /\ RUnlock(p)
      /\ UNCHANGED <<items, w, iter, loop, nvals, ncalls, taken, watch>>
  BY DEF Get, Reading, KeyOps
<1>2. TypeOK /\ call[p] \in CallState /\ CallInv(call[p])
  BY DEF Inv, TypeOK
<1>3. entry(call[p].s, call[p].key) \in SUBSET Pairs
  BY <1>1, <1>2, KeyOK, EntryType DEF Inside
<1>4. /\ c \in CallState /\ c.op = call[p].op /\ c.pc = "read" /\ c.todo = call[p].todo
      /\ c.key = call[p].key /\ c.s = call[p].s
  BY <1>1, <1>2, <1>3 DEF CallState
<1> HIDE DEF c
<1>5. CallInv(c)
  BY <1>1, <1>2, <1>4 DEF CallInv, Inside
<1>6. nextKey(c) \in CallState /\ CallInv(nextKey(c)) /\ nextKey(c).pc \in {"start", "done"}
  BY <1>1, <1>4, <1>5, NextKeyOK DEF Inside
<1> QED
  BY <1>1, <1>6, ReadInv

LEMMA CountInv ==
  ASSUME Inv, NEW p \in Procs, Count(p)
  PROVE  Inv'
<1> DEFINE c == [call[p] EXCEPT !.n = @ + Cardinality(keysIn(call[p].s))]
<1>1. /\ call[p].pc = "read" /\ call[p].op \notin KeyOps
      /\ call' = [call EXCEPT ![p] = nextShard(c)] /\ RUnlock(p)
      /\ UNCHANGED <<items, w, iter, loop, nvals, ncalls, taken, watch>>
  BY DEF Count, Reading, KeyOps, KeyWrites, KeyReads
<1>2. TypeOK /\ call[p] \in CallState /\ CallInv(call[p])
  BY DEF Inv, TypeOK
<1>3. Cardinality(keysIn(call[p].s)) \in Nat
  <2>1. call[p].s \in Shards
    BY <1>1, <1>2 DEF CallInv, Inside
  <2> QED
    BY <2>1, CountType
<1>4. /\ c \in CallState /\ c.op = call[p].op /\ c.pc = "read" /\ c.todo = call[p].todo
      /\ c.key = call[p].key /\ c.s = call[p].s /\ c.acc = call[p].acc
  BY <1>1, <1>2, <1>3 DEF CallState
<1> HIDE DEF c
<1>5. CallInv(c)
  BY <1>1, <1>2, <1>4 DEF CallInv, Inside
<1>6. nextShard(c) \in CallState /\ CallInv(nextShard(c)) /\ nextShard(c).pc \in {"start", "done"}
  BY <1>1, <1>4, <1>5, NextShardOK DEF Inside
<1> QED
  BY <1>1, <1>6, ReadInv

LEMMA rangeStepInv ==
  ASSUME Inv, NEW p \in Procs, NEW k \in Keys, rangeStep(p, k)
  PROVE  Inv'
<1>0. TypeOK /\ CallInv(call[p]) /\ HoldInv(p) /\ call[p] \in CallState
  BY DEF Inv, TypeOK
<1> DEFINE acc == call[p].acc \cup {<<k, items[call[p].s][k]>>}
           X == [call[p] EXCEPT !.acc = acc, !.n = @ + 1, !.rest = @ \ {k}]
<1>1. /\ call[p].pc = "read" /\ call[p].op \in Scans /\ k \in call[p].rest
      /\ call' = [call EXCEPT ![p].acc = acc, ![p].n = @ + 1, ![p].rest = @ \ {k}]
      /\ UNCHANGED <<items, w, readers, iter, loop, nvals, ncalls, taken, watch>>
  BY DEF rangeStep, Reading, Scans
<1>2. acc \in SUBSET Pairs
  <2>1. call[p].s \in Shards /\ k \in keysIn(call[p].s)
    BY <1>0, <1>1 DEF CallInv, HoldInv, CallHold, Inside
  <2>2. items[call[p].s][k] \in 1..MaxVals
    BY <1>0, <2>1, CMapConstants DEF TypeOK, keysIn, None
  <2> QED
    BY <1>0, <2>2 DEF CallState, Pairs
<1> HIDE DEF acc
<1>3. X \in CallState
  <2>1. call[p].rest \ {k} \in SUBSET Keys /\ call[p].n + 1 \in Nat
    BY <1>0 DEF CallState
  <2> QED
    BY <1>0, <1>2, <2>1 DEF CallState
<1>4. call' = [call EXCEPT ![p] = X] /\ call'[p] = X
  <2>1. call' = [call EXCEPT ![p] = X]
    BY <1>0, <1>1 DEF TypeOK, CallState
  <2> QED
    BY <1>0, <2>1 DEF TypeOK
<1>5. /\ X.op = call[p].op /\ X.todo = call[p].todo /\ X.pc = "read" /\ X.key = call[p].key
      /\ X.s = call[p].s /\ X.rest = call[p].rest \ {k}
  BY <1>0, <1>1 DEF CallState
<1> HIDE DEF X
<1>6. CallInv(X)
  <2>1. ~writes(X.op) /\ X.op \notin KeyOps
    BY <1>1, <1>5 DEF writes, Scans, KeyWrites, KeyReads, KeyOps
  <2> QED
    BY <1>0, <1>1, <1>5, <2>1 DEF CallInv, Inside
<1>7. CallHold(p)'
  BY <1>0, <1>1, <1>4, <1>5 DEF HoldInv, CallHold, keysIn
<1> QED
  BY <1>1, <1>3, <1>4, <1>6, <1>7, QuietInv

LEMMA rangeEndInv ==
  ASSUME Inv, NEW p \in Procs, rangeEnd(p)
  PROVE  Inv'
<1>0. CallInv(call[p]) /\ call[p] \in CallState
  BY DEF Inv, TypeOK
<1>1. /\ call[p].pc = "read" /\ call[p].op \notin KeyOps
      /\ call' = [call EXCEPT ![p] = nextShard(call[p])] /\ RUnlock(p)
      /\ UNCHANGED <<items, w, iter, loop, nvals, ncalls, taken, watch>>
  BY DEF rangeEnd, Reading, KeyOps, KeyWrites, KeyReads
<1>2. nextShard(call[p]) \in CallState /\ CallInv(nextShard(call[p]))
      /\ nextShard(call[p]).pc \in {"start", "done"}
  BY <1>0, <1>1, NextShardOK DEF Inside
<1> QED
  BY <1>1, <1>2, ReadInv

\* A step of the iteration of p.
LEMMA IterInv ==
  ASSUME Inv, NEW p \in Procs, NEW Y \in IterState, iter' = [iter EXCEPT ![p] = Y], IterHold(p)',
         UNCHANGED <<items, w, call, nvals, ncalls, taken>>, loop' \in SUBSET Procs,
         watch' \in [Procs -> WatchState], readers' \in [Shards -> SUBSET Holders],
         \A t \in Shards : \/ readers'[t] = readers[t]
                           \/ w[t] = Nobody /\ readers'[t] = readers[t] \cup {<<p, "iter">>}
                           \/ readers'[t] = readers[t] \ {<<p, "iter">>}
  PROVE  Inv'
<1>0. TypeOK
  BY DEF Inv
<1>1. iter' \in [Procs -> IterState] /\ \A q \in Procs \ {p} : iter'[q] = iter[q]
  BY <1>0 DEF TypeOK
<1>2. \A q \in Procs : HoldInv(q)'
  BY <1>1, IterStepHold
<1>3. TypeOK'
  BY <1>0, <1>1 DEF TypeOK
<1> QED
  BY <1>2, <1>3 DEF Inv

LEMMA iterLockInv ==
  ASSUME Inv, NEW p \in Procs, iterLock(p)
  PROVE  Inv'
<1>0. TypeOK /\ HoldInv(p) /\ iter[p] \in IterState
  BY DEF Inv, TypeOK
<1> DEFINE s == iter[p].s
           Y == [iter[p] EXCEPT !.pc = "send", !.rest = keysIn(s)]
<1>1. /\ iter[p].pc = "lock" /\ w[s] = Nobody
      /\ readers' = [readers EXCEPT ![s] = @ \cup {<<p, "iter">>}]
      /\ iter' = [iter EXCEPT ![p].pc = "send", ![p].rest = keysIn(s)]
      /\ UNCHANGED <<items, w, call, loop, nvals, ncalls, taken, watch>>
  BY DEF iterLock, noWriter
<1>2. s \in Shards
  BY <1>0, <1>1 DEF HoldInv, IterHold
<1>3. Y \in IterState
  <2>1. keysIn(s) \in SUBSET Keys
    BY DEF keysIn
  <2> QED
    BY <1>0, <2>1 DEF IterState
<1>4. iter' = [iter EXCEPT ![p] = Y]
  BY <1>0, <1>1 DEF TypeOK, IterState
<1>5. iter'[p].pc = "send" /\ iter'[p].s = s /\ iter'[p].rest = keysIn(s)
  BY <1>0, <1>4 DEF TypeOK, IterState
<1>6. /\ readers' \in [Shards -> SUBSET Holders] /\ <<p, "iter">> \in readers'[s]
      /\ \A t \in Shards : \/ readers'[t] = readers[t]
                           \/ w[t] = Nobody /\ readers'[t] = readers[t] \cup {<<p, "iter">>}
  <2>1. <<p, "iter">> \in Holders
    BY DEF Holders
  <2> QED
    BY <1>0, <1>1, <1>2, <2>1 DEF TypeOK
<1> HIDE DEF s, Y
<1>7. IterHold(p)'
  BY <1>1, <1>2, <1>5, <1>6 DEF IterHold, keysIn
<1>8. loop' \in SUBSET Procs /\ watch' \in [Procs -> WatchState]
  BY <1>0, <1>1 DEF TypeOK
<1>9. UNCHANGED <<items, w, call, nvals, ncalls, taken>>
  BY <1>1
<1> QED
  BY <1>3, <1>4, <1>6, <1>7, <1>8, <1>9, IterInv

LEMMA iterSendInv ==
  ASSUME Inv, NEW p \in Procs, NEW k \in Keys, iterSend(p, k)
  PROVE  Inv'
<1>0. TypeOK /\ HoldInv(p) /\ iter[p] \in IterState
  BY DEF Inv, TypeOK
<1> DEFINE pair == <<k, items[iter[p].s][k]>>
           YB == [iter[p] EXCEPT !.rest = @ \ {k}, !.buf = Append(@, pair)]
           YG == [iter[p] EXCEPT !.rest = @ \ {k}, !.got = Append(@, pair)]
<1>1. /\ iter[p].pc = "send" /\ k \in iter[p].rest
      /\ \/ iter' = [iter EXCEPT ![p].rest = @ \ {k}, ![p].buf = Append(@, pair)]
         \/ iter' = [iter EXCEPT ![p].rest = @ \ {k}, ![p].got = Append(@, pair)]
      /\ UNCHANGED <<items, w, readers, call, loop, nvals, ncalls, taken, watch>>
  BY DEF iterSend
<1>2. pair \in Pairs
  <2>1. iter[p].s \in Shards /\ k \in keysIn(iter[p].s)
    BY <1>0, <1>1 DEF HoldInv, IterHold
  <2>2. items[iter[p].s][k] \in 1..MaxVals
    BY <1>0, <2>1, CMapConstants DEF TypeOK, keysIn, None
  <2> QED
    BY <2>2 DEF Pairs
<1> HIDE DEF pair
<1>3. YB \in IterState /\ YG \in IterState
  <2>1. Append(iter[p].buf, pair) \in Seq(Pairs) /\ Append(iter[p].got, pair) \in Seq(Pairs)
    BY <1>0, <1>2 DEF IterState
  <2>2. iter[p].rest \ {k} \in SUBSET Keys
    BY <1>0 DEF IterState
  <2> QED
    BY <1>0, <2>1, <2>2 DEF IterState
<1>4. iter' = [iter EXCEPT ![p] = YB] \/ iter' = [iter EXCEPT ![p] = YG]
  BY <1>0, <1>1 DEF TypeOK, IterState
<1>5. /\ YB.pc = "send" /\ YB.s = iter[p].s /\ YB.rest = iter[p].rest \ {k}
      /\ YG.pc = "send" /\ YG.s = iter[p].s /\ YG.rest = iter[p].rest \ {k}
  BY <1>0, <1>1 DEF IterState
<1> HIDE DEF YB, YG
<1>6. PICK Y \in IterState : /\ iter' = [iter EXCEPT ![p] = Y]
                             /\ Y.pc = "send" /\ Y.s = iter[p].s /\ Y.rest = iter[p].rest \ {k}
  BY <1>3, <1>4, <1>5
<1>7. IterHold(p)'
  <2>1. iter'[p] = Y
    BY <1>0, <1>6 DEF TypeOK
  <2> QED
    BY <1>0, <1>1, <1>6, <2>1 DEF HoldInv, IterHold, keysIn
<1>8. /\ loop' \in SUBSET Procs /\ watch' \in [Procs -> WatchState]
      /\ readers' \in [Shards -> SUBSET Holders] /\ \A t \in Shards : readers'[t] = readers[t]
  BY <1>0, <1>1 DEF TypeOK
<1>9. UNCHANGED <<items, w, call, nvals, ncalls, taken>>
  BY <1>1
<1> QED
  BY <1>6, <1>7, <1>8, <1>9, IterInv

LEMMA NoIterType == NoIter \in IterState /\ NoIter.pc = "none" /\ NoWatch \in WatchState
BY CMapConstants DEF NoIter, IterState, NoWatch, WatchState

LEMMA iterUnlockInv ==
  ASSUME Inv, NEW p \in Procs, iterUnlock(p)
  PROVE  Inv'
<1>0. TypeOK /\ HoldInv(p) /\ iter[p] \in IterState
  BY DEF Inv, TypeOK
<1> DEFINE last == iter[p].s + 1 = SHARD_COUNT
           Y == [iter[p] EXCEPT !.s = @ + 1, !.pc = IF last THEN "closed" ELSE "lock"]
<1>1. /\ iter[p].pc = "send"
      /\ readers' = [readers EXCEPT ![iter[p].s] = @ \ {<<p, "iter">>}]
      /\ \/ iter' = [iter EXCEPT ![p] = NoIter]
         \/ iter' = [iter EXCEPT ![p].s = @ + 1, ![p].pc = IF last THEN "closed" ELSE "lock"]
      /\ watch' = [watch EXCEPT ![p] = NoWatch] \/ watch' = watch
      /\ UNCHANGED <<items, w, call, loop, nvals, ncalls, taken>>
  BY DEF iterUnlock, iterReaders
<1>2. iter[p].s \in Shards /\ iter[p].s + 1 \in 0..SHARD_COUNT
  BY <1>0, <1>1, CMapConstants DEF HoldInv, IterHold, Shards
<1>3. Y \in IterState
  BY <1>0, <1>2 DEF IterState
<1>4. iter' = [iter EXCEPT ![p] = NoIter] \/ iter' = [iter EXCEPT ![p] = Y]
  BY <1>0, <1>1 DEF TypeOK, IterState
<1>5. Y.s = iter[p].s + 1 /\ Y.pc = IF last THEN "closed" ELSE "lock"
  BY <1>0 DEF IterState
<1>6. Y.pc = "lock" => Y.s \in Shards
  BY <1>2, <1>5, CMapConstants DEF Shards
<1> HIDE DEF Y
<1>7. PICK Z \in IterState : /\ iter' = [iter EXCEPT ![p] = Z]
                             /\ Z.pc # "send" /\ (Z.pc = "lock" => Z.s \in Shards)
  BY <1>3, <1>4, <1>5, <1>6, NoIterType
<1>8. IterHold(p)'
  <2>1. iter'[p] = Z
    BY <1>0, <1>7 DEF TypeOK
  <2> QED
    BY <1>7, <2>1 DEF IterHold
<1>9. /\ loop' \in SUBSET Procs /\ watch' \in [Procs -> WatchState]
      /\ readers' \in [Shards -> SUBSET Holders]
      /\ \A t \in Shards : readers'[t] = readers[t] \/ readers'[t] = readers[t] \ {<<p, "iter">>}
  BY <1>0, <1>1, <1>2, NoIterType DEF TypeOK
<1>10. \A t \in Shards : \/ readers'[t] = readers[t]
                         \/ w[t] = Nobody /\ readers'[t] = readers[t] \cup {<<p, "iter">>}
                         \/ readers'[t] = readers[t] \ {<<p, "iter">>}
  BY <1>9
<1>11. UNCHANGED <<items, w, call, nvals, ncalls, taken>>
  BY <1>1
<1> QED
  BY <1>7, <1>8, <1>9, <1>10, <1>11, IterInv

LEMMA receiveInv ==
  ASSUME Inv, NEW p \in Procs, receive(p)
  PROVE  Inv'
<1>0. TypeOK /\ HoldInv(p) /\ iter[p] \in IterState
  BY DEF Inv, TypeOK
<1> DEFINE Y == [iter[p] EXCEPT !.buf = Tail(@), !.got = Append(@, Head(iter[p].buf))]
<1>1. /\ iter[p].buf # <<>>
      /\ iter' = [iter EXCEPT ![p].buf = Tail(@), ![p].got = Append(@, Head(iter[p].buf))]
      /\ UNCHANGED <<items, w, readers, call, loop, nvals, ncalls, taken, watch>>
  BY DEF receive
<1>2. Y \in IterState
  <2>1. iter[p].buf \in Seq(Pairs) /\ iter[p].got \in Seq(Pairs)
    BY <1>0 DEF IterState
  <2>2. Head(iter[p].buf) \in Pairs /\ Tail(iter[p].buf) \in Seq(Pairs)
    BY <1>1, <2>1, HeadTailProperties
  <2>3. Append(iter[p].got, Head(iter[p].buf)) \in Seq(Pairs)
    BY <2>1, <2>2
  <2> QED
    BY <1>0, <2>2, <2>3 DEF IterState
<1>3. iter' = [iter EXCEPT ![p] = Y]
  BY <1>0, <1>1 DEF TypeOK, IterState
<1>4. Y.pc = iter[p].pc /\ Y.s = iter[p].s /\ Y.rest = iter[p].rest
  BY <1>0 DEF IterState
<1> HIDE DEF Y
<1>5. IterHold(p)'
  <2>1. iter'[p] = Y
    BY <1>0, <1>3 DEF TypeOK
  <2> QED
    BY <1>0, <1>1, <1>4, <2>1 DEF HoldInv, IterHold, keysIn
<1>6. /\ loop' \in SUBSET Procs /\ watch' \in [Procs -> WatchState]
      /\ readers' \in [Shards -> SUBSET Holders] /\ \A t \in Shards : readers'[t] = readers[t]
  BY <1>0, <1>1 DEF TypeOK
<1>7. UNCHANGED <<items, w, call, nvals, ncalls, taken>>
  BY <1>1
<1> QED
  BY <1>2, <1>3, <1>5, <1>6, <1>7, IterInv

\* The end of a loop, by draining the channel or by leaving it.
LEMMA leaveLoopInv ==
  ASSUME Inv, NEW p \in Procs, endLoop(p) \/ breakLoop(p)
  PROVE  Inv'
<1>0. TypeOK /\ HoldInv(p)
  BY DEF Inv
<1>1. /\ loop' = loop \ {p}
      /\ iter' = [iter EXCEPT ![p] = NoIter] \/ iter' = iter
      /\ watch' = [watch EXCEPT ![p] = NoWatch] \/ watch' = watch
      /\ UNCHANGED <<items, w, readers, call, nvals, ncalls, taken>>
  BY DEF endLoop, breakLoop
<1>2. PICK Y \in IterState : iter' = [iter EXCEPT ![p] = Y] /\ (Y = iter[p] \/ Y = NoIter)
  BY <1>0, <1>1, NoIterType DEF TypeOK
<1>3. IterHold(p)'
  <2>1. iter'[p] = iter[p] \/ iter'[p].pc = "none"
    BY <1>0, <1>2, NoIterType DEF TypeOK
  <2> QED
    BY <1>0, <1>1, <2>1 DEF HoldInv, IterHold, keysIn
<1>4. /\ loop' \in SUBSET Procs /\ watch' \in [Procs -> WatchState]
      /\ readers' \in [Shards -> SUBSET Holders] /\ \A t \in Shards : readers'[t] = readers[t]
  BY <1>0, <1>1, NoIterType DEF TypeOK
<1>5. UNCHANGED <<items, w, call, nvals, ncalls, taken>>
  BY <1>1
<1> QED
  BY <1>2, <1>3, <1>4, <1>5, IterInv

LEMMA InvStep == Inv /\ [Next]_vars => Inv'
<1> SUFFICES ASSUME Inv, [Next]_vars PROVE Inv'
  OBVIOUS
<1>1. CASE UNCHANGED vars
  BY <1>1 DEF Inv, TypeOK, HoldInv, CallHold, IterHold, keysIn, entry, vars
<1>2. ASSUME NEW p \in Procs, NEW op \in AllOps, NEW todo \in arguments(op), Call(p, op, todo)
      PROVE  Inv'
  BY <1>2, CallStepInv
<1>3. ASSUME NEW p \in Procs, CallStep(p) PROVE Inv'
  BY <1>3, LockInv, lockedInv, RLockInv, SetInv, lookupInv, SetNXInv, GetAndRemoveInv, RemoveInv,
     ClearInv, GetInv, CountInv, rangeStepInv, rangeEndInv, ReturnInv DEF CallStep
<1>4. ASSUME NEW p \in Procs, IterStep(p) PROVE Inv'
  BY <1>4, iterLockInv, iterSendInv, iterUnlockInv DEF IterStep
<1>5. ASSUME NEW p \in Procs, LoopStep(p) \/ breakLoop(p) PROVE Inv'
  BY <1>5, receiveInv, leaveLoopInv DEF LoopStep
<1> QED
  BY <1>1, <1>2, <1>3, <1>4, <1>5 DEF Next

LEMMA InvAlways == Spec => []Inv
BY InvInit, InvStep, PTL DEF Spec

(***************************************************************************)
(* Every variable keeps its type.                                          *)
(***************************************************************************)
THEOREM TypeCorrect == Spec => []TypeOK
<1>1. Inv => TypeOK
  BY DEF Inv
<1> QED
  BY <1>1, InvAlways, PTL

-----------------------------------------------------------------------------
(***************************************************************************)
(* No write to a shard while a range loop over it is in progress: only a   *)
(* call in its lock section writes, and HoldInv says that nobody reads     *)
(* that shard then.                                                        *)
(***************************************************************************)
LEMMA FrozenStep ==
  Inv /\ [Next]_vars => [\A s \in Shards : readers[s] # {} => items'[s] = items[s]]_vars
<1> SUFFICES ASSUME Inv, [Next]_vars, NEW s \in Shards, readers[s] # {} PROVE items'[s] = items[s]
  OBVIOUS
<1>1. CASE UNCHANGED items
  BY <1>1
<1>2. ASSUME NEW p \in Procs, Set(p) \/ SetNX(p) \/ GetAndRemove(p) \/ Remove(p) \/ Clear(p)
      PROVE  items'[s] = items[s]
  <2>1. call[p].pc \in {"in", "mid"}
    BY <1>2 DEF Set, SetNX, GetAndRemove, Remove, Clear, Writing
  <2>2. call[p].s # s
    BY <2>1 DEF Inv, HoldInv, CallHold
  <2>3. items' = items \/ \E row : items' = [items EXCEPT ![call[p].s] = row]
    BY <1>2 DEF Set, SetNX, GetAndRemove, Remove, Clear, put, without
  <2> QED
    BY <2>2, <2>3 DEF Inv, TypeOK
<1>3. ASSUME NEW p \in Procs, CallStep(p) PROVE items'[s] = items[s]
  BY <1>2, <1>3 DEF CallStep, Lock, locked, RLock, lookup, Get, Count, rangeStep, rangeEnd, Return
<1> QED
  BY <1>1, <1>3 DEF Next, Call, IterStep, iterLock, iterSend, iterUnlock, LoopStep, receive,
     endLoop, breakLoop, vars

\* A Go map is never written during a range loop over it, by a scan or an iterator.
THEOREM ShardsFrozenWhileRead == Spec => ShardFrozen
BY InvAlways, FrozenStep, PTL DEF Spec, ShardFrozen

-----------------------------------------------------------------------------
(***************************************************************************)
(* CMap implements MapContract: a step that takes effect on a key is a     *)
(* step Apply of the contract, a cleared shard a step Clear, the beginning *)
(* and the return of a call are Begin and End, and every other step leaves *)
(* what the contract sees as it is.                                        *)
(***************************************************************************)
Seen(c) ==
  [op |-> c.op, todo |-> c.todo, val |-> c.val,
   got |-> IF c.pc = "mid" \/ c.op \in Scans THEN {} ELSE c.acc]

LEMMA PendIsSeen ==
  /\ pend = [q \in Procs |-> Seen(call[q])]
  /\ pend' = [q \in Procs |-> Seen(call'[q])]
BY DEF pend, Seen

\* A step that changes neither the contents nor what the contract sees of a call.
LEMMA SilentStep ==
  ASSUME NEW p \in Procs, items' = items, \A q \in Procs \ {p} : call'[q] = call[q],
         Seen(call'[p]) = Seen(call[p])
  PROVE  UNCHANGED Contract!vars
<1>1. pend' = pend
  BY PendIsSeen
<1>2. store' = store
  BY DEF store
<1> QED
  BY <1>1, <1>2 DEF Contract!vars

LEMMA StoreIs ==
  ASSUME Inv, NEW k \in Keys, NEW v \in 0..MaxVals,
         items' = [items EXCEPT ![GetShard(k)] = [@ EXCEPT ![k] = v]]
  PROVE  store' = [store EXCEPT ![k] = v]
<1>1. \A j \in Keys : GetShard(j) \in Shards
  BY GetShardType
<1>2. \A j \in Keys : items'[GetShard(j)][j] = IF j = k THEN v ELSE items[GetShard(j)][j]
  BY <1>1 DEF Inv, TypeOK
<1> QED
  BY <1>2 DEF store

\* A call of p takes effect on its key.
LEMMA ApplyStep ==
  ASSUME Inv, NEW p \in Procs, call[p].op \in KeyOps, call[p].pc \in Inside,
         \A q \in Procs \ {p} : call'[q] = call[q],
         store' = [store EXCEPT ![call[p].key] =
                     Contract!result(call[p].op, call[p].key, call[p].val)],
         Seen(call'[p]) = Contract!applied(Seen(call[p]), call[p].key)
  PROVE  Contract!Next
<1> DEFINE k == call[p].key
<1>1. k \in Keys /\ k \in call[p].todo /\ call[p].op # "Clear"
  BY KeyOK DEF KeyOps, KeyWrites, KeyReads
<1>2. pend[p] = Seen(call[p]) /\ pend[p].op = call[p].op /\ pend[p].todo = call[p].todo
      /\ pend[p].val = call[p].val
  BY PendIsSeen DEF Seen
<1>3. pend' = [pend EXCEPT ![p] = Contract!applied(pend[p], k)]
  BY <1>2, PendIsSeen
<1>4. Contract!Apply(p, k)
  BY <1>1, <1>2, <1>3 DEF Contract!Apply
<1> QED
  BY <1>1, <1>4 DEF Contract!Next

\* The same, for a call that leaves its key by nextKey, maybe with more results.
LEMMA EffectStep ==
  ASSUME Inv, NEW p \in Procs, NEW c \in CallState,
         call[p].op \in KeyOps, call[p].pc \in Inside,
         call' = [call EXCEPT ![p] = nextKey(c)],
         c.op = call[p].op, c.todo = call[p].todo, c.key = call[p].key, c.val = call[p].val,
         c.acc = IF Contract!reports(call[p].op)
                 THEN Seen(call[p]).got \cup Contract!found(call[p].key)
                 ELSE Seen(call[p]).got,
         store' = [store EXCEPT ![call[p].key] =
                     Contract!result(call[p].op, call[p].key, call[p].val)]
  PROVE  Contract!Next
<1>1. /\ nextKey(c).op = c.op /\ nextKey(c).val = c.val /\ nextKey(c).acc = c.acc
      /\ nextKey(c).todo = c.todo \ {c.key} /\ nextKey(c).pc # "mid"
  BY DEF nextKey, CallState
<1>2. /\ call'[p] = nextKey(c) /\ \A q \in Procs \ {p} : call'[q] = call[q]
  BY DEF Inv, TypeOK
<1>3. c.op \notin Scans
  BY DEF KeyOps, KeyWrites, KeyReads, Scans
<1>4. Seen(nextKey(c)) = [op |-> c.op, todo |-> c.todo \ {c.key}, val |-> c.val, got |-> c.acc]
  BY <1>1, <1>3 DEF Seen
<1>5. /\ Seen(call[p]).op = c.op /\ Seen(call[p]).todo = c.todo /\ Seen(call[p]).val = c.val
  BY DEF Seen
<1>6. Seen(call'[p]) = Contract!applied(Seen(call[p]), call[p].key)
  BY <1>2, <1>4, <1>5 DEF Contract!applied
<1> QED
  BY <1>2, <1>6, ApplyStep

\* What is stored under the key of a call, as the two modules name it.
LEMMA EntryIsFound ==
  ASSUME Inv, NEW p \in Procs, call[p].op \in KeyOps, call[p].pc \in Inside
  PROVE  /\ entry(call[p].s, call[p].key) = Contract!found(call[p].key)
         /\ store[call[p].key] = items[call[p].s][call[p].key]
         /\ store[call[p].key] \in 0..MaxVals /\ call[p].key \in Keys
<1>1. call[p].key \in Keys /\ call[p].s = GetShard(call[p].key) /\ call[p].s \in Shards
  BY KeyOK
<1>2. store[call[p].key] = items[call[p].s][call[p].key]
  BY <1>1 DEF store
<1> QED
  BY <1>1, <1>2 DEF entry, Contract!found, None, Contract!None, Inv, TypeOK

\* A call writes v, which is what the contract says, under its key.
LEMMA PutStep ==
  ASSUME Inv, NEW p \in Procs, call[p].op \in KeyOps, call[p].pc \in Inside, NEW v \in 0..MaxVals,
         items' = put(call[p].s, call[p].key, v),
         v = Contract!result(call[p].op, call[p].key, call[p].val)
  PROVE  store' = [store EXCEPT ![call[p].key] =
                     Contract!result(call[p].op, call[p].key, call[p].val)]
<1>1. call[p].key \in Keys /\ call[p].s = GetShard(call[p].key)
  BY KeyOK
<1>2. items' = [items EXCEPT ![GetShard(call[p].key)] = [@ EXCEPT ![call[p].key] = v]]
  BY <1>1 DEF put
<1> QED
  BY <1>1, <1>2, StoreIs

\* Nothing is written, as the contract says.
LEMMA KeepStep ==
  ASSUME Inv, NEW p \in Procs, call[p].op \in KeyOps, call[p].pc \in Inside, items' = items,
         store[call[p].key] = Contract!result(call[p].op, call[p].key, call[p].val)
  PROVE  store' = [store EXCEPT ![call[p].key] =
                     Contract!result(call[p].op, call[p].key, call[p].val)]
<1>1. store' = store /\ store = [k \in Keys |-> store[k]]
  BY DEF store
<1> QED
  BY <1>1

LEMMA SetRefines == ASSUME Inv, NEW p \in Procs, Set(p) PROVE Contract!Next
<1>1. /\ call[p].op \in {"Set", "MSet"} /\ call[p].pc = "in"
      /\ items' = put(call[p].s, call[p].key, call[p].val)
      /\ call' = [call EXCEPT ![p] = nextKey(call[p])]
  BY DEF Set, Writing
<1>2. call[p].op \in KeyOps /\ call[p].pc \in Inside /\ ~Contract!reports(call[p].op)
  BY <1>1 DEF KeyOps, KeyWrites, Inside, Contract!reports
<1>3. call[p] \in CallState /\ call[p].val \in 0..MaxVals
  BY DEF Inv, TypeOK, CallState
<1>4. call[p].val = Contract!result(call[p].op, call[p].key, call[p].val)
  BY <1>1 DEF Contract!result
<1>5. Seen(call[p]).got = call[p].acc
  BY <1>1 DEF Seen, Scans
<1>6. store' = [store EXCEPT ![call[p].key] =
                  Contract!result(call[p].op, call[p].key, call[p].val)]
  BY <1>1, <1>2, <1>3, <1>4, PutStep
<1> QED
  BY <1>1, <1>2, <1>3, <1>5, <1>6, EffectStep

LEMMA RemoveRefines == ASSUME Inv, NEW p \in Procs, Remove(p) PROVE Contract!Next
<1>1. /\ call[p].op = "Remove" /\ call[p].pc = "in"
      /\ items' = put(call[p].s, call[p].key, None)
      /\ call' = [call EXCEPT ![p] = nextKey(call[p])]
  BY DEF Remove, Writing, without
<1>2. call[p].op \in KeyOps /\ call[p].pc \in Inside /\ ~Contract!reports(call[p].op)
  BY <1>1 DEF KeyOps, KeyWrites, Inside, Contract!reports
<1>3. call[p] \in CallState /\ None \in 0..MaxVals
  BY CMapConstants DEF Inv, TypeOK, None
<1>4. None = Contract!result(call[p].op, call[p].key, call[p].val)
  BY <1>1 DEF Contract!result, None, Contract!None
<1>5. Seen(call[p]).got = call[p].acc
  BY <1>1 DEF Seen, Scans
<1>6. store' = [store EXCEPT ![call[p].key] =
                  Contract!result(call[p].op, call[p].key, call[p].val)]
  BY <1>1, <1>2, <1>3, <1>4, PutStep
<1> QED
  BY <1>1, <1>2, <1>3, <1>5, <1>6, EffectStep

LEMMA GetAndRemoveRefines == ASSUME Inv, NEW p \in Procs, GetAndRemove(p) PROVE Contract!Next
<1>1. /\ call[p].op = "GetAndRemove" /\ call[p].pc = "mid"
      /\ items' = put(call[p].s, call[p].key, None)
      /\ call' = [call EXCEPT ![p] = nextKey(call[p])]
  BY DEF GetAndRemove, without
<1>2. call[p].op \in KeyOps /\ call[p].pc \in Inside /\ Contract!reports(call[p].op)
  BY <1>1 DEF KeyOps, KeyWrites, Inside, Contract!reports
<1>3. call[p] \in CallState /\ None \in 0..MaxVals
  BY CMapConstants DEF Inv, TypeOK, None
<1>4. None = Contract!result(call[p].op, call[p].key, call[p].val)
  BY <1>1 DEF Contract!result, None, Contract!None
<1>5. Seen(call[p]).got = {} /\ call[p].acc = Contract!found(call[p].key)
  BY <1>1, <1>2, EntryIsFound DEF Seen, Inv, HoldInv, CallHold
<1>6. store' = [store EXCEPT ![call[p].key] =
                  Contract!result(call[p].op, call[p].key, call[p].val)]
  BY <1>1, <1>2, <1>3, <1>4, PutStep
<1>7. call[p].acc = IF Contract!reports(call[p].op)
                    THEN Seen(call[p]).got \cup Contract!found(call[p].key)
                    ELSE Seen(call[p]).got
  BY <1>2, <1>5
<1> QED
  BY <1>1, <1>2, <1>3, <1>7, <1>6, EffectStep

LEMMA SetNXRefines == ASSUME Inv, NEW p \in Procs, SetNX(p) PROVE Contract!Next
<1>1. /\ call[p].op = "SetNX" /\ call[p].pc = "mid"
      /\ items' = IF call[p].acc = {} THEN put(call[p].s, call[p].key, call[p].val) ELSE items
      /\ call' = [call EXCEPT ![p] = nextKey(call[p])]
  BY DEF SetNX
<1>2. call[p].op \in KeyOps /\ call[p].pc \in Inside /\ Contract!reports(call[p].op)
  BY <1>1 DEF KeyOps, KeyWrites, Inside, Contract!reports
<1>3. call[p] \in CallState /\ call[p].val \in 0..MaxVals
  BY DEF Inv, TypeOK, CallState
<1>5. Seen(call[p]).got = {} /\ call[p].acc = Contract!found(call[p].key)
  BY <1>1, <1>2, EntryIsFound DEF Seen, Inv, HoldInv, CallHold
<1>6. store' = [store EXCEPT ![call[p].key] =
                  Contract!result(call[p].op, call[p].key, call[p].val)]
  <2>1. CASE call[p].acc = {}
    <3>1. store[call[p].key] = Contract!None
      BY <1>5, <2>1 DEF Contract!found
    <3>2. call[p].val = Contract!result(call[p].op, call[p].key, call[p].val)
      BY <1>1, <3>1 DEF Contract!result
    <3>3. items' = put(call[p].s, call[p].key, call[p].val)
      BY <1>1, <2>1
    <3> QED
      BY <1>2, <1>3, <3>2, <3>3, PutStep
  <2>2. CASE call[p].acc # {}
    <3>1. store[call[p].key] # Contract!None
      BY <1>5, <2>2 DEF Contract!found
    <3>2. store[call[p].key] = Contract!result(call[p].op, call[p].key, call[p].val)
      BY <1>1, <3>1 DEF Contract!result
    <3> QED
      BY <1>1, <1>2, <2>2, <3>2, KeepStep
  <2> QED
    BY <2>1, <2>2
<1>7. call[p].acc = IF Contract!reports(call[p].op)
                    THEN Seen(call[p]).got \cup Contract!found(call[p].key)
                    ELSE Seen(call[p]).got
  BY <1>2, <1>5
<1> QED
  BY <1>1, <1>2, <1>3, <1>7, <1>6, EffectStep

LEMMA GetRefines == ASSUME Inv, NEW p \in Procs, Get(p) PROVE Contract!Next
<1> DEFINE c == [call[p] EXCEPT !.acc = @ \cup entry(call[p].s, call[p].key)]
<1>1. /\ call[p].op \in KeyReads \cup {"MGet"} /\ call[p].pc = "read" /\ items' = items
      /\ call' = [call EXCEPT ![p] = nextKey(c)]
  BY DEF Get, Reading
<1>2. call[p].op \in KeyOps /\ call[p].pc \in Inside /\ Contract!reports(call[p].op)
  BY <1>1 DEF KeyOps, KeyReads, Inside, Contract!reports
<1>3. call[p] \in CallState
  BY DEF Inv, TypeOK
<1>4. /\ entry(call[p].s, call[p].key) = Contract!found(call[p].key)
      /\ entry(call[p].s, call[p].key) \in SUBSET Pairs
  <2>1. items[call[p].s][call[p].key] \in 0..MaxVals /\ call[p].key \in Keys
    BY <1>2, EntryIsFound
  <2> QED
    BY <1>2, <2>1, CMapConstants, EntryIsFound DEF entry, Pairs, None
<1>5. /\ c.op = call[p].op /\ c.todo = call[p].todo /\ c.key = call[p].key
      /\ c.val = call[p].val /\ c.acc = call[p].acc \cup entry(call[p].s, call[p].key)
  BY <1>3 DEF CallState
<1>6. c \in CallState
  BY <1>3, <1>4 DEF CallState
<1> HIDE DEF c
<1>7. Seen(call[p]).got = call[p].acc
  BY <1>1 DEF Seen, KeyReads, Scans
<1>8. c.acc = IF Contract!reports(call[p].op)
              THEN Seen(call[p]).got \cup Contract!found(call[p].key)
              ELSE Seen(call[p]).got
  BY <1>2, <1>4, <1>5, <1>7
<1>9. store[call[p].key] = Contract!result(call[p].op, call[p].key, call[p].val)
  BY <1>1 DEF Contract!result, KeyReads
<1>10. store' = [store EXCEPT ![call[p].key] =
                   Contract!result(call[p].op, call[p].key, call[p].val)]
  BY <1>1, <1>2, <1>9, KeepStep
<1> QED
  BY <1>1, <1>2, <1>5, <1>6, <1>8, <1>10, EffectStep

LEMMA ClearRefines == ASSUME Inv, NEW p \in Procs, Clear(p) PROVE Contract!Next
<1> DEFINE part == {k \in call[p].todo : GetShard(k) = call[p].s}
<1>1. /\ call[p].op = "Clear" /\ call[p].pc = "in"
      /\ items' = [items EXCEPT ![call[p].s] = [k \in Keys |-> None]]
      /\ call' = [call EXCEPT ![p] = nextShard(call[p])]
  BY DEF Clear, Writing
<1>2. /\ call[p] \in CallState
      /\ call[p].todo = {k \in Keys : GetShard(k) >= call[p].s} /\ call[p].s \in Shards
  BY <1>1 DEF Inv, TypeOK, CallInv, Inside
<1>3. part = {k \in Keys : GetShard(k) = call[p].s}
  BY <1>2, GetShardType DEF Shards
<1>4. store' = [k \in Keys |-> IF k \in part THEN None ELSE store[k]]
  <2>1. \A k \in Keys : items'[GetShard(k)][k] =
                          IF GetShard(k) = call[p].s THEN None ELSE items[GetShard(k)][k]
    BY <1>1, GetShardType DEF Inv, TypeOK
  <2> QED
    BY <2>1, <1>3 DEF store
<1>5. pend[p] = [op |-> "Clear", todo |-> call[p].todo, val |-> call[p].val, got |-> call[p].acc]
  BY <1>1, PendIsSeen DEF Seen, Scans
<1>6. pend' = [pend EXCEPT ![p] = [op |-> "Clear", todo |-> call[p].todo \ part,
                                   val |-> call[p].val, got |-> call[p].acc]]
  <2>1. /\ nextShard(call[p]).op = "Clear" /\ nextShard(call[p]).pc # "mid"
        /\ nextShard(call[p]).todo = call[p].todo \ part
        /\ nextShard(call[p]).val = call[p].val /\ nextShard(call[p]).acc = call[p].acc
    BY <1>1, <1>2 DEF nextShard, CallState
  <2>2. Seen(nextShard(call[p])) = [op |-> "Clear", todo |-> call[p].todo \ part,
                                    val |-> call[p].val, got |-> call[p].acc]
    BY <2>1 DEF Seen, Scans
  <2>3. /\ call'[p] = nextShard(call[p]) /\ \A q \in Procs \ {p} : call'[q] = call[q]
    BY <1>1 DEF Inv, TypeOK
  <2> QED
    BY <2>2, <2>3, PendIsSeen
<1> HIDE DEF part
<1>7. pend' = [pend EXCEPT ![p].todo = @ \ part]
  <2>1. [pend[p] EXCEPT !.todo = @ \ part] =
          [op |-> "Clear", todo |-> call[p].todo \ part, val |-> call[p].val, got |-> call[p].acc]
    BY <1>5
  <2>2. [pend EXCEPT ![p] = [pend[p] EXCEPT !.todo = @ \ part]] = [pend EXCEPT ![p].todo = @ \ part]
    OBVIOUS
  <2> QED
    BY <1>6, <2>1, <2>2
<1>8. part \in SUBSET pend[p].todo /\ pend[p].op = "Clear"
  BY <1>5 DEF part
<1>9. Contract!Clear(p)
  BY <1>4, <1>7, <1>8 DEF Contract!Clear, None, Contract!None
<1> QED
  BY <1>9 DEF Contract!Next

LEMMA CallRefines ==
  ASSUME Inv, NEW p \in Procs, NEW op \in AllOps, NEW todo \in arguments(op), Call(p, op, todo)
  PROVE  Contract!Next
<1>1. PICK val \in 0..MaxVals :
         /\ call[p].pc = "idle" /\ items' = items
         /\ call' = [call EXCEPT ![p] = [NoCall EXCEPT !.op = op, !.pc = firstPc(op),
                                                       !.todo = todo, !.val = val]]
  <2> DEFINE v == IF op \in {"Set", "SetNX", "MSet"} THEN nvals + 1 ELSE 0
  <2>1. /\ call[p].pc = "idle" /\ items' = items
        /\ call' = [call EXCEPT ![p] = [NoCall EXCEPT !.op = op, !.pc = firstPc(op),
                                                      !.todo = todo, !.val = v]]
    BY DEF Call
  <2>2. v \in 0..MaxVals
    BY CMapConstants DEF Call, Inv, TypeOK
  <2> HIDE DEF v
  <2> QED
    BY <2>1, <2>2
<1>2. todo \in SUBSET Keys /\ op \in Contract!Operations \ {"none"}
  BY DEF arguments, AllOps, Contract!Operations, KeyWrites, KeyReads, Scans, Iterations
<1>3. pend[p] = Contract!Free
  <2>1. call[p] = NoCall /\ pend[p] = Seen(call[p])
    BY <1>1, PendIsSeen DEF Inv, CallInv
  <2> QED
    BY <2>1 DEF NoCall, Seen, Contract!Free
<1>4. pend' = [pend EXCEPT ![p] = [op |-> op, todo |-> todo, val |-> val, got |-> {}]]
  <2> DEFINE c == [NoCall EXCEPT !.op = op, !.pc = firstPc(op), !.todo = todo, !.val = val]
  <2>1. Seen(c) = [op |-> op, todo |-> todo, val |-> val, got |-> {}]
    BY DEF NoCall, Seen
  <2>2. /\ call'[p] = c /\ \A q \in Procs \ {p} : call'[q] = call[q]
    BY <1>1 DEF Inv, TypeOK
  <2> HIDE DEF c
  <2> QED
    BY <2>1, <2>2, PendIsSeen
<1>5. store' = store
  BY <1>1 DEF store
<1>6. Contract!Begin(p)
  BY <1>2, <1>3, <1>4, <1>5 DEF Contract!Begin
<1> QED
  BY <1>6 DEF Contract!Next

LEMMA ReturnRefines == ASSUME Inv, NEW p \in Procs, Return(p) PROVE Contract!Next
<1>1. call[p].pc = "done" /\ call' = [call EXCEPT ![p] = NoCall] /\ items' = items
  BY DEF Return
<1>2. pend[p].op # "none" /\ pend[p].todo = {}
  BY <1>1, PendIsSeen DEF Inv, CallInv, Seen
<1>3. pend' = [pend EXCEPT ![p] = Contract!Free]
  <2>1. /\ call'[p] = NoCall /\ \A q \in Procs \ {p} : call'[q] = call[q]
    BY <1>1 DEF Inv, TypeOK
  <2>2. Seen(NoCall) = Contract!Free
    BY DEF Seen, NoCall, Contract!Free
  <2> QED
    BY <2>1, <2>2, PendIsSeen
<1>4. store' = store
  BY <1>1 DEF store
<1>5. Contract!End(p)
  BY <1>2, <1>3, <1>4 DEF Contract!End
<1> QED
  BY <1>5 DEF Contract!Next

\* A step of the call of p that the contract does not see: on the way to a lock, at
\* the lookup, and within a walk over the map.
LEMMA HiddenRefines ==
  ASSUME Inv, NEW p \in Procs,
         \/ Lock(p) \/ locked(p) \/ RLock(p) \/ lookup(p) \/ Count(p)
         \/ (\E k \in Keys : rangeStep(p, k)) \/ rangeEnd(p)
  PROVE  UNCHANGED Contract!vars
<1>0. call[p] \in CallState /\ CallInv(call[p])
  BY DEF Inv, TypeOK
<1>1. items' = items
  BY DEF Lock, locked, RLock, lookup, Count, rangeStep, rangeEnd
<1>2. PICK c : call' = [call EXCEPT ![p] = c]
  BY DEF Lock, locked, RLock, lookup, Count, rangeStep, rangeEnd
<1>3. call'[p] = c /\ \A q \in Procs \ {p} : call'[q] = call[q]
  BY <1>2 DEF Inv, TypeOK
<1>4. Seen(call'[p]) = Seen(call[p])
  <2>1. CASE Lock(p) \/ locked(p) \/ RLock(p)
    <3>1. /\ call'[p].op = call[p].op /\ call'[p].todo = call[p].todo
          /\ call'[p].val = call[p].val /\ call'[p].acc = call[p].acc
          /\ call[p].pc # "mid" /\ call'[p].pc # "mid"
      <4>1. CASE Lock(p)
        <5>1. PICK k, s : call' = [call EXCEPT ![p].pc = "wait", ![p].key = k, ![p].s = s]
          BY <4>1 DEF Lock
        <5>2. call[p].pc = "start"
          BY <4>1 DEF Lock
        <5> QED
          BY <1>0, <5>1, <5>2 DEF Inv, TypeOK, CallState
      <4>2. CASE locked(p)
        BY <4>2, <1>0 DEF locked, Inv, TypeOK, CallState
      <4>3. CASE RLock(p)
        <5>1. PICK t \in targets(p) :
                call' = [call EXCEPT ![p].pc = "read", ![p].key = t[1], ![p].s = t[2],
                                     ![p].rest = keysIn(t[2])]
          BY <4>3 DEF RLock
        <5>2. call[p].pc = "start"
          BY <4>3 DEF RLock
        <5>3. call' = [call EXCEPT ![p] = [call[p] EXCEPT !.pc = "read", !.key = t[1], !.s = t[2],
                                                          !.rest = keysIn(t[2])]]
          BY <5>1 DEF Inv, TypeOK
        <5>4. call'[p] = [call[p] EXCEPT !.pc = "read", !.key = t[1], !.s = t[2],
                                         !.rest = keysIn(t[2])]
          BY <5>3 DEF Inv, TypeOK
        <5> QED
          BY <1>0, <5>2, <5>4 DEF CallState
      <4> QED
        BY <2>1, <4>1, <4>2, <4>3
    <3> QED
      BY <3>1 DEF Seen
  <2>2. CASE lookup(p)
    <3>1. /\ call[p].pc = "in" /\ call[p].op \in {"SetNX", "GetAndRemove"}
          /\ call'[p].pc = "mid" /\ call'[p].op = call[p].op /\ call'[p].todo = call[p].todo
          /\ call'[p].val = call[p].val
      BY <2>2, <1>0 DEF lookup, Writing, Inv, TypeOK, CallState
    <3>2. call[p].acc = {}
      BY <1>0, <3>1 DEF CallInv, writes, KeyWrites
    <3> QED
      BY <3>1, <3>2 DEF Seen
  <2>3. CASE Count(p)
    <3>1. /\ call[p].pc = "read" /\ call[p].op \in {"Count", "IterBuffered"} /\ call[p].todo = {}
          /\ call'[p] = nextShard([call[p] EXCEPT !.n = @ + Cardinality(keysIn(call[p].s))])
      BY <2>3, <1>0, <1>3 DEF Count, Reading, CallInv, Scans, Iterations, Inv, TypeOK
    <3>2. /\ call'[p].pc # "mid" /\ call'[p].op = call[p].op /\ call'[p].todo = {}
          /\ call'[p].val = call[p].val /\ call'[p].acc = call[p].acc
      BY <1>0, <3>1 DEF nextShard, CallState
    <3> QED
      BY <3>1, <3>2 DEF Seen
  <2>4. CASE \E k \in Keys : rangeStep(p, k)
    <3>1. call[p].op \in Scans
      BY <2>4 DEF rangeStep, Reading, Scans
    <3>2. PICK acc, n, rest :
            call' = [call EXCEPT ![p].acc = acc, ![p].n = n, ![p].rest = rest]
      BY <2>4 DEF rangeStep
    <3>3. /\ call'[p].op = call[p].op /\ call'[p].todo = call[p].todo
          /\ call'[p].val = call[p].val
      BY <1>0, <3>2 DEF Inv, TypeOK, CallState
    <3> QED
      BY <3>1, <3>3 DEF Seen
  <2>5. CASE rangeEnd(p)
    <3>1. /\ call[p].op \in Scans /\ call[p].todo = {} /\ call'[p] = nextShard(call[p])
      BY <2>5, <1>0 DEF rangeEnd, Reading, CallInv, Scans, Inv, TypeOK
    <3>2. call'[p].op = call[p].op /\ call'[p].todo = {} /\ call'[p].val = call[p].val
      BY <1>0, <3>1 DEF nextShard, CallState
    <3> QED
      BY <3>1, <3>2 DEF Seen
  <2> QED
    BY <2>1, <2>2, <2>3, <2>4, <2>5
<1> QED
  BY <1>1, <1>3, <1>4, SilentStep

LEMMA StepRefines == Inv /\ [Next]_vars => [Contract!Next]_Contract!vars
<1> SUFFICES ASSUME Inv, [Next]_vars PROVE Contract!Next \/ UNCHANGED Contract!vars
  OBVIOUS
<1>1. CASE items' = items /\ call' = call
  <2>1. store' = store /\ pend' = pend
    BY <1>1 DEF store, pend
  <2> QED
    BY <2>1 DEF Contract!vars
<1>2. ASSUME NEW p \in Procs, NEW op \in AllOps, NEW todo \in arguments(op), Call(p, op, todo)
      PROVE  Contract!Next
  BY <1>2, CallRefines
<1>3. ASSUME NEW p \in Procs, CallStep(p) PROVE Contract!Next \/ UNCHANGED Contract!vars
  BY <1>3, HiddenRefines, SetRefines, SetNXRefines, GetAndRemoveRefines, RemoveRefines,
     ClearRefines, GetRefines, ReturnRefines DEF CallStep
<1>4. ASSUME NEW p \in Procs, IterStep(p) \/ LoopStep(p) \/ breakLoop(p)
      PROVE  items' = items /\ call' = call
  BY <1>4 DEF IterStep, iterLock, iterSend, iterUnlock, LoopStep, receive, endLoop, breakLoop
<1> QED
  BY <1>1, <1>2, <1>3, <1>4 DEF Next, vars

LEMMA InitRefines == Init => Contract!Init
<1> SUFFICES ASSUME Init PROVE Contract!Init
  OBVIOUS
<1>1. store \in [Keys -> 0..MaxVals]
  BY GetShardType, CMapConstants DEF Init, store, None
<1>2. pend = [p \in Procs |-> Contract!Free]
  BY PendIsSeen DEF Init, Seen, NoCall, Contract!Free
<1> QED
  BY <1>1, <1>2 DEF Contract!Init

(***************************************************************************)
(* The sharded map is one map on which every operation on a key is atomic: *)
(* the code's lookups and writes under one shard lock cannot be told from  *)
(* a single step, and no other step changes a value (AtomicPerKey).        *)
(***************************************************************************)
THEOREM ImplementsContract == Spec => AtomicPerKey
BY InvAlways, InitRefines, StepRefines, PTL DEF Spec, AtomicPerKey, Contract!Spec

-----------------------------------------------------------------------------
(***************************************************************************)
(* What the scans and the iterations of a map that others change meanwhile *)
(* may miss and may return (ScanBounds, IterBounds), and that no value is  *)
(* handed out twice by GetAndRemove (TakenIsGone).                         *)
(***************************************************************************)

(***************************************************************************)
(* The inductive invariant.  A key is only ever stored in its own shard.   *)
(***************************************************************************)
PlaceInv == \A s \in Shards : \A k \in Keys : items[s][k] # None => GetShard(k) = s

\* What the observer of p has seen is right whenever a bound is stated for p.
WatchInv(p) ==
  /\ p \in loop => iter[p].pc # "none" /\ call[p].op \notin Scans \cup Iterations
  /\ iter[p].pc # "none" => call[p].op \notin Iterations
  /\ call[p].op \in Scans \cup Iterations \/ p \in loop
       => watch[p].stable \subseteq keysOf(items) /\ pairsOf(items) \subseteq watch[p].seen

\* A walk over the shards has come to shard s, where the keys in rest are left if it
\* is in the middle of it, and has collected n times a pair, in all the pairs in P.
Walked(P, n, s, rest, middle, o) ==
  /\ P \subseteq o.seen
  /\ inShards(o.stable, s) \subseteq keysOfPairs(P)
  /\ \A k \in keysOfPairs(P) : GetShard(k) < s \/ (middle /\ GetShard(k) = s)
  /\ n = Cardinality(keysOfPairs(P))
  /\ middle => /\ \A k \in o.stable : GetShard(k) = s => k \in rest \cup keysOfPairs(P)
               /\ rest \cap keysOfPairs(P) = {}

\* What the call of p has collected so far, or counted, and what its loop was sent.
ScanInv(p) ==
  LET c == call[p]
  IN  c.op \in {"Keys", "GetAll"} => Walked(c.acc, c.n, c.s, c.rest, c.pc = "read", watch[p])

CountedInv(p) ==
  LET c == call[p]
  IN  c.op = "Count" =>
        /\ Cardinality(inShards(watch[p].stable, c.s)) <= c.n
        /\ c.n <= Cardinality(inShards(keysOfPairs(watch[p].seen), c.s))

\* The elements of a sequence.
Elements(q) == {q[i] : i \in DOMAIN q}

LoopInv(p) ==
  LET c == iter[p]
  IN  p \in loop => Walked(Elements(c.got) \cup Elements(c.buf), Len(c.got) + Len(c.buf),
                           c.s, c.rest, c.pc = "send", watch[p])

BoundsInv == PlaceInv /\ \A p \in Procs : WatchInv(p) /\ ScanInv(p) /\ CountedInv(p) /\ LoopInv(p)

-----------------------------------------------------------------------------
(***************************************************************************)
(* A walk over the shards.                                                 *)
(***************************************************************************)
LEMMA PairKeys ==
  ASSUME NEW P \in SUBSET Pairs
  PROVE  /\ keysOfPairs(P) \in SUBSET Keys
         /\ IsFiniteSet(keysOfPairs(P)) /\ Cardinality(keysOfPairs(P)) \in Nat
<1>1. keysOfPairs(P) \in SUBSET Keys
  BY DEF keysOfPairs, Pairs
<1> QED
  BY <1>1, CMapConstants, FS_Subset, FS_CardinalityType

LEMMA ShardNat == ASSUME NEW k \in Keys PROVE GetShard(k) \in Nat /\ GetShard(k) < SHARD_COUNT
BY GetShardType, CMapConstants DEF Shards

LEMMA WalkObserve ==
  ASSUME NEW P, NEW n, NEW s, NEW rest, NEW middle, NEW o, NEW o2,
         o2.stable \subseteq o.stable, o.seen \subseteq o2.seen, Walked(P, n, s, rest, middle, o)
  PROVE  Walked(P, n, s, rest, middle, o2)
BY DEF Walked, inShards

LEMMA WalkStart ==
  ASSUME NEW o \in WatchState, NEW rest
  PROVE  Walked({}, 0, 0, rest, FALSE, o)
<1>1. inShards(o.stable, 0) = {}
  BY ShardNat DEF inShards, WatchState
<1>2. keysOfPairs({}) = {}
  BY DEF keysOfPairs
<1> QED
  BY <1>1, <1>2, FS_EmptySet DEF Walked

LEMMA WalkEnter ==
  ASSUME PlaceInv, NEW s \in Shards, NEW P \in SUBSET Pairs, NEW n, NEW rest,
         NEW o \in WatchState, o.stable \subseteq keysOf(items), Walked(P, n, s, rest, FALSE, o)
  PROVE  Walked(P, n, s, keysIn(s), TRUE, o)
<1>1. \A k \in keysIn(s) : k \in Keys /\ GetShard(k) = s
  BY DEF keysIn, PlaceInv
<1>2. \A k \in o.stable : GetShard(k) = s => k \in keysIn(s)
  BY DEF keysOf, keysIn
<1>3. \A k \in keysOfPairs(P) : GetShard(k) < s
  BY DEF Walked
<1>4. \A k \in keysIn(s) : ~(GetShard(k) < s)
  BY <1>1, ShardNat
<1>5. keysIn(s) \cap keysOfPairs(P) = {}
  BY <1>3, <1>4
<1> QED
  BY <1>2, <1>5 DEF Walked

LEMMA WalkTake ==
  ASSUME PlaceInv, NEW s \in Shards, NEW P \in SUBSET Pairs, NEW n, NEW rest,
         NEW o, pairsOf(items) \subseteq o.seen, Walked(P, n, s, rest, TRUE, o),
         NEW k \in rest, k \in keysIn(s)
  PROVE  Walked(P \cup {<<k, items[s][k]>>}, n + 1, s, rest \ {k}, TRUE, o)
<1> DEFINE pair == <<k, items[s][k]>>
           Q == P \cup {pair}
<1>1. k \in Keys /\ GetShard(k) = s /\ pair \in pairsOf(items)
  BY DEF keysIn, PlaceInv, pairsOf, keysOf
<1>2. keysOfPairs(Q) = keysOfPairs(P) \cup {k}
  <2>1. pair[1] = k
    OBVIOUS
  <2> HIDE DEF pair
  <2> QED
    BY <2>1 DEF keysOfPairs
<1>3. k \notin keysOfPairs(P)
  BY DEF Walked
<1>4. Cardinality(keysOfPairs(Q)) = n + 1
  <2>1. IsFiniteSet(keysOfPairs(P)) /\ n = Cardinality(keysOfPairs(P))
    BY PairKeys DEF Walked
  <2>2. Cardinality(keysOfPairs(P) \cup {k}) = n + 1
    BY <1>3, <2>1, FS_AddElement
  <2> QED
    BY <1>2, <2>2
<1>5. Q \subseteq o.seen
  BY <1>1 DEF Walked
<1>6. n + 1 = Cardinality(keysOfPairs(Q))
  BY <1>4
<1> HIDE DEF Q
<1>7. Walked(Q, n + 1, s, rest \ {k}, TRUE, o)
  BY <1>1, <1>2, <1>5, <1>6 DEF Walked
<1> QED
  BY <1>7 DEF Q

LEMMA WalkLeave ==
  ASSUME NEW s \in Shards, NEW P \in SUBSET Pairs, NEW n, NEW rest,
         NEW o \in WatchState, Walked(P, n, s, {}, TRUE, o)
  PROVE  Walked(P, n, s + 1, rest, FALSE, o)
<1>1. \A k \in keysOfPairs(P) : GetShard(k) \in Nat /\ (GetShard(k) < s \/ GetShard(k) = s)
  BY PairKeys, ShardNat DEF Walked
<1>2. s \in Int
  BY DEF Shards
<1>3. \A k \in keysOfPairs(P) : GetShard(k) < s + 1
  BY <1>1, <1>2
<1>4. \A k \in o.stable : GetShard(k) \in Nat
  BY ShardNat DEF WatchState
<1>5. \A k \in inShards(o.stable, s + 1) : k \in inShards(o.stable, s) \/ (k \in o.stable /\ GetShard(k) = s)
  BY <1>2, <1>4 DEF inShards
<1>6. inShards(o.stable, s + 1) \subseteq keysOfPairs(P)
  BY <1>5 DEF Walked
<1> QED
  BY <1>3, <1>6 DEF Walked

-----------------------------------------------------------------------------
(***************************************************************************)
(* Steps that write to the map.                                            *)
(***************************************************************************)
WriteStep(p) == Set(p) \/ SetNX(p) \/ GetAndRemove(p) \/ Remove(p) \/ Clear(p)
Stores == {"Set", "SetNX", "MSet"}

\* X is the call as it goes on: it has stored at most its value, at its key.
Written(p, X) ==
  /\ call' = [call EXCEPT ![p] = X]
  /\ X.op = call[p].op /\ X.val = call[p].val /\ X.todo \subseteq call[p].todo
  /\ \A t \in Shards : \A k \in Keys :
       \/ items'[t][k] = items[t][k]
       \/ items'[t][k] = None
       \/ /\ call[p].op \in Stores /\ items'[t][k] = call[p].val
          /\ k \in call[p].todo \ X.todo /\ t = GetShard(k)

LEMMA KeyWriteFacts ==
  ASSUME Inv, NEW p \in Procs, Set(p) \/ SetNX(p) \/ GetAndRemove(p) \/ Remove(p)
  PROVE  Written(p, nextKey(call[p]))
<1>0. call[p] \in CallState /\ TypeOK
  BY DEF Inv, TypeOK
<1>1. /\ call[p].op \in KeyOps /\ call[p].pc \in Inside
      /\ call' = [call EXCEPT ![p] = nextKey(call[p])]
      /\ \/ items' = items
         \/ items' = put(call[p].s, call[p].key, None)
         \/ items' = put(call[p].s, call[p].key, call[p].val) /\ call[p].op \in Stores
  BY DEF Set, SetNX, GetAndRemove, Remove, without, Writing, KeyOps, KeyWrites, Inside, Stores
<1>2. /\ call[p].key \in Keys /\ call[p].key \in call[p].todo
      /\ call[p].s = GetShard(call[p].key) /\ call[p].s \in Shards
  BY <1>1, KeyOK
<1>3. LET X == nextKey(call[p])
      IN  X.op = call[p].op /\ X.val = call[p].val /\ X.todo = call[p].todo \ {call[p].key}
  BY <1>0 DEF nextKey, CallState
<1>4. ASSUME NEW v \in {None, call[p].val}, NEW t \in Shards, NEW k \in Keys,
             items' = put(call[p].s, call[p].key, v)
      PROVE  \/ items'[t][k] = items[t][k]
             \/ items'[t][k] = v /\ k = call[p].key /\ t = call[p].s
  BY <1>0, <1>2, <1>4 DEF TypeOK, put
<1>5. ASSUME NEW t \in Shards, NEW k \in Keys
      PROVE  \/ items'[t][k] = items[t][k]
             \/ items'[t][k] = None
             \/ /\ call[p].op \in Stores /\ items'[t][k] = call[p].val
                /\ k = call[p].key /\ t = call[p].s
  BY <1>1, <1>4
<1> QED
  BY <1>1, <1>2, <1>3, <1>5 DEF Written

LEMMA ClearFacts ==
  ASSUME Inv, NEW p \in Procs, Clear(p)
  PROVE  Written(p, nextShard(call[p]))
<1>0. call[p] \in CallState /\ TypeOK
  BY DEF Inv, TypeOK
<1>1. /\ call' = [call EXCEPT ![p] = nextShard(call[p])]
      /\ items' = [items EXCEPT ![call[p].s] = [k \in Keys |-> None]]
  BY DEF Clear
<1>2. LET X == nextShard(call[p])
      IN  X.op = call[p].op /\ X.val = call[p].val /\ X.todo \subseteq call[p].todo
  BY <1>0 DEF nextShard, CallState
<1>3. ASSUME NEW t \in Shards, NEW k \in Keys
      PROVE  items'[t][k] = items[t][k] \/ items'[t][k] = None
  BY <1>0, <1>1 DEF TypeOK
<1> QED
  BY <1>1, <1>2, <1>3 DEF Written

LEMMA WriteFacts ==
  ASSUME Inv, NEW p \in Procs, WriteStep(p)
  PROVE  /\ \E X : Written(p, X)
         /\ call[p].op \notin Scans \cup Iterations
         /\ observe(items') /\ UNCHANGED <<iter, loop, nvals, ncalls>>
<1>1. \E X : Written(p, X)
  BY KeyWriteFacts, ClearFacts DEF WriteStep
<1>2. call[p].op \notin Scans \cup Iterations
  BY DEF WriteStep, Set, SetNX, GetAndRemove, Remove, Clear, Writing, Scans, Iterations
<1>3. observe(items') /\ UNCHANGED <<iter, loop, nvals, ncalls>>
  BY DEF WriteStep, Set, SetNX, GetAndRemove, Remove, Clear
<1> QED
  BY <1>1, <1>2, <1>3

LEMMA CallRest ==
  ASSUME Inv, NEW p \in Procs, NEW X, call' = [call EXCEPT ![p] = X]
  PROVE  call'[p] = X /\ \A q \in Procs \ {p} : call'[q] = call[q]
BY DEF Inv, TypeOK

LEMMA ObserveFacts ==
  ASSUME Inv, observe(items'), NEW q \in Procs
  PROVE  /\ watch'[q].stable \subseteq watch[q].stable /\ watch[q].seen \subseteq watch'[q].seen
         /\ watching(q) => /\ watch'[q].stable \subseteq keysOf(items')
                           /\ pairsOf(items') \subseteq watch'[q].seen
<1>1. CASE watching(q)
  BY <1>1 DEF observe
<1>2. CASE ~watching(q)
  BY <1>2 DEF observe
<1> QED
  BY <1>1, <1>2

\* The bounds on a count, as the observer sees more.
LEMMA CountObserve ==
  ASSUME NEW s, NEW n \in Nat, NEW o \in WatchState, NEW o2 \in WatchState,
         o2.stable \subseteq o.stable, o.seen \subseteq o2.seen,
         Cardinality(inShards(o.stable, s)) <= n,
         n <= Cardinality(inShards(keysOfPairs(o.seen), s))
  PROVE  /\ Cardinality(inShards(o2.stable, s)) <= n
         /\ n <= Cardinality(inShards(keysOfPairs(o2.seen), s))
<1>1. /\ inShards(o2.stable, s) \subseteq inShards(o.stable, s)
      /\ inShards(keysOfPairs(o.seen), s) \subseteq inShards(keysOfPairs(o2.seen), s)
  BY DEF inShards, keysOfPairs
<1>2. /\ inShards(o.stable, s) \in SUBSET Keys
      /\ inShards(keysOfPairs(o2.seen), s) \in SUBSET Keys
  BY PairKeys DEF inShards, WatchState
<1>3. IsFiniteSet(inShards(o.stable, s)) /\ IsFiniteSet(inShards(keysOfPairs(o2.seen), s))
  BY <1>2, CMapConstants, FS_Subset
<1>4. /\ Cardinality(inShards(o2.stable, s)) <= Cardinality(inShards(o.stable, s))
      /\ Cardinality(inShards(o2.stable, s)) \in Nat /\ Cardinality(inShards(o.stable, s)) \in Nat
  BY <1>1, <1>3, FS_Subset, FS_CardinalityType
<1>5. /\ Cardinality(inShards(keysOfPairs(o.seen), s)) <= Cardinality(inShards(keysOfPairs(o2.seen), s))
      /\ Cardinality(inShards(keysOfPairs(o.seen), s)) \in Nat
      /\ Cardinality(inShards(keysOfPairs(o2.seen), s)) \in Nat
  BY <1>1, <1>3, FS_Subset, FS_CardinalityType
<1> QED
  BY <1>4, <1>5

LEMMA WriteBounds ==
  ASSUME Inv, Inv', BoundsInv, NEW p \in Procs, WriteStep(p)
  PROVE  BoundsInv'
<1>1. PICK X : Written(p, X)
  BY WriteFacts
<1>2. /\ call[p].op \notin Scans \cup Iterations /\ call'[p].op = call[p].op
      /\ \A q \in Procs \ {p} : call'[q] = call[q]
  BY <1>1, WriteFacts, CallRest DEF Written
<1>3. observe(items') /\ UNCHANGED <<iter, loop>>
  BY WriteFacts
<1>4. PlaceInv'
  BY <1>1 DEF BoundsInv, PlaceInv, Written
<1>5. SUFFICES ASSUME NEW q \in Procs
               PROVE  WatchInv(q)' /\ ScanInv(q)' /\ CountedInv(q)' /\ LoopInv(q)'
  BY <1>4 DEF BoundsInv
<1>6. /\ watch'[q].stable \subseteq watch[q].stable /\ watch[q].seen \subseteq watch'[q].seen
      /\ watching(q) => /\ watch'[q].stable \subseteq keysOf(items')
                        /\ pairsOf(items') \subseteq watch'[q].seen
  BY <1>3, ObserveFacts
<1>7. WatchInv(q) /\ ScanInv(q) /\ CountedInv(q) /\ LoopInv(q)
  BY DEF BoundsInv
<1>8. call'[q].op = call[q].op /\ (call[q].op \in Scans => call'[q] = call[q])
  BY <1>2
<1>9. WatchInv(q)'
  BY <1>3, <1>6, <1>7, <1>8 DEF WatchInv, watching
<1>10. ScanInv(q)'
  BY <1>6, <1>7, <1>8, WalkObserve DEF ScanInv, Scans
<1>11. LoopInv(q)'
  BY <1>3, <1>6, <1>7, WalkObserve DEF LoopInv
<1>12. CountedInv(q)'
  <2> SUFFICES ASSUME call[q].op = "Count" PROVE CountedInv(q)'
    BY <1>8 DEF CountedInv
  <2>1. call'[q] = call[q] /\ call[q].n \in Nat
    BY <1>8 DEF Inv, TypeOK, CallState, Scans
  <2>2. watch[q] \in WatchState /\ watch'[q] \in WatchState
    BY DEF Inv, TypeOK
  <2> QED
    BY <1>6, <1>7, <2>1, <2>2, CountObserve DEF CountedInv
<1> QED
  BY <1>9, <1>10, <1>11, <1>12

-----------------------------------------------------------------------------
(***************************************************************************)
(* Steps of a call that only read the map.                                 *)
(***************************************************************************)
LEMMA ReadBounds ==
  ASSUME Inv, BoundsInv, NEW p \in Procs, NEW X, call' = [call EXCEPT ![p] = X],
         X.op = call[p].op, UNCHANGED <<items, iter, loop, watch>>,
         ScanInv(p)', CountedInv(p)'
  PROVE  BoundsInv'
<1>1. call'[p] = X /\ \A q \in Procs \ {p} : call'[q] = call[q]
  BY CallRest
<1>2. PlaceInv'
  BY DEF BoundsInv, PlaceInv
<1>3. SUFFICES ASSUME NEW q \in Procs
               PROVE  WatchInv(q)' /\ ScanInv(q)' /\ CountedInv(q)' /\ LoopInv(q)'
  BY <1>2 DEF BoundsInv
<1>4. WatchInv(q) /\ ScanInv(q) /\ CountedInv(q) /\ LoopInv(q)
  BY DEF BoundsInv
<1>5. call'[q].op = call[q].op
  BY <1>1
<1>6. WatchInv(q)'
  BY <1>4, <1>5 DEF WatchInv
<1>7. LoopInv(q)'
  BY <1>4 DEF LoopInv
<1>8. ScanInv(q)' /\ CountedInv(q)'
  <2>1. CASE q = p
    BY <2>1
  <2>2. CASE q # p
    <3>1. call'[q] = call[q]
      BY <1>1, <2>2
    <3> QED
      BY <1>4, <3>1 DEF ScanInv, CountedInv
  <2> QED
    BY <2>1, <2>2
<1> QED
  BY <1>6, <1>7, <1>8

\* A step on the way to a lock, or of an operation on single keys.
LEMMA NoScanBounds ==
  ASSUME Inv, BoundsInv, NEW p \in Procs, Lock(p) \/ locked(p) \/ lookup(p) \/ Get(p)
  PROVE  BoundsInv'
<1>0. call[p] \in CallState /\ TypeOK /\ CallInv(call[p])
  BY DEF Inv, TypeOK
<1>1. UNCHANGED <<items, iter, loop, watch>>
  BY DEF Lock, locked, lookup, Get
<1>2. call[p].op \notin Scans
  <2>1. \A op \in Scans : ~writes(op) /\ op \notin KeyReads \cup {"MGet"}
    BY DEF writes, Scans, KeyWrites, KeyReads
  <2>2. CASE Lock(p)
    BY <2>1, <2>2 DEF Lock
  <2>3. CASE locked(p)
    BY <1>0, <2>1, <2>3 DEF locked, CallInv
  <2>4. CASE lookup(p)
    BY <2>4 DEF lookup, Writing, Scans
  <2>5. CASE Get(p)
    BY <2>1, <2>5 DEF Get, Reading
  <2> QED
    BY <2>2, <2>3, <2>4, <2>5
<1>3. \E X : call' = [call EXCEPT ![p] = X] /\ X.op = call[p].op
  <2>1. CASE Lock(p)
    <3>1. PICK t \in targets(p) :
            call' = [call EXCEPT ![p].pc = "wait", ![p].key = t[1], ![p].s = t[2]]
      BY <2>1 DEF Lock
    <3>2. call' = [call EXCEPT ![p] = [call[p] EXCEPT !.pc = "wait", !.key = t[1], !.s = t[2]]]
      BY <1>0, <3>1 DEF TypeOK, CallState
    <3>3. [call[p] EXCEPT !.pc = "wait", !.key = t[1], !.s = t[2]].op = call[p].op
      BY <1>0 DEF CallState
    <3> QED
      BY <3>2, <3>3
  <2>2. CASE locked(p)
    <3>1. call' = [call EXCEPT ![p] = [call[p] EXCEPT !.pc = "in"]]
      BY <1>0, <2>2 DEF TypeOK, CallState, locked
    <3>2. [call[p] EXCEPT !.pc = "in"].op = call[p].op
      BY <1>0 DEF CallState
    <3> QED
      BY <3>1, <3>2
  <2>3. CASE lookup(p)
    <3> DEFINE e == entry(call[p].s, call[p].key)
    <3>1. call' = [call EXCEPT ![p].pc = "mid", ![p].acc = e]
      BY <2>3 DEF lookup
    <3> HIDE DEF e
    <3>2. call' = [call EXCEPT ![p] = [call[p] EXCEPT !.pc = "mid", !.acc = e]]
      BY <1>0, <3>1 DEF TypeOK, CallState
    <3>3. [call[p] EXCEPT !.pc = "mid", !.acc = e].op = call[p].op
      BY <1>0 DEF CallState
    <3> QED
      BY <3>2, <3>3
  <2>4. CASE Get(p)
    <3> DEFINE c == [call[p] EXCEPT !.acc = @ \cup entry(call[p].s, call[p].key)]
    <3>1. call' = [call EXCEPT ![p] = nextKey(c)]
      BY <2>4 DEF Get
    <3>2. nextKey(c).op = call[p].op
      BY <1>0 DEF nextKey, CallState
    <3> QED
      BY <3>1, <3>2
  <2> QED
    BY <2>1, <2>2, <2>3, <2>4
<1>4. PICK X : call' = [call EXCEPT ![p] = X] /\ X.op = call[p].op
  BY <1>3
<1>5. call'[p].op \notin Scans
  BY <1>2, <1>4, CallRest
<1>6. ScanInv(p)' /\ CountedInv(p)'
  BY <1>5 DEF ScanInv, CountedInv, Scans
<1> QED
  BY <1>1, <1>4, <1>6, ReadBounds

LEMMA RLockBounds ==
  ASSUME Inv, BoundsInv, NEW p \in Procs, RLock(p)
  PROVE  BoundsInv'
<1>0. /\ call[p] \in CallState /\ TypeOK /\ watch[p] \in WatchState /\ PlaceInv
      /\ ScanInv(p) /\ CountedInv(p) /\ WatchInv(p) /\ call[p].pc = "start"
  BY DEF Inv, TypeOK, BoundsInv, RLock
<1>1. PICK t \in targets(p) :
        call' = [call EXCEPT ![p].pc = "read", ![p].key = t[1], ![p].s = t[2], ![p].rest = keysIn(t[2])]
  BY DEF RLock
<1> DEFINE X == [call[p] EXCEPT !.pc = "read", !.key = t[1], !.s = t[2], !.rest = keysIn(t[2])]
<1>2. call' = [call EXCEPT ![p] = X]
  BY <1>0, <1>1 DEF TypeOK, CallState
<1>3. /\ X.op = call[p].op /\ X.pc = "read" /\ X.s = t[2] /\ X.rest = keysIn(t[2])
      /\ X.acc = call[p].acc /\ X.n = call[p].n
  BY <1>0 DEF CallState
<1>4. t[2] \in Shards /\ (call[p].op \in Scans => t[2] = call[p].s)
  BY <1>0, TargetsOK DEF Scans, KeyOps, KeyWrites, KeyReads
<1> HIDE DEF X
<1>5. call'[p] = X
  BY <1>2, CallRest
<1>6. UNCHANGED <<items, iter, loop, watch>>
  BY DEF RLock
<1>7. CountedInv(p)'
  BY <1>0, <1>3, <1>4, <1>5, <1>6 DEF CountedInv, Scans
<1>8. ScanInv(p)'
  <2> SUFFICES ASSUME call[p].op \in {"Keys", "GetAll"} PROVE ScanInv(p)'
    BY <1>3, <1>5 DEF ScanInv
  <2>1. t[2] = call[p].s /\ call[p].acc \in SUBSET Pairs /\ watch[p].stable \subseteq keysOf(items)
    BY <1>0, <1>4 DEF Scans, CallState, WatchInv
  <2>2. Walked(call[p].acc, call[p].n, call[p].s, call[p].rest, FALSE, watch[p])
    BY <1>0 DEF ScanInv
  <2>3. Walked(call[p].acc, call[p].n, call[p].s, keysIn(call[p].s), TRUE, watch[p])
    BY <1>0, <1>4, <2>1, <2>2, WalkEnter
  <2> QED
    BY <1>3, <1>5, <1>6, <2>1, <2>3 DEF ScanInv
<1> QED
  BY <1>2, <1>3, <1>6, <1>7, <1>8, ReadBounds

LEMMA rangeStepBounds ==
  ASSUME Inv, BoundsInv, NEW p \in Procs, NEW k \in Keys, rangeStep(p, k)
  PROVE  BoundsInv'
<1>0. /\ call[p] \in CallState /\ TypeOK /\ CallInv(call[p]) /\ HoldInv(p) /\ PlaceInv
      /\ ScanInv(p) /\ WatchInv(p)
  BY DEF Inv, TypeOK, BoundsInv
<1> DEFINE acc == call[p].acc \cup {<<k, items[call[p].s][k]>>}
           X == [call[p] EXCEPT !.acc = acc, !.n = @ + 1, !.rest = @ \ {k}]
<1>1. /\ call[p].pc = "read" /\ call[p].op \in {"Keys", "GetAll"} /\ k \in call[p].rest
      /\ call' = [call EXCEPT ![p].acc = acc, ![p].n = @ + 1, ![p].rest = @ \ {k}]
      /\ UNCHANGED <<items, iter, loop, watch>>
  BY DEF rangeStep, Reading
<1>2. call[p].s \in Shards /\ k \in keysIn(call[p].s) /\ call[p].acc \in SUBSET Pairs
  BY <1>0, <1>1 DEF CallInv, HoldInv, CallHold, Inside, CallState
<1>3. pairsOf(items) \subseteq watch[p].seen
  BY <1>0, <1>1 DEF WatchInv, Scans
<1>4. Walked(call[p].acc, call[p].n, call[p].s, call[p].rest, TRUE, watch[p])
  BY <1>0, <1>1 DEF ScanInv
<1>5. Walked(acc, call[p].n + 1, call[p].s, call[p].rest \ {k}, TRUE, watch[p])
  BY <1>0, <1>1, <1>2, <1>3, <1>4, WalkTake
<1> HIDE DEF acc
<1>6. call' = [call EXCEPT ![p] = X]
  BY <1>0, <1>1 DEF TypeOK, CallState
<1>7. /\ X.op = call[p].op /\ X.pc = "read" /\ X.s = call[p].s /\ X.rest = call[p].rest \ {k}
      /\ X.acc = acc /\ X.n = call[p].n + 1
  BY <1>0, <1>1 DEF CallState
<1> HIDE DEF X
<1>8. call'[p] = X
  BY <1>6, CallRest
<1>9. ScanInv(p)'
  BY <1>1, <1>5, <1>7, <1>8 DEF ScanInv
<1>10. CountedInv(p)'
  BY <1>1, <1>7, <1>8 DEF CountedInv
<1> QED
  BY <1>1, <1>6, <1>7, <1>9, <1>10, ReadBounds

LEMMA rangeEndBounds ==
  ASSUME Inv, BoundsInv, NEW p \in Procs, rangeEnd(p)
  PROVE  BoundsInv'
<1>0. call[p] \in CallState /\ CallInv(call[p]) /\ ScanInv(p) /\ watch[p] \in WatchState
  BY DEF Inv, TypeOK, BoundsInv
<1> DEFINE X == nextShard(call[p])
<1>1. /\ call[p].pc = "read" /\ call[p].op \in {"Keys", "GetAll"} /\ call[p].rest = {}
      /\ call' = [call EXCEPT ![p] = X] /\ UNCHANGED <<items, iter, loop, watch>>
  BY DEF rangeEnd, Reading
<1>2. /\ X.op = call[p].op /\ X.pc # "read" /\ X.s = call[p].s + 1 /\ X.rest = call[p].rest
      /\ X.acc = call[p].acc /\ X.n = call[p].n
  BY <1>0 DEF nextShard, CallState
<1> HIDE DEF X
<1>3. Walked(call[p].acc, call[p].n, call[p].s, {}, TRUE, watch[p])
  BY <1>0, <1>1 DEF ScanInv
<1>4. call[p].s \in Shards /\ call[p].acc \in SUBSET Pairs
  BY <1>0, <1>1 DEF CallInv, Inside, CallState
<1>5. Walked(call[p].acc, call[p].n, call[p].s + 1, call[p].rest, FALSE, watch[p])
  BY <1>0, <1>3, <1>4, WalkLeave
<1>6. call'[p] = X
  BY <1>1, CallRest
<1>7. ScanInv(p)'
  BY <1>1, <1>2, <1>5, <1>6 DEF ScanInv
<1>8. CountedInv(p)'
  BY <1>1, <1>2, <1>6 DEF CountedInv
<1> QED
  BY <1>1, <1>2, <1>7, <1>8, ReadBounds

\* One more shard counted.
LEMMA CountOneMore ==
  ASSUME TypeOK, PlaceInv, NEW s \in Shards, NEW n \in Nat, NEW o \in WatchState,
         o.stable \subseteq keysOf(items), pairsOf(items) \subseteq o.seen,
         Cardinality(inShards(o.stable, s)) <= n,
         n <= Cardinality(inShards(keysOfPairs(o.seen), s))
  PROVE  /\ Cardinality(inShards(o.stable, s + 1)) <= n + Cardinality(keysIn(s))
         /\ n + Cardinality(keysIn(s)) <= Cardinality(inShards(keysOfPairs(o.seen), s + 1))
<1> DEFINE here == keysIn(s)
           A == inShards(o.stable, s)
           A2 == inShards(o.stable, s + 1)
           B == inShards(keysOfPairs(o.seen), s)
           B2 == inShards(keysOfPairs(o.seen), s + 1)
<1>1. s \in Nat /\ \A k \in Keys : GetShard(k) \in Nat
  BY ShardNat DEF Shards
<1>2. here \in SUBSET Keys /\ \A k \in here : GetShard(k) = s
  BY DEF keysIn, PlaceInv
<1>3. o.stable \in SUBSET Keys /\ keysOfPairs(o.seen) \in SUBSET Keys
  BY PairKeys DEF WatchState
<1>4. A2 \subseteq A \cup here
  <2>1. \A k \in o.stable : GetShard(k) < s + 1 => GetShard(k) < s \/ k \in here
    BY <1>1, <1>3 DEF keysOf, keysIn
  <2> QED
    BY <2>1 DEF inShards
<1>5. here \subseteq keysOfPairs(o.seen)
  <2>1. \A k \in here : <<k, items[s][k]>> \in pairsOf(items)
    BY <1>2 DEF keysIn, pairsOf, keysOf
  <2>2. \A k \in here : <<k, items[s][k]>>[1] = k
    OBVIOUS
  <2>3. \A k \in here : <<k, items[s][k]>>[1] \in keysOfPairs(o.seen)
    BY <2>1 DEF keysOfPairs
  <2> QED
    BY <2>2, <2>3
<1>6. B \cup here \subseteq B2 /\ B \cap here = {}
  <2> HIDE DEF here
  <2>1. \A k \in B : k \in keysOfPairs(o.seen) /\ GetShard(k) < s
    BY DEF inShards
  <2>2. \A k \in B : GetShard(k) < s + 1 /\ GetShard(k) # s
    BY <1>1, <1>3, <2>1
  <2>3. \A k \in here : GetShard(k) < s + 1 /\ k \in keysOfPairs(o.seen)
    BY <1>1, <1>2, <1>5
  <2> QED
    BY <1>2, <2>1, <2>2, <2>3 DEF inShards
<1>7. A \in SUBSET Keys /\ B \in SUBSET Keys /\ A2 \in SUBSET Keys /\ B2 \in SUBSET Keys
  BY <1>3 DEF inShards
<1> HIDE DEF here, A, A2, B, B2
<1>8. /\ IsFiniteSet(A) /\ IsFiniteSet(B) /\ IsFiniteSet(A2) /\ IsFiniteSet(B2) /\ IsFiniteSet(here)
  BY <1>2, <1>7, CMapConstants, FS_Subset
<1>9. /\ Cardinality(A) \in Nat /\ Cardinality(B) \in Nat /\ Cardinality(A2) \in Nat
      /\ Cardinality(B2) \in Nat /\ Cardinality(here) \in Nat
  BY <1>8, FS_CardinalityType
<1>10. /\ IsFiniteSet(A \cup here) /\ IsFiniteSet(A \cap here)
       /\ Cardinality(A \cup here) = Cardinality(A) + Cardinality(here) - Cardinality(A \cap here)
  BY <1>8, FS_Union, FS_Intersection
<1>11. Cardinality(A \cap here) \in Nat /\ Cardinality(A \cup here) \in Nat
  BY <1>10, FS_CardinalityType
<1>12. Cardinality(A2) <= Cardinality(A \cup here)
  BY <1>4, <1>10, FS_Subset
<1>13. /\ IsFiniteSet(B \cup here)
       /\ Cardinality(B \cup here) = Cardinality(B) + Cardinality(here) - Cardinality(B \cap here)
  BY <1>8, FS_Union
<1>14. Cardinality(B \cap here) = 0 /\ Cardinality(B \cup here) \in Nat
  BY <1>6, <1>13, FS_EmptySet, FS_CardinalityType
<1>15. Cardinality(B \cup here) <= Cardinality(B2)
  BY <1>6, <1>8, FS_Subset
<1>16. Cardinality(A) <= n /\ n <= Cardinality(B)
  BY DEF A, B
<1>17. Cardinality(A2) <= n + Cardinality(here)
  BY <1>9, <1>10, <1>11, <1>12, <1>16
<1>18. n + Cardinality(here) <= Cardinality(B2)
  BY <1>9, <1>13, <1>14, <1>15, <1>16
<1> QED
  BY <1>17, <1>18 DEF A2, B2, here

LEMMA CountBounds ==
  ASSUME Inv, BoundsInv, NEW p \in Procs, Count(p)
  PROVE  BoundsInv'
<1>0. /\ call[p] \in CallState /\ CallInv(call[p]) /\ CountedInv(p) /\ watch[p] \in WatchState
      /\ WatchInv(p) /\ TypeOK /\ PlaceInv
  BY DEF Inv, TypeOK, BoundsInv
<1> DEFINE c == [call[p] EXCEPT !.n = @ + Cardinality(keysIn(call[p].s))]
           X == nextShard(c)
<1>1. /\ call[p].pc = "read" /\ call[p].op \in {"Count", "IterBuffered"}
      /\ call' = [call EXCEPT ![p] = X] /\ UNCHANGED <<items, iter, loop, watch>>
  BY DEF Count, Reading
<1>2. X.op = call[p].op /\ X.s = call[p].s + 1 /\ X.n = call[p].n + Cardinality(keysIn(call[p].s))
  BY <1>0 DEF nextShard, CallState
<1> HIDE DEF X
<1>3. call'[p] = X
  BY <1>1, CallRest
<1>4. ScanInv(p)'
  BY <1>1, <1>2, <1>3 DEF ScanInv
<1>5. CountedInv(p)'
  <2> SUFFICES ASSUME call[p].op = "Count" PROVE CountedInv(p)'
    BY <1>2, <1>3 DEF CountedInv
  <2>1. call[p].s \in Shards /\ call[p].n \in Nat
    BY <1>0, <1>1 DEF CallInv, Inside, CallState
  <2>2. watch[p].stable \subseteq keysOf(items) /\ pairsOf(items) \subseteq watch[p].seen
    BY <1>0 DEF WatchInv, Scans
  <2>3. /\ Cardinality(inShards(watch[p].stable, call[p].s)) <= call[p].n
        /\ call[p].n <= Cardinality(inShards(keysOfPairs(watch[p].seen), call[p].s))
    BY <1>0 DEF CountedInv
  <2> DEFINE n2 == call[p].n + Cardinality(keysIn(call[p].s))
  <2>4. /\ Cardinality(inShards(watch[p].stable, call[p].s + 1)) <= n2
        /\ n2 <= Cardinality(inShards(keysOfPairs(watch[p].seen), call[p].s + 1))
    BY <1>0, <2>1, <2>2, <2>3, CountOneMore
  <2> QED
    BY <1>1, <1>2, <1>3, <2>4 DEF CountedInv
<1> QED
  BY <1>1, <1>2, <1>4, <1>5, ReadBounds

-----------------------------------------------------------------------------
(***************************************************************************)
(* The beginning and the end of a call.                                    *)
(***************************************************************************)
LEMMA EmptyWalk ==
  /\ Elements(<<>>) \cup Elements(<<>>) = {} /\ Len(<<>>) + Len(<<>>) = 0
<1>1. Len(<<>>) = 0 /\ DOMAIN <<>> = 1..0
  OBVIOUS
<1>2. Elements(<<>>) = {}
  BY <1>1 DEF Elements
<1> QED
  BY <1>1, <1>2

\* Watching begins with what is in the map now.
LEMMA WatchBegins ==
  ASSUME TypeOK, NEW p \in Procs, NEW g \in BOOLEAN, watch' = watchFrom(p, g)
  PROVE  /\ watch'[p].stable = keysOf(items) /\ watch'[p].seen = pairsOf(items)
         /\ watch'[p] \in WatchState
         /\ \A q \in Procs \ {p} : watch'[q] = watch[q]
<1>1. watch' \in [Procs -> WatchState]
  BY WatchFromType
<1>2. watch' = [watch EXCEPT ![p] = [stable |-> keysOf(items), seen |-> pairsOf(items), grown |-> g]]
  BY DEF watchFrom
<1>3. /\ watch'[p] = [stable |-> keysOf(items), seen |-> pairsOf(items), grown |-> g]
      /\ \A q \in Procs \ {p} : watch'[q] = watch[q]
  BY <1>2 DEF TypeOK
<1> QED
  BY <1>1, <1>3

\* What a step of p leaves alone stays as it was for the others.
LEMMA OtherBounds ==
  ASSUME BoundsInv, NEW q \in Procs, items' = items, call'[q] = call[q], iter'[q] = iter[q],
         watch'[q] = watch[q], q \in loop' <=> q \in loop
  PROVE  WatchInv(q)' /\ ScanInv(q)' /\ CountedInv(q)' /\ LoopInv(q)'
<1>1. WatchInv(q) /\ ScanInv(q) /\ CountedInv(q) /\ LoopInv(q)
  BY DEF BoundsInv
<1>2. WatchInv(q)'
  BY <1>1 DEF WatchInv
<1>3. ScanInv(q)' /\ CountedInv(q)'
  BY <1>1 DEF ScanInv, CountedInv
<1>4. LoopInv(q)'
  BY <1>1 DEF LoopInv
<1> QED
  BY <1>2, <1>3, <1>4

LEMMA NothingCounted ==
  ASSUME NEW o \in WatchState
  PROVE  /\ Cardinality(inShards(o.stable, 0)) = 0
         /\ Cardinality(inShards(keysOfPairs(o.seen), 0)) = 0
<1>1. o.stable \in SUBSET Keys /\ keysOfPairs(o.seen) \in SUBSET Keys
  BY PairKeys DEF WatchState
<1>2. inShards(o.stable, 0) = {} /\ inShards(keysOfPairs(o.seen), 0) = {}
  BY <1>1, ShardNat DEF inShards
<1> QED
  BY <1>2, FS_EmptySet

LEMMA CallBounds ==
  ASSUME Inv, BoundsInv, NEW p \in Procs, NEW op \in AllOps, NEW todo \in arguments(op),
         Call(p, op, todo)
  PROVE  BoundsInv'
<1>0. TypeOK /\ call[p] = NoCall /\ WatchInv(p) /\ LoopInv(p) /\ PlaceInv
  BY DEF Inv, CallInv, BoundsInv, Call
<1> DEFINE X == [NoCall EXCEPT !.op = op, !.pc = firstPc(op), !.todo = todo,
                               !.val = IF op \in {"Set", "SetNX", "MSet"} THEN nvals + 1 ELSE 0]
<1>1. /\ call' = [call EXCEPT ![p] = X] /\ UNCHANGED <<items, iter, loop>>
      /\ op \in IF p \in loop THEN LoopOps ELSE Ops
      /\ op \in Iterations => iter[p].pc = "none"
      /\ watch' = IF op \in Scans \cup Iterations THEN watchFrom(p, grew(p)) ELSE watch
  BY DEF Call
<1>2. /\ X.op = op /\ X.pc = firstPc(op) /\ X.acc = {} /\ X.n = 0 /\ X.s = 0 /\ X.rest = {}
  BY DEF NoCall
<1> HIDE DEF X
<1>3. call'[p] = X /\ \A q \in Procs \ {p} : call'[q] = call[q]
  BY <1>1, CallRest
<1>4. p \in loop => op \notin Scans \cup Iterations
  BY <1>1, CMapConstants DEF KeyWrites, KeyReads, Scans, Iterations
<1>5. op \in Scans \cup Iterations =>
        /\ watch'[p].stable = keysOf(items) /\ watch'[p].seen = pairsOf(items)
        /\ watch'[p] \in WatchState /\ \A q \in Procs \ {p} : watch'[q] = watch[q]
  BY <1>0, <1>1, WatchBegins DEF grew
<1>6. \A q \in Procs \ {p} : watch'[q] = watch[q]
  BY <1>1, <1>5
<1>7. \A q \in Procs \ {p} : WatchInv(q)' /\ ScanInv(q)' /\ CountedInv(q)' /\ LoopInv(q)'
  BY <1>1, <1>3, <1>6, OtherBounds
<1>8. PlaceInv'
  BY <1>0, <1>1 DEF PlaceInv
<1>9. CASE op \in Scans \cup Iterations
  <2>1. p \notin loop /\ p \notin loop'
    BY <1>1, <1>4, <1>9
  <2>2. WatchInv(p)'
    BY <1>1, <1>2, <1>3, <1>5, <1>9, <2>1 DEF WatchInv
  <2>3. LoopInv(p)'
    BY <2>1 DEF LoopInv
  <2>4. ScanInv(p)'
    <3>1. op \in {"Keys", "GetAll"} => X.pc = "start"
      BY <1>2 DEF firstPc
    <3>2. Walked({}, 0, 0, {}, FALSE, watch'[p])
      BY <1>5, <1>9, WalkStart
    <3> QED
      BY <1>2, <1>3, <3>1, <3>2 DEF ScanInv
  <2>5. CountedInv(p)'
    BY <1>2, <1>3, <1>5, <1>9, NothingCounted DEF CountedInv
  <2> QED
    BY <1>7, <1>8, <2>2, <2>3, <2>4, <2>5 DEF BoundsInv
<1>10. CASE op \notin Scans \cup Iterations
  <2>1. watch' = watch /\ call'[p].op = op
    BY <1>1, <1>2, <1>3, <1>10
  <2>2. WatchInv(p)'
    BY <1>0, <1>1, <1>10, <2>1 DEF WatchInv
  <2>3. LoopInv(p)'
    BY <1>0, <1>1, <2>1 DEF LoopInv
  <2>4. ScanInv(p)' /\ CountedInv(p)'
    BY <1>10, <2>1 DEF ScanInv, CountedInv, Scans
  <2> QED
    BY <1>7, <1>8, <2>2, <2>3, <2>4 DEF BoundsInv
<1> QED
  BY <1>9, <1>10

LEMMA ReturnBounds ==
  ASSUME Inv, BoundsInv, NEW p \in Procs, Return(p)
  PROVE  BoundsInv'
<1>0. TypeOK /\ WatchInv(p) /\ LoopInv(p) /\ PlaceInv
  BY DEF Inv, BoundsInv
<1>1. call' = [call EXCEPT ![p] = NoCall] /\ items' = items
  BY DEF Return
<1>2. call'[p].op = "none" /\ \A q \in Procs \ {p} : call'[q] = call[q]
  <2>1. call'[p] = NoCall /\ \A q \in Procs \ {p} : call'[q] = call[q]
    BY <1>1, CallRest
  <2> QED
    BY <2>1 DEF NoCall
<1>3. PlaceInv' /\ ScanInv(p)' /\ CountedInv(p)'
  BY <1>0, <1>1, <1>2 DEF PlaceInv, ScanInv, CountedInv
<1>4. "none" \notin Scans \cup Iterations
  BY DEF Scans, Iterations
<1>5. CASE call[p].op \in Iterations
  <2> DEFINE Y == [NoIter EXCEPT !.pc = "lock", !.cap = call[p].n]
  <2>1. /\ iter' = [iter EXCEPT ![p] = Y] /\ loop' = loop \cup {p}
        /\ watch' = watchFrom(p, watch[p].grown)
    <3>1. iter' = [iter EXCEPT ![p] = Y] /\ loop' = loop \cup {p}
      BY <1>5 DEF Return
    <3>2. call[p].op \notin Scans
      BY <1>5 DEF Scans, Iterations
    <3>3. watch' = watchFrom(p, watch[p].grown)
      BY <1>5, <3>2 DEF Return
    <3> QED
      BY <3>1, <3>3
  <2>2. Y.pc = "lock" /\ Y.s = 0 /\ Y.rest = {} /\ Y.got = <<>> /\ Y.buf = <<>>
    BY DEF NoIter
  <2> HIDE DEF Y
  <2>3. iter'[p] = Y /\ \A q \in Procs \ {p} : iter'[q] = iter[q]
    BY <1>0, <2>1 DEF TypeOK
  <2>4. /\ watch'[p].stable = keysOf(items) /\ watch'[p].seen = pairsOf(items)
        /\ watch'[p] \in WatchState /\ \A q \in Procs \ {p} : watch'[q] = watch[q]
    <3>1. watch[p].grown \in BOOLEAN
      BY <1>0 DEF TypeOK, WatchState
    <3> QED
      BY <1>0, <2>1, <3>1, WatchBegins
  <2>5. \A q \in Procs \ {p} : WatchInv(q)' /\ ScanInv(q)' /\ CountedInv(q)' /\ LoopInv(q)'
    BY <1>1, <1>2, <2>1, <2>3, <2>4, OtherBounds
  <2>6. WatchInv(p)'
    BY <1>1, <1>2, <1>4, <2>2, <2>3, <2>4 DEF WatchInv
  <2>7. LoopInv(p)'
    <3>1. Walked({}, 0, 0, {}, FALSE, watch'[p])
      BY <2>4, WalkStart
    <3> QED
      BY <2>2, <2>3, <3>1, EmptyWalk DEF LoopInv
  <2> QED
    BY <1>3, <2>5, <2>6, <2>7 DEF BoundsInv
<1>6. CASE call[p].op \notin Iterations
  <2>1. iter' = iter /\ loop' = loop /\ \A q \in Procs \ {p} : watch'[q] = watch[q]
    BY <1>0, <1>6 DEF Return, TypeOK
  <2>2. \A q \in Procs \ {p} : WatchInv(q)' /\ ScanInv(q)' /\ CountedInv(q)' /\ LoopInv(q)'
    BY <1>1, <1>2, <2>1, OtherBounds
  <2>3. call[p].op \in Scans => p \notin loop
    BY <1>0 DEF WatchInv
  <2>4. call[p].op \notin Scans => watch' = watch
    BY <1>6 DEF Return
  <2>5. WatchInv(p)'
    BY <1>0, <1>1, <1>2, <1>4, <2>1, <2>3, <2>4 DEF WatchInv
  <2>6. LoopInv(p)'
    BY <1>0, <2>1, <2>3, <2>4 DEF LoopInv
  <2> QED
    BY <1>3, <2>2, <2>5, <2>6 DEF BoundsInv
<1> QED
  BY <1>5, <1>6

-----------------------------------------------------------------------------
(***************************************************************************)
(* Steps of an iteration.                                                  *)
(***************************************************************************)
LEMMA AppendElements ==
  ASSUME NEW q \in Seq(Pairs), NEW x \in Pairs
  PROVE  Elements(Append(q, x)) = Elements(q) \cup {x} /\ Len(Append(q, x)) = Len(q) + 1
<1>1. /\ Len(Append(q, x)) = Len(q) + 1 /\ DOMAIN Append(q, x) = 1..(Len(q) + 1)
      /\ DOMAIN q = 1..Len(q) /\ Len(q) \in Nat
      /\ Append(q, x)[Len(q) + 1] = x /\ \A i \in 1..Len(q) : Append(q, x)[i] = q[i]
  OBVIOUS
<1> DEFINE r == Append(q, x)
<1> HIDE DEF r
<1>2. Elements(r) = Elements(q) \cup {x}
  BY <1>1 DEF Elements, r
<1> QED
  BY <1>1, <1>2 DEF r

LEMMA ConcatElements ==
  ASSUME NEW a \in Seq(Pairs), NEW b \in Seq(Pairs)
  PROVE  Elements(a \o b) = Elements(a) \cup Elements(b) /\ Len(a \o b) = Len(a) + Len(b)
<1> DEFINE m == Len(a)
           n == Len(b)
           r == a \o b
<1>1. /\ Len(r) = m + n /\ m \in Nat /\ n \in Nat
      /\ DOMAIN a = 1..m /\ DOMAIN b = 1..n /\ DOMAIN r = 1..(m + n)
  BY ConcatProperties
<1>2. \A i \in 1..(m + n) : r[i] = IF i <= m THEN a[i] ELSE b[i - m]
  BY ConcatProperties
<1> HIDE DEF m, n, r
<1>3. ASSUME NEW i \in 1..(m + n) PROVE r[i] \in Elements(a) \cup Elements(b)
  <2>1. CASE i <= m
    BY <1>1, <1>2, <2>1 DEF Elements
  <2>2. CASE i > m
    <3>1. i - m \in 1..n /\ r[i] = b[i - m]
      BY <1>1, <1>2, <2>2
    <3> QED
      BY <1>1, <3>1 DEF Elements
  <2> QED
    BY <1>1, <2>1, <2>2
<1>4. ASSUME NEW i \in 1..m PROVE a[i] \in Elements(r)
  <2>1. i \in 1..(m + n) /\ r[i] = a[i]
    BY <1>1, <1>2
  <2> QED
    BY <1>1, <2>1 DEF Elements
<1>5. ASSUME NEW i \in 1..n PROVE b[i] \in Elements(r)
  <2>1. m + i \in 1..(m + n) /\ r[m + i] = b[i]
    BY <1>1, <1>2
  <2> QED
    BY <1>1, <2>1 DEF Elements
<1>6. Elements(r) = Elements(a) \cup Elements(b)
  BY <1>1, <1>3, <1>4, <1>5 DEF Elements
<1> QED
  BY <1>1, <1>6 DEF r, m, n

LEMMA TailElements ==
  ASSUME NEW q \in Seq(Pairs), q # <<>>
  PROVE  /\ Head(q) \in Pairs /\ Tail(q) \in Seq(Pairs)
         /\ Elements(q) = {Head(q)} \cup Elements(Tail(q)) /\ Len(q) = Len(Tail(q)) + 1
<1>1. Head(q) \in Pairs /\ Tail(q) \in Seq(Pairs) /\ Len(q) \in Nat \ {0}
  BY HeadTailProperties, EmptySeq
<1>2. /\ Len(Tail(q)) = Len(q) - 1 /\ DOMAIN Tail(q) = 1..(Len(q) - 1) /\ DOMAIN q = 1..Len(q)
      /\ Head(q) = q[1] /\ \A i \in 1..(Len(q) - 1) : Tail(q)[i] = q[i + 1]
  BY <1>1
<1> DEFINE t == Tail(q)
<1> HIDE DEF t
<1>3. Elements(t) \subseteq Elements(q)
  BY <1>1, <1>2 DEF Elements, t
<1>4. ASSUME NEW i \in 1..Len(q), i # 1 PROVE q[i] \in Elements(t)
  <2>1. i - 1 \in 1..(Len(q) - 1) /\ t[i - 1] = q[i]
    BY <1>1, <1>2, <1>4 DEF t
  <2> QED
    BY <1>2, <2>1 DEF Elements, t
<1>5. Elements(q) = {q[1]} \cup Elements(t)
  <2>1. 1 \in DOMAIN q /\ DOMAIN q = 1..Len(q)
    BY <1>1, <1>2
  <2>2. q[1] \in Elements(q)
    BY <2>1 DEF Elements
  <2>3. \A x \in Elements(q) : x = q[1] \/ x \in Elements(t)
    BY <1>4, <2>1 DEF Elements
  <2> QED
    BY <1>3, <2>2, <2>3
<1> QED
  BY <1>1, <1>2, <1>5 DEF t

LEMMA IterStepBounds ==
  ASSUME Inv, BoundsInv, NEW p \in Procs, NEW Y, iter' = [iter EXCEPT ![p] = Y],
         iter[p].pc # "none", Y.pc # "none", UNCHANGED <<items, call, loop, watch>>, LoopInv(p)'
  PROVE  BoundsInv'
<1>1. iter'[p] = Y /\ \A q \in Procs \ {p} : iter'[q] = iter[q]
  BY DEF Inv, TypeOK
<1>2. \A q \in Procs \ {p} : WatchInv(q)' /\ ScanInv(q)' /\ CountedInv(q)' /\ LoopInv(q)'
  BY <1>1, OtherBounds
<1>3. PlaceInv /\ WatchInv(p) /\ ScanInv(p) /\ CountedInv(p)
  BY DEF BoundsInv
<1>4. PlaceInv'
  BY <1>3 DEF PlaceInv
<1>5. WatchInv(p)'
  BY <1>1, <1>3 DEF WatchInv
<1>6. ScanInv(p)' /\ CountedInv(p)'
  BY <1>3 DEF ScanInv, CountedInv
<1> QED
  BY <1>2, <1>4, <1>5, <1>6 DEF BoundsInv

LEMMA iterLockBounds ==
  ASSUME Inv, BoundsInv, NEW p \in Procs, iterLock(p)
  PROVE  BoundsInv'
<1>0. /\ TypeOK /\ HoldInv(p) /\ iter[p] \in IterState /\ watch[p] \in WatchState
      /\ PlaceInv /\ WatchInv(p) /\ LoopInv(p)
  BY DEF Inv, TypeOK, BoundsInv
<1> DEFINE s == iter[p].s
           Y == [iter[p] EXCEPT !.pc = "send", !.rest = keysIn(s)]
           P == Elements(iter[p].got) \cup Elements(iter[p].buf)
           n == Len(iter[p].got) + Len(iter[p].buf)
<1>1. /\ iter[p].pc = "lock"
      /\ iter' = [iter EXCEPT ![p].pc = "send", ![p].rest = keysIn(s)]
      /\ UNCHANGED <<items, call, loop, watch>>
  BY DEF iterLock
<1>2. iter' = [iter EXCEPT ![p] = Y]
  BY <1>0, <1>1 DEF TypeOK, IterState
<1>3. /\ Y.pc = "send" /\ Y.s = s /\ Y.rest = keysIn(s) /\ Y.got = iter[p].got
      /\ Y.buf = iter[p].buf
  BY <1>0 DEF IterState
<1> HIDE DEF Y
<1>4. iter'[p] = Y
  BY <1>0, <1>2 DEF TypeOK
<1>5. LoopInv(p)'
  <2> SUFFICES ASSUME p \in loop PROVE LoopInv(p)'
    BY <1>1 DEF LoopInv
  <2>1. s \in Shards /\ P \in SUBSET Pairs
    BY <1>0, <1>1 DEF HoldInv, IterHold, IterState, Elements
  <2>2. watch[p].stable \subseteq keysOf(items)
    BY <1>0 DEF WatchInv
  <2>3. Walked(P, n, s, iter[p].rest, FALSE, watch[p])
    BY <1>0, <1>1 DEF LoopInv
  <2> HIDE DEF P, n, s
  <2>4. Walked(P, n, s, keysIn(s), TRUE, watch[p])
    BY <1>0, <2>1, <2>2, <2>3, WalkEnter
  <2> QED
    BY <1>1, <1>3, <1>4, <2>4 DEF LoopInv, P, n
<1> QED
  BY <1>1, <1>2, <1>3, <1>5, IterStepBounds

LEMMA iterSendBounds ==
  ASSUME Inv, BoundsInv, NEW p \in Procs, NEW k \in Keys, iterSend(p, k)
  PROVE  BoundsInv'
<1>0. /\ TypeOK /\ HoldInv(p) /\ iter[p] \in IterState /\ watch[p] \in WatchState
      /\ PlaceInv /\ WatchInv(p) /\ LoopInv(p)
  BY DEF Inv, TypeOK, BoundsInv
<1> DEFINE s == iter[p].s
           pair == <<k, items[s][k]>>
           YB == [iter[p] EXCEPT !.rest = @ \ {k}, !.buf = Append(@, pair)]
           YG == [iter[p] EXCEPT !.rest = @ \ {k}, !.got = Append(@, pair)]
           P == Elements(iter[p].got) \cup Elements(iter[p].buf)
           n == Len(iter[p].got) + Len(iter[p].buf)
<1>1. /\ iter[p].pc = "send" /\ k \in iter[p].rest
      /\ \/ iter' = [iter EXCEPT ![p].rest = @ \ {k}, ![p].buf = Append(@, pair)]
         \/ iter' = [iter EXCEPT ![p].rest = @ \ {k}, ![p].got = Append(@, pair)]
      /\ UNCHANGED <<items, call, loop, watch>>
  BY DEF iterSend
<1>2. s \in Shards /\ k \in keysIn(s) /\ pair \in Pairs
  <2>1. s \in Shards /\ k \in keysIn(s)
    BY <1>0, <1>1 DEF HoldInv, IterHold
  <2>2. items[s][k] \in 1..MaxVals
    BY <1>0, <2>1, CMapConstants DEF TypeOK, keysIn, None
  <2> QED
    BY <2>1, <2>2 DEF Pairs
<1>3. P \in SUBSET Pairs /\ Len(iter[p].got) \in Nat /\ Len(iter[p].buf) \in Nat
  BY <1>0 DEF IterState, Elements
<1>4. p \in loop => Walked(P \cup {pair}, n + 1, s, iter[p].rest \ {k}, TRUE, watch[p])
  <2> SUFFICES ASSUME p \in loop PROVE Walked(P \cup {pair}, n + 1, s, iter[p].rest \ {k}, TRUE, watch[p])
    OBVIOUS
  <2>1. Walked(P, n, s, iter[p].rest, TRUE, watch[p]) /\ pairsOf(items) \subseteq watch[p].seen
    BY <1>0, <1>1 DEF LoopInv, WatchInv
  <2> HIDE DEF P, n, s
  <2> QED
    BY <1>0, <1>1, <1>2, <1>3, <2>1, WalkTake
<1> HIDE DEF pair
<1>5. iter' = [iter EXCEPT ![p] = YB] \/ iter' = [iter EXCEPT ![p] = YG]
  BY <1>0, <1>1 DEF TypeOK, IterState
<1>6. /\ YB.pc = "send" /\ YB.s = s /\ YB.rest = iter[p].rest \ {k}
      /\ YB.got = iter[p].got /\ YB.buf = Append(iter[p].buf, pair)
      /\ YG.pc = "send" /\ YG.s = s /\ YG.rest = iter[p].rest \ {k}
      /\ YG.got = Append(iter[p].got, pair) /\ YG.buf = iter[p].buf
  BY <1>0, <1>1 DEF IterState
<1> HIDE DEF YB, YG
<1>7. PICK Y \in {YB, YG} : iter' = [iter EXCEPT ![p] = Y]
  BY <1>5
<1>8. /\ Elements(Y.got) \cup Elements(Y.buf) = P \cup {pair} /\ Len(Y.got) + Len(Y.buf) = n + 1
      /\ Y.pc = "send" /\ Y.s = s /\ Y.rest = iter[p].rest \ {k}
  <2>1. iter[p].got \in Seq(Pairs) /\ iter[p].buf \in Seq(Pairs)
    BY <1>0 DEF IterState
  <2>2. /\ Elements(Append(iter[p].got, pair)) = Elements(iter[p].got) \cup {pair}
        /\ Elements(Append(iter[p].buf, pair)) = Elements(iter[p].buf) \cup {pair}
        /\ Len(Append(iter[p].got, pair)) = Len(iter[p].got) + 1
        /\ Len(Append(iter[p].buf, pair)) = Len(iter[p].buf) + 1
    BY <1>2, <2>1, AppendElements
  <2>3. Elements(Y.got) \cup Elements(Y.buf) = P \cup {pair}
    BY <1>6, <2>2
  <2>4. \/ Len(Y.got) = Len(iter[p].got) + 1 /\ Len(Y.buf) = Len(iter[p].buf)
        \/ Len(Y.got) = Len(iter[p].got) /\ Len(Y.buf) = Len(iter[p].buf) + 1
    BY <1>6, <2>2
  <2> DEFINE g == Len(iter[p].got)
             b == Len(iter[p].buf)
             g2 == Len(Y.got)
             b2 == Len(Y.buf)
  <2>5. g2 + b2 = g + b + 1
    <3>1. (g2 = g + 1 /\ b2 = b) \/ (g2 = g /\ b2 = b + 1)
      BY <2>4
    <3>2. g \in Nat /\ b \in Nat
      BY <1>3
    <3> HIDE DEF g, b, g2, b2
    <3> QED
      BY <3>1, <3>2
  <2> QED
    BY <1>6, <2>3, <2>5
<1>9. iter'[p] = Y
  BY <1>0, <1>7 DEF TypeOK
<1> HIDE DEF P, n, s
<1>10. LoopInv(p)'
  BY <1>1, <1>4, <1>8, <1>9 DEF LoopInv
<1> QED
  BY <1>1, <1>7, <1>8, <1>10, IterStepBounds

LEMMA receiveBounds ==
  ASSUME Inv, BoundsInv, NEW p \in Procs, receive(p)
  PROVE  BoundsInv'
<1>0. TypeOK /\ iter[p] \in IterState /\ WatchInv(p) /\ LoopInv(p)
  BY DEF Inv, TypeOK, BoundsInv
<1> DEFINE x == Head(iter[p].buf)
           Y == [iter[p] EXCEPT !.buf = Tail(@), !.got = Append(@, x)]
<1>1. /\ p \in loop /\ iter[p].buf # <<>>
      /\ iter' = [iter EXCEPT ![p].buf = Tail(@), ![p].got = Append(@, x)]
      /\ UNCHANGED <<items, call, loop, watch>>
  BY DEF receive, receiving
<1>2. /\ iter[p].got \in Seq(Pairs) /\ iter[p].buf \in Seq(Pairs)
      /\ Len(iter[p].got) \in Nat
  BY <1>0 DEF IterState
<1>3. /\ x \in Pairs /\ Tail(iter[p].buf) \in Seq(Pairs)
      /\ Elements(iter[p].buf) = {x} \cup Elements(Tail(iter[p].buf))
      /\ Len(iter[p].buf) = Len(Tail(iter[p].buf)) + 1
  BY <1>1, <1>2, TailElements
<1>4. /\ Elements(Append(iter[p].got, x)) = Elements(iter[p].got) \cup {x}
      /\ Len(Append(iter[p].got, x)) = Len(iter[p].got) + 1
  BY <1>2, <1>3, AppendElements
<1> HIDE DEF x
<1>5. iter' = [iter EXCEPT ![p] = Y]
  BY <1>0, <1>1 DEF TypeOK, IterState
<1>6. /\ Y.pc = iter[p].pc /\ Y.s = iter[p].s /\ Y.rest = iter[p].rest
      /\ Y.got = Append(iter[p].got, x) /\ Y.buf = Tail(iter[p].buf)
  BY <1>0 DEF IterState
<1> HIDE DEF Y
<1>7. /\ Elements(Y.got) \cup Elements(Y.buf) = Elements(iter[p].got) \cup Elements(iter[p].buf)
      /\ Len(Y.got) + Len(Y.buf) = Len(iter[p].got) + Len(iter[p].buf)
  <2> DEFINE g == Len(iter[p].got)
             b == Len(iter[p].buf)
             g2 == Len(Y.got)
             b2 == Len(Y.buf)
  <2>1. g2 = g + 1 /\ b = b2 + 1
    BY <1>3, <1>4, <1>6
  <2>2. g2 + b2 = g + b
    <3>1. g \in Nat /\ b2 \in Nat
      BY <1>2, <1>3, <1>6
    <3> HIDE DEF g, b, g2, b2
    <3> QED
      BY <2>1, <3>1
  <2> QED
    BY <1>3, <1>4, <1>6, <2>2
<1>8. iter'[p] = Y
  BY <1>0, <1>5 DEF TypeOK
<1>9. LoopInv(p)'
  BY <1>0, <1>1, <1>6, <1>7, <1>8 DEF LoopInv
<1>10. iter[p].pc # "none"
  BY <1>0, <1>1 DEF WatchInv
<1> QED
  BY <1>1, <1>5, <1>6, <1>9, <1>10, IterStepBounds

LEMMA iterUnlockBounds ==
  ASSUME Inv, BoundsInv, NEW p \in Procs, iterUnlock(p)
  PROVE  BoundsInv'
<1>0. /\ TypeOK /\ HoldInv(p) /\ iter[p] \in IterState /\ watch[p] \in WatchState
      /\ PlaceInv /\ WatchInv(p) /\ LoopInv(p) /\ ScanInv(p) /\ CountedInv(p)
  BY DEF Inv, TypeOK, BoundsInv
<1> DEFINE last == iter[p].s + 1 = SHARD_COUNT
           Y == [iter[p] EXCEPT !.s = @ + 1, !.pc = IF last THEN "closed" ELSE "lock"]
<1>1. iter[p].pc = "send" /\ iter[p].rest = {} /\ UNCHANGED <<items, call, loop>>
  BY DEF iterUnlock, sentAll
<1>2. CASE last /\ p \notin loop
  <2>1. iter' = [iter EXCEPT ![p] = NoIter]
    BY <1>2 DEF iterUnlock
  <2>2. watch' = watch \/ (call[p].op \notin Scans /\ watch' = [watch EXCEPT ![p] = NoWatch])
    BY <1>2 DEF iterUnlock
  <2>3. /\ iter'[p].pc = "none"
        /\ \A q \in Procs \ {p} : iter'[q] = iter[q] /\ watch'[q] = watch[q]
    BY <1>0, <2>1, <2>2, NoIterType DEF TypeOK
  <2>4. \A q \in Procs \ {p} : WatchInv(q)' /\ ScanInv(q)' /\ CountedInv(q)' /\ LoopInv(q)'
    BY <1>1, <2>3, OtherBounds
  <2>5. call[p].op \notin Iterations
    BY <1>0, <1>1 DEF WatchInv
  <2>6. WatchInv(p)'
    BY <1>0, <1>1, <1>2, <2>2, <2>3, <2>5 DEF WatchInv
  <2>7. LoopInv(p)'
    BY <1>1, <1>2 DEF LoopInv
  <2>8. ScanInv(p)' /\ CountedInv(p)'
    BY <1>0, <1>1, <2>2 DEF ScanInv, CountedInv, Scans
  <2>9. PlaceInv'
    BY <1>0, <1>1 DEF PlaceInv
  <2> QED
    BY <2>4, <2>6, <2>7, <2>8, <2>9 DEF BoundsInv
<1>3. CASE ~(last /\ p \notin loop)
  <2>1. iter' = [iter EXCEPT ![p].s = @ + 1, ![p].pc = IF last THEN "closed" ELSE "lock"]
    BY <1>3 DEF iterUnlock
  <2>2. watch' = watch
    BY <1>3 DEF iterUnlock
  <2>3. iter' = [iter EXCEPT ![p] = Y]
    BY <1>0, <2>1 DEF TypeOK, IterState
  <2>4. /\ Y.pc \in {"closed", "lock"} /\ Y.s = iter[p].s + 1 /\ Y.rest = iter[p].rest
        /\ Y.got = iter[p].got /\ Y.buf = iter[p].buf
    BY <1>0 DEF IterState
  <2> HIDE DEF Y
  <2>5. iter'[p] = Y
    BY <1>0, <2>3 DEF TypeOK
  <2>6. LoopInv(p)'
    <3> SUFFICES ASSUME p \in loop PROVE LoopInv(p)'
      BY <1>1 DEF LoopInv
    <3> DEFINE P == Elements(iter[p].got) \cup Elements(iter[p].buf)
               n == Len(iter[p].got) + Len(iter[p].buf)
    <3>1. Walked(P, n, iter[p].s, {}, TRUE, watch[p])
      BY <1>0, <1>1 DEF LoopInv
    <3>2. iter[p].s \in Shards /\ P \in SUBSET Pairs
      BY <1>0, <1>1 DEF HoldInv, IterHold, IterState, Elements
    <3> HIDE DEF P, n
    <3>3. Walked(P, n, iter[p].s + 1, {}, FALSE, watch[p])
      BY <1>0, <3>1, <3>2, WalkLeave
    <3> QED
      BY <1>1, <2>2, <2>4, <2>5, <3>3 DEF LoopInv, P, n
  <2> QED
    BY <1>1, <2>2, <2>3, <2>4, <2>6, IterStepBounds
<1> QED
  BY <1>2, <1>3

LEMMA leaveLoopBounds ==
  ASSUME Inv, BoundsInv, NEW p \in Procs, endLoop(p) \/ breakLoop(p)
  PROVE  BoundsInv'
<1>0. TypeOK /\ CallInv(call[p]) /\ PlaceInv
  BY DEF Inv, BoundsInv
<1>1. /\ call[p].pc = "idle" /\ loop' = loop \ {p} /\ UNCHANGED <<items, call>>
      /\ iter' = [iter EXCEPT ![p] = NoIter] \/ iter' = iter
      /\ watch' = [watch EXCEPT ![p] = NoWatch] \/ watch' = watch
  BY DEF endLoop, breakLoop, receiving
<1>2. \A q \in Procs \ {p} : iter'[q] = iter[q] /\ watch'[q] = watch[q]
  BY <1>0, <1>1 DEF TypeOK
<1>3. \A q \in Procs \ {p} : WatchInv(q)' /\ ScanInv(q)' /\ CountedInv(q)' /\ LoopInv(q)'
  BY <1>1, <1>2, OtherBounds
<1>4. call'[p].op = "none" /\ p \notin loop'
  BY <1>0, <1>1 DEF CallInv, NoCall
<1>5. WatchInv(p)' /\ ScanInv(p)' /\ CountedInv(p)' /\ LoopInv(p)'
  BY <1>4 DEF WatchInv, ScanInv, CountedInv, LoopInv, Scans, Iterations
<1>6. PlaceInv'
  BY <1>0, <1>1 DEF PlaceInv
<1> QED
  BY <1>3, <1>5, <1>6 DEF BoundsInv

-----------------------------------------------------------------------------
LEMMA BoundsInit == Init => BoundsInv
<1> SUFFICES ASSUME Init PROVE BoundsInv
  OBVIOUS
<1>1. PlaceInv
  BY DEF Init, PlaceInv
<1>2. ASSUME NEW p \in Procs PROVE WatchInv(p) /\ ScanInv(p) /\ CountedInv(p) /\ LoopInv(p)
  <2>1. call[p].op = "none" /\ iter[p].pc = "none" /\ p \notin loop
    BY DEF Init, NoCall, NoIter
  <2> QED
    BY <2>1 DEF WatchInv, ScanInv, CountedInv, LoopInv, Scans, Iterations
<1> QED
  BY <1>1, <1>2 DEF BoundsInv

LEMMA BoundsStep == Inv /\ Inv' /\ BoundsInv /\ [Next]_vars => BoundsInv'
<1> SUFFICES ASSUME Inv, Inv', BoundsInv, [Next]_vars PROVE BoundsInv'
  OBVIOUS
<1>1. CASE UNCHANGED vars
  <2>1. \A q \in Procs : WatchInv(q)' /\ ScanInv(q)' /\ CountedInv(q)' /\ LoopInv(q)'
    BY <1>1, OtherBounds DEF vars
  <2> QED
    BY <1>1, <2>1 DEF BoundsInv, PlaceInv, vars
<1>2. ASSUME NEW p \in Procs, NEW op \in AllOps, NEW todo \in arguments(op), Call(p, op, todo)
      PROVE  BoundsInv'
  BY <1>2, CallBounds
<1>3. ASSUME NEW p \in Procs, CallStep(p) PROVE BoundsInv'
  BY <1>3, NoScanBounds, RLockBounds, WriteBounds, CountBounds, rangeStepBounds, rangeEndBounds,
     ReturnBounds DEF CallStep, WriteStep
<1>4. ASSUME NEW p \in Procs, IterStep(p) \/ LoopStep(p) \/ breakLoop(p) PROVE BoundsInv'
  BY <1>4, iterLockBounds, iterSendBounds, iterUnlockBounds, receiveBounds, leaveLoopBounds
     DEF IterStep, LoopStep
<1> QED
  BY <1>1, <1>2, <1>3, <1>4 DEF Next

LEMMA BoundsAlways == Spec => []BoundsInv
BY InvAlways, BoundsInit, BoundsStep, PTL DEF Spec

(***************************************************************************)
(* Keys, GetAll and Count, which lock one shard after another, miss no key *)
(* that was in the map all the time and report nothing that was never in   *)
(* it, whatever the other goroutines write between two shards.             *)
(***************************************************************************)
THEOREM ScansAreBounded == Spec => []ScanBounds
<1>1. BoundsInv => ScanBounds
  BY DEF BoundsInv, ScanInv, CountedInv, Walked, ScanBounds
<1> QED
  BY <1>1, BoundsAlways, PTL

(***************************************************************************)
(* A loop over Iter or IterBuffered is given no key twice, no pair that    *)
(* was not in the map since the call, and every key that stayed in it.     *)
(***************************************************************************)
THEOREM IterationsAreBounded == Spec => []IterBounds
<1>1. Inv /\ BoundsInv => IterBounds
  <2> SUFFICES ASSUME Inv, BoundsInv, NEW p \in Procs, p \in loop
               PROVE  LET c == iter[p]
                          sent == c.got \o c.buf
                          pairs == {sent[n] : n \in DOMAIN sent}
                      IN  /\ pairs \subseteq watch[p].seen
                          /\ Cardinality(keysOfPairs(pairs)) = Len(sent)
                          /\ inShards(watch[p].stable, c.s) \subseteq keysOfPairs(pairs)
    BY DEF IterBounds
  <2> DEFINE c == iter[p]
             sent == c.got \o c.buf
             pairs == {sent[n] : n \in DOMAIN sent}
             P == Elements(c.got) \cup Elements(c.buf)
  <2>1. c.got \in Seq(Pairs) /\ c.buf \in Seq(Pairs)
    BY DEF Inv, TypeOK, IterState
  <2>2. Walked(P, Len(c.got) + Len(c.buf), c.s, c.rest, c.pc = "send", watch[p])
    BY DEF BoundsInv, LoopInv
  <2> HIDE DEF c
  <2>3. Elements(sent) = Elements(c.got) \cup Elements(c.buf) /\ Len(sent) = Len(c.got) + Len(c.buf)
    BY <2>1, ConcatElements
  <2>6. pairs = P
    BY <2>3 DEF Elements
  <2>7. /\ P \subseteq watch[p].seen /\ Cardinality(keysOfPairs(P)) = Len(sent)
        /\ inShards(watch[p].stable, c.s) \subseteq keysOfPairs(P)
    BY <2>2, <2>3 DEF Walked
  <2> HIDE DEF P, pairs, sent
  <2> QED
    BY <2>6, <2>7 DEF c, sent, pairs
<1> QED
  BY <1>1, InvAlways, BoundsAlways, PTL

-----------------------------------------------------------------------------
(***************************************************************************)
(* What GetAndRemove returns.  The values of the model are fresh, so that  *)
(* FreshInv can tell one store of a key from the next: the value of a call *)
(* that has a key still to store has never been stored at that key.        *)
(***************************************************************************)
Used == taken \cup pairsOf(items)

FreshInv ==
  /\ \A pair \in Used : pair[2] <= nvals
  /\ \A p \in Procs : call[p].op \in Stores =>
       call[p].val \in 1..nvals /\ \A k \in call[p].todo : <<k, call[p].val>> \notin Used
  /\ \A p, q \in Procs :
       p # q /\ call[p].op \in Stores /\ call[q].op \in Stores => call[p].val # call[q].val
  /\ TakenIsGone

\* What the writer may add to the map.
LEMMA WrittenPairs ==
  ASSUME NEW p \in Procs, NEW X, Written(p, X), NEW pair \in pairsOf(items')
  PROVE  \/ pair \in pairsOf(items)
         \/ /\ call[p].op \in Stores
            /\ \E k \in call[p].todo \ X.todo : pair = <<k, call[p].val>>
<1>1. PICK k \in Keys : items'[GetShard(k)][k] # None /\ pair = <<k, items'[GetShard(k)][k]>>
  BY DEF pairsOf, keysOf
<1>2. GetShard(k) \in Shards
  BY GetShardType
<1>3. \/ items'[GetShard(k)][k] = items[GetShard(k)][k]
      \/ /\ call[p].op \in Stores /\ items'[GetShard(k)][k] = call[p].val
         /\ k \in call[p].todo \ X.todo
  BY <1>1, <1>2 DEF Written
<1> QED
  BY <1>1, <1>3 DEF pairsOf, keysOf

\* GetAndRemove takes a pair out of the map; the other writers return nothing.
LEMMA TakenPairs ==
  ASSUME Inv, NEW p \in Procs, WriteStep(p)
  PROVE  \/ taken' = taken
         \/ /\ call[p].op \notin Stores
            /\ \E S : /\ taken' = taken \cup S /\ S \subseteq pairsOf(items)
                      /\ S \cap pairsOf(items') = {}
<1>1. CASE Set(p) \/ SetNX(p) \/ Remove(p) \/ Clear(p)
  BY <1>1 DEF Set, SetNX, Remove, Clear
<1>2. CASE GetAndRemove(p)
  <2>1. /\ call[p].pc = "mid" /\ call[p].op = "GetAndRemove" /\ taken' = taken \cup call[p].acc
        /\ items' = put(call[p].s, call[p].key, None)
    BY <1>2 DEF GetAndRemove, without
  <2>2. /\ call[p].key \in Keys /\ call[p].s = GetShard(call[p].key) /\ call[p].s \in Shards
    BY <2>1, KeyOK DEF KeyOps, KeyWrites, Inside
  <2>3. call[p].acc = entry(call[p].s, call[p].key)
    BY <2>1 DEF Inv, HoldInv, CallHold
  <2>4. entry(call[p].s, call[p].key) \subseteq pairsOf(items)
    BY <2>2 DEF entry, pairsOf, keysOf
  <2>5. items'[GetShard(call[p].key)][call[p].key] = None
    BY <2>1, <2>2 DEF Inv, TypeOK, put
  <2>6. \A pair \in pairsOf(items') : pair[1] # call[p].key
    BY <2>5 DEF pairsOf, keysOf
  <2>7. \A pair \in entry(call[p].s, call[p].key) : pair[1] = call[p].key
    BY DEF entry
  <2> QED
    BY <2>1, <2>3, <2>4, <2>6, <2>7 DEF Stores
<1> QED
  BY <1>1, <1>2 DEF WriteStep

LEMMA WriteFresh ==
  ASSUME Inv, FreshInv, NEW p \in Procs, WriteStep(p)
  PROVE  FreshInv'
<1>1. PICK X : Written(p, X)
  BY WriteFacts
<1>2. /\ call'[p].op = call[p].op /\ call'[p].val = call[p].val
      /\ call'[p].todo \subseteq call[p].todo /\ call'[p].todo = X.todo
      /\ \A q \in Procs \ {p} : call'[q] = call[q]
  BY <1>1, CallRest DEF Written
<1>3. nvals' = nvals
  BY WriteFacts
<1> DEFINE new == {<<k, call[p].val>> : k \in IF call[p].op \in Stores THEN call[p].todo \ X.todo ELSE {}}
<1>4. pairsOf(items') \subseteq pairsOf(items) \cup new
  BY <1>1, WrittenPairs
<1>5. new \cap Used = {} /\ \A pair \in new : pair[2] <= nvals
  BY DEF FreshInv
<1>6. call[p].op \notin Stores => new = {}
  OBVIOUS
<1>7. \A q \in Procs : call'[q].op \in Stores =>
        call'[q].val \in 1..nvals /\ \A k \in call'[q].todo : <<k, call'[q].val>> \notin Used \cup new
  <2> SUFFICES ASSUME NEW q \in Procs, call'[q].op \in Stores, NEW k \in call'[q].todo
               PROVE  call'[q].val \in 1..nvals /\ <<k, call'[q].val>> \notin Used \cup new
    BY <1>2 DEF FreshInv
  <2>1. CASE q = p
    BY <1>2, <2>1 DEF FreshInv
  <2>2. CASE q # p
    <3>1. <<k, call[q].val>> \notin Used /\ call[q].val \in 1..nvals
      BY <1>2, <2>2 DEF FreshInv
    <3>2. call[p].op \in Stores => call[p].val # call[q].val
      BY <1>2, <2>2 DEF FreshInv
    <3>3. <<k, call[q].val>> \notin new
      BY <3>2
    <3> QED
      BY <1>2, <2>2, <3>1, <3>3
  <2> QED
    BY <2>1, <2>2
<1> HIDE DEF new
<1>8. taken' \subseteq taken \cup pairsOf(items) /\ taken' \cap pairsOf(items') = {}
  <2>1. taken \cap pairsOf(items) = {} /\ taken \cap new = {}
    BY <1>5 DEF FreshInv, TakenIsGone, Used
  <2>2. CASE taken' = taken
    BY <1>4, <2>1, <2>2
  <2>3. CASE /\ call[p].op \notin Stores
             /\ \E S : /\ taken' = taken \cup S /\ S \subseteq pairsOf(items)
                       /\ S \cap pairsOf(items') = {}
    BY <1>4, <1>6, <2>1, <2>3
  <2> QED
    BY <2>2, <2>3, TakenPairs
<1>9. Used' \subseteq Used \cup new
  BY <1>4, <1>8 DEF Used
<1>10. (\A pair \in Used : pair[2] <= nvals)'
  BY <1>3, <1>5, <1>9 DEF FreshInv
<1>11. \A q \in Procs : call'[q].op \in Stores =>
         call'[q].val \in 1..nvals' /\ \A k \in call'[q].todo : <<k, call'[q].val>> \notin Used'
  BY <1>3, <1>7, <1>9
<1>12. \A q, r \in Procs :
         q # r /\ call'[q].op \in Stores /\ call'[r].op \in Stores => call'[q].val # call'[r].val
  BY <1>2 DEF FreshInv
<1>13. TakenIsGone'
  BY <1>8 DEF TakenIsGone
<1> QED
  BY <1>10, <1>11, <1>12, <1>13 DEF FreshInv

\* A step that neither stores nor takes: p keeps its operation, or has none after it.
LEMMA QuietFresh ==
  ASSUME Inv, FreshInv, UNCHANGED <<items, taken, nvals>>,
         \A q \in Procs : \/ call'[q].op \notin Stores
                          \/ /\ call'[q].op = call[q].op /\ call'[q].val = call[q].val
                             /\ call'[q].todo \subseteq call[q].todo
  PROVE  FreshInv'
<1>1. Used' = Used
  BY DEF Used
<1>2. TakenIsGone'
  BY DEF FreshInv, TakenIsGone
<1>3. \A q \in Procs : call'[q].op \in Stores =>
        /\ call[q].op \in Stores /\ call'[q].val = call[q].val /\ call'[q].todo \subseteq call[q].todo
  OBVIOUS
<1> QED
  BY <1>1, <1>2, <1>3 DEF FreshInv

\* A new call stores a value that no call has had before.
LEMMA CallFresh ==
  ASSUME Inv, FreshInv, NEW p \in Procs, NEW op \in AllOps, NEW todo \in arguments(op),
         Call(p, op, todo)
  PROVE  FreshInv'
<1> DEFINE fresh == op \in {"Set", "SetNX", "MSet"}
           X == [NoCall EXCEPT !.op = op, !.pc = firstPc(op), !.todo = todo,
                               !.val = IF fresh THEN nvals + 1 ELSE 0]
<1>1. /\ call' = [call EXCEPT ![p] = X] /\ UNCHANGED <<items, taken>>
      /\ nvals' = IF fresh THEN nvals + 1 ELSE nvals
  BY DEF Call
<1>2. X.op = op /\ (fresh => X.val = nvals + 1)
  BY DEF NoCall
<1>3. nvals \in Nat
  BY DEF Inv, TypeOK
<1> HIDE DEF X
<1>4. call'[p] = X /\ \A q \in Procs \ {p} : call'[q] = call[q]
  BY <1>1, CallRest
<1>5. CASE op \notin Stores
  <2>1. nvals' = nvals
    BY <1>1, <1>5 DEF Stores
  <2> QED
    BY <1>1, <1>2, <1>4, <1>5, <2>1, QuietFresh
<1>6. CASE op \in Stores
  <2>1. nvals' = nvals + 1 /\ X.val = nvals + 1 /\ X.op = op
    BY <1>1, <1>2, <1>6 DEF Stores
  <2>2. Used' = Used
    BY <1>1 DEF Used
  <2>3. \A pair \in Used : pair[2] <= nvals
    BY DEF FreshInv
  <2>4. Used \subseteq Pairs
    BY ContentsType DEF Used, Inv, TypeOK, Contents
  <2>5. \A pair \in Used : pair[2] \in Int
    BY <2>4 DEF Pairs
  <2>6. (\A pair \in Used : pair[2] <= nvals)'
    BY <1>3, <2>1, <2>2, <2>3, <2>5
  <2>7. \A q \in Procs : call'[q].op \in Stores =>
          call'[q].val \in 1..nvals' /\ \A k \in call'[q].todo : <<k, call'[q].val>> \notin Used'
    <3> SUFFICES ASSUME NEW q \in Procs, call'[q].op \in Stores
                 PROVE  /\ call'[q].val \in 1..nvals'
                        /\ \A k \in call'[q].todo : <<k, call'[q].val>> \notin Used
      BY <2>2
    <3>1. CASE q = p
      <4>1. call'[q].val = nvals + 1 /\ nvals + 1 \in 1..nvals'
        BY <1>3, <1>4, <2>1, <3>1
      <4>2. \A k : <<k, nvals + 1>>[2] = nvals + 1
        OBVIOUS
      <4>3. \A pair \in Used : pair[2] # nvals + 1
        BY <1>3, <2>3, <2>5
      <4> QED
        BY <4>1, <4>2, <4>3
    <3>2. CASE q # p
      <4>1. call[q].val \in 1..nvals /\ \A k \in call[q].todo : <<k, call[q].val>> \notin Used
        BY <1>4, <3>2 DEF FreshInv
      <4> QED
        BY <1>3, <1>4, <2>1, <3>2, <4>1
    <3> QED
      BY <3>1, <3>2
  <2>8. \A q, r \in Procs :
          q # r /\ call'[q].op \in Stores /\ call'[r].op \in Stores => call'[q].val # call'[r].val
    <3>1. \A q \in Procs \ {p} : call'[q].op \in Stores => call'[q].val \in 1..nvals
      BY <1>4 DEF FreshInv
    <3>2. call'[p].val = nvals + 1 /\ ~(nvals + 1 \in 1..nvals)
      BY <1>3, <1>4, <2>1
    <3>3. \A q, r \in Procs \ {p} :
            q # r /\ call'[q].op \in Stores /\ call'[r].op \in Stores => call'[q].val # call'[r].val
      BY <1>4 DEF FreshInv
    <3> QED
      BY <3>1, <3>2, <3>3
  <2>9. TakenIsGone'
    BY <1>1 DEF FreshInv, TakenIsGone
  <2> QED
    BY <2>6, <2>7, <2>8, <2>9 DEF FreshInv
<1> QED
  BY <1>5, <1>6

\* The remaining steps of a call: none of them gives the call a new value or key.
LEMMA CallKeeps ==
  ASSUME Inv, NEW p \in Procs, CallStep(p), ~WriteStep(p)
  PROVE  /\ UNCHANGED <<items, taken, nvals>>
         /\ \A q \in Procs \ {p} : call'[q] = call[q]
         /\ \/ call'[p].op \notin Stores
            \/ /\ call'[p].op = call[p].op /\ call'[p].val = call[p].val
               /\ call'[p].todo \subseteq call[p].todo
<1>0. call[p] \in CallState /\ TypeOK
  BY DEF Inv, TypeOK
<1>1. CASE Return(p)
  <2>1. call' = [call EXCEPT ![p] = NoCall] /\ UNCHANGED <<items, taken, nvals>>
    BY <1>1 DEF Return
  <2>2. call'[p] = NoCall /\ \A q \in Procs \ {p} : call'[q] = call[q]
    BY <2>1, CallRest
  <2>3. NoCall.op \notin Stores
    BY DEF NoCall, Stores
  <2> QED
    BY <2>1, <2>2, <2>3
<1>2. CASE Get(p)
  <2> DEFINE X == nextKey([call[p] EXCEPT !.acc = @ \cup entry(call[p].s, call[p].key)])
  <2>1. call' = [call EXCEPT ![p] = X] /\ UNCHANGED <<items, taken, nvals>>
    BY <1>2 DEF Get
  <2>2. X.op = call[p].op /\ X.val = call[p].val /\ X.todo \subseteq call[p].todo
    BY <1>0 DEF nextKey, CallState
  <2> HIDE DEF X
  <2>3. call'[p] = X /\ \A q \in Procs \ {p} : call'[q] = call[q]
    BY <2>1, CallRest
  <2> QED
    BY <2>1, <2>2, <2>3
<1>3. CASE Lock(p) \/ locked(p) \/ RLock(p) \/ lookup(p) \/ Count(p)
           \/ (\E k \in Keys : rangeStep(p, k)) \/ rangeEnd(p)
  <2>1. UNCHANGED <<items, taken, nvals>> /\ \E X : call' = [call EXCEPT ![p] = X]
    BY <1>3 DEF Lock, locked, RLock, lookup, Count, rangeStep, rangeEnd
  <2>2. \A q \in Procs \ {p} : call'[q] = call[q]
    BY <2>1, CallRest
  <2>3. pend'[p] = pend[p]
    BY <1>3, HiddenRefines DEF Contract!vars
  <2>4. pend'[p] = [op |-> call'[p].op, todo |-> call'[p].todo, val |-> call'[p].val, got |-> pend'[p].got]
    BY DEF pend
  <2>5. pend[p] = [op |-> call[p].op, todo |-> call[p].todo, val |-> call[p].val, got |-> pend[p].got]
    BY DEF pend
  <2>6. call'[p].op = call[p].op /\ call'[p].val = call[p].val /\ call'[p].todo = call[p].todo
    BY <2>3, <2>4, <2>5
  <2> QED
    BY <2>1, <2>2, <2>6
<1> QED
  BY <1>1, <1>2, <1>3 DEF CallStep, WriteStep

LEMMA FreshInit == Init => FreshInv
<1> SUFFICES ASSUME Init PROVE FreshInv
  OBVIOUS
<1>1. \A p \in Procs : call[p].op \notin Stores
  BY DEF Init, NoCall, Stores
<1>2. \A k \in Keys : items[GetShard(k)][k] \in {1, None}
  BY GetShardType DEF Init
<1>3. \A pair \in Used : pair[2] = 1
  <2> SUFFICES ASSUME NEW pair \in pairsOf(items) PROVE pair[2] = 1
    BY DEF Init, Used
  <2>1. PICK k \in Keys : items[GetShard(k)][k] # None /\ pair = <<k, items[GetShard(k)][k]>>
    BY DEF pairsOf, keysOf
  <2> QED
    BY <1>2, <2>1
<1>4. nvals = 1 /\ TakenIsGone
  BY DEF Init, TakenIsGone
<1> QED
  BY <1>1, <1>3, <1>4 DEF FreshInv

LEMMA FreshStep == Inv /\ FreshInv /\ [Next]_vars => FreshInv'
<1> SUFFICES ASSUME Inv, FreshInv, [Next]_vars PROVE FreshInv'
  OBVIOUS
<1>1. CASE UNCHANGED vars
  BY <1>1, QuietFresh DEF vars
<1>2. ASSUME NEW p \in Procs, NEW op \in AllOps, NEW todo \in arguments(op), Call(p, op, todo)
      PROVE  FreshInv'
  BY <1>2, CallFresh
<1>3. ASSUME NEW p \in Procs, CallStep(p) PROVE FreshInv'
  <2>1. CASE WriteStep(p)
    BY <2>1, WriteFresh
  <2>2. CASE ~WriteStep(p)
    BY <1>3, <2>2, CallKeeps, QuietFresh
  <2> QED
    BY <2>1, <2>2
<1>4. ASSUME NEW p \in Procs, IterStep(p) \/ LoopStep(p) \/ breakLoop(p) PROVE FreshInv'
  <2>1. UNCHANGED <<items, taken, nvals, call>>
    BY <1>4 DEF IterStep, iterLock, iterSend, iterUnlock, LoopStep, receive, endLoop, breakLoop
  <2> QED
    BY <2>1, QuietFresh
<1> QED
  BY <1>1, <1>2, <1>3, <1>4 DEF Next

(***************************************************************************)
(* What GetAndRemove returned to one caller stays out of the map: nobody   *)
(* else can get it, although its lookup and its removal are two steps.     *)
(***************************************************************************)
THEOREM TakenStaysGone == Spec => []TakenIsGone
<1>1. FreshInv => TakenIsGone
  BY DEF FreshInv
<1> QED
  BY <1>1, InvAlways, FreshInit, FreshStep, PTL DEF Spec
=============================================================================
