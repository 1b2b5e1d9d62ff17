------------------------------- MODULE CMap -------------------------------
(***************************************************************************)
(* The sharded concurrent map of container/templates/cmap/cmap_template.go *)
(* from which the six types of container/cmap are generated.               *)
(*                                                                         *)
(* Every shard is a Go map guarded by a sync.RWMutex.  An operation on one *)
(* key works under the lock of the key's shard; an operation on many keys  *)
(* or on the whole map locks one shard after another and is not atomic.    *)
(* Iter and IterBuffered start a goroutine that sends the contents of the  *)
(* map over a channel, holding the read lock of the shard it is sending.   *)
(* A caller p has at most one call and one iteration in progress, both     *)
(* named by p.                                                             *)
(***************************************************************************)
EXTENDS Integers, FiniteSets, Sequences

CONSTANTS
  MaxProcs,     \* number of goroutines that use the map
  Keys,
  SHARD_COUNT,
  KeyHash,      \* the hash of each key
  InitKeys,     \* keys that were set before the goroutines start
  MaxVals,      \* bound: values passed to Set, SetNX and MSet
  MaxCalls,     \* bound: calls made by one goroutine
  Ops,          \* the operations the goroutines call
  LoopOps,      \* the operations called in the body of a loop over an iterator
  Breaks        \* whether a loop over an iterator may be left early

KeyWrites  == {"Set", "SetNX", "Remove", "GetAndRemove"}
KeyReads   == {"Get", "Has"}
Scans      == {"Count", "Keys", "GetAll"}
Iterations == {"Iter", "IterBuffered"}
AllOps == KeyWrites \cup KeyReads \cup Scans \cup Iterations \cup {"MSet", "MGet", "Clear"}

ASSUME CMapConstants ==
  /\ MaxProcs \in Nat \ {0} /\ SHARD_COUNT \in Nat \ {0}
  /\ Keys \subseteq Nat \ {0} /\ IsFiniteSet(Keys) /\ InitKeys \subseteq Keys
  /\ KeyHash \in [Keys -> Nat]
  /\ MaxVals \in Nat \ {0} /\ MaxCalls \in Nat
  /\ Ops \subseteq AllOps /\ LoopOps \subseteq KeyWrites \cup KeyReads
  /\ Breaks \in BOOLEAN

Procs  == 1..MaxProcs
Shards == 0..(SHARD_COUNT - 1)
Nobody == 0
None   == 0     \* no value: the key is absent
Pairs  == Keys \X (1..MaxVals)
Holders == Procs \X {"call", "iter"}   \* who may hold a read lock

CallPcs == {"idle", "start", "wait", "in", "mid", "read", "done"}
\* A call: the keys it has still to work on, the key and shard it is at, the
\* keys left in that shard's range loop, and what it is going to return.
CallState == [op : AllOps \cup {"none"}, pc : CallPcs, todo : SUBSET Keys,
              key : Keys \cup {None}, val : 0..MaxVals, s : 0..SHARD_COUNT,
              rest : SUBSET Keys, acc : SUBSET Pairs, n : Nat]
\* An iteration: the producer's shard and keys left there, and the channel.
IterState == [pc : {"none", "lock", "send", "closed"}, s : 0..SHARD_COUNT,
              rest : SUBSET Keys, cap : Nat, buf : Seq(Pairs), got : Seq(Pairs)]
\* What an observer sees while it watches the map: the keys that have been in it all
\* the time, the pairs that have been in it at some time, whether a key was added.
WatchState == [stable : SUBSET Keys, seen : SUBSET Pairs, grown : BOOLEAN]

VARIABLES
  items,    \* Shards -> (Keys -> value, None if absent)
  w,        \* Shards -> the goroutine that holds or waits for the write lock
  readers,  \* Shards -> holders of the read lock
  call, iter,
  loop,     \* the goroutines that are in a loop over their iterator
  nvals, ncalls,
  taken,    \* history: the pairs GetAndRemove has returned
  watch     \* history: what was in the map during a scan or an iteration

vars == <<items, w, readers, call, iter, loop, nvals, ncalls, taken, watch>>

TypeOK ==
  /\ items \in [Shards -> [Keys -> 0..MaxVals]]
  /\ w \in [Shards -> Procs \cup {Nobody}]
  /\ readers \in [Shards -> SUBSET Holders]
  /\ call \in [Procs -> CallState]
  /\ iter \in [Procs -> IterState]
  /\ loop \in SUBSET Procs
  /\ nvals \in 0..MaxVals
  /\ ncalls \in [Procs -> 0..MaxCalls]
  /\ taken \in SUBSET Pairs
  /\ watch \in [Procs -> WatchState]

GetShard(key) == KeyHash[key] % SHARD_COUNT

keysIn(s) == {k \in Keys : items[s][k] # None}

\* What the map contains: its keys, and its keys with their values.
keysOf(m)  == {k \in Keys : m[GetShard(k)][k] # None}
pairsOf(m) == {<<k, m[GetShard(k)][k]>> : k \in keysOf(m)}

NoCall == [op |-> "none", pc |-> "idle", todo |-> {}, key |-> None, val |-> 0, s |-> 0,
           rest |-> {}, acc |-> {}, n |-> 0]
NoIter == [pc |-> "none", s |-> 0, rest |-> {}, cap |-> 0, buf |-> <<>>, got |-> <<>>]
NoWatch == [stable |-> {}, seen |-> {}, grown |-> FALSE]

Init ==
  /\ items = [s \in Shards |-> [k \in Keys |-> IF k \in InitKeys /\ GetShard(k) = s THEN 1 ELSE None]]
  /\ w = [s \in Shards |-> Nobody]
  /\ readers = [s \in Shards |-> {}]
  /\ call = [p \in Procs |-> NoCall]
  /\ iter = [p \in Procs |-> NoIter]
  /\ loop = {}
  /\ nvals = 1
  /\ ncalls = [p \in Procs |-> 0]
  /\ taken = {}
  /\ watch = [p \in Procs |-> NoWatch]

(***************************************************************************)
(* History.  A scan is watched from its call on.  An iteration is watched  *)
(* from the return of Iter or IterBuffered on, but for grown, which        *)
(* includes the count IterBuffered begins with.                            *)
(***************************************************************************)
watching(p) == call[p].op \in Scans \cup Iterations \/ iter[p].pc # "none"

observe(m) ==
  watch' = [p \in Procs |->
             IF watching(p)
             THEN [stable |-> watch[p].stable \cap keysOf(m),
                   seen   |-> watch[p].seen \cup pairsOf(m),
                   grown  |-> watch[p].grown \/ ~(keysOf(m) \subseteq keysOf(items))]
             ELSE watch[p]]

\* A key was added since the iteration of p, which is going on, began.
grew(p) == iter[p].pc # "none" /\ watch[p].grown

\* Watching begins; g: whether a key is known to have been added.
watchFrom(p, g) ==
  [watch EXCEPT ![p] = [stable |-> keysOf(items), seen |-> pairsOf(items), grown |-> g]]

(***************************************************************************)
(* Calling an operation.  IterBuffered begins by counting.                 *)
(***************************************************************************)
firstPc(op) == IF op = "Iter" THEN "done" ELSE "start"

\* The sets of keys an operation may be called with; Clear will visit them all.
arguments(op) ==
  CASE op \in KeyWrites \cup KeyReads -> {{k} : k \in Keys}
    [] op \in {"MSet", "MGet"}        -> {D \in SUBSET Keys : Cardinality(D) > 1}
    [] op = "Clear"                   -> {Keys}
    [] OTHER                          -> {{}}

Call(p, op, todo) ==
  LET fresh == op \in {"Set", "SetNX", "MSet"}
  IN  /\ call[p].pc = "idle"
      /\ op \in IF p \in loop THEN LoopOps ELSE Ops
      /\ op \in Iterations => iter[p].pc = "none"
      /\ todo \in arguments(op)
      /\ ncalls[p] < MaxCalls
      /\ fresh => nvals < MaxVals
      /\ ncalls' = [ncalls EXCEPT ![p] = @ + 1]
      /\ nvals' = IF fresh THEN nvals + 1 ELSE nvals
      /\ call' = [call EXCEPT ![p] = [NoCall EXCEPT !.op = op, !.pc = firstPc(op), !.todo = todo,
                                                    !.val = IF fresh THEN nvals + 1 ELSE 0]]
      /\ watch' = IF op \in Scans \cup Iterations THEN watchFrom(p, grew(p)) ELSE watch
      /\ UNCHANGED <<items, w, readers, iter, loop, taken>>

\* The caller goes on with the result; a loop over an iterator begins.
Return(p) ==
  LET starts == call[p].op \in Iterations
  IN  /\ call[p].pc = "done"
      /\ call' = [call EXCEPT ![p] = NoCall]
      /\ iter' = IF starts THEN [iter EXCEPT ![p] = [NoIter EXCEPT !.pc = "lock", !.cap = call[p].n]]
                           ELSE iter
      /\ loop' = IF starts THEN loop \cup {p} ELSE loop
      /\ watch' = CASE starts -> watchFrom(p, watch[p].grown)
                    [] call[p].op \in Scans -> [watch EXCEPT ![p] = [NoWatch EXCEPT !.grown = grew(p)]]
                    [] OTHER -> watch
      /\ UNCHANGED <<items, w, readers, nvals, ncalls, taken>>

(***************************************************************************)
(* sync.RWMutex (external): Lock makes new readers wait at once and takes  *)
(* effect when the present ones have gone.                                 *)
(***************************************************************************)

\* The keys and shards the call of p may turn to next.
targets(p) ==
  IF call[p].todo # {} /\ call[p].op # "Clear"
  THEN {<<k, GetShard(k)>> : k \in call[p].todo}
  ELSE {<<None, call[p].s>>}

writes(op) == op \in KeyWrites \cup {"MSet", "Clear"}

\* Faulty variant: writers do not exclude each other.
noWriter_Skip(s) == TRUE

noWriter(s) == w[s] = Nobody

Lock(p) ==
  /\ call[p].pc = "start" /\ writes(call[p].op)
  /\ \E t \in targets(p) :
       /\ noWriter(t[2])
       /\ w' = [w EXCEPT ![t[2]] = p]
       /\ call' = [call EXCEPT ![p].pc = "wait", ![p].key = t[1], ![p].s = t[2]]
  /\ UNCHANGED <<items, readers, iter, loop, nvals, ncalls, taken, watch>>

\* Faulty variant: the writer does not wait for the readers.
noReaders_Skip(s) == TRUE

noReaders(s) == readers[s] = {}

locked(p) ==
  /\ call[p].pc = "wait"
  /\ noReaders(call[p].s)
  /\ call' = [call EXCEPT ![p].pc = "in"]
  /\ UNCHANGED <<items, w, readers, iter, loop, nvals, ncalls, taken, watch>>

RLock(p) ==
  /\ call[p].pc = "start" /\ ~writes(call[p].op)
  /\ \E t \in targets(p) :
       /\ noWriter(t[2])
       /\ readers' = [readers EXCEPT ![t[2]] = @ \cup {<<p, "call">>}]
       /\ call' = [call EXCEPT ![p].pc = "read", ![p].key = t[1], ![p].s = t[2],
                               ![p].rest = keysIn(t[2])]
  /\ UNCHANGED <<items, w, iter, loop, nvals, ncalls, taken, watch>>

Unlock(p)  == w' = [w EXCEPT ![call[p].s] = Nobody]
RUnlock(p) == readers' = [readers EXCEPT ![call[p].s] = @ \ {<<p, "call">>}]

\* On to the next key or shard, or to the return: c is the call with its results.
nextKey(c) ==
  [c EXCEPT !.todo = @ \ {c.key}, !.pc = IF c.todo = {c.key} THEN "done" ELSE "start"]
\* Faulty variant: every other shard.
nextShard_Skip(c) ==
  [c EXCEPT !.s = @ + 2, !.todo = {k \in c.todo : GetShard(k) # c.s},
            !.pc = IF c.s + 2 >= SHARD_COUNT THEN "done" ELSE "start"]

nextShard(c) ==
  [c EXCEPT !.s = @ + 1, !.todo = {k \in c.todo : GetShard(k) # c.s},
            !.pc = IF c.s + 1 = SHARD_COUNT THEN "done" ELSE "start"]

(***************************************************************************)
(* The critical sections.                                                  *)
(***************************************************************************)
Writing(p, op) == call[p].pc = "in" /\ call[p].op = op

\* The map with one entry replaced.
put(s, k, v) == [items EXCEPT ![s][k] = v]

Set(p) ==
  LET c == call[p]
  IN  /\ Writing(p, "Set") \/ Writing(p, "MSet")
      /\ items' = put(c.s, c.key, c.val)
      /\ call' = [call EXCEPT ![p] = nextKey(c)]
      /\ Unlock(p)
      /\ observe(items')
      /\ UNCHANGED <<readers, iter, loop, nvals, ncalls, taken>>

\* The entry of a key, as a set of at most one pair.
entry(s, k) == IF items[s][k] = None THEN {} ELSE {<<k, items[s][k]>>}

\* SetNX and GetAndRemove look the key up before they write.
lookup(p) ==
  LET c == call[p]
  IN  /\ Writing(p, "SetNX") \/ Writing(p, "GetAndRemove")
      /\ call' = [call EXCEPT ![p].pc = "mid", ![p].acc = entry(c.s, c.key)]
      /\ UNCHANGED <<items, w, readers, iter, loop, nvals, ncalls, taken, watch>>

\* SetNX returns true in either case.
SetNX(p) ==
  LET c == call[p]
  IN  /\ c.pc = "mid" /\ c.op = "SetNX"
      /\ items' = IF c.acc = {} THEN put(c.s, c.key, c.val) ELSE items
      /\ call' = [call EXCEPT ![p] = nextKey(c)]
      /\ Unlock(p)
      /\ observe(items')
      /\ UNCHANGED <<readers, iter, loop, nvals, ncalls, taken>>

SetNXResult(c) == TRUE

\* Faulty variant: GetAndRemove only gets.
without_Keep(s, k) == items

without(s, k) == put(s, k, None)

GetAndRemove(p) ==
  LET c == call[p]
  IN  /\ c.pc = "mid" /\ c.op = "GetAndRemove"
      /\ items' = without(c.s, c.key)
      /\ taken' = taken \cup c.acc
      /\ call' = [call EXCEPT ![p] = nextKey(c)]
      /\ Unlock(p)
      /\ observe(items')
      /\ UNCHANGED <<readers, iter, loop, nvals, ncalls>>

Remove(p) ==
  LET c == call[p]
  IN  /\ Writing(p, "Remove")
      /\ items' = without(c.s, c.key)
      /\ call' = [call EXCEPT ![p] = nextKey(c)]
      /\ Unlock(p)
      /\ observe(items')
      /\ UNCHANGED <<readers, iter, loop, nvals, ncalls, taken>>

Clear(p) ==
  LET c == call[p]
  IN  /\ Writing(p, "Clear")
      /\ items' = [items EXCEPT ![c.s] = [k \in Keys |-> None]]
      /\ call' = [call EXCEPT ![p] = nextShard(c)]
      /\ Unlock(p)
      /\ observe(items')
      /\ UNCHANGED <<readers, iter, loop, nvals, ncalls, taken>>

Reading(p, ops) == call[p].pc = "read" /\ call[p].op \in ops

\* Get, Has, and each Get made by MGet.
Get(p) ==
  LET c == call[p]
  IN  /\ Reading(p, KeyReads \cup {"MGet"})
      /\ call' = [call EXCEPT ![p] = nextKey([c EXCEPT !.acc = @ \cup entry(c.s, c.key)])]
      /\ RUnlock(p)
      /\ UNCHANGED <<items, w, iter, loop, nvals, ncalls, taken, watch>>

\* One shard of Count, which IterBuffered calls too.
Count(p) ==
  LET c == call[p]
  IN  /\ Reading(p, {"Count", "IterBuffered"})
      /\ call' = [call EXCEPT ![p] = nextShard([c EXCEPT !.n = @ + Cardinality(keysIn(c.s))])]
      /\ RUnlock(p)
      /\ UNCHANGED <<items, w, iter, loop, nvals, ncalls, taken, watch>>

\* The range loop of Keys and of GetAll over one shard.
rangeStep(p, k) ==
  LET c == call[p]
  IN  /\ Reading(p, {"Keys", "GetAll"})
      /\ k \in c.rest
      /\ call' = [call EXCEPT ![p].acc = @ \cup {<<k, items[c.s][k]>>}, ![p].n = @ + 1,
                              ![p].rest = @ \ {k}]
      /\ UNCHANGED <<items, w, readers, iter, loop, nvals, ncalls, taken, watch>>

rangeEnd(p) ==
  /\ Reading(p, {"Keys", "GetAll"})
  /\ call[p].rest = {}
  /\ call' = [call EXCEPT ![p] = nextShard(@)]
  /\ RUnlock(p)
  /\ UNCHANGED <<items, w, iter, loop, nvals, ncalls, taken, watch>>

(***************************************************************************)
(* The goroutine started by Iter and IterBuffered, and the loop over its   *)
(* channel.                                                                *)
(***************************************************************************)
iterLock(p) ==
  LET s == iter[p].s
  IN  /\ iter[p].pc = "lock"
      /\ noWriter(s)
      /\ readers' = [readers EXCEPT ![s] = @ \cup {<<p, "iter">>}]
      /\ iter' = [iter EXCEPT ![p].pc = "send", ![p].rest = keysIn(s)]
      /\ UNCHANGED <<items, w, call, loop, nvals, ncalls, taken, watch>>

\* The loop of p is waiting for the next pair.
receiving(p) == p \in loop /\ call[p].pc = "idle"

\* A send on a channel without room waits for the receiver.
iterSend(p, k) ==
  LET c == iter[p]
      pair == <<k, items[c.s][k]>>
  IN  /\ c.pc = "send" /\ k \in c.rest
      /\ \/ Len(c.buf) < c.cap
            /\ iter' = [iter EXCEPT ![p].rest = @ \ {k}, ![p].buf = Append(@, pair)]
         \/ c.cap = 0 /\ receiving(p)
            /\ iter' = [iter EXCEPT ![p].rest = @ \ {k}, ![p].got = Append(@, pair)]
      /\ UNCHANGED <<items, w, readers, call, loop, nvals, ncalls, taken, watch>>

\* Faulty variant: the lock of the last shard is kept.
iterReaders_Keep(p) ==
  IF iter[p].s + 1 = SHARD_COUNT THEN readers
  ELSE [readers EXCEPT ![iter[p].s] = @ \ {<<p, "iter">>}]

iterReaders(p) == [readers EXCEPT ![iter[p].s] = @ \ {<<p, "iter">>}]

\* Faulty variant: the range loop is left as soon as the buffer is full.
sentAll_Full(p) == iter[p].rest = {} \/ Len(iter[p].buf) >= iter[p].cap

sentAll(p) == iter[p].rest = {}

iterUnlock(p) ==
  LET last == iter[p].s + 1 = SHARD_COUNT
  IN  /\ iter[p].pc = "send" /\ sentAll(p)
      /\ readers' = iterReaders(p)
      /\ iter' = IF last /\ p \notin loop THEN [iter EXCEPT ![p] = NoIter]
                 ELSE [iter EXCEPT ![p].s = @ + 1, ![p].pc = IF last THEN "closed" ELSE "lock"]
      /\ watch' = IF last /\ p \notin loop /\ call[p].op \notin Scans
                  THEN [watch EXCEPT ![p] = NoWatch] ELSE watch
      /\ UNCHANGED <<items, w, call, loop, nvals, ncalls, taken>>

receive(p) ==
  LET c == iter[p]
  IN  /\ receiving(p) /\ c.buf # <<>>
      /\ iter' = [iter EXCEPT ![p].buf = Tail(@), ![p].got = Append(@, Head(c.buf))]
      /\ UNCHANGED <<items, w, readers, call, loop, nvals, ncalls, taken, watch>>

\* The channel is closed and drained.
endLoop(p) ==
  /\ receiving(p) /\ iter[p].pc = "closed" /\ iter[p].buf = <<>>
  /\ loop' = loop \ {p}
  /\ iter' = [iter EXCEPT ![p] = NoIter]
  /\ watch' = [watch EXCEPT ![p] = NoWatch]
  /\ UNCHANGED <<items, w, readers, call, nvals, ncalls, taken>>

\* The loop is left early; the goroutine goes on sending while it can.
breakLoop(p) ==
  /\ Breaks /\ receiving(p)
  /\ loop' = loop \ {p}
  /\ iter' = IF iter[p].pc = "closed" THEN [iter EXCEPT ![p] = NoIter] ELSE iter
  /\ watch' = IF iter[p].pc = "closed" THEN [watch EXCEPT ![p] = NoWatch] ELSE watch
  /\ UNCHANGED <<items, w, readers, call, nvals, ncalls, taken>>

-----------------------------------------------------------------------------
CallStep(p) ==
  \/ Lock(p) \/ locked(p) \/ RLock(p)
  \/ Set(p) \/ lookup(p) \/ SetNX(p) \/ GetAndRemove(p) \/ Remove(p) \/ Clear(p)
  \/ Get(p) \/ Count(p) \/ (\E k \in Keys : rangeStep(p, k)) \/ rangeEnd(p)
  \/ Return(p)

IterStep(p) == iterLock(p) \/ (\E k \in Keys : iterSend(p, k)) \/ iterUnlock(p)

LoopStep(p) == receive(p) \/ endLoop(p)

Next ==
  \E p \in Procs :
    \/ \E op \in AllOps : \E todo \in arguments(op) : Call(p, op, todo)
    \/ CallStep(p) \/ IterStep(p) \/ LoopStep(p) \/ breakLoop(p)

Spec == Init /\ [][Next]_vars

\* Fairness: goroutines inside the package are scheduled.  User code owes nothing.
FairSpec == Spec /\ \A p \in Procs : WF_vars(CallStep(p)) /\ WF_vars(IterStep(p))

-----------------------------------------------------------------------------
(***************************************************************************)
(* Properties.                                                             *)
(***************************************************************************)
keysOfPairs(P) == {pair[1] : pair \in P}
inShards(K, n) == {k \in K : GetShard(k) < n}

\* Keys, GetAll and Count, which see the shards at different moments, miss no key
\* that was in the map all the time, return no pair that was never in it, and
\* Keys lists no key twice.
ScanBounds ==
  \A p \in Procs :
    LET c == call[p]
        stable == inShards(watch[p].stable, c.s)
        seen == inShards(keysOfPairs(watch[p].seen), c.s)
    IN  /\ c.op \in {"Keys", "GetAll"} => /\ stable \subseteq keysOfPairs(c.acc)
                                         /\ c.acc \subseteq watch[p].seen
                                         /\ c.n = Cardinality(keysOfPairs(c.acc))
        /\ c.op = "Count" => Cardinality(stable) <= c.n /\ c.n <= Cardinality(seen)

\* A loop over Iter or IterBuffered is given no key twice and no pair that was not
\* in the map since the call returned, and, unless it is left, every key that was
\* in the map all the time.
IterBounds ==
  \A p \in Procs :
    LET c == iter[p]
        sent == c.got \o c.buf
        pairs == {sent[n] : n \in DOMAIN sent}
    IN  p \in loop =>
        /\ pairs \subseteq watch[p].seen
        /\ Cardinality(keysOfPairs(pairs)) = Len(sent)
        /\ inShards(watch[p].stable, c.s) \subseteq keysOfPairs(pairs)

\* No write to a shard while a scan or an iterator holds its read lock: the range
\* loop over the Go map must not meet a concurrent write.
ShardFrozen == [][\A s \in Shards : readers[s] # {} => items'[s] = items[s]]_vars

\* What GetAndRemove has returned to one caller is gone: no later call finds it.
TakenIsGone == taken \cap pairsOf(items) = {}

\* SetNX tells its caller whether the key was set (comment of SetNX).
SetNXReports ==
  \A p \in Procs :
    LET c == call[p]
    IN  c.op = "SetNX" /\ c.pc = "done" /\ c.acc # {} => ~SetNXResult(c)

\* Every call returns, whatever locks others hold, if the loops over the iterators
\* go on until they are left: a send of Iter waits for its loop with a lock held.
CallsComplete ==
  (\A p \in Procs : WF_vars(LoopStep(p)))
    => \A p \in Procs : call[p].pc = "start" ~> call[p].pc = "idle"

\* The goroutine of IterBuffered ends and frees its locks without anybody receiving,
\* unless a key is added to the map: its channel has room for all that was counted.
BufferedIterationEnds ==
  \A p \in Procs :
    iter[p].pc = "lock" /\ iter[p].cap > 0
      ~> iter[p].pc \in {"none", "closed"} \/ watch[p].grown

(***************************************************************************)
(* The map as its callers see it: a call that has looked a key up but not  *)
(* written yet has done nothing.                                           *)
(***************************************************************************)
store == [k \in Keys |-> items[GetShard(k)][k]]
pend == [p \in Procs |->
          LET c == call[p]
          IN  [op |-> c.op, todo |-> c.todo, val |-> c.val,
               got |-> IF c.pc = "mid" \/ c.op \in Scans THEN {} ELSE c.acc]]

Contract == INSTANCE MapContract WITH Walks <- Scans \cup Iterations

\* Every step is a step of the contract: single-key operations are atomic, SetNX
\* and GetAndRemove included, and no value appears or disappears otherwise.
AtomicPerKey == Contract!Spec
=============================================================================
