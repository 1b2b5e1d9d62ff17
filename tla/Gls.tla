-------------------------------- MODULE Gls --------------------------------
(***************************************************************************)
(* Goroutine local storage as built with Go 1.17 and later: gls/gls.go,    *)
(* gls/gls_slot.go, gls/value.go, gls/goid.go and gls/lifecycle.go.        *)
(*                                                                         *)
(* A goroutine's storage is a glsData found under the address of its       *)
(* runtime.g in the shard its goid selects.  The package cannot see a      *)
(* goroutine exit: it hangs a finalizer on the label map of the goroutine  *)
(* and takes the label map becoming garbage as a hint that the goroutine   *)
(* is gone.  The actors are                                                *)
(*   - the goroutines p \in Gs, calling the API;                           *)
(*   - the runtime (external): it starts and ends goroutines, recycles the *)
(*     g of an ended one, lets a goroutine inherit its parent's labels,    *)
(*     and finds label maps unreachable;                                   *)
(*   - the runtime's single finalizer goroutine, running finalize;         *)
(*   - the goroutines that finalize starts to register again.              *)
(* A finalizer belongs to exactly one label map and runs once, so both the *)
(* finalizer call and the goroutine it may start are named by that map.    *)
(***************************************************************************)
EXTENDS Integers, Sequences, FiniteSets

CONSTANTS
  MaxGs,        \* number of runtime.g structs the runtime has allocated
  MaxGoid,      \* bound: goroutines started
  shardsCount,  \* shards of globalSlots (31 in the code)
  MaxLabels,    \* bound: label maps the package allocates
  MaxDms,       \* bound: glsData the package allocates
  Keys,         \* keys of Set, Get and Del
  MaxItems,     \* bound: Set calls of one goroutine
  MaxFuncs,     \* bound: AtExit calls of one goroutine
  MaxProf,      \* bound: label changes made by user code
  Callers,      \* goids of the goroutines that use the package
  Ops,          \* what the program calls: API functions, "SetLabels", "ClearLabels"
  Reuse         \* whether the runtime recycles the g of an ended goroutine

Calls == {"Set", "Del", "AtExit", "Reset", "Unload"}

ASSUME GlsConstants ==
  /\ MaxGs \in Nat \ {0} /\ MaxGoid \in Nat \ {0} /\ shardsCount \in Nat \ {0}
  /\ MaxLabels \in Nat /\ MaxDms \in Nat
  /\ MaxItems \in Nat /\ MaxFuncs \in Nat /\ MaxProf \in Nat
  /\ Ops \subseteq Calls \cup {"SetLabels", "ClearLabels"}
  /\ Callers \subseteq 1..MaxGoid
  /\ Reuse \in BOOLEAN

Gs     == 1..MaxGs
Goids  == 1..MaxGoid
Shards == 0..(shardsCount - 1)
Labels == 1..MaxLabels
Dms    == 1..MaxDms

Nil    == 0     \* the nil pointer: label map, glsData or g
User   == -1    \* a label map made by runtime/pprof, without goLabelsKey
LabelPtrs == Labels \cup {Nil, User}

(***************************************************************************)
(* A handler and a stored Data are named by the goroutine that passed them *)
(* to AtExit or Set and by the number of that call.                        *)
(***************************************************************************)
Handlers == Goids \X (1..MaxFuncs)
Items    == Goids \X (1..MaxItems)
NoItem   == <<0, 0>>

GlsData == [data : [Keys -> Items \cup {NoItem}], atExitFuncs : Seq(Handlers), done : BOOLEAN]

GoPcs    == {"idle", "create", "load", "cas", "act", "close"}
FinPcs   == {"free", "armed", "check", "labels",
             "regId", "regLabels", "regCheck", "regCas",
             "get", "take", "clear", "run", "close", "done"}
ResetPcs == {"take", "clear", "run", "close"}

\* An API call in progress: the glsData it works on, the label map pointer it
\* is about to replace, the Data it is about to close.
GoCall  == [pc : GoPcs, op : Calls \cup {"none"}, dm : Dms \cup {Nil},
            old : LabelPtrs, closing : SUBSET Items]
\* A finalizer call: the goid it has loaded, the pointer it is about to replace,
\* the glsData it has picked up and the handlers left to run.
FinCall == [pc : FinPcs, id : 0..MaxGoid, old : LabelPtrs, dm : Dms \cup {Nil},
            funcs : Seq(Handlers)]
LabelMap == [id : 0..MaxGoid, se : Shards, gp : 0..MaxGs]

VARIABLES
  \* runtime.g, external
  status,    \* Gs -> "running" | "dead"
  goid,      \* Gs -> goid of the last goroutine that ran on it, 0 if none did
  labels,    \* Gs -> label map pointer
  nextGoid,
  \* the package's memory
  labelMap,  \* Labels -> value under goLabelsKey, and what its finalizer captured
  slots,     \* globalSlots: Shards -> (Gs -> glsData pointer)
  dms,       \* the heap of glsData
  dmOwner,   \* Dms -> goid of the goroutine that allocated it, 0 if free
  \* control
  th,        \* Gs -> the API call in progress
  fin,       \* Labels -> the finalizer call, or the goroutine it started
  fing,      \* label map whose finalizer the finalizer goroutine is running
  \* what user code observes
  nitems, nfuncs, nprof,
  closed,    \* Data whose Close has reached its closer
  ran        \* handlers in the order they were called

runtimeVars == <<status, goid, labels, nextGoid>>
storeVars   == <<slots, dms, dmOwner>>
userVars    == <<nitems, nfuncs, nprof, closed, ran>>
vars == <<runtimeVars, labelMap, storeVars, th, fin, fing, userVars>>

TypeOK ==
  /\ status \in [Gs -> {"running", "dead"}]
  /\ goid \in [Gs -> 0..MaxGoid]
  /\ labels \in [Gs -> LabelPtrs]
  /\ nextGoid \in 1..(MaxGoid + 1)
  /\ labelMap \in [Labels -> LabelMap]
  /\ slots \in [Shards -> [Gs -> Dms \cup {Nil}]]
  /\ dms \in [Dms -> GlsData]
  /\ dmOwner \in [Dms -> 0..MaxGoid]
  /\ th \in [Gs -> GoCall]
  /\ fin \in [Labels -> FinCall]
  /\ fing \in Labels \cup {Nil}
  /\ nitems \in [Goids -> 0..MaxItems]
  /\ nfuncs \in [Goids -> 0..MaxFuncs]
  /\ nprof \in 0..MaxProf
  /\ closed \in SUBSET Items
  /\ ran \in Seq(Handlers)

Idle == [pc |-> "idle", op |-> "none", dm |-> Nil, old |-> Nil, closing |-> {}]
NoFinalizer == [pc |-> "free", id |-> 0, old |-> Nil, dm |-> Nil, funcs |-> <<>>]
newData == [data |-> [k \in Keys |-> NoItem], atExitFuncs |-> <<>>, done |-> FALSE]

(***************************************************************************)
(* Initially the package is initialised and only the main goroutine runs.  *)
(***************************************************************************)
Init ==
  /\ status = [p \in Gs |-> IF p = 1 THEN "running" ELSE "dead"]
  /\ goid = [p \in Gs |-> IF p = 1 THEN 1 ELSE 0]
  /\ labels = [p \in Gs |-> Nil]
  /\ nextGoid = 2
  /\ labelMap = [l \in Labels |-> [id |-> 0, se |-> 0, gp |-> Nil]]
  /\ slots = [s \in Shards |-> [p \in Gs |-> Nil]]
  /\ dms = [d \in Dms |-> newData]
  /\ dmOwner = [d \in Dms |-> 0]
  /\ th = [p \in Gs |-> Idle]
  /\ fin = [l \in Labels |-> NoFinalizer]
  /\ fing = Nil
  /\ nitems = [i \in Goids |-> 0]
  /\ nfuncs = [i \in Goids |-> 0]
  /\ nprof = 0
  /\ closed = {}
  /\ ran = <<>>
(***************************************************************************)
(* Helpers named after the functions of the package.                       *)
(***************************************************************************)
\* Faulty variant: every goroutine lands in the same shard.
findSlot_One(i) == 0

findSlot(i) == i % shardsCount

\* Faulty variant: an entry is looked up by its shard alone.
getGlsData_ByShard(s, p) ==
  IF \E q \in Gs : slots[s][q] # Nil
  THEN slots[s][CHOOSE q \in Gs : slots[s][q] # Nil] ELSE Nil

getGlsData(s, p) == slots[s][p]

\* The value under goLabelsKey in the label map that ptr points to, 0 if absent.
labelOf(ptr) == IF ptr \in Labels THEN labelMap[ptr].id ELSE 0

\* Data held by a glsData.
itemsOf(d) == {dms[d].data[k] : k \in Keys} \ {NoItem}

Running(i) == \E p \in Gs : status[p] = "running" /\ goid[p] = i

InCall(p, pc) == status[p] = "running" /\ th[p].pc = pc

\* Fresh addresses are interchangeable, so the least free one is taken.
FreshDm(d) == dmOwner[d] = 0 /\ \A e \in 1..(d - 1) : dmOwner[e] # 0
FreshLabel(l) == fin[l].pc = "free" /\ \A m \in 1..(l - 1) : fin[m].pc # "free"

(***************************************************************************)
(* The runtime and user code outside the package (external).               *)
(***************************************************************************)

\* A go statement of the goroutine on p starts a goroutine on h, which
\* inherits the label map pointer of its parent.
Spawn(p, h) ==
  /\ InCall(p, "idle")
  /\ status[h] = "dead"
  /\ \/ goid[h] = 0 /\ \A e \in 1..(h - 1) : goid[e] # 0
     \/ goid[h] # 0 /\ Reuse
  /\ nextGoid <= MaxGoid
  /\ status' = [status EXCEPT ![h] = "running"]
  /\ goid' = [goid EXCEPT ![h] = nextGoid]
  /\ labels' = [labels EXCEPT ![h] = labels[p]]
  /\ nextGoid' = nextGoid + 1
  /\ UNCHANGED <<labelMap, storeVars, th, fin, fing, userVars>>

\* The goroutine on p ends.  The main goroutine never does: the process ends.
Goexit(p) ==
  /\ InCall(p, "idle")
  /\ goid[p] # 1
  /\ status' = [status EXCEPT ![p] = "dead"]
  /\ labels' = [labels EXCEPT ![p] = Nil]
  /\ UNCHANGED <<goid, nextGoid, labelMap, storeVars, th, fin, fing, userVars>>

\* runtime/pprof replaces the labels of the goroutine on p: by a label set of
\* its own, or by nil when the context it restores carries no labels.
SetGoroutineLabels(p, ptr) ==
  /\ InCall(p, "idle")
  /\ \/ ptr = User /\ "SetLabels" \in Ops
     \/ ptr = Nil /\ "ClearLabels" \in Ops
  /\ labels[p] # ptr
  /\ nprof < MaxProf
  /\ labels' = [labels EXCEPT ![p] = ptr]
  /\ nprof' = nprof + 1
  /\ UNCHANGED <<status, goid, nextGoid, labelMap, storeVars, th, fin, fing,
                 nitems, nfuncs, closed, ran>>

\* A pointer to label map l is held by a g or by a registration in progress.
Reachable(l) ==
  \/ \E p \in Gs : labels[p] = l
  \/ \E p \in Gs : th[p].pc = "cas" /\ th[p].old = l
  \/ \E m \in Labels : fin[m].pc \in {"regCheck", "regCas"} /\ fin[m].old = l

(***************************************************************************)
(* An API call by the goroutine on p.  fetchDataMap and reset both begin   *)
(* by looking the glsData up under the read lock; what follows runs        *)
(* without it.                                                             *)
(***************************************************************************)
afterLookup(op, d) ==
  IF d # Nil THEN "act" ELSE IF op \in {"Set", "AtExit"} THEN "create" ELSE "idle"

fetchDataMap(p, op) ==
  /\ InCall(p, "idle")
  /\ goid[p] \in Callers
  /\ op \in Ops
  /\ op = "Set" => nitems[goid[p]] < MaxItems
  /\ op = "AtExit" => nfuncs[goid[p]] < MaxFuncs
  /\ LET d == getGlsData(findSlot(goid[p]), p)
         pc == afterLookup(op, d)
     IN  /\ pc # "idle"      \* no entry: Del, Reset and Unload return at once
         /\ th' = [th EXCEPT ![p] = [Idle EXCEPT !.pc = pc, !.op = op, !.dm = d]]
  /\ UNCHANGED <<runtimeVars, labelMap, storeVars, fin, fing, userVars>>

newGlsData(p, d) ==
  /\ InCall(p, "create")
  /\ FreshDm(d)
  /\ dmOwner' = [dmOwner EXCEPT ![d] = goid[p]]
  /\ dms' = [dms EXCEPT ![d] = newData]
  /\ slots' = [slots EXCEPT ![findSlot(goid[p])][p] = d]
  /\ th' = [th EXCEPT ![p].pc = "load", ![p].dm = d]
  /\ UNCHANGED <<runtimeVars, labelMap, fin, fing, userVars>>

(***************************************************************************)
(* registerFinalizer called by the goroutine itself (inGoroutine): load    *)
(* the labels, return if they carry this goroutine's id, else copy them,   *)
(* add the id and swap the pointer; start over if the swap fails.          *)
(***************************************************************************)
registerLoad(p) ==
  /\ InCall(p, "load")
  /\ th' = [th EXCEPT ![p].pc = IF labelOf(labels[p]) = goid[p] THEN "act" ELSE "cas",
                      ![p].old = IF labelOf(labels[p]) = goid[p] THEN Nil ELSE labels[p]]
  /\ UNCHANGED <<runtimeVars, labelMap, storeVars, fin, fing, userVars>>

\* A new label map for goroutine i is swapped into p with its finalizer set.
install(l, i, s, p) ==
  /\ FreshLabel(l)
  /\ labelMap' = [labelMap EXCEPT ![l] = [id |-> i, se |-> s, gp |-> p]]
  /\ labels' = [labels EXCEPT ![p] = l]

registerCas(p) ==
  /\ InCall(p, "cas")
  /\ labels[p] = th[p].old
  /\ \E l \in Labels :
       /\ install(l, goid[p], findSlot(goid[p]), p)
       /\ fin' = [fin EXCEPT ![l].pc = "armed"]
  /\ th' = [th EXCEPT ![p].pc = "act", ![p].old = Nil]
  /\ UNCHANGED <<status, goid, nextGoid, storeVars, fing, userVars>>

registerRetry(p) ==
  /\ InCall(p, "cas")
  /\ labels[p] # th[p].old
  /\ th' = [th EXCEPT ![p].pc = "load", ![p].old = Nil]
  /\ UNCHANGED <<runtimeVars, labelMap, storeVars, fin, fing, userVars>>

(***************************************************************************)
(* The body of each API function, on the glsData the lookup returned.      *)
(***************************************************************************)
Acting(p, op) == InCall(p, "act") /\ th[p].op = op

Set(p, key) ==
  LET i == goid[p]
      d == th[p].dm
  IN  /\ Acting(p, "Set")
      /\ nitems' = [nitems EXCEPT ![i] = @ + 1]
      /\ dms' = [dms EXCEPT ![d].data[key] = <<i, nitems[i] + 1>>]
      /\ th' = [th EXCEPT ![p] = Idle]
      /\ UNCHANGED <<runtimeVars, labelMap, slots, dmOwner, fin, fing,
                     nfuncs, nprof, closed, ran>>

AtExit(p) ==
  LET i == goid[p]
      d == th[p].dm
  IN  /\ Acting(p, "AtExit")
      /\ nfuncs' = [nfuncs EXCEPT ![i] = @ + 1]
      /\ dms' = [dms EXCEPT ![d].atExitFuncs = Append(@, <<i, nfuncs[i] + 1>>)]
      /\ th' = [th EXCEPT ![p] = Idle]
      /\ UNCHANGED <<runtimeVars, labelMap, slots, dmOwner, fin, fing,
                     nitems, nprof, closed, ran>>

Del(p, key) ==
  /\ Acting(p, "Del")
  /\ dms' = [dms EXCEPT ![th[p].dm].data[key] = NoItem]
  /\ th' = [th EXCEPT ![p] = Idle]
  /\ UNCHANGED <<runtimeVars, labelMap, slots, dmOwner, fin, fing, userVars>>

\* reset(se, gp, complete): nothing if the exit of this glsData has begun
\* (done), else drop the map (Reset) or the whole entry (Unload), then close
\* what the map held.  routineUnhack does nothing in this build.
alreadyReset(p) ==
  /\ InCall(p, "act")
  /\ th[p].op \in {"Reset", "Unload"}
  /\ dms[th[p].dm].done
  /\ th' = [th EXCEPT ![p] = Idle]
  /\ UNCHANGED <<runtimeVars, labelMap, storeVars, fin, fing, userVars>>

\* Faulty variants: the map is not replaced, becomes nil, or the whole glsData
\* is replaced.
resetData_Keep(d) == dms
resetData_Nil(d)  == [dms EXCEPT ![d].data = <<>>]
resetData_All(d)  == [dms EXCEPT ![d] = newData]

resetData(d) == [dms EXCEPT ![d].data = newData.data]

Reset(p) ==
  LET d == th[p].dm
  IN  /\ Acting(p, "Reset")
      /\ ~dms[d].done
      /\ dms' = resetData(d)
      /\ th' = [th EXCEPT ![p] = [Idle EXCEPT !.pc = "close", !.closing = itemsOf(d)]]
      /\ UNCHANGED <<runtimeVars, labelMap, slots, dmOwner, fin, fing, userVars>>

\* Faulty variant: the entry stays.
delGlsData_Keep(s, p) == slots

delGlsData(s, p) == [slots EXCEPT ![s][p] = Nil]

Unload(p) ==
  LET d == th[p].dm
  IN  /\ Acting(p, "Unload")
      /\ ~dms[d].done
      /\ slots' = delGlsData(findSlot(goid[p]), p)
      /\ th' = [th EXCEPT ![p] = [Idle EXCEPT !.pc = "close", !.closing = itemsOf(d)]]
      /\ UNCHANGED <<runtimeVars, labelMap, dms, dmOwner, fin, fing, userVars>>

\* safeClose on each Data of the dropped map.  dataImpl.Close forgets its
\* closer first, so a second Close of the same Data has no effect.
closeData(p) ==
  /\ InCall(p, "close")
  /\ closed' = closed \cup th[p].closing
  /\ th' = [th EXCEPT ![p] = Idle]
  /\ UNCHANGED <<runtimeVars, labelMap, storeVars, fin, fing, nitems, nfuncs, nprof, ran>>

(***************************************************************************)
(* finalize(se, gp), run by the finalizer goroutine once label map l is    *)
(* garbage.  The goid is loaded first; then the status and the goid again  *)
(* (goids never come back, so these two loads are one step); then the      *)
(* labels.                                                                 *)
(***************************************************************************)
Gone(l) ==
  LET p == labelMap[l].gp IN status[p] = "dead" \/ goid[p] # fin[l].id

finalize(l) ==
  /\ fin[l].pc = "armed"
  /\ ~Reachable(l)
  /\ fing = Nil
  /\ fing' = l
  /\ fin' = [fin EXCEPT ![l].pc = "check", ![l].id = goid[labelMap[l].gp]]
  /\ UNCHANGED <<runtimeVars, labelMap, storeVars, th, userVars>>

finalizeCheck(l) ==
  /\ fin[l].pc = "check"
  /\ fin' = [fin EXCEPT ![l].pc = IF Gone(l) THEN "get" ELSE "labels"]
  /\ UNCHANGED <<runtimeVars, labelMap, storeVars, th, fing, userVars>>

\* No labels: taken for an exit.  Else "maybe others (pprof) replaced our
\* labels": a goroutine is started to register again.
finalizeLabels(l) ==
  LET ptr == labels[labelMap[l].gp]
  IN  /\ fin[l].pc = "labels"
      /\ fin' = [fin EXCEPT ![l].pc = IF ptr = Nil THEN "get" ELSE "regId"]
      /\ fing' = IF ptr = Nil THEN fing ELSE Nil
      /\ UNCHANGED <<runtimeVars, labelMap, storeVars, th, userVars>>

(***************************************************************************)
(* registerFinalizer(se, gp, false) by that goroutine.  It gives up, and   *)
(* the caller runs resetAtExit, when the goroutine seems to be gone or its *)
(* labels carry another goroutine's id.                                    *)
(***************************************************************************)
regId(l) ==
  /\ fin[l].pc = "regId"
  /\ fin' = [fin EXCEPT ![l].pc = "regLabels", ![l].id = goid[labelMap[l].gp]]
  /\ UNCHANGED <<runtimeVars, labelMap, storeVars, th, fing, userVars>>

regLabels(l) ==
  /\ fin[l].pc = "regLabels"
  /\ fin' = [fin EXCEPT ![l].pc = "regCheck", ![l].old = labels[labelMap[l].gp]]
  /\ UNCHANGED <<runtimeVars, labelMap, storeVars, th, fing, userVars>>

\* Faulty variants: replaced labels are taken for an exit, or are left alone.
regOutcome_GiveUp(l) ==
  IF ~Gone(l) /\ labelOf(fin[l].old) = fin[l].id THEN "done" ELSE "get"
regOutcome_Ignore(l) ==
  IF Gone(l) \/ fin[l].old = Nil THEN "get" ELSE "done"

regOutcome(l) ==
  LET oldID == labelOf(fin[l].old)
  IN  IF Gone(l) \/ fin[l].old = Nil THEN "get"
      ELSE IF oldID = fin[l].id THEN "done"
      ELSE IF oldID # 0 THEN "get" ELSE "regCas"

regCheck(l) ==
  /\ fin[l].pc = "regCheck"
  /\ fin' = [fin EXCEPT ![l].pc = regOutcome(l),
                        ![l].old = IF regOutcome(l) = "regCas" THEN @ ELSE Nil]
  /\ UNCHANGED <<runtimeVars, labelMap, storeVars, th, fing, userVars>>

regCas(l) ==
  LET p == labelMap[l].gp
  IN  /\ fin[l].pc = "regCas"
      /\ labels[p] = fin[l].old
      /\ \E m \in Labels :
           /\ install(m, fin[l].id, labelMap[l].se, p)
           /\ fin' = [fin EXCEPT ![l].pc = "done", ![l].old = Nil, ![m].pc = "armed"]
      /\ UNCHANGED <<status, goid, nextGoid, storeVars, th, fing, userVars>>

regRetry(l) ==
  /\ fin[l].pc = "regCas"
  /\ labels[labelMap[l].gp] # fin[l].old
  /\ fin' = [fin EXCEPT ![l].pc = "regId", ![l].old = Nil]
  /\ UNCHANGED <<runtimeVars, labelMap, storeVars, th, fing, userVars>>

(***************************************************************************)
(* resetAtExit(se, gp), by the finalizer goroutine or by the goroutine it  *)
(* started.  The fields of the glsData are not protected by a lock: the    *)
(* read of atExitFuncs and the writes that follow are separate steps.      *)
(***************************************************************************)
release(l) == IF fing = l THEN Nil ELSE fing

resetGet(l) ==
  LET d == getGlsData(labelMap[l].se, labelMap[l].gp)
  IN  /\ fin[l].pc = "get"
      /\ fin' = [fin EXCEPT ![l].pc = IF d = Nil THEN "done" ELSE "take", ![l].dm = d]
      /\ fing' = IF d = Nil THEN release(l) ELSE fing
      /\ UNCHANGED <<runtimeVars, labelMap, storeVars, th, userVars>>

resetTake(l) ==
  /\ fin[l].pc = "take"
  /\ fin' = [fin EXCEPT ![l].pc = "clear", ![l].funcs = dms[fin[l].dm].atExitFuncs]
  /\ UNCHANGED <<runtimeVars, labelMap, storeVars, th, fing, userVars>>

resetClear(l) ==
  /\ fin[l].pc = "clear"
  /\ dms' = [dms EXCEPT ![fin[l].dm].atExitFuncs = <<>>, ![fin[l].dm].done = TRUE]
  /\ fin' = [fin EXCEPT ![l].pc = "run"]
  /\ UNCHANGED <<runtimeVars, labelMap, slots, dmOwner, th, fing, userVars>>

\* safeRun on the last function left; a panic in it is swallowed.
\* Faulty variant: first in, first out.
lastFunc_First(funcs) == 1

lastFunc(funcs) == Len(funcs)

resetRun(l) ==
  LET funcs == fin[l].funcs
      n == lastFunc(funcs)
  IN  /\ fin[l].pc = "run"
      /\ funcs # <<>>
      /\ ran' = Append(ran, funcs[n])
      /\ fin' = [fin EXCEPT ![l].funcs = SubSeq(@, 1, n - 1) \o SubSeq(@, n + 1, Len(@))]
      /\ UNCHANGED <<runtimeVars, labelMap, storeVars, th, fing, nitems, nfuncs, nprof, closed>>

resetDel(l) ==
  /\ fin[l].pc = "run"
  /\ fin[l].funcs = <<>>
  /\ slots' = delGlsData(labelMap[l].se, labelMap[l].gp)
  /\ fin' = [fin EXCEPT ![l].pc = "close"]
  /\ UNCHANGED <<runtimeVars, labelMap, dms, dmOwner, th, fing, userVars>>

resetClose(l) ==
  /\ fin[l].pc = "close"
  /\ closed' = closed \cup itemsOf(fin[l].dm)
  /\ fin' = [fin EXCEPT ![l].pc = "done", ![l].dm = Nil]
  /\ fing' = release(l)
  /\ UNCHANGED <<runtimeVars, labelMap, storeVars, th, nitems, nfuncs, nprof, ran>>

-----------------------------------------------------------------------------
\* The steps of an API call after it has begun.
CallStep(p) ==
  \/ \E d \in Dms : newGlsData(p, d)
  \/ registerLoad(p) \/ registerCas(p) \/ registerRetry(p)
  \/ \E k \in Keys : Set(p, k) \/ Del(p, k)
  \/ AtExit(p) \/ Reset(p) \/ Unload(p) \/ alreadyReset(p) \/ closeData(p)

\* The steps of the finalizer of label map l.
FinalizerStep(l) ==
  \/ finalize(l) \/ finalizeCheck(l) \/ finalizeLabels(l)
  \/ regId(l) \/ regLabels(l) \/ regCheck(l) \/ regCas(l) \/ regRetry(l)
  \/ resetGet(l) \/ resetTake(l) \/ resetClear(l) \/ resetRun(l)
  \/ resetDel(l) \/ resetClose(l)

Environment(p) ==
  \/ \E h \in Gs : Spawn(p, h)
  \/ Goexit(p)
  \/ \E ptr \in {User, Nil} : SetGoroutineLabels(p, ptr)
  \/ \E op \in Calls : fetchDataMap(p, op)

Next ==
  \/ \E p \in Gs : Environment(p) \/ CallStep(p)
  \/ \E l \in Labels : FinalizerStep(l)

Spec == Init /\ [][Next]_vars

(***************************************************************************)
(* What the runtime would have to do for the package to work when it       *)
(* recycles a g: a goroutine starts on a g only if its shard has no entry  *)
(* for that g (VacantStart) and the finalizers that this shard's earlier   *)
(* goroutines on it have left are through, none of them, nor any of        *)
(* another shard, about to swap labels on that g (ApartStart).             *)
(***************************************************************************)
VacantStart ==
  \A h \in Gs : goid'[h] # goid[h] => slots[findSlot(goid'[h])][h] = Nil

Active(l) == fin[l].pc \notin {"free", "done"}

ApartStart ==
  /\ VacantStart
  /\ \A h \in Gs, l \in Labels :
       goid'[h] # goid[h] /\ labelMap[l].gp = h /\ Active(l) =>
         labelMap[l].se # findSlot(goid'[h]) /\ fin[l].pc # "regCas"

ApartNext ==
  \/ \E p \in Gs : (Environment(p) /\ ApartStart) \/ CallStep(p)
  \/ \E l \in Labels : FinalizerStep(l)

ApartSpec == Init /\ [][ApartNext]_vars

(***************************************************************************)
(* Fairness: a goroutine inside the package is scheduled again, the garbage*)
(* collector eventually finds an unreachable label map, the finalizer      *)
(* goroutine and the goroutines it starts are scheduled.  User code owes   *)
(* nothing: it need not call, spawn or exit.                               *)
(***************************************************************************)
FairSpec ==
  /\ Spec
  /\ \A p \in Gs : WF_vars(CallStep(p))
  /\ \A l \in Labels : WF_vars(FinalizerStep(l))

-----------------------------------------------------------------------------
(***************************************************************************)
(* What the package promises.                                              *)
(***************************************************************************)

Started(i) == i < nextGoid
Exited(i) == Started(i) /\ ~Running(i)

\* Get(key) called by the goroutine on p.
Get(p, key) ==
  LET d == getGlsData(findSlot(goid[p]), p)
  IN  IF d = Nil THEN NoItem ELSE dms[d].data[key]

\* The goroutines whose handlers or data the exit procedure of l works on.
exitOf(l) ==
  {fin[l].funcs[n][1] : n \in DOMAIN fin[l].funcs}
    \cup {dms[fin[l].dm].atExitFuncs[n][1] : n \in DOMAIN dms[fin[l].dm].atExitFuncs}
    \cup {it[1] : it \in itemsOf(fin[l].dm)}

(***************************************************************************)
(* "AtExit runs f when current goroutine is exiting" (gls.go:69): once     *)
(* resetAtExit has picked up a glsData, every goroutine whose handlers or  *)
(* data it is about to run and close has ended.                            *)
(***************************************************************************)
NoPrematureExit ==
  \A l \in Labels : fin[l].pc \in ResetPcs => \A i \in exitOf(l) : ~Running(i)

(***************************************************************************)
(* "goroutine local": Get never returns data that another goroutine, such  *)
(* as an earlier one on the same g, has stored.                            *)
(***************************************************************************)
Isolation ==
  \A p \in Gs, k \in Keys :
    status[p] = "running" /\ Get(p, k) # NoItem => Get(p, k)[1] = goid[p]

(***************************************************************************)
(* What Isolation comes to when a g may be recycled with an entry left:    *)
(* Get returns the data of the calling goroutine, or of an ended one of    *)
(* its shard, never those of a goroutine that still runs.                  *)
(***************************************************************************)
OnlyInherited ==
  \A p \in Gs, k \in Keys :
    status[p] = "running" /\ Get(p, k) # NoItem =>
      LET i == Get(p, k)[1]
      IN  i = goid[p] \/ (Exited(i) /\ findSlot(i) = findSlot(goid[p]))

(***************************************************************************)
(* No use after Close: data that Reset, Unload or resetAtExit has closed   *)
(* is never returned by a later Get.                                       *)
(***************************************************************************)
NoClosedDataVisible ==
  \A p \in Gs, k \in Keys : status[p] = "running" => Get(p, k) \notin closed

(***************************************************************************)
(* "The f is called in FILO order" (gls.go:70), and no f is called twice:  *)
(* of two calls made for one goroutine the later one is of an earlier f.   *)
(***************************************************************************)
RanOnceInFiloOrder ==
  \A a, b \in DOMAIN ran : a < b /\ ran[a][1] = ran[b][1] => ran[a][2] > ran[b][2]

(***************************************************************************)
(* No handler is dropped: without Unload, a handler passed to AtExit has   *)
(* run, or is held by the glsData found for its goroutine, or by an exit   *)
(* procedure that is about to run it.                                      *)
(***************************************************************************)
NoHandlerLost ==
  \A i \in Goids : \A n \in 1..nfuncs[i] :
    \/ \E a \in DOMAIN ran : ran[a] = <<i, n>>
    \/ \E p \in Gs : LET d == getGlsData(findSlot(i), p)
                    IN  /\ d # Nil
                        /\ \E a \in DOMAIN dms[d].atExitFuncs : dms[d].atExitFuncs[a] = <<i, n>>
    \/ \E l \in Labels : \E a \in DOMAIN fin[l].funcs : fin[l].funcs[a] = <<i, n>>

\* All handlers of i have run and no entry of the store holds data of i.
Released(i) ==
  /\ \A n \in 1..nfuncs[i] : \E a \in DOMAIN ran : ran[a] = <<i, n>>
  /\ \A s \in Shards, p \in Gs :
       slots[s][p] # Nil => \A it \in itemsOf(slots[s][p]) : it[1] # i

(***************************************************************************)
(* "release all resources at goroutine exit" (gls_slot.go:7): when all     *)
(* goroutines but main end, the handlers of every ended goroutine run and  *)
(* its data is dropped, eventually.  (A child of it that lives on keeps    *)
(* its label map reachable, so one exit alone is not enough.)              *)
(***************************************************************************)
OnlyMain == \A p \in Gs : status[p] = "running" => goid[p] = 1
ReleasedOnceAllExit == <>[]OnlyMain => \A i \in Goids : Exited(i) ~> Released(i)
=============================================================================
