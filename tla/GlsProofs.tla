----------------------------- MODULE GlsProofs -----------------------------
(***************************************************************************)
(* Theorems about Gls, for every value of its constants.                   *)
(***************************************************************************)
EXTENDS Gls, TLAPS, SequenceTheorems

(***************************************************************************)
(* Type correctness.  TypeOK is not inductive: an address used by a step   *)
(* must have been set by an earlier one, and the number of a call must     *)
(* have been checked when the call began, while no other goroutine can     *)
(* count calls under the same goid.                                        *)
(***************************************************************************)
GoidInv ==
  /\ \A p \in Gs : goid[p] < nextGoid /\ (status[p] = "running" => goid[p] # 0)
  /\ \A p, q \in Gs : p # q /\ goid[p] = goid[q] => goid[p] = 0

CallInv ==
  \A p \in Gs :
    /\ th[p].pc # "idle" => status[p] = "running"
    /\ th[p].pc \in {"load", "cas", "act"} => th[p].dm \in Dms
    /\ th[p].op # "none" => th[p].pc # "idle"
    /\ th[p].op = "Set" => nitems[goid[p]] < MaxItems
    /\ th[p].op = "AtExit" => nfuncs[goid[p]] < MaxFuncs

FinInv ==
  \A l \in Labels :
    /\ fin[l].pc # "free" => labelMap[l].gp \in Gs
    /\ fin[l].pc \in ResetPcs => fin[l].dm \in Dms

TypeInv == TypeOK /\ GoidInv /\ CallInv /\ FinInv

LEMMA FindSlotType ==
  ASSUME NEW i \in Nat PROVE findSlot(i) \in Shards
BY GlsConstants DEF findSlot, Shards

LEMMA ItemsOfType ==
  ASSUME TypeOK, NEW d \in Dms PROVE itemsOf(d) \in SUBSET Items
BY DEF TypeOK, itemsOf, GlsData

LEMMA TypeInvInit == Init => TypeInv
<1> SUFFICES ASSUME Init PROVE TypeInv
  OBVIOUS
<1>1. TypeOK
  BY GlsConstants DEF Init, TypeOK, Gs, Goids, Shards, Dms, Labels, LabelPtrs, GlsData, newData,
     Idle, NoFinalizer, GoCall, FinCall, LabelMap, GoPcs, FinPcs, Nil, User, Calls
<1>2. GoidInv
  BY DEF Init, GoidInv, Gs
<1>3. CallInv
  BY DEF Init, CallInv, Idle
<1>4. FinInv
  BY DEF Init, FinInv, NoFinalizer, ResetPcs
<1> QED
  BY <1>1, <1>2, <1>3, <1>4 DEF TypeInv

LEMMA TypeInvStep == TypeInv /\ [Next]_vars => TypeInv'
<1> SUFFICES ASSUME TypeInv, [Next]_vars PROVE TypeInv'
  OBVIOUS
<1> USE GlsConstants DEF TypeInv
<1>0. ASSUME UNCHANGED vars PROVE TypeInv'
  BY <1>0 DEF vars, runtimeVars, storeVars, userVars, TypeOK, GoidInv, CallInv, FinInv
<1>1. ASSUME NEW p \in Gs, NEW h \in Gs, Spawn(p, h) PROVE TypeInv'
  <2>1. status' \in [Gs -> {"running", "dead"}]
    BY <1>1 DEF Spawn, TypeOK
  <2>2. goid' \in [Gs -> 0..MaxGoid] /\ nextGoid' \in 1..(MaxGoid + 1)
    BY <1>1 DEF Spawn, TypeOK
  <2>3. labels' \in [Gs -> LabelPtrs]
    BY <1>1 DEF Spawn, TypeOK
  <2>4. TypeOK'
    BY <1>1 DEF Spawn, TypeOK, storeVars, userVars
  <2>5. GoidInv'
    BY <1>1 DEF Spawn, GoidInv, TypeOK
  <2>6. CallInv'
    BY <1>1 DEF Spawn, CallInv, GoidInv, TypeOK, InCall, Idle, userVars
  <2>7. FinInv'
    BY <1>1 DEF Spawn, FinInv
  <2> QED
    BY <2>4, <2>5, <2>6, <2>7
<1>2. ASSUME NEW p \in Gs, Goexit(p) PROVE TypeInv'
  <2>1. labels' \in [Gs -> LabelPtrs] /\ status' \in [Gs -> {"running", "dead"}]
    BY <1>2 DEF Goexit, TypeOK, LabelPtrs
  <2>2. TypeOK'
    BY <1>2, <2>1 DEF Goexit, TypeOK, storeVars, userVars
  <2>3. GoidInv'
    BY <1>2 DEF Goexit, GoidInv, TypeOK
  <2>4. CallInv'
    BY <1>2 DEF Goexit, CallInv, GoidInv, TypeOK, InCall, userVars
  <2>5. FinInv'
    BY <1>2 DEF Goexit, FinInv
  <2> QED
    BY <2>2, <2>3, <2>4, <2>5
<1>3. ASSUME NEW p \in Gs, NEW ptr \in {User, Nil}, SetGoroutineLabels(p, ptr) PROVE TypeInv'
  <2>1. labels' \in [Gs -> LabelPtrs] /\ nprof' \in 0..MaxProf
    BY <1>3 DEF SetGoroutineLabels, TypeOK, LabelPtrs
  <2>2. TypeOK'
    BY <1>3, <2>1 DEF SetGoroutineLabels, TypeOK, storeVars
  <2>3. GoidInv'
    BY <1>3 DEF SetGoroutineLabels, GoidInv
  <2>4. CallInv'
    BY <1>3 DEF SetGoroutineLabels, CallInv
  <2>5. FinInv'
    BY <1>3 DEF SetGoroutineLabels, FinInv
  <2> QED
    BY <2>2, <2>3, <2>4, <2>5
<1>4. ASSUME NEW p \in Gs, NEW op \in Calls, fetchDataMap(p, op) PROVE TypeInv'
  <2>1. findSlot(goid[p]) \in Shards
    BY FindSlotType DEF TypeOK
  <2>2. getGlsData(findSlot(goid[p]), p) \in Dms \cup {Nil}
    BY <2>1 DEF TypeOK, getGlsData
  <2>3. Idle \in GoCall
    BY DEF Idle, GoCall, GoPcs, LabelPtrs
  <2>4. th' \in [Gs -> GoCall]
    BY <1>4, <2>2, <2>3 DEF fetchDataMap, TypeOK, GoCall, GoPcs, afterLookup
  <2>5. TypeOK'
    BY <1>4, <2>4 DEF fetchDataMap, TypeOK, runtimeVars, storeVars, userVars
  <2>6. GoidInv'
    BY <1>4 DEF fetchDataMap, GoidInv, runtimeVars
  <2>7. CallInv'
    <3>1. UNCHANGED <<status, goid, nitems, nfuncs>>
      BY <1>4 DEF fetchDataMap, runtimeVars, userVars
    <3>2. \A q \in Gs \ {p} : th'[q] = th[q]
      BY <1>4 DEF fetchDataMap, TypeOK
    <3>3. /\ th'[p].op = op
          /\ th'[p].pc # "idle"
          /\ th'[p].pc \in {"load", "cas", "act"} => th'[p].dm \in Dms
      BY <1>4, <2>2 DEF fetchDataMap, afterLookup, Idle, TypeOK
    <3>4. /\ status[p] = "running"
          /\ op = "Set" => nitems[goid[p]] < MaxItems
          /\ op = "AtExit" => nfuncs[goid[p]] < MaxFuncs
      BY <1>4 DEF fetchDataMap, InCall
    <3> QED
      BY <3>1, <3>2, <3>3, <3>4 DEF CallInv
  <2>8. FinInv'
    BY <1>4 DEF fetchDataMap, FinInv
  <2> QED
    BY <2>5, <2>6, <2>7, <2>8
<1>5. ASSUME NEW p \in Gs, NEW d \in Dms, newGlsData(p, d) PROVE TypeInv'
  <2>1. goid[p] \in 0..MaxGoid /\ findSlot(goid[p]) \in Shards
    BY FindSlotType DEF TypeOK
  <2>2. newData \in GlsData
    BY <2>1 DEF newData, GlsData
  <2>3. dmOwner' \in [Dms -> 0..MaxGoid] /\ dms' \in [Dms -> GlsData]
    BY <1>5, <2>2 DEF newGlsData, TypeOK
  <2>4. slots' \in [Shards -> [Gs -> Dms \cup {Nil}]]
    BY <1>5 DEF newGlsData, TypeOK
  <2>5. th' \in [Gs -> GoCall]
    <3>1. th[p] \in GoCall
      BY DEF TypeOK
    <3>2. [th[p] EXCEPT !.pc = "load", !.dm = d] \in GoCall
      BY <3>1 DEF GoCall, GoPcs
    <3>3. th' = [th EXCEPT ![p] = [th[p] EXCEPT !.pc = "load", !.dm = d]]
      BY <1>5 DEF newGlsData, TypeOK
    <3> QED
      BY <3>2, <3>3 DEF TypeOK
  <2>0. UNCHANGED <<status, goid, labels, nextGoid, labelMap, fin, fing,
                    nitems, nfuncs, nprof, closed, ran>>
    BY <1>5 DEF newGlsData, runtimeVars, userVars
  <2>6. TypeOK'
    BY <2>0, <2>3, <2>4, <2>5 DEF TypeOK
  <2>7. GoidInv'
    BY <2>0 DEF GoidInv
  <2>8. CallInv'
    <3>1. \A q \in Gs \ {p} : th'[q] = th[q]
      BY <1>5 DEF newGlsData, TypeOK
    <3>2. th'[p].pc = "load" /\ th'[p].dm = d /\ th'[p].op = th[p].op
      BY <1>5 DEF newGlsData, TypeOK, GoCall
    <3>3. status[p] = "running"
      BY <1>5 DEF newGlsData, InCall
    <3> QED
      BY <2>0, <3>1, <3>2, <3>3 DEF CallInv
  <2>9. FinInv'
    BY <1>5 DEF newGlsData, FinInv
  <2> QED
    BY <2>6, <2>7, <2>8, <2>9
<1>6. ASSUME NEW p \in Gs, registerLoad(p) PROVE TypeInv'
  <2>1. th[p] \in GoCall /\ labels[p] \in LabelPtrs /\ Nil \in LabelPtrs
    BY DEF TypeOK, LabelPtrs, Nil
  <2>2. th' \in [Gs -> GoCall]
    BY <1>6, <2>1 DEF registerLoad, TypeOK, GoCall, GoPcs
  <2>0. UNCHANGED <<status, goid, labels, nextGoid, labelMap, slots, dms, dmOwner, fin, fing,
                    nitems, nfuncs, nprof, closed, ran>>
    BY <1>6 DEF registerLoad, runtimeVars, storeVars, userVars
  <2>3. TypeOK'
    BY <2>0, <2>2 DEF TypeOK
  <2>4. GoidInv'
    BY <2>0 DEF GoidInv
  <2>5. CallInv'
    <3>1. \A q \in Gs \ {p} : th'[q] = th[q]
      BY <1>6 DEF registerLoad, TypeOK
    <3>2. th'[p].pc \in {"act", "cas"} /\ th'[p].dm = th[p].dm /\ th'[p].op = th[p].op
      BY <1>6 DEF registerLoad, TypeOK, GoCall
    <3>3. status[p] = "running" /\ th[p].dm \in Dms
      BY <1>6 DEF registerLoad, InCall, CallInv
    <3> QED
      BY <2>0, <3>1, <3>2, <3>3 DEF CallInv
  <2>6. FinInv'
    BY <1>6 DEF registerLoad, FinInv
  <2> QED
    BY <2>3, <2>4, <2>5, <2>6
<1>7. ASSUME NEW p \in Gs, registerRetry(p) PROVE TypeInv'
  <2>1. th[p] \in GoCall /\ labels[p] \in LabelPtrs /\ Nil \in LabelPtrs
    BY DEF TypeOK, LabelPtrs, Nil
  <2>2. th' \in [Gs -> GoCall]
    BY <1>7, <2>1 DEF registerRetry, TypeOK, GoCall, GoPcs
  <2>0. UNCHANGED <<status, goid, labels, nextGoid, labelMap, slots, dms, dmOwner, fin, fing,
                    nitems, nfuncs, nprof, closed, ran>>
    BY <1>7 DEF registerRetry, runtimeVars, storeVars, userVars
  <2>3. TypeOK'
    BY <2>0, <2>2 DEF TypeOK
  <2>4. GoidInv'
    BY <2>0 DEF GoidInv
  <2>5. CallInv'
    <3>1. \A q \in Gs \ {p} : th'[q] = th[q]
      BY <1>7 DEF registerRetry, TypeOK
    <3>2. th'[p].pc \in {"load"} /\ th'[p].dm = th[p].dm /\ th'[p].op = th[p].op
      BY <1>7 DEF registerRetry, TypeOK, GoCall
    <3>3. status[p] = "running" /\ th[p].dm \in Dms
      BY <1>7 DEF registerRetry, InCall, CallInv
    <3> QED
      BY <2>0, <3>1, <3>2, <3>3 DEF CallInv
  <2>6. FinInv'
    BY <1>7 DEF registerRetry, FinInv
  <2> QED
    BY <2>3, <2>4, <2>5, <2>6
<1>8. ASSUME NEW p \in Gs, registerCas(p) PROVE TypeInv'
  <2>1. th[p] \in GoCall /\ labels[p] \in LabelPtrs /\ Nil \in LabelPtrs
    BY DEF TypeOK, LabelPtrs, Nil
  <2>2. goid[p] \in 0..MaxGoid /\ findSlot(goid[p]) \in Shards
    BY <2>1, FindSlotType DEF TypeOK
  <2>3. th' \in [Gs -> GoCall]
    BY <1>8, <2>1 DEF registerCas, TypeOK, GoCall, GoPcs
  <2>4. labels' \in [Gs -> LabelPtrs]
    BY <1>8 DEF registerCas, install, TypeOK, LabelPtrs
  <2>5. labelMap' \in [Labels -> LabelMap]
    <3>1. PICK l \in Labels :
            labelMap' = [labelMap EXCEPT ![l] = [id |-> goid[p], se |-> findSlot(goid[p]), gp |-> p]]
      BY <1>8 DEF registerCas, install
    <3>2. [id |-> goid[p], se |-> findSlot(goid[p]), gp |-> p] \in LabelMap
      BY <2>2 DEF LabelMap, Gs
    <3> QED
      BY <3>1, <3>2 DEF TypeOK
  <2>6. fin' \in [Labels -> FinCall]
    <3>1. PICK l \in Labels : fin' = [fin EXCEPT ![l].pc = "armed"]
      BY <1>8 DEF registerCas
    <3>2. fin[l] \in FinCall
      BY DEF TypeOK
    <3> QED
      BY <3>1, <3>2 DEF TypeOK, FinCall, FinPcs
  <2>0. UNCHANGED <<status, goid, nextGoid, slots, dms, dmOwner, fing,
                    nitems, nfuncs, nprof, closed, ran>>
    BY <1>8 DEF registerCas, storeVars, userVars
  <2>7. TypeOK'
    BY <2>0, <2>3, <2>4, <2>5, <2>6 DEF TypeOK
  <2>8. GoidInv'
    BY <2>0 DEF GoidInv
  <2>9. CallInv'
    <3>1. \A q \in Gs \ {p} : th'[q] = th[q]
      BY <1>8 DEF registerCas, TypeOK
    <3>2. th'[p].pc = "act" /\ th'[p].dm = th[p].dm /\ th'[p].op = th[p].op
      BY <1>8 DEF registerCas, TypeOK, GoCall
    <3>3. status[p] = "running" /\ th[p].dm \in Dms
      BY <1>8 DEF registerCas, InCall, CallInv
    <3> QED
      BY <2>0, <3>1, <3>2, <3>3 DEF CallInv
  <2>10. FinInv'
    <3>1. PICK l \in Labels : /\ install(l, goid[p], findSlot(goid[p]), p)
                              /\ fin' = [fin EXCEPT ![l].pc = "armed"]
      BY <1>8 DEF registerCas
    <3>2. fin'[l].pc = "armed" /\ labelMap'[l].gp = p
      BY <3>1 DEF install, TypeOK, FinCall
    <3>3. \A m \in Labels \ {l} : fin'[m] = fin[m] /\ labelMap'[m] = labelMap[m]
      BY <3>1 DEF install, TypeOK
    <3> QED
      BY <3>2, <3>3 DEF FinInv, ResetPcs
  <2> QED
    BY <2>7, <2>8, <2>9, <2>10
<1>9. ASSUME NEW p \in Gs, NEW k \in Keys, Set(p, k) PROVE TypeInv'
  <2>1. Idle \in GoCall
    BY DEF Idle, GoCall, GoPcs, LabelPtrs
  <2>2. goid[p] \in Goids /\ nitems[goid[p]] \in Nat /\ nitems[goid[p]] < MaxItems
    <3>1. status[p] = "running" /\ th[p].op = "Set"
      BY <1>9 DEF Set, Acting, InCall
    <3>2. goid[p] # 0 /\ nitems[goid[p]] < MaxItems
      BY <3>1 DEF GoidInv, CallInv
    <3>3. goid[p] \in Goids
      BY <3>2 DEF TypeOK, Goids
    <3> QED
      BY <3>2, <3>3 DEF TypeOK
  <2>3. <<goid[p], nitems[goid[p]] + 1>> \in Items
    BY <2>2 DEF Items
  <2>4. th' \in [Gs -> GoCall]
    BY <1>9, <2>1 DEF Set, TypeOK
  <2>5. nitems' \in [Goids -> 0..MaxItems]
    <3>1. nitems' = [nitems EXCEPT ![goid[p]] = @ + 1]
      BY <1>9 DEF Set
    <3> QED
      BY <3>1, <2>2 DEF TypeOK
  <2>6. dms' \in [Dms -> GlsData]
    <3> DEFINE d == th[p].dm
               it == <<goid[p], nitems[goid[p]] + 1>>
               r == [dms[d] EXCEPT !.data = [dms[d].data EXCEPT ![k] = it]]
    <3>1. d \in Dms
      BY <1>9 DEF Set, Acting, InCall, CallInv
    <3>2. dms' = [dms EXCEPT ![d] = r]
      BY <1>9 DEF Set, TypeOK
    <3>3. dms[d] \in GlsData /\ it \in Items
      BY <3>1, <2>3 DEF TypeOK
    <3>4. r \in GlsData
      BY <3>3 DEF GlsData
    <3> HIDE DEF r
    <3> QED
      BY <3>2, <3>4 DEF TypeOK
  <2>7. TypeOK'
    BY <1>9, <2>4, <2>5, <2>6 DEF Set, TypeOK, runtimeVars
  <2>8. GoidInv'
    BY <1>9 DEF Set, GoidInv, runtimeVars
  <2>9. CallInv'
    <3>1. th' = [th EXCEPT ![p] = Idle] /\ UNCHANGED <<goid, status>>
      BY <1>9 DEF Set, runtimeVars
    <3>2. \A q \in Gs : th[q].pc # "idle" => goid[q] # 0
      BY DEF GoidInv, CallInv
    <3>3. nitems' = [nitems EXCEPT ![goid[p]] = @ + 1] /\ nfuncs' = nfuncs
      BY <1>9 DEF Set
    <3>4. \A q \in Gs : q # p /\ th[q].op # "none" => goid[q] # goid[p]
      BY <3>2 DEF GoidInv, CallInv
    <3>5. \A q \in Gs \ {p} : th[q].op = "Set" => nitems'[goid'[q]] = nitems[goid[q]]
      BY <3>1, <3>3, <3>4 DEF TypeOK
    <3> QED
      BY <3>1, <3>3, <3>5 DEF CallInv, Idle, TypeOK
  <2>10. FinInv'
    BY <1>9 DEF Set, FinInv
  <2> QED
    BY <2>7, <2>8, <2>9, <2>10
<1>10. ASSUME NEW p \in Gs, NEW k \in Keys, Del(p, k) PROVE TypeInv'
  <2>1. Idle \in GoCall
    BY DEF Idle, GoCall, GoPcs, LabelPtrs
  <2>2. th' \in [Gs -> GoCall]
    BY <1>10, <2>1 DEF Del, TypeOK
  <2>3. dms' \in [Dms -> GlsData]
    <3>1. th[p].dm \in Dms /\ dms \in [Dms -> GlsData]
      BY <1>10 DEF Del, Acting, InCall, CallInv, TypeOK
    <3>2. [dms[th[p].dm] EXCEPT !.data[k] = NoItem] \in GlsData
      BY <3>1 DEF GlsData
    <3>3. dms' = [dms EXCEPT ![th[p].dm] = [dms[th[p].dm] EXCEPT !.data[k] = NoItem]]
      BY <1>10 DEF Del
    <3> QED
      BY <3>1, <3>2, <3>3
  <2>4. TypeOK'
    BY <1>10, <2>2, <2>3 DEF Del, TypeOK, runtimeVars, userVars
  <2>5. GoidInv'
    BY <1>10 DEF Del, GoidInv, runtimeVars
  <2>6. CallInv'
    BY <1>10 DEF Del, CallInv, GoidInv, TypeOK, GoCall, Acting, InCall, Idle, Calls,
       runtimeVars, userVars
  <2>7. FinInv'
    BY <1>10 DEF Del, FinInv
  <2> QED
    BY <2>4, <2>5, <2>6, <2>7
<1>11. ASSUME NEW p \in Gs, AtExit(p) PROVE TypeInv'
  <2>1. Idle \in GoCall
    BY DEF Idle, GoCall, GoPcs, LabelPtrs
  <2>2. goid[p] \in Goids /\ nfuncs[goid[p]] \in Nat /\ nfuncs[goid[p]] < MaxFuncs
    <3>1. status[p] = "running" /\ th[p].op = "AtExit"
      BY <1>11 DEF AtExit, Acting, InCall
    <3>2. goid[p] # 0 /\ nfuncs[goid[p]] < MaxFuncs
      BY <3>1 DEF GoidInv, CallInv
    <3>3. goid[p] \in Goids
      BY <3>2 DEF TypeOK, Goids
    <3> QED
      BY <3>2, <3>3 DEF TypeOK
  <2>3. <<goid[p], nfuncs[goid[p]] + 1>> \in Handlers
    BY <2>2 DEF Handlers
  <2>4. th' \in [Gs -> GoCall]
    BY <1>11, <2>1 DEF AtExit, TypeOK
  <2>5. nfuncs' \in [Goids -> 0..MaxFuncs]
    <3>1. nfuncs' = [nfuncs EXCEPT ![goid[p]] = @ + 1]
      BY <1>11 DEF AtExit
    <3> QED
      BY <3>1, <2>2 DEF TypeOK
  <2>6. dms' \in [Dms -> GlsData]
    <3> DEFINE d == th[p].dm
               h == <<goid[p], nfuncs[goid[p]] + 1>>
               r == [dms[d] EXCEPT !.atExitFuncs = Append(dms[d].atExitFuncs, h)]
    <3>1. d \in Dms
      BY <1>11 DEF AtExit, Acting, InCall, CallInv
    <3>2. dms' = [dms EXCEPT ![d] = r]
      BY <1>11 DEF AtExit, TypeOK
    <3>3. dms[d] \in GlsData /\ h \in Handlers
      BY <3>1, <2>3 DEF TypeOK
    <3>4. dms[d].atExitFuncs \in Seq(Handlers)
      BY <3>3 DEF GlsData
    <3>5. Append(dms[d].atExitFuncs, h) \in Seq(Handlers)
      BY <3>3, <3>4
    <3>6. r \in GlsData
      BY <3>3, <3>5 DEF GlsData
    <3> HIDE DEF r
    <3> QED
      BY <3>2, <3>6 DEF TypeOK
  <2>7. TypeOK'
    BY <1>11, <2>4, <2>5, <2>6 DEF AtExit, TypeOK, runtimeVars
  <2>8. GoidInv'
    BY <1>11 DEF AtExit, GoidInv, runtimeVars
  <2>9. CallInv'
    <3>1. th' = [th EXCEPT ![p] = Idle] /\ UNCHANGED <<goid, status>>
      BY <1>11 DEF AtExit, runtimeVars
    <3>2. \A q \in Gs : th[q].pc # "idle" => goid[q] # 0
      BY DEF GoidInv, CallInv
    <3>3. nfuncs' = [nfuncs EXCEPT ![goid[p]] = @ + 1] /\ nitems' = nitems
      BY <1>11 DEF AtExit
    <3>4. \A q \in Gs : q # p /\ th[q].op # "none" => goid[q] # goid[p]
      BY <3>2 DEF GoidInv, CallInv
    <3>5. \A q \in Gs \ {p} : th[q].op = "AtExit" => nfuncs'[goid'[q]] = nfuncs[goid[q]]
      BY <3>1, <3>3, <3>4 DEF TypeOK
    <3> QED
      BY <3>1, <3>3, <3>5 DEF CallInv, Idle, TypeOK
  <2>10. FinInv'
    BY <1>11 DEF AtExit, FinInv
  <2> QED
    BY <2>7, <2>8, <2>9, <2>10
<1>12. ASSUME NEW p \in Gs, Reset(p) PROVE TypeInv'
  <2>1. Idle \in GoCall
    BY DEF Idle, GoCall, GoPcs, LabelPtrs
  <2>2. th[p].dm \in Dms
    BY <1>12 DEF Reset, Acting, InCall, TypeOK, CallInv
  <2>3. itemsOf(th[p].dm) \in SUBSET Items
    BY <2>2, ItemsOfType
  <2>4. th' \in [Gs -> GoCall]
    BY <1>12, <2>1, <2>3 DEF Reset, TypeOK, GoCall, GoPcs
  <2>5. newData.data \in [Keys -> Items \cup {NoItem}]
    BY DEF newData
  <2>6. dms' \in [Dms -> GlsData]
    <3>1. dms \in [Dms -> GlsData]
      BY DEF TypeOK
    <3>2. [dms[th[p].dm] EXCEPT !.data = newData.data] \in GlsData
      BY <2>2, <2>5, <3>1 DEF GlsData
    <3>3. dms' = [dms EXCEPT ![th[p].dm] = [dms[th[p].dm] EXCEPT !.data = newData.data]]
      BY <1>12 DEF Reset, resetData
    <3> QED
      BY <3>1, <3>2, <3>3
  <2>7. TypeOK'
    BY <1>12, <2>4, <2>6 DEF Reset, TypeOK, runtimeVars, userVars
  <2>8. GoidInv'
    BY <1>12 DEF Reset, GoidInv, runtimeVars
  <2>9. CallInv'
    BY <1>12 DEF Reset, CallInv, GoidInv, TypeOK, GoCall, Acting, InCall, Idle, Calls,
       runtimeVars, userVars
  <2>10. FinInv'
    BY <1>12 DEF Reset, FinInv
  <2> QED
    BY <2>7, <2>8, <2>9, <2>10
<1>13. ASSUME NEW p \in Gs, Unload(p) PROVE TypeInv'
  <2>1. Idle \in GoCall
    BY DEF Idle, GoCall, GoPcs, LabelPtrs
  <2>2. th[p].dm \in Dms
    BY <1>13 DEF Unload, Acting, InCall, TypeOK, CallInv
  <2>3. itemsOf(th[p].dm) \in SUBSET Items
    BY <2>2, ItemsOfType
  <2>4. th' \in [Gs -> GoCall]
    BY <1>13, <2>1, <2>3 DEF Unload, TypeOK, GoCall, GoPcs
  <2>5. slots' \in [Shards -> [Gs -> Dms \cup {Nil}]]
    BY <1>13 DEF Unload, delGlsData, TypeOK
  <2>6. TypeOK'
    BY <1>13, <2>4, <2>5 DEF Unload, TypeOK, runtimeVars, userVars
  <2>7. GoidInv'
    BY <1>13 DEF Unload, GoidInv, runtimeVars
  <2>8. CallInv'
    BY <1>13 DEF Unload, CallInv, GoidInv, TypeOK, GoCall, Acting, InCall, Idle, Calls,
       runtimeVars, userVars
  <2>9. FinInv'
    BY <1>13 DEF Unload, FinInv
  <2> QED
    BY <2>6, <2>7, <2>8, <2>9
<1>14. ASSUME NEW p \in Gs, alreadyReset(p) PROVE TypeInv'
  <2>1. Idle \in GoCall
    BY DEF Idle, GoCall, GoPcs, LabelPtrs
  <2>2. th' \in [Gs -> GoCall]
    BY <1>14, <2>1 DEF alreadyReset, TypeOK
  <2>3. TypeOK'
    BY <1>14, <2>2 DEF alreadyReset, TypeOK, runtimeVars, storeVars, userVars
  <2>4. GoidInv'
    BY <1>14 DEF alreadyReset, GoidInv, runtimeVars
  <2>5. CallInv'
    BY <1>14 DEF alreadyReset, CallInv, GoidInv, TypeOK, GoCall, Acting, InCall, Idle, Calls,
       runtimeVars, userVars
  <2>6. FinInv'
    BY <1>14 DEF alreadyReset, FinInv
  <2> QED
    BY <2>3, <2>4, <2>5, <2>6
<1>15. ASSUME NEW p \in Gs, closeData(p) PROVE TypeInv'
  <2>1. Idle \in GoCall
    BY DEF Idle, GoCall, GoPcs, LabelPtrs
  <2>2. th[p].closing \in SUBSET Items
    BY <2>1 DEF TypeOK, GoCall
  <2>3. th' \in [Gs -> GoCall]
    BY <1>15, <2>1 DEF closeData, TypeOK
  <2>4. closed' \in SUBSET Items
    BY <1>15, <2>2 DEF closeData, TypeOK
  <2>5. TypeOK'
    BY <1>15, <2>3, <2>4 DEF closeData, TypeOK, runtimeVars, storeVars
  <2>6. GoidInv'
    BY <1>15 DEF closeData, GoidInv, runtimeVars
  <2>7. CallInv'
    BY <1>15 DEF closeData, CallInv, GoidInv, TypeOK, GoCall, Acting, InCall, Idle, Calls,
       runtimeVars
  <2>8. FinInv'
    BY <1>15 DEF closeData, FinInv
  <2> QED
    BY <2>5, <2>6, <2>7, <2>8
<1>16. ASSUME NEW l \in Labels, finalize(l) PROVE TypeInv'
  <2>1. fin[l] \in FinCall /\ labelMap[l].gp \in Gs
    BY <1>16 DEF TypeOK, FinInv, finalize
  <2>2. fing' \in Labels \cup {Nil}
    BY <1>16 DEF finalize
  <2>3. fin' \in [Labels -> FinCall]
    BY <1>16, <2>1 DEF finalize, TypeOK, FinCall, FinPcs
  <2>4. TypeOK'
    BY <1>16, <2>3 DEF finalize, TypeOK, runtimeVars, storeVars, userVars
  <2>5. GoidInv'
    BY <1>16 DEF finalize, GoidInv, runtimeVars
  <2>6. CallInv'
    BY <1>16 DEF finalize, CallInv, runtimeVars, userVars
  <2>7. FinInv'
    BY <1>16 DEF finalize, FinInv, TypeOK, ResetPcs
  <2> QED
    BY <2>4, <2>5, <2>6, <2>7
<1>17. ASSUME NEW l \in Labels, finalizeCheck(l) PROVE TypeInv'
  <2>1. fin[l] \in FinCall /\ labelMap[l].gp \in Gs
    BY <1>17 DEF TypeOK, FinInv, finalizeCheck
  <2>2. fin' \in [Labels -> FinCall]
    BY <1>17, <2>1 DEF finalizeCheck, TypeOK, FinCall, FinPcs
  <2>3. TypeOK'
    BY <1>17, <2>2 DEF finalizeCheck, TypeOK, runtimeVars, storeVars, userVars
  <2>4. GoidInv'
    BY <1>17 DEF finalizeCheck, GoidInv, runtimeVars
  <2>5. CallInv'
    BY <1>17 DEF finalizeCheck, CallInv, runtimeVars, userVars
  <2>6. FinInv'
    BY <1>17, <2>1 DEF finalizeCheck, FinInv, TypeOK, ResetPcs, FinCall
  <2> QED
    BY <2>3, <2>4, <2>5, <2>6
<1>18. ASSUME NEW l \in Labels, finalizeLabels(l) PROVE TypeInv'
  <2>1. fin[l] \in FinCall /\ labelMap[l].gp \in Gs
    BY <1>18 DEF TypeOK, FinInv, finalizeLabels
  <2>2. fing' \in Labels \cup {Nil}
    BY <1>18 DEF finalizeLabels, TypeOK
  <2>3. fin' \in [Labels -> FinCall]
    BY <1>18, <2>1 DEF finalizeLabels, TypeOK, FinCall, FinPcs
  <2>4. TypeOK'
    BY <1>18, <2>3 DEF finalizeLabels, TypeOK, runtimeVars, storeVars, userVars
  <2>5. GoidInv'
    BY <1>18 DEF finalizeLabels, GoidInv, runtimeVars
  <2>6. CallInv'
    BY <1>18 DEF finalizeLabels, CallInv, runtimeVars, userVars
  <2>7. FinInv'
    BY <1>18, <2>1 DEF finalizeLabels, FinInv, TypeOK, ResetPcs, FinCall
  <2> QED
    BY <2>4, <2>5, <2>6, <2>7
<1>19. ASSUME NEW l \in Labels, regId(l) PROVE TypeInv'
  <2>1. fin[l] \in FinCall /\ labelMap[l].gp \in Gs
    BY <1>19 DEF TypeOK, FinInv, regId
  <2>2. fin' \in [Labels -> FinCall]
    BY <1>19, <2>1 DEF regId, TypeOK, FinCall, FinPcs
  <2>3. TypeOK'
    BY <1>19, <2>2 DEF regId, TypeOK, runtimeVars, storeVars, userVars
  <2>4. GoidInv'
    BY <1>19 DEF regId, GoidInv, runtimeVars
  <2>5. CallInv'
    BY <1>19 DEF regId, CallInv, runtimeVars, userVars
  <2>6. FinInv'
    BY <1>19, <2>1 DEF regId, FinInv, TypeOK, ResetPcs, FinCall
  <2> QED
    BY <2>3, <2>4, <2>5, <2>6
<1>20. ASSUME NEW l \in Labels, regLabels(l) PROVE TypeInv'
  <2>1. fin[l] \in FinCall /\ labelMap[l].gp \in Gs
    BY <1>20 DEF TypeOK, FinInv, regLabels
  <2>2. fin' \in [Labels -> FinCall]
    BY <1>20, <2>1 DEF regLabels, TypeOK, FinCall, FinPcs
  <2>3. TypeOK'
    BY <1>20, <2>2 DEF regLabels, TypeOK, runtimeVars, storeVars, userVars
  <2>4. GoidInv'
    BY <1>20 DEF regLabels, GoidInv, runtimeVars
  <2>5. CallInv'
    BY <1>20 DEF regLabels, CallInv, runtimeVars, userVars
  <2>6. FinInv'
    BY <1>20, <2>1 DEF regLabels, FinInv, TypeOK, ResetPcs, FinCall
  <2> QED
    BY <2>3, <2>4, <2>5, <2>6
<1>21. ASSUME NEW l \in Labels, regCheck(l) PROVE TypeInv'
  <2>1. fin[l] \in FinCall /\ labelMap[l].gp \in Gs
    BY <1>21 DEF TypeOK, FinInv, regCheck
  <2>2. regOutcome(l) \in {"get", "done", "regCas"}
    BY <2>1 DEF regOutcome
  <2>3. Nil \in LabelPtrs
    BY DEF LabelPtrs
  <2>4. fin' \in [Labels -> FinCall]
    BY <1>21, <2>1, <2>2, <2>3 DEF regCheck, TypeOK, FinCall, FinPcs
  <2>5. TypeOK'
    BY <1>21, <2>4 DEF regCheck, TypeOK, runtimeVars, storeVars, userVars
  <2>6. GoidInv'
    BY <1>21 DEF regCheck, GoidInv, runtimeVars
  <2>7. CallInv'
    BY <1>21 DEF regCheck, CallInv, runtimeVars, userVars
  <2>8. FinInv'
    BY <1>21, <2>1, <2>2 DEF regCheck, FinInv, TypeOK, ResetPcs, FinCall
  <2> QED
    BY <2>5, <2>6, <2>7, <2>8
<1>22. ASSUME NEW l \in Labels, regCas(l) PROVE TypeInv'
  <2>1. fin[l] \in FinCall /\ labelMap[l].gp \in Gs
    BY <1>22 DEF TypeOK, FinInv, regCas
  <2>2. labels' \in [Gs -> LabelPtrs]
    BY <1>22, <2>1 DEF regCas, install, TypeOK, LabelPtrs
  <2>3. fin[l].id \in 0..MaxGoid /\ labelMap[l].se \in Shards
    BY DEF TypeOK, FinCall, LabelMap
  <2>4. labelMap' \in [Labels -> LabelMap]
    <3>1. PICK m \in Labels :
            labelMap' = [labelMap EXCEPT ![m] = [id |-> fin[l].id, se |-> labelMap[l].se, gp |-> labelMap[l].gp]]
      BY <1>22 DEF regCas, install
    <3>2. [id |-> fin[l].id, se |-> labelMap[l].se, gp |-> labelMap[l].gp] \in LabelMap
      BY <2>1, <2>3 DEF LabelMap, Gs
    <3> QED
      BY <3>1, <3>2 DEF TypeOK
  <2>5. Nil \in LabelPtrs
    BY DEF LabelPtrs
  <2>6. fin' \in [Labels -> FinCall]
    <3>1. PICK m \in Labels :
            fin' = [fin EXCEPT ![l].pc = "done", ![l].old = Nil, ![m].pc = "armed"]
      BY <1>22 DEF regCas
    <3> DEFINE f == [fin EXCEPT ![l].pc = "done", ![l].old = Nil]
    <3>2. [fin[l] EXCEPT !.pc = "done", !.old = Nil] \in FinCall
      BY <2>1, <2>5 DEF FinCall, FinPcs
    <3>3. f = [fin EXCEPT ![l] = [fin[l] EXCEPT !.pc = "done", !.old = Nil]]
      BY DEF TypeOK
    <3>4. f \in [Labels -> FinCall]
      BY <3>2 DEF TypeOK
    <3>5. fin' = [f EXCEPT ![m] = [f[m] EXCEPT !.pc = "armed"]]
      BY <3>1
    <3> HIDE DEF f
    <3>6. [f[m] EXCEPT !.pc = "armed"] \in FinCall
      BY <3>4 DEF FinCall, FinPcs
    <3> QED
      BY <3>4, <3>5, <3>6
  <2>7. TypeOK'
    BY <1>22, <2>2, <2>4, <2>6 DEF regCas, TypeOK, storeVars, userVars
  <2>8. GoidInv'
    BY <1>22 DEF regCas, GoidInv
  <2>9. CallInv'
    BY <1>22 DEF regCas, CallInv, userVars
  <2>10. FinInv'
    <3>1. PICK m \in Labels :
            /\ install(m, fin[l].id, labelMap[l].se, labelMap[l].gp)
            /\ fin' = [fin EXCEPT ![l].pc = "done", ![l].old = Nil, ![m].pc = "armed"]
      BY <1>22 DEF regCas
    <3>2. labelMap' = [labelMap EXCEPT ![m] = [id |-> fin[l].id, se |-> labelMap[l].se, gp |-> labelMap[l].gp]]
      BY <3>1 DEF install
    <3>3. labelMap'[m].gp \in Gs
      BY <3>2, <2>1 DEF TypeOK
    <3>4. \A n \in Labels \ {m} : labelMap'[n] = labelMap[n]
      BY <3>2 DEF TypeOK
    <3>5. \A n \in Labels \ {l, m} : fin'[n] = fin[n]
      BY <3>1 DEF TypeOK
    <3>6. fin'[m].pc \in {"armed", "done"} /\ (l # m => fin'[l].pc = "done")
      BY <3>1 DEF TypeOK, FinCall
    <3>7. l # m => labelMap'[l].gp \in Gs
      BY <3>4, <2>1
    <3> QED
      BY <3>3, <3>4, <3>5, <3>6, <3>7 DEF FinInv, ResetPcs
  <2> QED
    BY <2>7, <2>8, <2>9, <2>10
<1>23. ASSUME NEW l \in Labels, regRetry(l) PROVE TypeInv'
  <2>1. fin[l] \in FinCall /\ labelMap[l].gp \in Gs
    BY <1>23 DEF TypeOK, FinInv, regRetry
  <2>2. Nil \in LabelPtrs
    BY <2>1 DEF LabelPtrs
  <2>3. fin' \in [Labels -> FinCall]
    BY <1>23, <2>1, <2>2 DEF regRetry, TypeOK, FinCall, FinPcs
  <2>4. TypeOK'
    BY <1>23, <2>3 DEF regRetry, TypeOK, runtimeVars, storeVars, userVars
  <2>5. GoidInv'
    BY <1>23 DEF regRetry, GoidInv, runtimeVars
  <2>6. CallInv'
    BY <1>23 DEF regRetry, CallInv, runtimeVars, userVars
  <2>7. FinInv'
    BY <1>23, <2>1 DEF regRetry, FinInv, TypeOK, ResetPcs, FinCall
  <2> QED
    BY <2>4, <2>5, <2>6, <2>7
<1>24. ASSUME NEW l \in Labels, resetGet(l) PROVE TypeInv'
  <2>1. fin[l] \in FinCall /\ labelMap[l].gp \in Gs
    BY <1>24 DEF TypeOK, FinInv, resetGet
  <2>2. labelMap[l].se \in Shards
    BY <2>1 DEF TypeOK, LabelMap
  <2>3. getGlsData(labelMap[l].se, labelMap[l].gp) \in Dms \cup {Nil}
    BY <2>1, <2>2 DEF TypeOK, getGlsData
  <2>4. fing' \in Labels \cup {Nil}
    BY <1>24 DEF resetGet, release, TypeOK
  <2>5. fin' \in [Labels -> FinCall]
    BY <1>24, <2>1, <2>3 DEF resetGet, TypeOK, FinCall, FinPcs
  <2>6. TypeOK'
    BY <1>24, <2>4, <2>5 DEF resetGet, TypeOK, runtimeVars, storeVars, userVars
  <2>7. GoidInv'
    BY <1>24 DEF resetGet, GoidInv, runtimeVars
  <2>8. CallInv'
    BY <1>24 DEF resetGet, CallInv, runtimeVars, userVars
  <2>9. FinInv'
    BY <1>24, <2>5 DEF resetGet, FinInv, TypeOK, ResetPcs, FinCall
  <2> QED
    BY <2>6, <2>7, <2>8, <2>9
<1>25. ASSUME NEW l \in Labels, resetTake(l) PROVE TypeInv'
  <2>1. fin[l] \in FinCall /\ labelMap[l].gp \in Gs
    BY <1>25 DEF TypeOK, FinInv, resetTake
  <2>2. fin[l].dm \in Dms
    BY <1>25 DEF resetTake, FinInv, ResetPcs
  <2>3. dms[fin[l].dm].atExitFuncs \in Seq(Handlers)
    BY <2>2 DEF TypeOK, GlsData
  <2>4. fin' \in [Labels -> FinCall]
    BY <1>25, <2>1, <2>3 DEF resetTake, TypeOK, FinCall, FinPcs
  <2>5. TypeOK'
    BY <1>25, <2>4 DEF resetTake, TypeOK, runtimeVars, storeVars, userVars
  <2>6. GoidInv'
    BY <1>25 DEF resetTake, GoidInv, runtimeVars
  <2>7. CallInv'
    BY <1>25 DEF resetTake, CallInv, runtimeVars, userVars
  <2>8. FinInv'
    BY <1>25, <2>1 DEF resetTake, FinInv, TypeOK, ResetPcs, FinCall
  <2> QED
    BY <2>5, <2>6, <2>7, <2>8
<1>26. ASSUME NEW l \in Labels, resetClear(l) PROVE TypeInv'
  <2>1. fin[l] \in FinCall /\ labelMap[l].gp \in Gs
    BY <1>26 DEF TypeOK, FinInv, resetClear
  <2>2. <<>> \in Seq(Handlers)
    BY <2>1
  <2>3. dms' \in [Dms -> GlsData]
    <3> DEFINE d == fin[l].dm
               gd == [dms[d] EXCEPT !.atExitFuncs = <<>>, !.done = TRUE]
    <3>1. d \in Dms /\ dms \in [Dms -> GlsData]
      BY <1>26 DEF resetClear, FinInv, ResetPcs, TypeOK
    <3>2. gd \in GlsData
      BY <2>2, <3>1 DEF GlsData
    <3>3. dms' = [dms EXCEPT ![d] = gd]
      BY <1>26 DEF resetClear, GlsData
    <3> QED
      BY <3>1, <3>2, <3>3
  <2>4. fin' \in [Labels -> FinCall]
    BY <1>26, <2>1 DEF resetClear, TypeOK, FinCall, FinPcs
  <2>5. TypeOK'
    BY <1>26, <2>3, <2>4 DEF resetClear, TypeOK, runtimeVars, userVars
  <2>6. GoidInv'
    BY <1>26 DEF resetClear, GoidInv, runtimeVars
  <2>7. CallInv'
    BY <1>26 DEF resetClear, CallInv, runtimeVars, userVars
  <2>8. FinInv'
    BY <1>26, <2>2, <2>3 DEF resetClear, FinInv, TypeOK, ResetPcs, FinCall
  <2> QED
    BY <2>5, <2>6, <2>7, <2>8
<1>27. ASSUME NEW l \in Labels, resetRun(l) PROVE TypeInv'
  <2>1. fin[l] \in FinCall /\ labelMap[l].gp \in Gs
    BY <1>27 DEF TypeOK, FinInv, resetRun
  <2>2. fin[l].funcs \in Seq(Handlers) /\ fin[l].funcs # <<>>
    BY <1>27 DEF resetRun, TypeOK, FinCall
  <2>3. Len(fin[l].funcs) \in Nat \ {0}
    BY <2>2, EmptySeq
  <2>4. fin[l].funcs[Len(fin[l].funcs)] \in Handlers
    BY <2>2
  <2>5. ran' \in Seq(Handlers)
    BY <1>27, <2>4 DEF resetRun, lastFunc, TypeOK
  <2>6. SubSeq(fin[l].funcs, 1, Len(fin[l].funcs) - 1) \o SubSeq(fin[l].funcs, Len(fin[l].funcs) + 1, Len(fin[l].funcs)) \in Seq(Handlers)
    BY <2>2
  <2>7. fin' \in [Labels -> FinCall]
    BY <1>27, <2>1, <2>6 DEF resetRun, TypeOK, FinCall, FinPcs, lastFunc
  <2>8. TypeOK'
    BY <1>27, <2>5, <2>7 DEF resetRun, TypeOK, runtimeVars, storeVars
  <2>9. GoidInv'
    BY <1>27 DEF resetRun, GoidInv, runtimeVars
  <2>10. CallInv'
    BY <1>27 DEF resetRun, CallInv, runtimeVars
  <2>11. FinInv'
    BY <1>27, <2>1 DEF resetRun, FinInv, TypeOK, ResetPcs, FinCall
  <2> QED
    BY <2>8, <2>9, <2>10, <2>11
<1>28. ASSUME NEW l \in Labels, resetDel(l) PROVE TypeInv'
  <2>1. fin[l] \in FinCall /\ labelMap[l].gp \in Gs
    BY <1>28 DEF TypeOK, FinInv, resetDel
  <2>2. slots' \in [Shards -> [Gs -> Dms \cup {Nil}]]
    BY <1>28 DEF resetDel, delGlsData, TypeOK
  <2>3. fin' \in [Labels -> FinCall]
    BY <1>28, <2>1 DEF resetDel, TypeOK, FinCall, FinPcs
  <2>4. TypeOK'
    BY <1>28, <2>2, <2>3 DEF resetDel, TypeOK, runtimeVars, userVars
  <2>5. GoidInv'
    BY <1>28 DEF resetDel, GoidInv, runtimeVars
  <2>6. CallInv'
    BY <1>28 DEF resetDel, CallInv, runtimeVars, userVars
  <2>7. FinInv'
    BY <1>28 DEF resetDel, FinInv, TypeOK, ResetPcs, FinCall
  <2> QED
    BY <2>4, <2>5, <2>6, <2>7
<1>29. ASSUME NEW l \in Labels, resetClose(l) PROVE TypeInv'
  <2>1. fin[l] \in FinCall /\ labelMap[l].gp \in Gs
    BY <1>29 DEF TypeOK, FinInv, resetClose
  <2>2. fin[l].dm \in Dms
    BY <1>29 DEF resetClose, FinInv, ResetPcs
  <2>3. itemsOf(fin[l].dm) \in SUBSET Items
    BY <2>2, ItemsOfType
  <2>4. closed' \in SUBSET Items
    BY <1>29, <2>3 DEF resetClose, TypeOK
  <2>5. fing' \in Labels \cup {Nil}
    BY <1>29 DEF resetClose, release, TypeOK
  <2>6. fin' \in [Labels -> FinCall]
    BY <1>29, <2>1 DEF resetClose, TypeOK, FinCall, FinPcs
  <2>7. TypeOK'
    BY <1>29, <2>4, <2>5, <2>6 DEF resetClose, TypeOK, runtimeVars, storeVars
  <2>8. GoidInv'
    BY <1>29 DEF resetClose, GoidInv, runtimeVars
  <2>9. CallInv'
    BY <1>29 DEF resetClose, CallInv, runtimeVars
  <2>10. FinInv'
    BY <1>29, <2>1 DEF resetClose, FinInv, TypeOK, ResetPcs, FinCall
  <2> QED
    BY <2>7, <2>8, <2>9, <2>10
<1> QED
  BY <1>0, <1>1, <1>2, <1>3, <1>4, <1>5, <1>6, <1>7, <1>8, <1>9, <1>10, <1>11, <1>12, <1>13,
     <1>14, <1>15, <1>16, <1>17, <1>18, <1>19, <1>20, <1>21, <1>22, <1>23, <1>24, <1>25, <1>26,
     <1>27, <1>28, <1>29 DEF Next, Environment, CallStep, FinalizerStep

LEMMA TypeInvAlways == Spec => []TypeInv
<1>1. Init => TypeInv
  BY TypeInvInit
<1>2. TypeInv /\ [Next]_vars => TypeInv'
  BY TypeInvStep
<1> QED
  BY <1>1, <1>2, PTL DEF Spec

(***************************************************************************)
(* Every variable keeps its type: no address is used before it is set, no  *)
(* handler list or map holds anything but what callers passed.             *)
(***************************************************************************)
THEOREM TypeCorrect == Spec => []TypeOK
<1>1. TypeInv => TypeOK
  BY DEF TypeInv
<1> QED
  BY <1>1, TypeInvAlways, PTL

(***************************************************************************)
(* What a step may do to each of the variables the proofs below follow.    *)
(***************************************************************************)
\* A label map that has been allocated keeps its contents and its finalizer.
LEMMA LabelMapFixed ==
  ASSUME TypeInv, [Next]_vars, NEW m \in Labels, fin[m].pc # "free"
  PROVE  fin'[m].pc # "free" /\ labelMap'[m] = labelMap[m]
<1>1. ASSUME NEW p \in Gs, Environment(p) PROVE UNCHANGED <<fin, labelMap>>
  BY <1>1 DEF Environment, Spawn, Goexit, SetGoroutineLabels, fetchDataMap
<1>2. ASSUME NEW p \in Gs, CallStep(p), ~registerCas(p) PROVE UNCHANGED <<fin, labelMap>>
  BY <1>2 DEF CallStep, newGlsData, registerLoad, registerRetry, Set, Del, AtExit, Reset,
     Unload, alreadyReset, closeData
<1>3. ASSUME NEW p \in Gs, registerCas(p)
      PROVE  fin'[m].pc # "free" /\ labelMap'[m] = labelMap[m]
  <2>1. PICK l \in Labels : install(l, goid[p], findSlot(goid[p]), p)
                            /\ fin' = [fin EXCEPT ![l].pc = "armed"]
    BY <1>3 DEF registerCas
  <2>2. l # m
    BY <2>1 DEF install, FreshLabel
  <2> QED
    BY <2>1, <2>2 DEF install, TypeInv, TypeOK
<1>4. ASSUME NEW l \in Labels, regCas(l)
      PROVE  fin'[m].pc # "free" /\ labelMap'[m] = labelMap[m]
  <2>1. PICK n \in Labels :
          /\ install(n, fin[l].id, labelMap[l].se, labelMap[l].gp)
          /\ fin' = [fin EXCEPT ![l].pc = "done", ![l].old = Nil, ![n].pc = "armed"]
    BY <1>4 DEF regCas
  <2>2. n # m
    BY <2>1 DEF install, FreshLabel
  <2>3. labelMap'[m] = labelMap[m]
    BY <2>1, <2>2 DEF install, TypeInv, TypeOK
  <2>4. fin'[m].pc \in {fin[m].pc, "done"}
    BY <2>1, <2>2 DEF TypeInv, TypeOK, FinCall
  <2> QED
    BY <2>3, <2>4
<1>5. ASSUME NEW l \in Labels, FinalizerStep(l), ~regCas(l)
      PROVE  fin'[m].pc # "free" /\ labelMap'[m] = labelMap[m]
  <2>1. labelMap' = labelMap
    BY <1>5 DEF FinalizerStep, finalize, finalizeCheck, finalizeLabels, regId, regLabels,
       regCheck, regRetry, resetGet, resetTake, resetClear, resetRun, resetDel, resetClose
  <2>2. regOutcome(l) # "free"
    BY DEF regOutcome
  <2>3. fin'[m].pc # "free"
    <3>1. fin \in [Labels -> FinCall]
      BY DEF TypeInv, TypeOK
    <3>2. \A n \in Labels \ {l} : fin'[n] = fin[n]
      BY <1>5, <3>1 DEF FinalizerStep, finalize, finalizeCheck, finalizeLabels, regId,
         regLabels, regCheck, regRetry, resetGet, resetTake, resetClear, resetRun, resetDel,
         resetClose
    <3>3. ASSUME finalize(l) \/ finalizeCheck(l) \/ finalizeLabels(l) \/ regId(l)
                   \/ regLabels(l) \/ regCheck(l) \/ regRetry(l)
          PROVE  fin'[l].pc # "free"
      BY <2>2, <3>1, <3>3 DEF finalize, finalizeCheck, finalizeLabels, regId, regLabels,
         regCheck, regRetry, FinCall
    <3>4. ASSUME resetGet(l) \/ resetTake(l) \/ resetClear(l)
          PROVE  fin'[l].pc # "free"
      BY <3>1, <3>4 DEF resetGet, resetTake, resetClear, FinCall
    <3>5. ASSUME resetRun(l) \/ resetDel(l) \/ resetClose(l)
          PROVE  fin'[l].pc # "free"
      BY <3>1, <3>5, ZenonT(30) DEF resetRun, resetDel, resetClose, FinCall
    <3> QED
      BY <1>5, <3>2, <3>3, <3>4, <3>5 DEF FinalizerStep
  <2> QED
    BY <2>1, <2>3
<1>6. ASSUME UNCHANGED vars PROVE UNCHANGED <<fin, labelMap>>
  BY <1>6 DEF vars
<1> QED
  BY <1>1, <1>2, <1>3, <1>4, <1>5, <1>6 DEF Next

\* An entry of the store is removed, or is that of a new glsData.
LEMMA SlotsEffect ==
  ASSUME TypeInv, [Next]_vars, NEW s \in Shards, NEW p \in Gs
  PROVE  \/ slots'[s][p] \in {slots[s][p], Nil}
         \/ \E d \in Dms : newGlsData(p, d) /\ s = findSlot(goid[p]) /\ slots'[s][p] = d
<1>0. slots \in [Shards -> [Gs -> Dms \cup {Nil}]]
  BY DEF TypeInv, TypeOK
<1>1. ASSUME NEW q \in Gs, NEW d \in Dms, newGlsData(q, d)
      PROVE  \/ slots'[s][p] = slots[s][p]
             \/ p = q /\ s = findSlot(goid[p]) /\ slots'[s][p] = d
  BY <1>0, <1>1 DEF newGlsData
<1>2. ASSUME NEW q \in Gs, Unload(q) PROVE slots'[s][p] \in {slots[s][p], Nil}
  BY <1>0, <1>2 DEF Unload, delGlsData
<1>3. ASSUME NEW l \in Labels, resetDel(l) PROVE slots'[s][p] \in {slots[s][p], Nil}
  BY <1>0, <1>3 DEF resetDel, delGlsData
<1>4. ASSUME NEW q \in Gs, Environment(q) PROVE slots' = slots
  BY <1>4 DEF Environment, Spawn, Goexit, SetGoroutineLabels, fetchDataMap, storeVars
<1>5. ASSUME NEW q \in Gs, CallStep(q), ~Unload(q), ~\E d \in Dms : newGlsData(q, d)
      PROVE  slots' = slots
  BY <1>5 DEF CallStep, registerLoad, registerCas, registerRetry, Set, Del, AtExit, Reset,
     alreadyReset, closeData, storeVars
<1>6. ASSUME NEW l \in Labels, FinalizerStep(l), ~resetDel(l) PROVE slots' = slots
  BY <1>6 DEF FinalizerStep, finalize, finalizeCheck, finalizeLabels, regId, regLabels,
     regCheck, regCas, regRetry, resetGet, resetTake, resetClear, resetRun, resetClose, storeVars
<1>7. ASSUME UNCHANGED vars PROVE slots' = slots
  BY <1>7 DEF vars, storeVars
<1> QED
  BY <1>1, <1>2, <1>3, <1>4, <1>5, <1>6, <1>7 DEF Next

\* Apart from Set, a step only removes data.
LEMMA DataEffect ==
  ASSUME TypeInv, [Next]_vars, ~\E p \in Gs, k \in Keys : Set(p, k)
  PROVE  /\ \A d \in Dms, k \in Keys : dms'[d].data[k] \in {dms[d].data[k], NoItem}
         /\ nitems' = nitems
         /\ \A p \in Gs, d \in Dms : newGlsData(p, d) => dms'[d] = newData
<1>0. dms \in [Dms -> GlsData] /\ \A k \in Keys : newData.data[k] = NoItem
  BY DEF TypeInv, TypeOK, newData
<1> DEFINE Shrinks == \A d \in Dms, k \in Keys : dms'[d].data[k] \in {dms[d].data[k], NoItem}
<1>1. ASSUME NEW p \in Gs, NEW e \in Dms, newGlsData(p, e)
      PROVE  Shrinks /\ nitems' = nitems /\ dms'[e] = newData
  <2>1. dms' = [dms EXCEPT ![e] = newData] /\ nitems' = nitems
    BY <1>1 DEF newGlsData, userVars
  <2> QED
    BY <1>0, <2>1
<1>2. ASSUME NEW p \in Gs, NEW key \in Keys, Del(p, key) PROVE Shrinks /\ nitems' = nitems
  <2>1. dms' = [dms EXCEPT ![th[p].dm].data[key] = NoItem] /\ nitems' = nitems
    BY <1>2 DEF Del, userVars
  <2> QED
    BY <1>0, <2>1 DEF GlsData
<1>3. ASSUME NEW p \in Gs, AtExit(p) PROVE Shrinks /\ nitems' = nitems
  <2>1. PICK h : dms' = [dms EXCEPT ![th[p].dm].atExitFuncs = Append(@, h)] /\ nitems' = nitems
    BY <1>3 DEF AtExit
  <2>2. \A d \in Dms : dms'[d].data = dms[d].data
    BY <1>0, <2>1 DEF GlsData
  <2> QED
    BY <2>1, <2>2
<1>4. ASSUME NEW p \in Gs, Reset(p) PROVE Shrinks /\ nitems' = nitems
  <2>1. dms' = [dms EXCEPT ![th[p].dm].data = newData.data] /\ nitems' = nitems
    BY <1>4 DEF Reset, resetData, userVars
  <2> QED
    BY <1>0, <2>1 DEF GlsData
<1>5. ASSUME NEW l \in Labels, resetClear(l) PROVE Shrinks /\ nitems' = nitems
  <2>1. /\ dms' = [dms EXCEPT ![fin[l].dm].atExitFuncs = <<>>, ![fin[l].dm].done = TRUE]
        /\ nitems' = nitems
    BY <1>5 DEF resetClear, userVars
  <2>2. \A d \in Dms : dms'[d].data = dms[d].data
    BY <1>0, <2>1 DEF GlsData
  <2> QED
    BY <2>1, <2>2
<1>6. ASSUME NEW p \in Gs, Environment(p) PROVE dms' = dms /\ nitems' = nitems
  BY <1>6 DEF Environment, Spawn, Goexit, SetGoroutineLabels, fetchDataMap, storeVars, userVars
<1>7. ASSUME NEW p \in Gs, \/ registerLoad(p) \/ registerCas(p) \/ registerRetry(p)
                           \/ Unload(p) \/ alreadyReset(p) \/ closeData(p)
      PROVE  dms' = dms /\ nitems' = nitems
  BY <1>7 DEF registerLoad, registerCas, registerRetry, Unload, alreadyReset, closeData,
     storeVars, userVars
<1>8. ASSUME NEW l \in Labels, FinalizerStep(l), ~resetClear(l)
      PROVE  dms' = dms /\ nitems' = nitems
  BY <1>8 DEF FinalizerStep, finalize, finalizeCheck, finalizeLabels, regId, regLabels,
     regCheck, regCas, regRetry, resetGet, resetTake, resetRun, resetDel, resetClose,
     storeVars, userVars
<1>9. ASSUME UNCHANGED vars PROVE dms' = dms /\ nitems' = nitems
  BY <1>9 DEF vars, storeVars, userVars
<1>10. Shrinks /\ nitems' = nitems
  <2>1. dms' = dms => Shrinks
    OBVIOUS
  <2> HIDE DEF Shrinks
  <2> QED
    BY <1>1, <1>2, <1>3, <1>4, <1>5, <1>6, <1>7, <1>8, <1>9, <2>1 DEF Next, CallStep
<1> QED
  BY <1>1, <1>10

\* Data is closed by an API call or by an exit procedure.
LEMMA ClosedEffect ==
  ASSUME TypeInv, [Next]_vars
  PROVE  \/ closed' = closed
         \/ \E p \in Gs : closeData(p) /\ closed' = closed \cup th[p].closing
         \/ \E l \in Labels : resetClose(l) /\ closed' = closed \cup itemsOf(fin[l].dm)
<1>1. ASSUME NEW p \in Gs, Environment(p) PROVE closed' = closed
  BY <1>1 DEF Environment, Spawn, Goexit, SetGoroutineLabels, fetchDataMap, userVars
<1>2. ASSUME NEW p \in Gs, CallStep(p)
      PROVE  closed' = closed \/ (closeData(p) /\ closed' = closed \cup th[p].closing)
  BY <1>2 DEF CallStep, newGlsData, registerLoad, registerCas, registerRetry, Set, Del, AtExit,
     Reset, Unload, alreadyReset, closeData, userVars
<1>3. ASSUME NEW l \in Labels, FinalizerStep(l)
      PROVE  closed' = closed \/ (resetClose(l) /\ closed' = closed \cup itemsOf(fin[l].dm))
  BY <1>3 DEF FinalizerStep, finalize, finalizeCheck, finalizeLabels, regId, regLabels,
     regCheck, regCas, regRetry, resetGet, resetTake, resetClear, resetRun, resetDel, resetClose,
     userVars
<1>4. ASSUME UNCHANGED vars PROVE closed' = closed
  BY <1>4 DEF vars, userVars
<1> QED
  BY <1>1, <1>2, <1>3, <1>4 DEF Next

\* What an API call is about to close is what its glsData held.
LEMMA ClosingEffect ==
  ASSUME TypeInv, [Next]_vars, NEW p \in Gs
  PROVE  \/ th'[p].closing \in {th[p].closing, {}}
         \/ (Reset(p) \/ Unload(p)) /\ th'[p].closing = itemsOf(th[p].dm)
<1>0. th \in [Gs -> GoCall]
  BY DEF TypeInv, TypeOK
<1>1. ASSUME NEW q \in Gs, NEW op \in Calls, fetchDataMap(q, op)
      PROVE  th'[p].closing \in {th[p].closing, {}}
  BY <1>0, <1>1 DEF fetchDataMap, Idle
<1>2. ASSUME NEW q \in Gs, Environment(q), ~\E op \in Calls : fetchDataMap(q, op)
      PROVE  th' = th
  BY <1>2 DEF Environment, Spawn, Goexit, SetGoroutineLabels
<1>3. ASSUME NEW q \in Gs, NEW d \in Dms, newGlsData(q, d) PROVE th'[p].closing = th[p].closing
  BY <1>0, <1>3 DEF newGlsData, GoCall
<1>4. ASSUME NEW q \in Gs, registerLoad(q) PROVE th'[p].closing = th[p].closing
  BY <1>0, <1>4 DEF registerLoad, GoCall
<1>5. ASSUME NEW q \in Gs, registerCas(q) PROVE th'[p].closing = th[p].closing
  BY <1>0, <1>5 DEF registerCas, GoCall
<1>6. ASSUME NEW q \in Gs, registerRetry(q) PROVE th'[p].closing = th[p].closing
  BY <1>0, <1>6 DEF registerRetry, GoCall
<1>7. ASSUME NEW q \in Gs, \/ \E k \in Keys : Set(q, k) \/ Del(q, k)
                           \/ AtExit(q) \/ alreadyReset(q) \/ closeData(q)
      PROVE  th'[p].closing \in {th[p].closing, {}}
  <2>1. th' = [th EXCEPT ![q] = Idle]
    BY <1>7 DEF Set, Del, AtExit, alreadyReset, closeData
  <2> QED
    BY <1>0, <2>1 DEF Idle
<1>8. ASSUME NEW q \in Gs, Reset(q) \/ Unload(q)
      PROVE  \/ th'[p].closing = th[p].closing
             \/ q = p /\ th'[p].closing = itemsOf(th[p].dm)
  <2>1. th' = [th EXCEPT ![q] = [Idle EXCEPT !.pc = "close", !.closing = itemsOf(th[q].dm)]]
    BY <1>8 DEF Reset, Unload
  <2> QED
    BY <1>0, <2>1 DEF Idle
<1>9. ASSUME NEW l \in Labels, FinalizerStep(l) PROVE th' = th
  BY <1>9 DEF FinalizerStep, finalize, finalizeCheck, finalizeLabels, regId, regLabels,
     regCheck, regCas, regRetry, resetGet, resetTake, resetClear, resetRun, resetDel, resetClose
<1>10. ASSUME UNCHANGED vars PROVE th' = th
  BY <1>10 DEF vars
<1> QED
  BY <1>1, <1>2, <1>3, <1>4, <1>5, <1>6, <1>7, <1>8, <1>9, <1>10 DEF Next, Environment, CallStep

\* An exit procedure closes after it has removed the entry.
LEMMA FinalizerEffect ==
  ASSUME TypeInv, [Next]_vars, NEW l \in Labels, fin'[l].pc = "close"
  PROVE  (fin[l].pc = "close" /\ fin'[l].dm = fin[l].dm) \/ resetDel(l)
<1>0. fin \in [Labels -> FinCall] /\ fin[l] \in FinCall
  BY DEF TypeInv, TypeOK
<1>1. ASSUME NEW p \in Gs, NEW m \in Labels, fin' = [fin EXCEPT ![m].pc = "armed"]
      PROVE  fin'[l] = fin[l]
  BY <1>0, <1>1 DEF FinCall
<1>2. ASSUME NEW m \in Labels, regCas(m) PROVE fin'[l] = fin[l]
  BY <1>0, <1>2 DEF regCas, FinCall
<1>3. ASSUME NEW m \in Labels, FinalizerStep(m), ~regCas(m) PROVE m # l => fin'[l] = fin[l]
  BY <1>0, <1>3 DEF FinalizerStep, finalize, finalizeCheck, finalizeLabels, regId, regLabels,
     regCheck, regRetry, resetGet, resetTake, resetClear, resetRun, resetDel, resetClose
<1>4. ~ (finalize(l) \/ finalizeCheck(l) \/ finalizeLabels(l) \/ regId(l) \/ regLabels(l))
  BY <1>0 DEF finalize, finalizeCheck, finalizeLabels, regId, regLabels, FinCall
<1>5. ~ (regCheck(l) \/ regRetry(l))
  BY <1>0 DEF regCheck, regRetry, FinCall, regOutcome
<1>6. ~ (resetGet(l) \/ resetTake(l) \/ resetClear(l) \/ resetClose(l))
  BY <1>0 DEF resetGet, resetTake, resetClear, resetClose, FinCall
<1>7. ~ resetRun(l)
  BY <1>0 DEF resetRun, FinCall
<1>8. ASSUME NEW m \in Labels, FinalizerStep(m) PROVE fin'[l] = fin[l] \/ resetDel(l)
  BY <1>2, <1>3, <1>4, <1>5, <1>6, <1>7, <1>8 DEF FinalizerStep
<1>9. ASSUME NEW p \in Gs, Environment(p) PROVE fin' = fin
  BY <1>9 DEF Environment, Spawn, Goexit, SetGoroutineLabels, fetchDataMap
<1>10. ASSUME NEW p \in Gs, CallStep(p) PROVE fin'[l] = fin[l]
  BY <1>1, <1>10 DEF CallStep, newGlsData, registerLoad, registerCas, registerRetry, Set, Del,
     AtExit, Reset, Unload, alreadyReset, closeData
<1>11. ASSUME UNCHANGED vars PROVE fin' = fin
  BY <1>11 DEF vars
<1> QED
  BY <1>8, <1>9, <1>10, <1>11 DEF Next

\* Only Spawn starts a goroutine, under a goid not used before.
LEMMA StartEffect ==
  ASSUME TypeInv, [Next]_vars, NEW p \in Gs
  PROVE  /\ nextGoid \in Nat /\ nextGoid' \in Nat /\ nextGoid <= nextGoid'
         /\ \/ goid'[p] = goid[p] /\ (status'[p] = "running" => status[p] = "running")
            \/ goid'[p] = nextGoid /\ \E q \in Gs : Spawn(q, p)
<1>0. /\ goid \in [Gs -> 0..MaxGoid] /\ status \in [Gs -> {"running", "dead"}]
      /\ nextGoid \in Nat
  BY GlsConstants DEF TypeInv, TypeOK
<1>1. ASSUME NEW q \in Gs, NEW h \in Gs, Spawn(q, h)
      PROVE  /\ nextGoid' = nextGoid + 1
             /\ IF p = h THEN goid'[p] = nextGoid
                ELSE goid'[p] = goid[p] /\ status'[p] = status[p]
  BY <1>0, <1>1 DEF Spawn
<1>2. ASSUME NEW q \in Gs, Goexit(q)
      PROVE  goid' = goid /\ nextGoid' = nextGoid /\ status'[p] \in {status[p], "dead"}
  BY <1>0, <1>2 DEF Goexit
<1>3. ASSUME NEW q \in Gs, \/ \E ptr \in {User, Nil} : SetGoroutineLabels(q, ptr)
                           \/ \E op \in Calls : fetchDataMap(q, op)
                           \/ CallStep(q)
      PROVE  UNCHANGED <<goid, status, nextGoid>>
  BY <1>3 DEF SetGoroutineLabels, fetchDataMap, CallStep, newGlsData, registerLoad, registerCas,
     registerRetry, Set, Del, AtExit, Reset, Unload, alreadyReset, closeData, runtimeVars
<1>4. ASSUME NEW l \in Labels, FinalizerStep(l) PROVE UNCHANGED <<goid, status, nextGoid>>
  BY <1>4 DEF FinalizerStep, finalize, finalizeCheck, finalizeLabels, regId, regLabels,
     regCheck, regCas, regRetry, resetGet, resetTake, resetClear, resetRun, resetDel,
     resetClose, runtimeVars
<1>5. ASSUME UNCHANGED vars PROVE UNCHANGED <<goid, status, nextGoid>>
  BY <1>5 DEF vars, runtimeVars
<1> QED
  BY <1>0, <1>1, <1>2, <1>3, <1>4, <1>5 DEF Next, Environment

\* A finalizer is set by the goroutine it is for, or by its predecessor.
LEMMA Registration ==
  ASSUME TypeInv, [Next]_vars, NEW l \in Labels, fin[l].pc = "free", fin'[l].pc # "free"
  PROVE  /\ fin'[l].pc = "armed"
         /\ \/ \E p \in Gs :
                 /\ registerCas(p)
                 /\ labelMap'[l].gp = p /\ labelMap'[l].se = findSlot(goid[p])
                 /\ \A m \in Labels \ {l} : fin'[m] = fin[m]
            \/ \E k \in Labels \ {l} :
                 /\ regCas(k)
                 /\ labelMap'[l].gp = labelMap[k].gp /\ labelMap'[l].se = labelMap[k].se
                 /\ fin'[k].pc = "done"
                 /\ \A m \in Labels \ {k, l} : fin'[m] = fin[m]
<1>0. labelMap \in [Labels -> LabelMap] /\ fin \in [Labels -> FinCall]
  BY DEF TypeInv, TypeOK
<1>1. ASSUME NEW p \in Gs, registerCas(p)
      PROVE  /\ fin'[l].pc = "armed"
             /\ labelMap'[l].gp = p /\ labelMap'[l].se = findSlot(goid[p])
             /\ \A m \in Labels \ {l} : fin'[m] = fin[m]
  <2>1. PICK m \in Labels : /\ install(m, goid[p], findSlot(goid[p]), p)
                            /\ fin' = [fin EXCEPT ![m].pc = "armed"]
    BY <1>1 DEF registerCas
  <2>2. m = l
    BY <1>0, <2>1
  <2> QED
    BY <1>0, <2>1, <2>2 DEF install, FinCall
<1>2. ASSUME NEW k \in Labels, regCas(k)
      PROVE  /\ k # l
             /\ fin'[l].pc = "armed"
             /\ labelMap'[l].gp = labelMap[k].gp /\ labelMap'[l].se = labelMap[k].se
             /\ fin'[k].pc = "done"
             /\ \A m \in Labels \ {k, l} : fin'[m] = fin[m]
  <2>1. PICK m \in Labels :
          /\ install(m, fin[k].id, labelMap[k].se, labelMap[k].gp)
          /\ fin' = [fin EXCEPT ![k].pc = "done", ![k].old = Nil, ![m].pc = "armed"]
    BY <1>2 DEF regCas
  <2>2. fin[k].pc # "free" /\ fin[m].pc = "free"
    BY <1>2, <2>1 DEF regCas, install, FreshLabel
  <2>3. m = l /\ k # l
    BY <1>0, <2>1, <2>2
  <2>4. labelMap'[l].gp = labelMap[k].gp /\ labelMap'[l].se = labelMap[k].se
    BY <1>0, <2>1, <2>3 DEF install
  <2>5. /\ fin'[l].pc = "armed" /\ fin'[k].pc = "done"
        /\ \A n \in Labels \ {k, l} : fin'[n] = fin[n]
    BY <1>0, <2>1, <2>3 DEF FinCall
  <2> QED
    BY <2>3, <2>4, <2>5
<1>3. ASSUME NEW p \in Gs, Environment(p) PROVE FALSE
  BY <1>3 DEF Environment, Spawn, Goexit, SetGoroutineLabels, fetchDataMap
<1>4. ASSUME NEW p \in Gs, CallStep(p), ~registerCas(p) PROVE FALSE
  BY <1>4 DEF CallStep, newGlsData, registerLoad, registerRetry, Set, Del, AtExit, Reset,
     Unload, alreadyReset, closeData
<1>5. ASSUME NEW m \in Labels, FinalizerStep(m), ~regCas(m) PROVE FALSE
  BY <1>0, <1>5 DEF FinalizerStep, finalize, finalizeCheck, finalizeLabels, regId, regLabels,
     regCheck, regRetry, resetGet, resetTake, resetClear, resetRun, resetDel, resetClose
<1>6. ASSUME UNCHANGED vars PROVE FALSE
  BY <1>6 DEF vars
<1> QED
  BY <1>1, <1>2, <1>3, <1>4, <1>5, <1>6 DEF Next

\* A finalizer runs once.
LEMMA DoneForGood ==
  ASSUME TypeInv, [Next]_vars, NEW l \in Labels, fin[l].pc = "done" PROVE fin'[l] = fin[l]
<1>0. fin \in [Labels -> FinCall]
  BY DEF TypeInv, TypeOK
<1>1. ASSUME NEW p \in Gs, registerCas(p) PROVE fin'[l] = fin[l]
  BY <1>0, <1>1 DEF registerCas, install, FreshLabel
<1>2. ASSUME NEW k \in Labels, regCas(k) PROVE fin'[l] = fin[l]
  <2>1. PICK m \in Labels :
          /\ install(m, fin[k].id, labelMap[k].se, labelMap[k].gp)
          /\ fin' = [fin EXCEPT ![k].pc = "done", ![k].old = Nil, ![m].pc = "armed"]
    BY <1>2 DEF regCas
  <2>2. l # m /\ l # k
    BY <1>2, <2>1 DEF regCas, install, FreshLabel
  <2> QED
    BY <1>0, <2>1, <2>2
<1>3. ASSUME NEW p \in Gs, Environment(p) PROVE fin' = fin
  BY <1>3 DEF Environment, Spawn, Goexit, SetGoroutineLabels, fetchDataMap
<1>4. ASSUME NEW p \in Gs, CallStep(p), ~registerCas(p) PROVE fin' = fin
  BY <1>4 DEF CallStep, newGlsData, registerLoad, registerRetry, Set, Del, AtExit, Reset,
     Unload, alreadyReset, closeData
<1>5. ASSUME NEW m \in Labels, FinalizerStep(m), ~regCas(m) PROVE fin'[l] = fin[l]
  BY <1>0, <1>5 DEF FinalizerStep, finalize, finalizeCheck, finalizeLabels, regId, regLabels,
     regCheck, regRetry, resetGet, resetTake, resetClear, resetRun, resetDel, resetClose
<1>6. ASSUME UNCHANGED vars PROVE fin' = fin
  BY <1>6 DEF vars
<1> QED
  BY <1>1, <1>2, <1>3, <1>4, <1>5, <1>6 DEF Next

\* Only newGlsData gives a glsData an owner.
LEMMA OwnerEffect ==
  ASSUME TypeInv, [Next]_vars, NEW d \in Dms
  PROVE  dmOwner'[d] = dmOwner[d] \/ \E p \in Gs : newGlsData(p, d) /\ dmOwner'[d] = goid[p]
<1>1. ASSUME NEW p \in Gs, NEW e \in Dms, newGlsData(p, e)
      PROVE  dmOwner'[d] = IF d = e THEN goid[p] ELSE dmOwner[d]
  BY <1>1 DEF newGlsData, TypeInv, TypeOK
<1>2. ASSUME NEW p \in Gs, Environment(p) PROVE dmOwner' = dmOwner
  BY <1>2 DEF Environment, Spawn, Goexit, SetGoroutineLabels, fetchDataMap, storeVars
<1>3. ASSUME NEW p \in Gs, CallStep(p), ~\E e \in Dms : newGlsData(p, e) PROVE dmOwner' = dmOwner
  BY <1>3 DEF CallStep, registerLoad, registerCas, registerRetry, Set, Del, AtExit, Reset,
     Unload, alreadyReset, closeData, storeVars
<1>4. ASSUME NEW l \in Labels, FinalizerStep(l) PROVE dmOwner' = dmOwner
  BY <1>4 DEF FinalizerStep, finalize, finalizeCheck, finalizeLabels, regId, regLabels,
     regCheck, regCas, regRetry, resetGet, resetTake, resetClear, resetRun, resetDel,
     resetClose, storeVars
<1>5. ASSUME UNCHANGED vars PROVE dmOwner' = dmOwner
  BY <1>5 DEF vars, storeVars
<1> QED
  BY <1>1, <1>2, <1>3, <1>4, <1>5 DEF Next

\* A glsData that is in use keeps its owner.
LEMMA OwnerFixed ==
  ASSUME TypeInv, [Next]_vars, NEW d \in Dms, dmOwner[d] # 0
  PROVE  dmOwner'[d] = dmOwner[d]
BY OwnerEffect DEF newGlsData, FreshDm

\* A call works on the glsData found for it or on a new one, until it returns.
LEMMA CallEffect ==
  ASSUME TypeInv, [Next]_vars, NEW p \in Gs
  PROVE  /\ \/ th'[p].dm \in {th[p].dm, Nil}
            \/ \E d \in Dms : newGlsData(p, d) /\ th'[p].dm = d
            \/ \E op \in Calls : fetchDataMap(p, op)
                                 /\ th'[p].dm = slots[findSlot(goid[p])][p]
         /\ th'[p].pc = "idle" => (th'[p].dm = Nil \/ th'[p] = th[p])
<1>0. th \in [Gs -> GoCall]
  BY DEF TypeInv, TypeOK
<1> DEFINE Fine == /\ \/ th'[p].dm \in {th[p].dm, Nil}
                      \/ \E d \in Dms : newGlsData(p, d) /\ th'[p].dm = d
                      \/ \E op \in Calls : fetchDataMap(p, op)
                                           /\ th'[p].dm = slots[findSlot(goid[p])][p]
                   /\ th'[p].pc = "idle" => (th'[p].dm = Nil \/ th'[p] = th[p])
<1>1. ASSUME NEW op \in Calls, fetchDataMap(p, op) PROVE Fine
  <2> DEFINE d == slots[findSlot(goid[p])][p]
             pc == afterLookup(op, d)
  <2>1. th' = [th EXCEPT ![p] = [Idle EXCEPT !.pc = pc, !.op = op, !.dm = d]] /\ pc # "idle"
    BY <1>1 DEF fetchDataMap, getGlsData
  <2> HIDE DEF pc
  <2>2. th'[p].dm = d /\ th'[p].pc # "idle"
    BY <1>0, <2>1 DEF Idle
  <2> QED
    BY <1>1, <2>2
<1>2. ASSUME NEW d \in Dms, newGlsData(p, d) PROVE Fine
  BY <1>0, <1>2 DEF newGlsData, GoCall
<1>3. ASSUME registerLoad(p) PROVE Fine
  BY <1>0, <1>3 DEF registerLoad, GoCall
<1>4. ASSUME registerCas(p) \/ registerRetry(p) PROVE Fine
  BY <1>0, <1>4 DEF registerCas, registerRetry, GoCall
<1>5. ASSUME NEW k \in Keys, \/ Set(p, k) \/ Del(p, k)
                             \/ AtExit(p) \/ alreadyReset(p) \/ closeData(p)
      PROVE  Fine
  <2>1. th' = [th EXCEPT ![p] = Idle]
    BY <1>5 DEF Set, Del, AtExit, alreadyReset, closeData
  <2> QED
    BY <1>0, <2>1 DEF Idle
<1>6. ASSUME AtExit(p) \/ alreadyReset(p) \/ closeData(p) PROVE Fine
  <2>1. th' = [th EXCEPT ![p] = Idle]
    BY <1>6 DEF AtExit, alreadyReset, closeData
  <2> QED
    BY <1>0, <2>1 DEF Idle
<1>7. ASSUME Reset(p) \/ Unload(p) PROVE Fine
  <2>1. th' = [th EXCEPT ![p] = [Idle EXCEPT !.pc = "close", !.closing = itemsOf(th[p].dm)]]
    BY <1>7 DEF Reset, Unload
  <2> QED
    BY <1>0, <2>1 DEF Idle
<1>8. ASSUME NEW q \in Gs, q # p, \/ \E op \in Calls : fetchDataMap(q, op)
                                  \/ CallStep(q)
      PROVE  th'[p] = th[p]
  BY <1>0, <1>8 DEF fetchDataMap, CallStep, newGlsData, registerLoad, registerCas, registerRetry,
     Set, Del, AtExit, Reset, Unload, alreadyReset, closeData
<1>9. ASSUME NEW q \in Gs, \/ \E h \in Gs : Spawn(q, h)
                           \/ Goexit(q)
                           \/ \E ptr \in {User, Nil} : SetGoroutineLabels(q, ptr)
      PROVE  th' = th
  BY <1>9 DEF Spawn, Goexit, SetGoroutineLabels
<1>10. ASSUME NEW l \in Labels, FinalizerStep(l) PROVE th' = th
  BY <1>10 DEF FinalizerStep, finalize, finalizeCheck, finalizeLabels, regId, regLabels,
     regCheck, regCas, regRetry, resetGet, resetTake, resetClear, resetRun, resetDel, resetClose
<1>11. ASSUME UNCHANGED vars PROVE th' = th
  BY <1>11 DEF vars
<1>12. th'[p] = th[p] => Fine
  OBVIOUS
<1>13. Fine
  <2> HIDE DEF Fine
  <2> QED
    BY <1>1, <1>2, <1>3, <1>4, <1>5, <1>6, <1>7, <1>8, <1>9, <1>10, <1>11, <1>12
    DEF Next, Environment, CallStep
<1> QED
  BY <1>13

\* An exit procedure works on the glsData it finds, until it is done.
LEMMA FinEffect ==
  ASSUME TypeInv, [Next]_vars, NEW l \in Labels
  PROVE  \/ fin'[l].dm \in {fin[l].dm, Nil}
         \/ resetGet(l) /\ fin'[l].dm = slots[labelMap[l].se][labelMap[l].gp]
<1>0. fin \in [Labels -> FinCall]
  BY DEF TypeInv, TypeOK
<1>1. ASSUME NEW m \in Labels, fin' = [fin EXCEPT ![m].pc = "armed"] PROVE fin'[l].dm = fin[l].dm
  BY <1>0, <1>1 DEF FinCall
<1>2. ASSUME NEW m \in Labels, regCas(m) PROVE fin'[l].dm = fin[l].dm
  <2>1. PICK n \in Labels :
          fin' = [fin EXCEPT ![m].pc = "done", ![m].old = Nil, ![n].pc = "armed"]
    BY <1>2 DEF regCas
  <2> QED
    BY <1>0, <2>1 DEF FinCall
<1>3. ASSUME NEW m \in Labels, FinalizerStep(m), ~regCas(m) PROVE m # l => fin'[l] = fin[l]
  BY <1>0, <1>3 DEF FinalizerStep, finalize, finalizeCheck, finalizeLabels, regId, regLabels,
     regCheck, regRetry, resetGet, resetTake, resetClear, resetRun, resetDel, resetClose
<1>4. ASSUME finalize(l) \/ finalizeCheck(l) \/ finalizeLabels(l) \/ regId(l) \/ regLabels(l)
      PROVE  fin'[l].dm = fin[l].dm
  BY <1>0, <1>4 DEF finalize, finalizeCheck, finalizeLabels, regId, regLabels, FinCall
<1>5. ASSUME regCheck(l) \/ regRetry(l) PROVE fin'[l].dm = fin[l].dm
  BY <1>0, <1>5 DEF regCheck, regRetry, FinCall
<1>6. ASSUME resetTake(l) \/ resetClear(l) \/ resetRun(l) \/ resetDel(l)
      PROVE  fin'[l].dm = fin[l].dm
  BY <1>0, <1>6 DEF resetTake, resetClear, resetRun, resetDel, FinCall
<1>7. ASSUME resetClose(l) PROVE fin'[l].dm = Nil
  BY <1>0, <1>7 DEF resetClose, FinCall
<1>8. ASSUME resetGet(l) PROVE fin'[l].dm = slots[labelMap[l].se][labelMap[l].gp]
  BY <1>0, <1>8 DEF resetGet, getGlsData, FinCall
<1>9. ASSUME NEW p \in Gs, Environment(p) PROVE fin' = fin
  BY <1>9 DEF Environment, Spawn, Goexit, SetGoroutineLabels, fetchDataMap
<1>10. ASSUME NEW p \in Gs, CallStep(p) PROVE fin'[l].dm = fin[l].dm
  BY <1>1, <1>10 DEF CallStep, newGlsData, registerLoad, registerCas, registerRetry, Set, Del,
     AtExit, Reset, Unload, alreadyReset, closeData
<1>11. ASSUME UNCHANGED vars PROVE fin' = fin
  BY <1>11 DEF vars
<1> QED
  BY <1>2, <1>3, <1>4, <1>5, <1>6, <1>7, <1>8, <1>9, <1>10, <1>11 DEF Next, FinalizerStep

(***************************************************************************)
(* Owners.  The store is indexed by g and by shard, so a glsData can       *)
(* only be taken for that of another goroutine if the runtime starts a     *)
(* goroutine on a g for which its shard still has an entry.  VacantStart   *)
(* says that a step does not do that.  An entry then belongs to the last   *)
(* goroutine of the shard that ran on the g, and the calls and the glsData *)
(* hold what that goroutine allocated and stored.                          *)
(***************************************************************************)

\* Goroutine o of shard s has run on p, and no goroutine of s has since.
Occupant(p, s, o) ==
  /\ o # 0 /\ o < nextGoid /\ findSlot(o) = s
  /\ goid[p] # 0
  /\ findSlot(goid[p]) = s => goid[p] = o
  /\ \A q \in Gs : goid[q] = o => q = p

LEMMA OccupantNow ==
  ASSUME TypeInv, NEW p \in Gs, goid[p] # 0
  PROVE  Occupant(p, findSlot(goid[p]), goid[p])
BY DEF TypeInv, GoidInv, Occupant

LEMMA OccupantKept ==
  ASSUME TypeInv, [Next]_vars, NEW p \in Gs, NEW s, NEW o \in Nat, Occupant(p, s, o),
         goid'[p] # goid[p] => findSlot(goid'[p]) # s
  PROVE  Occupant(p, s, o)'
<1>1. nextGoid \in Nat /\ nextGoid' \in Nat /\ nextGoid <= nextGoid'
  BY StartEffect
<1>2. \A q \in Gs : goid'[q] = goid[q] \/ goid'[q] = nextGoid
  BY StartEffect
<1>3. o < nextGoid'
  BY <1>1 DEF Occupant
<1>4. \A q \in Gs : goid'[q] = o => q = p
  BY <1>1, <1>2 DEF Occupant
<1>5. goid'[p] # 0
  BY <1>1, <1>2 DEF Occupant
<1>6. findSlot(goid'[p]) = s => goid'[p] = o
  BY <1>2 DEF Occupant
<1> QED
  BY <1>3, <1>4, <1>5, <1>6 DEF Occupant

SlotOwner ==
  \A s \in Shards, p \in Gs :
    slots[s][p] # Nil => Occupant(p, s, dmOwner[slots[s][p]])

DataOwner ==
  \A d \in Dms :
    /\ \A k \in Keys : dms[d].data[k] # NoItem => dms[d].data[k][1] = dmOwner[d]
    /\ \A n \in DOMAIN dms[d].atExitFuncs : dms[d].atExitFuncs[n][1] = dmOwner[d]

CallOwner ==
  \A p \in Gs :
    /\ th[p].dm # Nil => goid[p] # 0 /\ dmOwner[th[p].dm] = goid[p]
    /\ th[p].pc = "idle" => th[p].dm = Nil

OwnerInv == SlotOwner /\ DataOwner /\ CallOwner

LEMMA OwnerInvInit == Init => OwnerInv
BY DEF Init, OwnerInv, SlotOwner, DataOwner, CallOwner, Idle, newData, Nil, NoItem

LEMMA SlotOwnerStep ==
  ASSUME VacantStart, TypeInv, OwnerInv, [Next]_vars PROVE SlotOwner'
<1> SUFFICES ASSUME NEW s \in Shards, NEW p \in Gs, NEW d, d = slots'[s][p], d # Nil
             PROVE  Occupant(p, s, dmOwner[d])'
  BY DEF SlotOwner
<1>0. slots[s][p] \in Dms \cup {Nil} /\ dmOwner \in [Dms -> Nat]
  BY GlsConstants DEF TypeInv, TypeOK
<1>1. CASE slots[s][p] = d
  <2>1. d \in Dms /\ Occupant(p, s, dmOwner[d])
    BY <1>0, <1>1 DEF OwnerInv, SlotOwner
  <2>2. dmOwner'[d] = dmOwner[d] /\ dmOwner[d] \in Nat
    BY <1>0, <2>1, OwnerFixed DEF Occupant
  <2>3. goid'[p] # goid[p] => findSlot(goid'[p]) # s
    BY <1>1 DEF VacantStart
  <2>4. Occupant(p, s, dmOwner[d])'
    <3>1. PICK o \in Nat : o = dmOwner[d]
      BY <2>2
    <3>2. Occupant(p, s, o)'
      BY <2>1, <2>3, <3>1, OccupantKept
    <3> QED
      BY <2>2, <3>1, <3>2 DEF Occupant
  <2> QED
    BY <2>4
<1>2. CASE \E e \in Dms : newGlsData(p, e) /\ s = findSlot(goid[p]) /\ d = e
  <2>1. /\ newGlsData(p, d) /\ d \in Dms /\ s = findSlot(goid[p])
        /\ goid[p] # 0 /\ goid' = goid /\ nextGoid' = nextGoid
    BY <1>2 DEF newGlsData, InCall, TypeInv, GoidInv, runtimeVars
  <2>2. dmOwner'[d] = goid[p]
    BY <1>0, <2>1 DEF newGlsData
  <2> QED
    BY <2>1, <2>2, OccupantNow DEF Occupant
<1> QED
  BY <1>1, <1>2, SlotsEffect

LEMMA CallOwnerStep ==
  ASSUME TypeInv, OwnerInv, [Next]_vars PROVE CallOwner'
<1> SUFFICES ASSUME NEW p \in Gs
             PROVE  /\ th'[p].dm # Nil => goid'[p] # 0 /\ dmOwner'[th'[p].dm] = goid'[p]
                    /\ th'[p].pc = "idle" => th'[p].dm = Nil
  BY DEF CallOwner
<1>0. th \in [Gs -> GoCall] /\ dmOwner \in [Dms -> 0..MaxGoid] /\ goid \in [Gs -> 0..MaxGoid]
  BY DEF TypeInv, TypeOK
<1>1. th'[p].pc = "idle" => th'[p].dm = Nil
  BY CallEffect DEF OwnerInv, CallOwner
<1>2. ASSUME th'[p].dm = th[p].dm, th'[p].dm # Nil
      PROVE  goid'[p] # 0 /\ dmOwner'[th'[p].dm] = goid'[p]
  <2>1. goid[p] # 0 /\ dmOwner[th[p].dm] = goid[p] /\ status[p] = "running" /\ th[p].dm \in Dms
    BY <1>0, <1>2 DEF OwnerInv, CallOwner, TypeInv, CallInv, GoCall
  <2>2. goid'[p] = goid[p]
    BY <2>1, StartEffect DEF Spawn
  <2> QED
    BY <1>2, <2>1, <2>2, OwnerFixed
<1>3. ASSUME NEW d \in Dms, newGlsData(p, d), th'[p].dm = d
      PROVE  goid'[p] # 0 /\ dmOwner'[th'[p].dm] = goid'[p]
  BY <1>0, <1>3 DEF newGlsData, InCall, TypeInv, GoidInv, runtimeVars
<1>4. ASSUME NEW op \in Calls, fetchDataMap(p, op), th'[p].dm = slots[findSlot(goid[p])][p],
             th'[p].dm # Nil
      PROVE  goid'[p] # 0 /\ dmOwner'[th'[p].dm] = goid'[p]
  <2>1. findSlot(goid[p]) \in Shards
    BY <1>0, FindSlotType, GlsConstants
  <2>2. goid[p] # 0 /\ dmOwner[th'[p].dm] = goid[p]
    BY <1>4, <2>1 DEF OwnerInv, SlotOwner, Occupant
  <2> QED
    BY <1>4, <2>2 DEF fetchDataMap, runtimeVars, storeVars
<1> QED
  BY <1>1, <1>2, <1>3, <1>4, CallEffect

LEMMA DataOwnerStep ==
  ASSUME TypeInv, OwnerInv, [Next]_vars PROVE DataOwner'
<1>0. dms \in [Dms -> GlsData] /\ dmOwner \in [Dms -> 0..MaxGoid]
  BY DEF TypeInv, TypeOK
<1>1. ASSUME NEW p \in Gs, Environment(p) PROVE UNCHANGED <<dms, dmOwner>>
  BY <1>1 DEF Environment, Spawn, Goexit, SetGoroutineLabels, fetchDataMap, storeVars
<1>2. ASSUME NEW p \in Gs, \/ registerLoad(p) \/ registerRetry(p) \/ registerCas(p)
                           \/ Unload(p) \/ alreadyReset(p) \/ closeData(p)
      PROVE  UNCHANGED <<dms, dmOwner>>
  BY <1>2 DEF registerLoad, registerRetry, registerCas, Unload, alreadyReset, closeData, storeVars
<1>3. ASSUME NEW l \in Labels, FinalizerStep(l), ~resetClear(l) PROVE UNCHANGED <<dms, dmOwner>>
  BY <1>3 DEF FinalizerStep, finalize, finalizeCheck, finalizeLabels, regId, regLabels,
     regCheck, regCas, regRetry, resetGet, resetTake, resetRun, resetDel, resetClose, storeVars
<1>4. ASSUME UNCHANGED <<dms, dmOwner>> PROVE DataOwner'
  BY <1>4 DEF OwnerInv, DataOwner
<1>5. ASSUME NEW p \in Gs, NEW d \in Dms, newGlsData(p, d) PROVE DataOwner'
  <2>1. /\ dms'[d] = newData
        /\ \A e \in Dms \ {d} : dms'[e] = dms[e] /\ dmOwner'[e] = dmOwner[e]
    BY <1>0, <1>5 DEF newGlsData
  <2> QED
    BY <2>1 DEF newData, OwnerInv, DataOwner
<1>6. ASSUME NEW p \in Gs, NEW k \in Keys, Set(p, k) PROVE DataOwner'
  <2>0. dms \in [Dms -> GlsData] /\ dms' = [dms EXCEPT ![th[p].dm].data[k] = <<goid[p], nitems[goid[p]] + 1>>]
    BY <1>6 DEF Set, TypeInv, TypeOK
  <2>1. th' = [th EXCEPT ![p] = Idle] /\ UNCHANGED <<goid, slots, dmOwner>>
    BY <1>6 DEF Set, runtimeVars
  <2>2. th[p].dm \in Dms /\ dmOwner[th[p].dm] = goid[p]
    BY <1>6 DEF Set, Acting, InCall, TypeInv, CallInv, OwnerInv, CallOwner, Dms, Nil
  <2>3. \A d \in Dms, key \in Keys :
          \/ dms'[d].data[key] = dms[d].data[key]
          \/ d = th[p].dm /\ dms'[d].data[key] = <<goid[p], nitems[goid[p]] + 1>>
    BY <2>0 DEF GlsData
  <2>4. \A d \in Dms : dms'[d].atExitFuncs = dms[d].atExitFuncs
    BY <2>0 DEF GlsData
  <2> QED
    BY <2>1, <2>2, <2>3, <2>4 DEF OwnerInv, DataOwner
<1>7. ASSUME NEW p \in Gs, AtExit(p) PROVE DataOwner'
  <2>0. dms \in [Dms -> GlsData] /\ dms' = [dms EXCEPT ![th[p].dm].atExitFuncs = Append(@, <<goid[p], nfuncs[goid[p]] + 1>>)]
    BY <1>7 DEF AtExit, TypeInv, TypeOK
  <2>1. th' = [th EXCEPT ![p] = Idle] /\ UNCHANGED <<goid, slots, dmOwner>>
    BY <1>7 DEF AtExit, runtimeVars
  <2>2. th[p].dm \in Dms /\ dmOwner[th[p].dm] = goid[p]
    BY <1>7 DEF AtExit, Acting, InCall, TypeInv, CallInv, OwnerInv, CallOwner, Dms, Nil
  <2>3. \A d \in Dms : dms'[d].data = dms[d].data
    BY <2>0 DEF GlsData
  <2>4. \A d \in Dms :
          dms'[d].atExitFuncs = IF d = th[p].dm
                                THEN Append(dms[d].atExitFuncs, <<goid[p], nfuncs[goid[p]] + 1>>)
                                ELSE dms[d].atExitFuncs
    BY <2>0 DEF GlsData
  <2>5. \A d \in Dms : dms[d].atExitFuncs \in Seq(Handlers)
    BY DEF TypeInv, TypeOK, GlsData
  <2>6. \A d \in Dms : \A n \in DOMAIN dms'[d].atExitFuncs : dms'[d].atExitFuncs[n][1] = dmOwner[d]
    <3> SUFFICES ASSUME NEW d \in Dms, NEW n \in DOMAIN dms'[d].atExitFuncs
                 PROVE  dms'[d].atExitFuncs[n][1] = dmOwner[d]
      OBVIOUS
    <3> DEFINE fs == dms[d].atExitFuncs
               h == <<goid[p], nfuncs[goid[p]] + 1>>
    <3>1. \A m \in DOMAIN fs : fs[m][1] = dmOwner[d]
      BY DEF OwnerInv, DataOwner
    <3>2. CASE d # th[p].dm
      BY <2>4, <3>1, <3>2
    <3>3. CASE d = th[p].dm
      <4>1. dms'[d].atExitFuncs = Append(fs, h) /\ fs \in Seq(Handlers)
        BY <2>4, <2>5, <3>3
      <4>2. h[1] = dmOwner[d]
        BY <2>2, <3>3
      <4> HIDE DEF fs, h
      <4>3. \/ n \in DOMAIN fs /\ Append(fs, h)[n] = fs[n]
            \/ Append(fs, h)[n] = h
        BY <4>1
      <4> QED
        BY <3>1, <4>1, <4>2, <4>3
    <3> QED
      BY <3>2, <3>3
  <2> QED
    BY <2>1, <2>3, <2>6 DEF OwnerInv, DataOwner
<1>8. ASSUME NEW p \in Gs, NEW k \in Keys, Del(p, k) PROVE DataOwner'
  <2>0. dms \in [Dms -> GlsData] /\ dms' = [dms EXCEPT ![th[p].dm].data[k] = NoItem]
    BY <1>8 DEF Del, TypeInv, TypeOK
  <2>1. th' = [th EXCEPT ![p] = Idle] /\ UNCHANGED <<goid, slots, dmOwner>>
    BY <1>8 DEF Del, runtimeVars
  <2>2. \A d \in Dms, key \in Keys : dms'[d].data[key] \in {dms[d].data[key], NoItem}
    BY <2>0 DEF GlsData
  <2>3. \A d \in Dms : dms'[d].atExitFuncs = dms[d].atExitFuncs
    BY <2>0 DEF GlsData
  <2> QED
    BY <2>1, <2>2, <2>3 DEF OwnerInv, DataOwner
<1>9. ASSUME NEW p \in Gs, Reset(p) PROVE DataOwner'
  <2>1. UNCHANGED <<goid, slots, dmOwner>>
    BY <1>9 DEF Reset, runtimeVars
  <2>2. th'[p].dm = Nil /\ \A q \in Gs \ {p} : th'[q] = th[q]
    BY <1>9 DEF Reset, Idle, TypeInv, TypeOK
  <2>3. \A d \in Dms, key \in Keys : dms'[d].data[key] \in {dms[d].data[key], NoItem}
    <3>1. dms \in [Dms -> GlsData]
      BY DEF TypeInv, TypeOK
    <3>2. dms' = [dms EXCEPT ![th[p].dm].data = newData.data]
      BY <1>9 DEF Reset, resetData
    <3>3. \A key \in Keys : newData.data[key] = NoItem
      BY DEF newData
    <3> QED
      BY <3>1, <3>2, <3>3 DEF GlsData
  <2>4. \A d \in Dms : dms'[d].atExitFuncs = dms[d].atExitFuncs
    <3>1. dms \in [Dms -> GlsData]
      BY DEF TypeInv, TypeOK
    <3>2. dms' = [dms EXCEPT ![th[p].dm].data = newData.data]
      BY <1>9 DEF Reset, resetData
    <3> QED
      BY <3>1, <3>2 DEF GlsData
  <2> QED
    BY <2>1, <2>3, <2>4 DEF OwnerInv, DataOwner
<1>10. ASSUME NEW l \in Labels, resetClear(l) PROVE DataOwner'
  <2>0. dms \in [Dms -> GlsData] /\ dms' = [dms EXCEPT ![fin[l].dm].atExitFuncs = <<>>, ![fin[l].dm].done = TRUE]
    BY <1>10 DEF resetClear, TypeInv, TypeOK
  <2>1. UNCHANGED <<goid, th, slots, dmOwner>>
    BY <1>10 DEF resetClear, runtimeVars
  <2>2. \A d \in Dms : /\ dms'[d].data = dms[d].data
                       /\ dms'[d].atExitFuncs \in {dms[d].atExitFuncs, <<>>}
    BY <2>0 DEF GlsData
  <2> QED
    BY <2>1, <2>2 DEF OwnerInv, DataOwner
<1>11. ASSUME UNCHANGED vars PROVE UNCHANGED <<dms, dmOwner>>
  BY <1>11 DEF vars, storeVars
<1> QED
  BY <1>1, <1>2, <1>3, <1>4, <1>5, <1>6, <1>7, <1>8, <1>9, <1>10, <1>11
  DEF Next, CallStep

LEMMA OwnerInvStep ==
  ASSUME [VacantStart]_vars, TypeInv, OwnerInv, [Next]_vars PROVE OwnerInv'
<1>1. VacantStart
  BY DEF VacantStart, vars, runtimeVars
<1> QED
  BY <1>1, SlotOwnerStep, CallOwnerStep, DataOwnerStep DEF OwnerInv

\* Only the runtime starts goroutines.
LEMMA StartsNone ==
  ASSUME \/ \E p \in Gs : CallStep(p)
         \/ \E l \in Labels : FinalizerStep(l)
         \/ UNCHANGED vars
  PROVE  ApartStart
<1>1. ASSUME NEW p \in Gs, CallStep(p) PROVE goid' = goid
  BY <1>1 DEF CallStep, newGlsData, registerLoad, registerCas, registerRetry, Set, Del, AtExit,
     Reset, Unload, alreadyReset, closeData, runtimeVars
<1>2. ASSUME NEW l \in Labels, FinalizerStep(l) PROVE goid' = goid
  BY <1>2 DEF FinalizerStep, finalize, finalizeCheck, finalizeLabels, regId, regLabels,
     regCheck, regCas, regRetry, resetGet, resetTake, resetClear, resetRun, resetDel,
     resetClose, runtimeVars
<1>3. ASSUME UNCHANGED vars PROVE goid' = goid
  BY <1>3 DEF vars, runtimeVars
<1>4. goid' = goid
  BY <1>1, <1>2, <1>3
<1> QED
  BY <1>4 DEF VacantStart, ApartStart

LEMMA SpecOfApart == ApartSpec => Spec /\ [][ApartStart]_vars
<1>1. [ApartNext]_vars => [Next]_vars /\ [ApartStart]_vars
  BY StartsNone DEF ApartNext, Next
<1> QED
  BY <1>1, PTL DEF ApartSpec, Spec

(***************************************************************************)
(* Closed data.  A glsData is found in one shard and under one g at most,  *)
(* by the store, by a call of the goroutine on that g and by an exit       *)
(* procedure for it, even if the g is recycled; and a Data is in at most   *)
(* one glsData, under a number that no earlier Data has.  So whoever       *)
(* closes the data of a glsData, after it left the store or with its map   *)
(* replaced, closes nothing that Get can still find.                       *)
(***************************************************************************)
InStore(d) == \E s \in Shards, p \in Gs : slots[s][p] = d

\* The glsData d is reached through shard s and g p.
FoundAt(d, s, p) ==
  \/ slots[s][p] = d
  \/ th[p].dm = d /\ findSlot(goid[p]) = s
  \/ \E l \in Labels : fin[l].dm = d /\ labelMap[l].se = s /\ labelMap[l].gp = p

PlaceInv ==
  /\ \A p \in Gs : th[p].pc = "idle" => th[p].dm = Nil
  /\ \A l \in Labels : fin[l].pc = "free" => fin[l].dm = Nil
  /\ \A d \in Dms, s \in Shards, p \in Gs : FoundAt(d, s, p) => dmOwner[d] # 0
  /\ \A d \in Dms : \A s, t \in Shards, p, q \in Gs :
       FoundAt(d, s, p) /\ FoundAt(d, t, q) => s = t /\ p = q

Stored(it) == it[2] <= nitems[it[1]]

ItemInv ==
  /\ \A d \in Dms : \A it \in itemsOf(d) : Stored(it)
  /\ \A it \in closed : Stored(it)
  /\ \A p \in Gs : \A it \in th[p].closing : Stored(it)
  /\ \A d, e \in Dms : d # e => itemsOf(d) \cap itemsOf(e) = {}

CloseInv ==
  /\ \A d \in Dms : InStore(d) => /\ itemsOf(d) \cap closed = {}
                                  /\ \A p \in Gs : itemsOf(d) \cap th[p].closing = {}
  /\ \A l \in Labels : fin[l].pc = "close" => ~InStore(fin[l].dm)

LEMMA PlaceInvInit == Init => PlaceInv
<1> SUFFICES ASSUME Init PROVE PlaceInv
  OBVIOUS
<1>1. \A d \in Dms, s \in Shards, p \in Gs : ~FoundAt(d, s, p)
  BY DEF Init, FoundAt, Idle, NoFinalizer, Dms, Nil
<1> QED
  BY <1>1 DEF Init, PlaceInv, Idle, NoFinalizer

\* A finalizer that has not been set holds no glsData.
LEMMA FreeKept ==
  ASSUME TypeInv, PlaceInv, [Next]_vars, NEW l \in Labels, fin'[l].pc = "free"
  PROVE  fin'[l].dm = Nil
<1>1. fin[l].pc = "free" /\ fin[l].dm = Nil
  BY LabelMapFixed DEF PlaceInv
<1>2. ~resetGet(l)
  BY <1>1 DEF resetGet
<1> QED
  BY <1>1, <1>2, FinEffect

\* Only newGlsData makes a glsData known.
LEMMA FoundAtEffect ==
  ASSUME TypeInv, PlaceInv, [Next]_vars,
         NEW d \in Dms, NEW s \in Shards, NEW p \in Gs, FoundAt(d, s, p)'
  PROVE  FoundAt(d, s, p) \/ (newGlsData(p, d) /\ s = findSlot(goid[p]))
<1>0. d # Nil
  BY DEF Dms, Nil
<1>1. CASE slots'[s][p] = d
  BY <1>0, <1>1, SlotsEffect DEF FoundAt
<1>2. CASE th'[p].dm = d /\ findSlot(goid'[p]) = s
  <2>1. CASE th[p].dm = d
    <3>1. status[p] = "running"
      BY <1>0, <2>1 DEF PlaceInv, TypeInv, CallInv
    <3>2. goid'[p] = goid[p]
      BY <3>1, StartEffect DEF Spawn
    <3> QED
      BY <1>2, <2>1, <3>2 DEF FoundAt
  <2>2. CASE newGlsData(p, d)
    BY <1>2, <2>2 DEF newGlsData, runtimeVars
  <2>3. CASE \E op \in Calls : fetchDataMap(p, op) /\ th'[p].dm = slots[findSlot(goid[p])][p]
    BY <1>2, <2>3 DEF fetchDataMap, runtimeVars, FoundAt
  <2> QED
    BY <1>0, <1>2, <2>1, <2>2, <2>3, CallEffect
<1>3. ASSUME NEW l \in Labels, fin'[l].dm = d, labelMap'[l].se = s, labelMap'[l].gp = p
      PROVE  FoundAt(d, s, p)
  <2>1. CASE fin[l].dm = d
    <3>1. fin[l].pc # "free"
      BY <1>0, <2>1 DEF PlaceInv
    <3> QED
      BY <1>3, <2>1, <3>1, LabelMapFixed DEF FoundAt
  <2>2. CASE resetGet(l) /\ fin'[l].dm = slots[labelMap[l].se][labelMap[l].gp]
    BY <1>3, <2>2 DEF resetGet, FoundAt
  <2> QED
    BY <1>0, <1>3, <2>1, <2>2, FinEffect
<1> QED
  BY <1>1, <1>2, <1>3 DEF FoundAt

LEMMA PlaceInvStep ==
  ASSUME TypeInv, PlaceInv, [Next]_vars PROVE PlaceInv'
<1>0. dmOwner \in [Dms -> 0..MaxGoid] /\ th \in [Gs -> GoCall]
  BY DEF TypeInv, TypeOK
<1>1. \A p \in Gs : th'[p].pc = "idle" => th'[p].dm = Nil
  BY CallEffect DEF PlaceInv
<1>2. \A l \in Labels : fin'[l].pc = "free" => fin'[l].dm = Nil
  BY FreeKept
<1>3. ASSUME NEW d \in Dms, NEW p \in Gs, newGlsData(p, d)
      PROVE  /\ \A s \in Shards, q \in Gs : ~FoundAt(d, s, q)
             /\ dmOwner'[d] # 0
             /\ \A q \in Gs : newGlsData(q, d) => p = q
  <2>1. dmOwner[d] = 0 /\ goid[p] # 0 /\ dmOwner'[d] = goid[p]
    BY <1>0, <1>3 DEF newGlsData, FreshDm, InCall, TypeInv, GoidInv
  <2>2. ASSUME NEW q \in Gs, newGlsData(q, d), p # q PROVE FALSE
    <3>1. th'[q].pc = "load" /\ th[q].pc = "create"
      BY <1>0, <2>2 DEF newGlsData, InCall, GoCall
    <3>2. th'[q] = th[q]
      BY <1>0, <1>3, <2>2 DEF newGlsData
    <3> QED
      BY <3>1, <3>2
  <2> QED
    BY <2>1, <2>2 DEF PlaceInv
<1>4. ASSUME NEW d \in Dms, NEW s \in Shards, NEW p \in Gs, FoundAt(d, s, p)'
      PROVE  dmOwner'[d] # 0
  <2>1. CASE FoundAt(d, s, p)
    BY <2>1, OwnerFixed DEF PlaceInv
  <2>2. CASE newGlsData(p, d)
    BY <1>3, <2>2
  <2> QED
    BY <1>4, <2>1, <2>2, FoundAtEffect
<1>5. ASSUME NEW d \in Dms, NEW s \in Shards, NEW t \in Shards, NEW p \in Gs, NEW q \in Gs,
             FoundAt(d, s, p)', FoundAt(d, t, q)'
      PROVE  s = t /\ p = q
  <2>1. FoundAt(d, s, p) \/ (newGlsData(p, d) /\ s = findSlot(goid[p]))
    BY <1>5, FoundAtEffect
  <2>2. FoundAt(d, t, q) \/ (newGlsData(q, d) /\ t = findSlot(goid[q]))
    BY <1>5, FoundAtEffect
  <2>3. CASE FoundAt(d, s, p) /\ FoundAt(d, t, q)
    BY <2>3 DEF PlaceInv
  <2>4. CASE newGlsData(p, d)
    BY <1>3, <2>1, <2>2, <2>4
  <2>5. CASE newGlsData(q, d)
    BY <1>3, <2>1, <2>2, <2>5
  <2> QED
    BY <2>1, <2>2, <2>3, <2>4, <2>5
<1>6. (\A d \in Dms, s \in Shards, p \in Gs : FoundAt(d, s, p) => dmOwner[d] # 0)'
  BY <1>4
<1>7. (\A d \in Dms : \A s, t \in Shards, p, q \in Gs :
         FoundAt(d, s, p) /\ FoundAt(d, t, q) => s = t /\ p = q)'
  BY <1>5
<1> QED
  BY <1>1, <1>2, <1>6, <1>7 DEF PlaceInv

\* A glsData leaves the store with the entry it was found in.
LEMMA OutOfStore ==
  ASSUME TypeInv, PlaceInv, [Next]_vars, NEW d \in Dms, NEW s \in Shards, NEW p \in Gs,
         FoundAt(d, s, p), slots'[s][p] # d
  PROVE  ~InStore(d)'
<1> SUFFICES ASSUME NEW t \in Shards, NEW q \in Gs, slots'[t][q] = d PROVE FALSE
  BY DEF InStore
<1>1. FoundAt(d, t, q) \/ newGlsData(q, d)
  BY FoundAtEffect DEF FoundAt
<1>2. ~newGlsData(q, d)
  BY DEF PlaceInv, newGlsData, FreshDm
<1> QED
  BY <1>1, <1>2 DEF PlaceInv

\* What a step other than Set leaves in a glsData was there before.
LEMMA ItemsShrink ==
  ASSUME TypeInv, [Next]_vars, ~\E p \in Gs, k \in Keys : Set(p, k)
  PROVE  \A d \in Dms : itemsOf(d)' \subseteq itemsOf(d)
BY DataEffect DEF itemsOf

\* Set adds one Data, whose number is new.
LEMMA ItemsOfSet ==
  ASSUME TypeInv, NEW p \in Gs, NEW k \in Keys, Set(p, k),
         NEW d, d = th[p].dm, NEW it, it = <<goid[p], nitems[goid[p]] + 1>>
  PROVE  /\ \A e \in Dms \ {d} : itemsOf(e)' = itemsOf(e)
         /\ itemsOf(d)' \subseteq itemsOf(d) \cup {it}
         /\ ~Stored(it) /\ Stored(it)'
         /\ \A i \in Items : Stored(i) => Stored(i)'
<1> DEFINE i == goid[p]
<1>0. dms \in [Dms -> GlsData] /\ nitems \in [Goids -> 0..MaxItems] /\ MaxItems \in Nat
  BY GlsConstants DEF TypeInv, TypeOK
<1>1. i \in Goids
  BY DEF Set, Acting, InCall, TypeInv, GoidInv, TypeOK, Goids
<1>2. dms' = [dms EXCEPT ![d].data[k] = it] /\ nitems' = [nitems EXCEPT ![i] = @ + 1]
  BY DEF Set
<1>3. nitems'[i] = nitems[i] + 1 /\ \A j \in Goids : nitems'[j] \in Nat /\ nitems[j] <= nitems'[j]
  BY <1>0, <1>1, <1>2
<1>4. ~Stored(it) /\ Stored(it)'
  BY <1>0, <1>1, <1>3 DEF Stored
<1>5. \A j \in Items : Stored(j) => Stored(j)'
  BY <1>0, <1>3 DEF Stored, Items
<1>6. \A e \in Dms, key \in Keys :
        \/ dms'[e].data[key] = dms[e].data[key]
        \/ e = d /\ dms'[e].data[key] = it
  BY <1>0, <1>2 DEF GlsData
<1>7. \A e \in Dms \ {d} : itemsOf(e)' = itemsOf(e)
  BY <1>6 DEF itemsOf
<1>8. d \in Dms
  BY DEF Set, Acting, InCall, TypeInv, CallInv
<1>9. itemsOf(d)' \subseteq itemsOf(d) \cup {it}
  BY <1>6, <1>8 DEF itemsOf
<1> QED
  BY <1>4, <1>5, <1>7, <1>9

LEMMA ItemInvInit == Init => ItemInv
<1> SUFFICES ASSUME Init PROVE ItemInv
  OBVIOUS
<1>1. \A d \in Dms : itemsOf(d) = {}
  BY DEF Init, itemsOf, newData
<1> QED
  BY <1>1 DEF Init, ItemInv, Idle

LEMMA ItemInvStep ==
  ASSUME TypeInv, TypeInv', ItemInv, [Next]_vars PROVE ItemInv'
<1>0. ASSUME NEW p \in Gs, Reset(p) \/ Unload(p) PROVE th[p].dm \in Dms
  BY <1>0 DEF Reset, Unload, Acting, InCall, TypeInv, CallInv
<1>1. ASSUME NEW l \in Labels, resetClose(l) PROVE fin[l].dm \in Dms
  BY <1>1 DEF resetClose, TypeInv, FinInv, ResetPcs
<1>2. \A it \in closed' : Stored(it)
  BY <1>1, ClosedEffect DEF ItemInv
<1>3. \A p \in Gs : \A it \in th'[p].closing : Stored(it)
  BY <1>0, ClosingEffect DEF ItemInv
<1>4. closed' \subseteq Items /\ \A p \in Gs : th'[p].closing \subseteq Items
  BY DEF TypeInv, TypeOK, GoCall
<1>5. \A d \in Dms : itemsOf(d) \subseteq Items
  BY ItemsOfType DEF TypeInv
<1>6. CASE ~\E p \in Gs, k \in Keys : Set(p, k)
  <2>1. nitems' = nitems
    BY <1>6, DataEffect
  <2>2. \A d \in Dms : itemsOf(d)' \subseteq itemsOf(d)
    BY <1>6, ItemsShrink
  <2>3. \A it : Stored(it)' <=> Stored(it)
    BY <2>1 DEF Stored
  <2> QED
    BY <1>2, <1>3, <2>2, <2>3 DEF ItemInv
<1>7. CASE \E p \in Gs, k \in Keys : Set(p, k)
  <2>1. PICK p \in Gs, k \in Keys : Set(p, k)
    BY <1>7
  <2>0. PICK c, it : c = th[p].dm /\ it = <<goid[p], nitems[goid[p]] + 1>>
    OBVIOUS
  <2>2. /\ \A d \in Dms \ {c} : itemsOf(d)' = itemsOf(d)
        /\ itemsOf(c)' \subseteq itemsOf(c) \cup {it}
        /\ ~Stored(it) /\ Stored(it)'
        /\ \A i \in Items : Stored(i) => Stored(i)'
    BY <2>0, <2>1, ItemsOfSet
  <2>3. \A d \in Dms : itemsOf(d)' \subseteq itemsOf(d) \cup {it}
    BY <2>2
  <2>4. (\A d \in Dms : \A i \in itemsOf(d) : Stored(i))'
    BY <1>5, <2>2, <2>3 DEF ItemInv
  <2>5. (\A d, e \in Dms : d # e => itemsOf(d) \cap itemsOf(e) = {})'
    <3> SUFFICES ASSUME NEW d \in Dms, NEW e \in Dms, d # e, NEW i \in itemsOf(d)' \cap itemsOf(e)'
                 PROVE  FALSE
      OBVIOUS
    <3>1. CASE i = it
      <4>1. d # c => i \in itemsOf(d)
        BY <2>2
      <4>2. e # c => i \in itemsOf(e)
        BY <2>2
      <4> QED
        BY <2>2, <3>1, <4>1, <4>2 DEF ItemInv
    <3>2. CASE i # it
      BY <2>3, <3>2 DEF ItemInv
    <3> QED
      BY <3>1, <3>2
  <2> QED
    BY <1>2, <1>3, <1>4, <2>2, <2>4, <2>5 DEF ItemInv
<1> QED
  BY <1>6, <1>7

LEMMA CloseInvInit == Init => CloseInv
<1> SUFFICES ASSUME Init PROVE CloseInv
  OBVIOUS
<1>1. \A d \in Dms : ~InStore(d)
  BY DEF Init, InStore, Dms, Nil
<1> QED
  BY <1>1 DEF Init, CloseInv, NoFinalizer

LEMMA CloseInvStep ==
  ASSUME TypeInv, TypeInv', PlaceInv, ItemInv, CloseInv, [Next]_vars
  PROVE  CloseInv'
<1>1. ASSUME NEW p \in Gs, Reset(p) \/ Unload(p) PROVE th[p].dm \in Dms
  BY <1>1 DEF Reset, Unload, Acting, InCall, TypeInv, CallInv
<1>2. ASSUME NEW d \in Dms, InStore(d)'
      PROVE  InStore(d) \/ \E p \in Gs : newGlsData(p, d)
  <2>1. PICK s \in Shards, p \in Gs : slots'[s][p] = d
    BY <1>2 DEF InStore
  <2>2. d # Nil
    BY DEF Dms, Nil
  <2> QED
    BY <2>1, <2>2, SlotsEffect DEF InStore
<1>4. ASSUME NEW l \in Labels, fin'[l].pc = "close", NEW c \in Dms, c = fin'[l].dm PROVE ~InStore(c)'
  <2>1. CASE fin[l].pc = "close" /\ fin'[l].dm = fin[l].dm
    <3>1. c = fin[l].dm /\ ~InStore(c) /\ fin[l].pc # "free"
      BY <1>4, <2>1 DEF CloseInv
    <3>2. labelMap[l].gp \in Gs /\ labelMap[l].se \in Shards
      BY <3>1 DEF TypeInv, TypeOK, FinInv, LabelMap
    <3>3. dmOwner[c] # 0
      BY <3>1, <3>2 DEF PlaceInv, FoundAt
    <3>4. \A p \in Gs : ~newGlsData(p, c)
      BY <3>3 DEF newGlsData, FreshDm
    <3> QED
      BY <1>2, <3>1, <3>4
  <2>2. CASE resetDel(l)
    <3> DEFINE p == labelMap[l].gp
    <3>1. /\ fin[l].pc = "run"
          /\ slots' = delGlsData(labelMap[l].se, p)
          /\ fin' = [fin EXCEPT ![l].pc = "close"]
          /\ UNCHANGED <<labelMap, goid>>
      BY <2>2 DEF resetDel, runtimeVars
    <3>3. fin[l].dm = c /\ fin'[l].pc # "free"
      BY <1>4, <3>1 DEF TypeInv, TypeOK, FinCall
    <3>2. p \in Gs /\ labelMap[l].se \in Shards
      BY <3>1 DEF TypeInv, TypeOK, FinInv, LabelMap
    <3>4. FoundAt(c, labelMap[l].se, p)
      BY <3>2, <3>3 DEF FoundAt
    <3>5. slots'[labelMap[l].se][p] = Nil
      BY <3>1, <3>2 DEF delGlsData, TypeInv, TypeOK
    <3> QED
      BY <3>2, <3>4, <3>5, OutOfStore DEF Dms, Nil
  <2> QED
    BY <1>4, <2>1, <2>2, FinalizerEffect
<1>5. ASSUME NEW d \in Dms, InStore(d)'
      PROVE  /\ itemsOf(d)' \cap closed' = {}
             /\ \A p \in Gs : itemsOf(d)' \cap th'[p].closing = {}
  <2>1. CASE \E p \in Gs : newGlsData(p, d)
    <3>1. ~\E p \in Gs, k \in Keys : Set(p, k)
      <4>1. dms'[d] = newData /\ nitems' = nitems
        BY <2>1 DEF newGlsData, userVars, TypeInv, TypeOK
      <4>2. ASSUME NEW p \in Gs, NEW k \in Keys, Set(p, k) PROVE FALSE
        <5>1. nitems' = [nitems EXCEPT ![goid[p]] = @ + 1] /\ goid[p] \in Goids
          BY <4>2 DEF Set, Acting, InCall, TypeInv, TypeOK, GoidInv, Goids
        <5>2. nitems[goid[p]] \in Nat /\ nitems'[goid[p]] = nitems[goid[p]] + 1
          BY <5>1, GlsConstants DEF TypeInv, TypeOK
        <5> QED
          BY <4>1, <5>2
      <4> QED
        BY <4>2
    <3>2. itemsOf(d)' = {}
      BY <2>1, <3>1, DataEffect DEF itemsOf, newData
    <3> QED
      BY <3>2
  <2>2. CASE InStore(d) /\ ~\E p \in Gs, k \in Keys : Set(p, k)
    <3>1. itemsOf(d)' \subseteq itemsOf(d)
      BY <2>2, ItemsShrink
    <3>2. itemsOf(d) \cap closed' = {}
      <4>1. ASSUME NEW l \in Labels, resetClose(l) PROVE itemsOf(d) \cap itemsOf(fin[l].dm) = {}
        BY <2>2, <4>1 DEF resetClose, CloseInv, ItemInv, TypeInv, FinInv, ResetPcs
      <4> QED
        BY <2>2, <4>1, ClosedEffect DEF CloseInv
    <3>3. ASSUME NEW p \in Gs PROVE itemsOf(d)' \cap th'[p].closing = {}
      <4>1. CASE th'[p].closing \in {th[p].closing, {}}
        BY <2>2, <3>1, <4>1 DEF CloseInv
      <4>2. CASE (Reset(p) \/ Unload(p)) /\ th[p].dm # d /\ th'[p].closing = itemsOf(th[p].dm)
        BY <1>1, <3>1, <4>2 DEF ItemInv
      <4>3. CASE Reset(p) /\ th[p].dm = d
        <5>1. dms' = [dms EXCEPT ![d].data = newData.data] /\ dms[d] \in GlsData
          BY <4>3 DEF Reset, resetData, TypeInv, TypeOK
        <5>2. dms'[d].data = newData.data
          BY <5>1 DEF TypeInv, TypeOK, GlsData
        <5>3. \A k \in Keys : dms'[d].data[k] = NoItem
          BY <5>2 DEF newData
        <5> QED
          BY <5>3 DEF itemsOf
      <4>4. CASE Unload(p) /\ th[p].dm = d
        <5>1. slots' = delGlsData(findSlot(goid[p]), p)
          BY <4>4 DEF Unload
        <5>2. findSlot(goid[p]) \in Shards
          BY FindSlotType DEF TypeInv, TypeOK
        <5>3. slots'[findSlot(goid[p])][p] = Nil
          BY <5>1, <5>2 DEF delGlsData, TypeInv, TypeOK
        <5>4. FoundAt(d, findSlot(goid[p]), p)
          BY <4>4 DEF FoundAt
        <5> QED
          BY <1>5, <5>2, <5>3, <5>4, OutOfStore DEF Dms, Nil
      <4> QED
        BY <4>1, <4>2, <4>3, <4>4, ClosingEffect
    <3> QED
      BY <3>1, <3>2, <3>3
  <2>3. CASE InStore(d) /\ \E p \in Gs, k \in Keys : Set(p, k)
    <3>1. PICK p \in Gs, k \in Keys : Set(p, k)
      BY <2>3
    <3>0. PICK c, it : c = th[p].dm /\ it = <<goid[p], nitems[goid[p]] + 1>>
      OBVIOUS
    <3>2. ~Stored(it) /\ itemsOf(d)' \subseteq itemsOf(d) \cup {it}
      <4>1. /\ \A e \in Dms \ {c} : itemsOf(e)' = itemsOf(e)
            /\ itemsOf(c)' \subseteq itemsOf(c) \cup {it}
            /\ ~Stored(it)
        BY <3>0, <3>1, ItemsOfSet
      <4> QED
        BY <4>1
    <3>3. closed' = closed
      BY <3>1 DEF Set
    <3>4. \A q \in Gs : th'[q].closing \subseteq th[q].closing
      BY <3>1 DEF Set, Idle, TypeInv, TypeOK
    <3>5. it \notin closed /\ \A q \in Gs : it \notin th[q].closing
      BY <3>2 DEF ItemInv
    <3> QED
      BY <2>3, <3>2, <3>3, <3>4, <3>5 DEF CloseInv
  <2> QED
    BY <1>2, <1>5, <2>1, <2>2, <2>3
<1>6. \A l \in Labels : fin'[l].pc = "close" => fin'[l].dm \in Dms
  BY DEF TypeInv, FinInv, ResetPcs
<1>7. (\A l \in Labels : fin[l].pc = "close" => ~InStore(fin[l].dm))'
  BY <1>4, <1>6 DEF InStore
<1> QED
  BY <1>5, <1>7 DEF CloseInv

(***************************************************************************)
(* What Get returns has not been closed by Reset, Unload or resetAtExit,   *)
(* whether or not a g is recycled, and even when labels are removed and a  *)
(* finalizer closes the data of a goroutine that runs.                     *)
(***************************************************************************)
THEOREM ClosedDataIsGone == Spec => []NoClosedDataVisible
<1> DEFINE IInv == PlaceInv /\ ItemInv /\ CloseInv
<1>1. Init => IInv
  BY PlaceInvInit, ItemInvInit, CloseInvInit
<1>2. TypeInv /\ TypeInv' /\ IInv /\ [Next]_vars => IInv'
  BY PlaceInvStep, ItemInvStep, CloseInvStep
<1>3. TypeInv /\ IInv => NoClosedDataVisible
  <2> SUFFICES ASSUME TypeInv, IInv, NEW p \in Gs, NEW k \in Keys, Get(p, k) \in closed
               PROVE  FALSE
    BY DEF NoClosedDataVisible
  <2> DEFINE d == slots[findSlot(goid[p])][p]
  <2>1. findSlot(goid[p]) \in Shards
    BY FindSlotType DEF TypeInv, TypeOK
  <2>2. Get(p, k) # NoItem
    BY GlsConstants DEF TypeInv, TypeOK, Items, Goids, NoItem
  <2>3. d \in Dms /\ Get(p, k) = dms[d].data[k]
    BY <2>1, <2>2 DEF Get, getGlsData, TypeInv, TypeOK
  <2>4. InStore(d) /\ Get(p, k) \in itemsOf(d)
    BY <2>1, <2>2, <2>3 DEF InStore, itemsOf
  <2> QED
    BY <2>3, <2>4 DEF CloseInv
<1> QED
  BY <1>1, <1>2, <1>3, TypeInvAlways, PTL DEF Spec

(***************************************************************************)
(* Whose data Get returns when a g is recycled at any time.  A glsData     *)
(* stays with its shard and g, so what it holds was stored by goroutines   *)
(* of that shard that have run on that g, of which at most the last runs.  *)
(***************************************************************************)

\* Goroutine o of shard s has run on p, and may still be the one on p.
RanHere(p, s, o) ==
  /\ o # 0 /\ o < nextGoid /\ findSlot(o) = s
  /\ \A q \in Gs : goid[q] = o => q = p

OriginInv ==
  \A d \in Dms, s \in Shards, p \in Gs :
    FoundAt(d, s, p) => \A it \in itemsOf(d) : RanHere(p, s, it[1])

LEMMA OriginInvInit == Init => OriginInv
<1> SUFFICES ASSUME Init PROVE OriginInv
  OBVIOUS
<1>1. \A d \in Dms : itemsOf(d) = {}
  BY DEF Init, itemsOf, newData
<1> QED
  BY <1>1 DEF OriginInv

LEMMA RanHereKept ==
  ASSUME TypeInv, [Next]_vars, NEW p \in Gs, NEW s, NEW o \in Nat, RanHere(p, s, o)
  PROVE  RanHere(p, s, o)'
<1>1. nextGoid \in Nat /\ nextGoid' \in Nat /\ nextGoid <= nextGoid'
  BY StartEffect
<1>2. \A q \in Gs : goid'[q] = goid[q] \/ goid'[q] = nextGoid
  BY StartEffect
<1>3. o < nextGoid'
  BY <1>1 DEF RanHere
<1>4. \A q \in Gs : goid'[q] = o => q = p
  BY <1>1, <1>2 DEF RanHere
<1> QED
  BY <1>3, <1>4 DEF RanHere

\* A new glsData is empty.
LEMMA NewIsEmpty ==
  ASSUME TypeInv, [Next]_vars, NEW p \in Gs, NEW d \in Dms, newGlsData(p, d)
  PROVE  itemsOf(d)' = {}
<1>1. ASSUME NEW q \in Gs, NEW k \in Keys, Set(q, k) PROVE FALSE
  <2>1. dmOwner' = dmOwner
    BY <1>1 DEF Set
  <2>2. dmOwner[d] = 0 /\ dmOwner'[d] = goid[p]
    BY DEF newGlsData, FreshDm, TypeInv, TypeOK
  <2>3. goid[p] # 0
    BY DEF newGlsData, InCall, TypeInv, GoidInv
  <2> QED BY <2>1, <2>2, <2>3
<1>2. dms'[d] = newData
  BY <1>1, DataEffect
<1>3. \A k \in Keys : newData.data[k] = NoItem
  BY DEF newData
<1> QED
  BY <1>2, <1>3 DEF itemsOf

\* What a step adds to a glsData the goroutine on its g has stored.
LEMMA OriginEffect ==
  ASSUME TypeInv, PlaceInv, [Next]_vars, NEW d \in Dms, NEW s \in Shards, NEW p \in Gs,
         FoundAt(d, s, p), NEW it \in itemsOf(d)'
  PROVE  it \in itemsOf(d) \/ (it[1] = goid[p] /\ s = findSlot(goid[p]) /\ goid[p] # 0)
<1>1. CASE ~\E q \in Gs, k \in Keys : Set(q, k)
  BY <1>1, ItemsShrink
<1>2. CASE \E q \in Gs, k \in Keys : Set(q, k)
  <2>1. PICK q \in Gs, k \in Keys : Set(q, k)
    BY <1>2
  <2>2. PICK c, new : c = th[q].dm /\ new = <<goid[q], nitems[goid[q]] + 1>>
    OBVIOUS
  <2>3. /\ \A e \in Dms \ {c} : itemsOf(e)' = itemsOf(e)
        /\ itemsOf(c)' \subseteq itemsOf(c) \cup {new}
    BY <2>1, <2>2, ItemsOfSet
  <2>4. CASE it = new /\ d = c
    <3>1. goid[q] # 0 /\ goid[q] \in Nat
      BY <2>1 DEF Set, Acting, InCall, TypeInv, GoidInv, TypeOK
    <3>2. FoundAt(d, findSlot(goid[q]), q) /\ findSlot(goid[q]) \in Shards
      BY <2>2, <2>4, <3>1, FindSlotType DEF FoundAt
    <3>3. s = findSlot(goid[q]) /\ p = q
      BY <3>2 DEF PlaceInv
    <3> QED BY <2>2, <2>4, <3>1, <3>3
  <2> QED BY <2>3, <2>4
<1> QED
  BY <1>1, <1>2

LEMMA OriginInvStep ==
  ASSUME TypeInv, PlaceInv, OriginInv, [Next]_vars PROVE OriginInv'
<1> SUFFICES ASSUME NEW d \in Dms, NEW s \in Shards, NEW p \in Gs, FoundAt(d, s, p)',
                    NEW it \in itemsOf(d)'
             PROVE  RanHere(p, s, it[1])'
  BY DEF OriginInv
<1>1. CASE newGlsData(p, d)
  BY <1>1, NewIsEmpty
<1>2. CASE FoundAt(d, s, p)
  <2>1. it \in itemsOf(d) \/ (it[1] = goid[p] /\ s = findSlot(goid[p]) /\ goid[p] # 0)
    BY <1>2, OriginEffect
  <2>2. it[1] \in Nat /\ RanHere(p, s, it[1])
    <3>1. CASE it \in itemsOf(d)
      <4>1. it \in Items
        BY <3>1, ItemsOfType DEF TypeInv
      <4> QED BY <1>2, <3>1, <4>1, GlsConstants DEF OriginInv, Items, Goids
    <3>2. CASE it[1] = goid[p] /\ s = findSlot(goid[p]) /\ goid[p] # 0
      BY <3>2 DEF RanHere, TypeInv, GoidInv, TypeOK
    <3> QED BY <2>1, <3>1, <3>2
  <2> QED BY <2>2, RanHereKept
<1> QED
  BY <1>1, <1>2, FoundAtEffect

(***************************************************************************)
(* Get never returns the data of another goroutine that runs, whenever the *)
(* runtime recycles a g, whatever labels are set or removed and whatever   *)
(* exit procedures start early: what it returns was stored by the calling  *)
(* goroutine or by an ended one of its shard.                              *)
(***************************************************************************)
THEOREM NothingOfLiveOthers == Spec => []OnlyInherited
<1> DEFINE IInv == PlaceInv /\ OriginInv
<1>1. Init => IInv
  BY PlaceInvInit, OriginInvInit
<1>2. TypeInv /\ IInv /\ [Next]_vars => IInv'
  BY PlaceInvStep, OriginInvStep
<1>3. TypeInv /\ IInv => OnlyInherited
  <2> SUFFICES ASSUME TypeInv, IInv, NEW p \in Gs, NEW k \in Keys, status[p] = "running",
                      Get(p, k) # NoItem, NEW i, i = Get(p, k)[1], i # goid[p]
               PROVE  Exited(i) /\ findSlot(i) = findSlot(goid[p])
    BY DEF OnlyInherited
  <2> DEFINE s == findSlot(goid[p])
             d == slots[s][p]
  <2>1. s \in Shards
    BY FindSlotType DEF TypeInv, TypeOK
  <2>2. d \in Dms /\ Get(p, k) = dms[d].data[k]
    BY <2>1 DEF Get, getGlsData, TypeInv, TypeOK
  <2>3. FoundAt(d, s, p) /\ Get(p, k) \in itemsOf(d)
    BY <2>2 DEF FoundAt, itemsOf
  <2>4. RanHere(p, s, i)
    BY <2>1, <2>2, <2>3 DEF OriginInv
  <2>5. ~Running(i)
    BY <2>4 DEF RanHere, Running
  <2> QED
    BY <2>4, <2>5 DEF RanHere, Exited, Started
<1> QED
  BY <1>1, <1>2, <1>3, TypeInvAlways, PTL DEF Spec

(***************************************************************************)
(* An exit procedure works for the goroutine of its shard that ran last on *)
(* its g, as long as the runtime starts no goroutine on a g for which a    *)
(* finalizer of the same shard is still at work, or any finalizer is about *)
(* to swap the label pointer.  A goroutine of another shard may be started *)
(* there at any other time: the finalizer then loads the status, the goid  *)
(* and the labels of a goroutine it was not set for (Same is false), but   *)
(* its own goroutine has ended and the entry it finds is still the right   *)
(* one.                                                                    *)
(***************************************************************************)
LEMMA ApartStutter == ASSUME [ApartStart]_vars PROVE ApartStart
BY DEF ApartStart, VacantStart, vars, runtimeVars

\* The goroutine that last ran on the g of label map l is one of its shard.
Same(l) == findSlot(goid[labelMap[l].gp]) = labelMap[l].se

IdPcs == {"check", "labels", "regLabels", "regCheck", "regCas"}

FinOwnerOf(l) ==
  /\ fin[l].pc = "free" => fin[l].old = Nil
  /\ fin[l].pc # "free" => goid[labelMap[l].gp] # 0
  /\ (fin[l].pc \in IdPcs /\ Same(l)) \/ fin[l].pc = "regCas" =>
       fin[l].id = goid[labelMap[l].gp]
  /\ fin[l].dm # Nil =>
       /\ fin[l].pc \in ResetPcs
       /\ Occupant(labelMap[l].gp, labelMap[l].se, dmOwner[fin[l].dm])
  /\ fin[l].funcs # <<>> => fin[l].pc \in {"clear", "run"}
  /\ \A n \in DOMAIN fin[l].funcs : fin[l].funcs[n][1] = dmOwner[fin[l].dm]

FinOwner == \A l \in Labels : FinOwnerOf(l)

LEMMA FinOwnerInit == Init => FinOwner
BY DEF Init, FinOwner, FinOwnerOf, NoFinalizer, IdPcs

\* resetRun drops the last handler.
LEMMA DropLast ==
  ASSUME NEW fs \in Seq(Handlers), fs # <<>>
  PROVE  LET rest == SubSeq(fs, 1, Len(fs) - 1) \o SubSeq(fs, Len(fs) + 1, Len(fs))
         IN  \A n \in DOMAIN rest : n \in DOMAIN fs /\ rest[n] = fs[n]
<1>1. Len(fs) \in Nat \ {0}
  BY EmptySeq
<1>2. SubSeq(fs, Len(fs) + 1, Len(fs)) = <<>>
  BY <1>1
<1>3. SubSeq(fs, 1, Len(fs) - 1) \in Seq(Handlers)
  BY <1>1
<1>4. SubSeq(fs, 1, Len(fs) - 1) \o <<>> = SubSeq(fs, 1, Len(fs) - 1)
  BY <1>3
<1>5. \A n \in DOMAIN SubSeq(fs, 1, Len(fs) - 1) :
        n \in DOMAIN fs /\ SubSeq(fs, 1, Len(fs) - 1)[n] = fs[n]
  BY <1>1
<1> QED
  BY <1>2, <1>4, <1>5
LEMMA FinOwnerStep ==
  ASSUME ApartStart, TypeInv, TypeInv', OwnerInv, FinOwner, [Next]_vars PROVE FinOwner'
<1>0. /\ fin \in [Labels -> FinCall] /\ labelMap \in [Labels -> LabelMap]
      /\ goid \in [Gs -> Nat] /\ dmOwner \in [Dms -> Nat]
  BY GlsConstants DEF TypeInv, TypeOK
<1>1. ASSUME NEW l \in Labels, fin[l].pc # "free"
      PROVE  /\ labelMap'[l] = labelMap[l]
             /\ labelMap[l].gp \in Gs /\ labelMap[l].se \in Shards
             /\ goid[labelMap[l].gp] # 0 /\ goid'[labelMap[l].gp] # 0
  <2>1. labelMap[l].gp \in Gs /\ labelMap[l].se \in Shards /\ goid[labelMap[l].gp] # 0
    BY <1>0, <1>1 DEF TypeInv, FinInv, FinOwner, FinOwnerOf, LabelMap
  <2>2. goid'[labelMap[l].gp] # 0
    <3> DEFINE p == labelMap[l].gp
    <3>1. goid'[p] = goid[p] \/ goid'[p] = nextGoid
      BY <2>1, StartEffect
    <3>2. nextGoid # 0
      BY GlsConstants DEF TypeInv, TypeOK
    <3> QED
      BY <2>1, <3>1, <3>2
  <2> QED
    BY <1>1, <2>1, <2>2, LabelMapFixed
\* What the finalizer of l has picked up is still what its goroutine left.
<1>2. ASSUME NEW l \in Labels, Active(l), NEW d \in Dms,
             Occupant(labelMap[l].gp, labelMap[l].se, dmOwner[d])
      PROVE  /\ dmOwner'[d] = dmOwner[d]
             /\ Occupant(labelMap[l].gp, labelMap[l].se, dmOwner[d])'
  <2>1. fin[l].pc # "free"
    BY <1>2 DEF Active
  <2>2. PICK o \in Nat : o = dmOwner[d]
    BY <1>0, <1>2
  <2>3. PICK p \in Gs : p = labelMap[l].gp
    BY <1>1, <2>1
  <2>4. PICK s \in Shards : s = labelMap[l].se
    BY <1>1, <2>1
  <2>5. goid'[p] # goid[p] => findSlot(goid'[p]) # s
    BY <1>2, <2>3, <2>4 DEF ApartStart
  <2>6. Occupant(p, s, o)
    BY <1>2, <2>2, <2>3, <2>4
  <2>7. Occupant(p, s, o)'
    BY <2>5, <2>6, OccupantKept
  <2>8. dmOwner'[d] = o
    BY <1>2, <2>2, <2>6, OwnerFixed DEF Occupant
  <2>9. labelMap'[l].gp = p /\ labelMap'[l].se = s
    BY <1>1, <2>1, <2>3, <2>4
  <2> QED
    BY <2>2, <2>7, <2>8, <2>9 DEF Occupant
\* A finalizer knows the goid of the goroutine that is on its g.
<1>3. ASSUME NEW l \in Labels, Active(l),
             (fin[l].pc \in IdPcs /\ Same(l)') \/ fin[l].pc = "regCas"
      PROVE  /\ goid'[labelMap[l].gp] = goid[labelMap[l].gp]
             /\ fin[l].id = goid[labelMap[l].gp]
  <2>1. labelMap'[l] = labelMap[l] /\ labelMap[l].gp \in Gs
    BY <1>1, <1>3 DEF Active
  <2>2. goid'[labelMap[l].gp] = goid[labelMap[l].gp]
    BY <1>3, <2>1 DEF ApartStart, Same
  <2> QED
    BY <1>3, <2>1, <2>2 DEF FinOwner, FinOwnerOf, Same
<1>4. ASSUME NEW l \in Labels, fin[l].dm # Nil
      PROVE  /\ Active(l) /\ fin[l].dm \in Dms
             /\ Occupant(labelMap[l].gp, labelMap[l].se, dmOwner[fin[l].dm])
  <2>1. /\ fin[l].pc \in ResetPcs
        /\ Occupant(labelMap[l].gp, labelMap[l].se, dmOwner[fin[l].dm])
    BY <1>4 DEF FinOwner, FinOwnerOf
  <2> QED
    BY <2>1 DEF TypeInv, FinInv, ResetPcs, Active
<1>5. ASSUME NEW l \in Labels, fin'[l] = fin[l] PROVE FinOwnerOf(l)'
  <2>1. fin[l].pc # "free" => goid'[labelMap'[l].gp] # 0
    BY <1>1
  <2>2. (fin[l].pc \in IdPcs /\ Same(l)') \/ fin[l].pc = "regCas"
          => fin[l].id = goid'[labelMap'[l].gp]
    BY <1>1, <1>3 DEF IdPcs, Active
  <2>3. ASSUME fin[l].dm # Nil
        PROVE  Occupant(labelMap[l].gp, labelMap[l].se, dmOwner[fin[l].dm])'
    <3>1. PICK d \in Dms : d = fin[l].dm
      BY <1>4, <2>3
    <3>2. Occupant(labelMap[l].gp, labelMap[l].se, dmOwner[d])'
      BY <1>2, <1>4, <2>3, <3>1
    <3> QED
      BY <1>5, <3>1, <3>2 DEF Occupant
  <2>4. ASSUME NEW n \in DOMAIN fin[l].funcs
        PROVE  fin[l].funcs[n][1] = dmOwner'[fin[l].dm]
    <3>1. fin[l].funcs # <<>>
      BY <2>4
    <3>2. fin[l].pc \in ResetPcs
      BY <3>1 DEF FinOwner, FinOwnerOf, ResetPcs
    <3>3. fin[l].dm \in Dms /\ fin[l].dm # Nil
      BY <3>2 DEF TypeInv, FinInv, Dms, Nil
    <3> QED
      BY <1>2, <1>4, <2>4, <3>3 DEF FinOwner, FinOwnerOf
  <2> QED
    BY <1>5, <2>1, <2>2, <2>3, <2>4 DEF FinOwner, FinOwnerOf
<1>6. ASSUME UNCHANGED fin PROVE FinOwner'
  BY <1>5, <1>6 DEF FinOwner
\* The finalizer set by registerCas or by regCas.
<1>7. ASSUME NEW l \in Labels, NEW i, NEW s, NEW p \in Gs, install(l, i, s, p),
             fin'[l] = [fin[l] EXCEPT !.pc = "armed"], goid'[p] = goid[p], goid[p] # 0
      PROVE  FinOwnerOf(l)'
  <2>1. fin[l].pc = "free" /\ labelMap'[l].gp = p
    BY <1>0, <1>7 DEF install, FreshLabel
  <2>2. fin[l].dm = Nil /\ fin[l].funcs = <<>>
    BY <2>1 DEF FinOwner, FinOwnerOf, ResetPcs
  <2>3. fin'[l].pc = "armed" /\ fin'[l].dm = Nil /\ fin'[l].funcs = <<>>
    BY <1>0, <1>7, <2>2 DEF FinCall
  <2> QED
    BY <1>7, <2>1, <2>3 DEF FinOwnerOf, IdPcs
<1>8. ASSUME NEW p \in Gs, registerCas(p) PROVE FinOwner'
  <2>1. PICK l \in Labels : /\ install(l, goid[p], findSlot(goid[p]), p)
                            /\ fin' = [fin EXCEPT ![l].pc = "armed"]
    BY <1>8 DEF registerCas
  <2>2. goid[p] # 0 /\ goid' = goid
    BY <1>8 DEF registerCas, InCall, TypeInv, GoidInv
  <2>3. FinOwnerOf(l)'
    BY <1>0, <1>7, <2>1, <2>2
  <2>4. \A m \in Labels \ {l} : fin'[m] = fin[m]
    BY <1>0, <2>1
  <2> QED
    BY <1>5, <2>3, <2>4 DEF FinOwner
\* A step of the finalizer of l that changes nothing but its own state.
<1>9. ASSUME NEW l \in Labels, Active(l), fin'[l].pc # "free", goid' = goid,
             \A m \in Labels \ {l} : fin'[m] = fin[m],
             (fin'[l].pc \in IdPcs /\ Same(l)) \/ fin'[l].pc = "regCas" =>
               fin'[l].id = goid[labelMap[l].gp],
             fin'[l].dm = Nil \/ (fin'[l].dm = fin[l].dm /\ fin'[l].pc \in ResetPcs),
             fin'[l].funcs # <<>> => fin'[l].pc \in {"clear", "run"} /\ fin'[l].dm = fin[l].dm,
             \A n \in DOMAIN fin'[l].funcs : fin'[l].funcs[n][1] = dmOwner[fin[l].dm]
      PROVE  FinOwner'
  <2>1. fin[l].pc # "free"
    BY <1>9 DEF Active
  <2>2. labelMap'[l] = labelMap[l] /\ goid[labelMap[l].gp] # 0
    BY <1>1, <2>1
  <2>3. Same(l)' <=> Same(l)
    BY <1>9, <2>2 DEF Same
  <2>4. ASSUME fin'[l].dm # Nil
        PROVE  Occupant(labelMap[l].gp, labelMap[l].se, dmOwner[fin[l].dm])'
    <3>1. PICK d \in Dms : d = fin[l].dm /\ d = fin'[l].dm
      BY <1>4, <1>9, <2>4
    <3>2. Occupant(labelMap[l].gp, labelMap[l].se, dmOwner[d])'
      BY <1>2, <1>4, <1>9, <2>4, <3>1
    <3> QED
      BY <3>1, <3>2 DEF Occupant
  <2>5. ASSUME NEW n \in DOMAIN fin'[l].funcs
        PROVE  fin'[l].funcs[n][1] = dmOwner'[fin'[l].dm]
    <3>1. fin'[l].funcs # <<>>
      BY <2>5
    <3>2. fin'[l].dm = fin[l].dm /\ fin'[l].pc \in ResetPcs
      BY <1>9, <3>1 DEF ResetPcs
    <3>3. fin'[l].dm \in Dms /\ fin'[l].dm # Nil
      BY <3>2 DEF TypeInv, FinInv, Dms, Nil
    <3> QED
      BY <1>2, <1>4, <1>9, <2>5, <3>2, <3>3
  <2>6. FinOwnerOf(l)'
    BY <1>9, <2>2, <2>3, <2>4, <2>5 DEF FinOwnerOf
  <2> QED
    BY <1>5, <1>9, <2>6 DEF FinOwner
<1>10. ASSUME NEW l \in Labels, regCas(l) PROVE FinOwner'
  <2>1. PICK n \in Labels :
          /\ install(n, fin[l].id, labelMap[l].se, labelMap[l].gp)
          /\ fin' = [fin EXCEPT ![l].pc = "done", ![l].old = Nil, ![n].pc = "armed"]
    BY <1>10 DEF regCas
  <2>2. l # n /\ fin[l].pc = "regCas"
    BY <1>10, <2>1 DEF regCas, install, FreshLabel
  <2>3. labelMap[l].gp \in Gs /\ goid[labelMap[l].gp] # 0 /\ goid' = goid
    BY <1>1, <1>10, <2>2 DEF regCas
  <2>4. fin'[n] = [fin[n] EXCEPT !.pc = "armed"] /\ \A m \in Labels \ {l, n} : fin'[m] = fin[m]
    BY <1>0, <2>1, <2>2
  <2>5. fin'[l].pc = "done" /\ fin'[l].dm = fin[l].dm /\ fin'[l].funcs = fin[l].funcs
    <3>1. fin'[l] = [fin[l] EXCEPT !.pc = "done", !.old = Nil]
      BY <1>0, <2>1, <2>2
    <3> QED
      BY <1>0, <3>1 DEF FinCall
  <2>6. FinOwnerOf(n)'
    BY <1>7, <2>1, <2>3, <2>4
  <2>7. fin[l].dm = Nil /\ fin[l].funcs = <<>>
    BY <2>2 DEF FinOwner, FinOwnerOf, ResetPcs
  <2>8. FinOwnerOf(l)'
    BY <1>1, <2>2, <2>3, <2>5, <2>7 DEF FinOwnerOf, IdPcs
  <2> QED
    BY <1>5, <2>4, <2>6, <2>8 DEF FinOwner
<1>11. ASSUME NEW l \in Labels, \/ finalize(l) \/ finalizeCheck(l) \/ finalizeLabels(l)
                                \/ regId(l) \/ regLabels(l) \/ regCheck(l) \/ regRetry(l)
       PROVE  FinOwner'
  <2>1. /\ Active(l) /\ goid' = goid /\ fin[l].pc \notin ResetPcs
        /\ \A m \in Labels \ {l} : fin'[m] = fin[m]
    BY <1>0, <1>11 DEF finalize, finalizeCheck, finalizeLabels, regId, regLabels, regCheck,
       regRetry, runtimeVars, Active, ResetPcs
  <2>2. fin[l].dm = Nil /\ fin[l].funcs = <<>>
    BY <2>1 DEF FinOwner, FinOwnerOf, ResetPcs
  <2>3. /\ regOutcome(l) \in {"get", "done", "regCas"}
        /\ regOutcome(l) = "regCas" => fin[l].id = goid[labelMap[l].gp]
    BY DEF regOutcome, Gone
  <2>4. fin'[l].pc # "free" /\ fin'[l].funcs = <<>> /\ fin'[l].dm = Nil
    BY <1>0, <1>11, <2>2, <2>3 DEF finalize, finalizeCheck, finalizeLabels, regId, regLabels,
       regCheck, regRetry, FinCall
  <2>5. fin'[l].pc \in IdPcs => \/ fin'[l].id = goid[labelMap[l].gp]
                                \/ fin[l].pc \in IdPcs /\ fin'[l].id = fin[l].id
    BY <1>0, <1>11 DEF finalize, finalizeCheck, finalizeLabels, regId, regLabels, regCheck,
       regRetry, FinCall, IdPcs
  <2>6. fin'[l].pc = "regCas" => fin'[l].id = goid[labelMap[l].gp]
    BY <1>0, <1>11, <2>3 DEF finalize, finalizeCheck, finalizeLabels, regId, regLabels, regCheck,
       regRetry, FinCall
  <2>7. fin'[l].pc \in IdPcs /\ Same(l) => fin'[l].id = goid[labelMap[l].gp]
    BY <2>5 DEF FinOwner, FinOwnerOf
  <2> QED
    BY <1>9, <2>1, <2>4, <2>6, <2>7
<1>12. ASSUME NEW l \in Labels, resetGet(l) PROVE FinOwner'
  <2>1. /\ fin[l].pc = "get" /\ fin[l].funcs = <<>> /\ Active(l)
        /\ fin'[l].dm = slots[labelMap[l].se][labelMap[l].gp]
        /\ fin'[l].pc = IF fin'[l].dm = Nil THEN "done" ELSE "take"
        /\ fin'[l].funcs = <<>>
        /\ goid' = goid
        /\ \A m \in Labels \ {l} : fin'[m] = fin[m]
    <3>1. /\ fin[l].pc = "get" /\ goid' = goid
          /\ fin' = [fin EXCEPT ![l].pc = IF slots[labelMap[l].se][labelMap[l].gp] = Nil
                                          THEN "done" ELSE "take",
                                ![l].dm = slots[labelMap[l].se][labelMap[l].gp]]
      BY <1>12 DEF resetGet, getGlsData, runtimeVars
    <3>2. fin[l].funcs = <<>> /\ Active(l)
      BY <3>1 DEF FinOwner, FinOwnerOf, Active
    <3> QED
      BY <1>0, <3>1, <3>2 DEF FinCall
  <2>2. labelMap[l].gp \in Gs /\ labelMap[l].se \in Shards /\ labelMap'[l] = labelMap[l]
        /\ goid'[labelMap[l].gp] # 0
    BY <1>1, <2>1
  <2>3. ASSUME fin'[l].dm # Nil
        PROVE  Occupant(labelMap[l].gp, labelMap[l].se, dmOwner[fin[l].dm])'
    <3>1. PICK d \in Dms : d = fin'[l].dm
      BY <2>1, <2>2, <2>3 DEF TypeInv, TypeOK
    <3>2. Occupant(labelMap[l].gp, labelMap[l].se, dmOwner[d])
      BY <2>1, <2>2, <2>3, <3>1 DEF OwnerInv, SlotOwner
    <3>3. Occupant(labelMap[l].gp, labelMap[l].se, dmOwner[d])'
      BY <1>2, <2>1, <3>2
    <3> QED
      BY <3>1, <3>3 DEF Occupant
  <2>4. FinOwnerOf(l)'
    BY <2>1, <2>2, <2>3 DEF FinOwnerOf, IdPcs, ResetPcs
  <2> QED
    BY <1>5, <2>1, <2>4 DEF FinOwner
<1>13. ASSUME NEW l \in Labels, resetTake(l) PROVE FinOwner'
  <2>1. /\ fin[l].pc = "take" /\ fin'[l].pc = "clear" /\ Active(l)
        /\ fin'[l].dm = fin[l].dm
        /\ fin'[l].funcs = dms[fin[l].dm].atExitFuncs
        /\ goid' = goid
        /\ \A m \in Labels \ {l} : fin'[m] = fin[m]
    BY <1>0, <1>13 DEF resetTake, FinCall, runtimeVars, Active
  <2>2. fin[l].dm \in Dms
    BY <2>1 DEF TypeInv, FinInv, ResetPcs
  <2>3. \A n \in DOMAIN fin'[l].funcs : fin'[l].funcs[n][1] = dmOwner[fin[l].dm]
    BY <2>1, <2>2 DEF OwnerInv, DataOwner
  <2> QED
    BY <1>9, <2>1, <2>3 DEF IdPcs, ResetPcs
<1>14. ASSUME NEW l \in Labels, resetRun(l) PROVE FinOwner'
  <2> DEFINE fs == fin[l].funcs
  <2>1. fs \in Seq(Handlers) /\ fs # <<>> /\ fin[l].pc = "run" /\ Active(l) /\ goid' = goid
    BY <1>0, <1>14 DEF resetRun, FinCall, Active, runtimeVars
  <2>2. /\ fin'[l].pc = "run" /\ fin'[l].dm = fin[l].dm
        /\ fin'[l].funcs = SubSeq(fs, 1, Len(fs) - 1) \o SubSeq(fs, Len(fs) + 1, Len(fs))
        /\ \A m \in Labels \ {l} : fin'[m] = fin[m]
    BY <1>0, <1>14 DEF resetRun, lastFunc, FinCall
  <2>3. \A n \in DOMAIN fin'[l].funcs : n \in DOMAIN fs /\ fin'[l].funcs[n] = fs[n]
    BY <2>1, <2>2, DropLast
  <2>4. \A n \in DOMAIN fin'[l].funcs : fin'[l].funcs[n][1] = dmOwner[fin[l].dm]
    BY <2>3 DEF FinOwner, FinOwnerOf
  <2> QED
    BY <1>9, <2>1, <2>2, <2>4 DEF IdPcs, ResetPcs
<1>15. ASSUME NEW l \in Labels, resetClear(l) \/ resetDel(l) \/ resetClose(l) PROVE FinOwner'
  <2>1. /\ Active(l) /\ goid' = goid
        /\ \A m \in Labels \ {l} : fin'[m] = fin[m]
    BY <1>0, <1>15 DEF resetClear, resetDel, resetClose, runtimeVars, Active
  <2>2. /\ fin'[l].pc \in {"run", "close", "done"}
        /\ fin'[l].dm = Nil \/ (fin'[l].dm = fin[l].dm /\ fin'[l].pc \in ResetPcs)
        /\ fin'[l].funcs = fin[l].funcs
        /\ fin'[l].funcs # <<>> => fin'[l].pc \in {"clear", "run"} /\ fin'[l].dm = fin[l].dm
    <3>1. CASE resetClear(l)
      BY <1>0, <3>1 DEF resetClear, FinCall, ResetPcs
    <3>2. CASE resetDel(l)
      BY <1>0, <3>2 DEF resetDel, FinCall, ResetPcs
    <3>3. CASE resetClose(l)
      <4>1. fin[l].pc = "close" /\ fin' = [fin EXCEPT ![l].pc = "done", ![l].dm = Nil]
        BY <3>3 DEF resetClose
      <4>2. fin[l].funcs = <<>>
        BY <4>1 DEF FinOwner, FinOwnerOf
      <4> QED
        BY <1>0, <4>1, <4>2 DEF FinCall
    <3> QED
      BY <1>15, <3>1, <3>2, <3>3
  <2>3. \A n \in DOMAIN fin'[l].funcs : fin'[l].funcs[n][1] = dmOwner[fin[l].dm]
    BY <2>2 DEF FinOwner, FinOwnerOf
  <2> QED
    BY <1>9, <2>1, <2>2, <2>3 DEF IdPcs
<1>16. ASSUME NEW p \in Gs, Environment(p) \/ (CallStep(p) /\ ~registerCas(p)) PROVE UNCHANGED fin
  BY <1>16 DEF Environment, Spawn, Goexit, SetGoroutineLabels, fetchDataMap, CallStep,
     newGlsData, registerLoad, registerRetry, Set, Del, AtExit, Reset, Unload, alreadyReset,
     closeData
<1>17. ASSUME UNCHANGED vars PROVE UNCHANGED fin
  BY <1>17 DEF vars
<1> QED
  BY <1>6, <1>8, <1>10, <1>11, <1>12, <1>13, <1>14, <1>15, <1>16, <1>17 DEF Next, FinalizerStep

(***************************************************************************)
(* No premature exit, when user code only ever replaces labels by other    *)
(* labels.  The labels of a running goroutine that has registered are then *)
(* never nil and never carry the id of another goroutine, so that its own  *)
(* finalizer concludes that it is gone only when it is.  A finalizer that  *)
(* looks at a goroutine of another shard may conclude what it likes: the   *)
(* goroutine it was set for has ended.                                     *)
(***************************************************************************)
Allocated(ptr) == ptr \in Labels => fin[ptr].pc # "free"

PointerInv ==
  /\ \A p \in Gs : Allocated(labels[p])
  /\ \A l \in Labels : Allocated(fin[l].old)

OwnLabels(l, ptr) == ptr # Nil /\ labelOf(ptr) \in {0, goid[labelMap[l].gp]}

LabelInvOf(l) ==
  Active(l) /\ Same(l) /\ status[labelMap[l].gp] = "running" =>
    /\ OwnLabels(l, labels[labelMap[l].gp])
    /\ fin[l].pc \in {"regCheck", "regCas"} => OwnLabels(l, fin[l].old)

DeadInvOf(l) ==
  fin[l].pc \in {"get"} \cup ResetPcs /\ Same(l) => status[labelMap[l].gp] = "dead"

ExitInv == PointerInv /\ \A l \in Labels : LabelInvOf(l) /\ DeadInvOf(l)

LEMMA ExitInvInit == Init => ExitInv
BY DEF Init, ExitInv, PointerInv, LabelInvOf, DeadInvOf, Allocated, NoFinalizer, ResetPcs,
   Labels, Nil, Active

LEMMA ExitInvStep ==
  ASSUME ApartStart, "ClearLabels" \notin Ops, TypeInv, TypeInv', FinOwner, ExitInv, [Next]_vars
  PROVE  ExitInv'
<1>0. /\ fin \in [Labels -> FinCall] /\ labelMap \in [Labels -> LabelMap]
      /\ goid \in [Gs -> Nat] /\ status \in [Gs -> {"running", "dead"}]
      /\ labels \in [Gs -> LabelPtrs]
  BY GlsConstants DEF TypeInv, TypeOK
<1>1. ASSUME NEW ptr \in Labels, Allocated(ptr)
      PROVE  fin'[ptr].pc # "free" /\ labelMap'[ptr] = labelMap[ptr]
  BY <1>1, LabelMapFixed DEF Allocated
\* The g of a finalizer that is set has not been given to its shard again.
<1>2. ASSUME NEW l \in Labels, Active(l)
      PROVE  /\ fin[l].pc # "free"
             /\ labelMap'[l] = labelMap[l]
             /\ labelMap[l].gp \in Gs
             /\ Same(l)' =>
                  /\ Same(l)
                  /\ goid'[labelMap[l].gp] = goid[labelMap[l].gp]
                  /\ status'[labelMap[l].gp] = "running" => status[labelMap[l].gp] = "running"
  <2>1. fin[l].pc # "free"
    BY <1>2 DEF Active
  <2>2. labelMap[l].gp \in Gs /\ labelMap'[l] = labelMap[l]
    BY <2>1, LabelMapFixed DEF TypeInv, FinInv
  <2>3. Same(l)' => goid'[labelMap[l].gp] = goid[labelMap[l].gp]
    BY <1>2, <2>2 DEF ApartStart, Same
  <2>4. goid'[labelMap[l].gp] = goid[labelMap[l].gp] =>
          (status'[labelMap[l].gp] = "running" => status[labelMap[l].gp] = "running")
    <3>1. goid[labelMap[l].gp] # nextGoid
      BY <2>2 DEF TypeInv, GoidInv, TypeOK
    <3> QED
      BY <2>2, <3>1, StartEffect
  <2> QED
    BY <2>1, <2>2, <2>3, <2>4 DEF Same
<1>3. ASSUME NEW l \in Labels, fin'[l] = fin[l] PROVE DeadInvOf(l)' /\ Allocated(fin[l].old)'
  <2>1. DeadInvOf(l)'
    <3> SUFFICES ASSUME fin[l].pc \in {"get"} \cup ResetPcs, Same(l)'
                 PROVE  status'[labelMap'[l].gp] = "dead"
      BY <1>3 DEF DeadInvOf
    <3>1. Active(l)
      BY DEF Active, ResetPcs
    <3>2. status[labelMap[l].gp] = "dead"
      BY <1>2, <3>1 DEF ExitInv, DeadInvOf
    <3>3. status'[labelMap[l].gp] \in {"running", "dead"}
      BY <1>2, <3>1 DEF TypeInv, TypeOK
    <3> QED
      BY <1>2, <3>1, <3>2, <3>3
  <2>2. Allocated(fin[l].old)'
    BY <1>1, <1>3 DEF ExitInv, PointerInv, Allocated
  <2> QED
    BY <2>1, <2>2
<1>4. ASSUME NEW l \in Labels, NEW ptr, Active(l), Same(l)', OwnLabels(l, ptr), Allocated(ptr)
      PROVE  /\ ptr # Nil
             /\ ptr \in Labels => labelMap'[ptr].id \in {0, goid'[labelMap'[l].gp]}
  BY <1>1, <1>2, <1>4 DEF OwnLabels, labelOf
\* The finalizer of l and the labels of its goroutine are not touched.
<1>5. ASSUME NEW l \in Labels, fin'[l] = fin[l],
             Active(l) /\ Same(l)' => labels'[labelMap[l].gp] = labels[labelMap[l].gp]
      PROVE  LabelInvOf(l)'
  <2> SUFFICES ASSUME Active(l), Same(l)', status'[labelMap'[l].gp] = "running"
               PROVE  /\ OwnLabels(l, labels[labelMap[l].gp])'
                      /\ fin[l].pc \in {"regCheck", "regCas"} => OwnLabels(l, fin[l].old)'
    BY <1>5 DEF LabelInvOf, Active
  <2>1. /\ status[labelMap[l].gp] = "running" /\ labelMap'[l] = labelMap[l]
        /\ labelMap[l].gp \in Gs /\ Same(l)
    BY <1>2
  <2>2. /\ OwnLabels(l, labels[labelMap[l].gp]) /\ Allocated(labels[labelMap[l].gp])
        /\ fin[l].pc \in {"regCheck", "regCas"} => OwnLabels(l, fin[l].old)
        /\ Allocated(fin[l].old)
    BY <2>1 DEF ExitInv, LabelInvOf, PointerInv
  <2> QED
    BY <1>4, <1>5, <2>1, <2>2 DEF OwnLabels, labelOf
<1>6. ASSUME UNCHANGED <<fin, labels>> PROVE ExitInv'
  <2>1. \A p \in Gs : Allocated(labels[p])'
    BY <1>6 DEF ExitInv, PointerInv, Allocated
  <2> QED
    BY <1>3, <1>5, <1>6, <2>1 DEF ExitInv, PointerInv, Allocated
<1>7. ASSUME NEW p \in Gs, NEW h \in Gs, Spawn(p, h) PROVE ExitInv'
  <2>1. /\ fin' = fin /\ labels' = [labels EXCEPT ![h] = labels[p]]
        /\ goid' = [goid EXCEPT ![h] = nextGoid]
    BY <1>7 DEF Spawn
  <2>2. \A q \in Gs : labels'[q] \in {labels[q], labels[p]}
    BY <1>0, <2>1
  <2>3. \A q \in Gs : Allocated(labels[q])'
    BY <2>1, <2>2 DEF ExitInv, PointerInv, Allocated
  <2>4. ASSUME NEW l \in Labels, Active(l), Same(l)'
        PROVE  labels'[labelMap[l].gp] = labels[labelMap[l].gp]
    <3>1. labelMap[l].gp \in Gs /\ goid'[labelMap[l].gp] = goid[labelMap[l].gp]
      BY <1>2, <2>4
    <3>2. goid[labelMap[l].gp] # nextGoid
      BY <3>1 DEF TypeInv, GoidInv, TypeOK
    <3> QED
      BY <1>0, <2>1, <3>1, <3>2
  <2> QED
    BY <1>3, <1>5, <2>1, <2>3, <2>4 DEF ExitInv, PointerInv, Allocated
<1>8. ASSUME NEW p \in Gs, Goexit(p) PROVE ExitInv'
  <2>1. /\ UNCHANGED <<fin, goid, labelMap>>
        /\ labels' = [labels EXCEPT ![p] = Nil]
        /\ status' = [status EXCEPT ![p] = "dead"]
    BY <1>8 DEF Goexit
  <2>2. \A q \in Gs : labels'[q] \in {labels[q], Nil}
    BY <1>0, <2>1
  <2>3. \A q \in Gs : Allocated(labels[q])'
    BY <2>1, <2>2 DEF ExitInv, PointerInv, Allocated, Labels, Nil
  <2>4. ASSUME NEW l \in Labels PROVE LabelInvOf(l)'
    <3>1. CASE labelMap[l].gp = p
      BY <1>0, <2>1, <3>1 DEF LabelInvOf
    <3>2. CASE labelMap[l].gp # p
      <4>1. Active(l) => labels'[labelMap[l].gp] = labels[labelMap[l].gp]
        BY <1>0, <1>2, <2>1, <3>2
      <4> QED
        BY <1>5, <2>1, <4>1
    <3> QED
      BY <3>1, <3>2
  <2> QED
    BY <1>3, <2>1, <2>3, <2>4 DEF ExitInv, PointerInv, Allocated
<1>9. ASSUME NEW p \in Gs, NEW ptr \in {User, Nil}, SetGoroutineLabels(p, ptr) PROVE ExitInv'
  <2>1. /\ UNCHANGED <<fin, goid, labelMap, status>>
        /\ labels' = [labels EXCEPT ![p] = User]
    BY <1>9 DEF SetGoroutineLabels, User, Nil
  <2>2. \A q \in Gs : labels'[q] = IF q = p THEN User ELSE labels[q]
    BY <1>0, <2>1
  <2>3. User \notin Labels /\ User # Nil
    BY DEF User, Labels, Nil
  <2>4. \A q \in Gs : Allocated(labels[q])'
    BY <2>1, <2>2, <2>3 DEF ExitInv, PointerInv, Allocated
  <2>5. ASSUME NEW l \in Labels PROVE LabelInvOf(l)'
    <3>1. CASE Active(l) /\ labelMap[l].gp = p
      BY <2>1, <2>2, <2>3, <3>1 DEF ExitInv, LabelInvOf, OwnLabels, labelOf, Same, Active
    <3>2. CASE Active(l) /\ labelMap[l].gp # p
      BY <1>2, <1>5, <2>1, <2>2, <3>2
    <3>3. CASE ~Active(l)
      BY <2>1, <3>3 DEF LabelInvOf, Active
    <3> QED
      BY <3>1, <3>2, <3>3
  <2> QED
    BY <1>3, <2>1, <2>4, <2>5 DEF ExitInv, PointerInv, Allocated
\* A label map for the goroutine on p is installed.
<1>10. ASSUME NEW m \in Labels, NEW i, NEW s, NEW p \in Gs, install(m, i, s, p),
              i = goid[p], goid' = goid,
              fin'[m].pc = "armed", fin'[m].old = fin[m].old,
              \A l \in Labels \ {m} :
                \/ fin'[l] = fin[l]
                \/ fin'[l].pc = "done" /\ fin'[l].old = Nil
       PROVE  ExitInv'
  <2>0. /\ fin[m].pc = "free"
        /\ labelMap'[m].id = goid[p] /\ labelMap'[m].gp = p
        /\ \A q \in Gs : labels'[q] = IF q = p THEN m ELSE labels[q]
    BY <1>0, <1>10 DEF install, FreshLabel
  <2>1. m # Nil
    BY DEF Labels, Nil
  <2>2. \A q \in Gs : Allocated(labels[q])'
    BY <1>1, <1>10, <2>0 DEF ExitInv, PointerInv, Allocated
  <2>3. ASSUME NEW l \in Labels PROVE LabelInvOf(l)'
    <3>1. CASE l = m
      BY <1>10, <2>0, <2>1, <3>1 DEF LabelInvOf, OwnLabels, labelOf
    <3>2. CASE fin'[l] = fin[l] /\ ~(Active(l) /\ labelMap[l].gp = p)
      <4>1. Active(l) => labels'[labelMap[l].gp] = labels[labelMap[l].gp]
        BY <1>2, <2>0, <3>2
      <4> QED
        BY <1>5, <3>2, <4>1
    <3>3. CASE fin'[l] = fin[l] /\ Active(l) /\ labelMap[l].gp = p
      <4> SUFFICES ASSUME Same(l)', status'[labelMap'[l].gp] = "running"
                   PROVE  /\ OwnLabels(l, labels[labelMap[l].gp])'
                          /\ fin'[l].pc \in {"regCheck", "regCas"} => OwnLabels(l, fin[l].old)'
        BY DEF LabelInvOf
      <4>1. labelMap'[l].gp = p /\ labels'[p] = m /\ status[p] = "running" /\ Same(l)
        BY <1>2, <2>0, <3>3
      <4>2. OwnLabels(l, labels[labelMap[l].gp])'
        BY <1>10, <2>0, <2>1, <4>1 DEF OwnLabels, labelOf
      <4>3. ASSUME fin[l].pc \in {"regCheck", "regCas"} PROVE OwnLabels(l, fin[l].old)'
        <5>1. OwnLabels(l, fin[l].old) /\ Allocated(fin[l].old)
          BY <3>3, <4>1, <4>3 DEF ExitInv, LabelInvOf, PointerInv
        <5> QED
          BY <1>4, <3>3, <5>1 DEF OwnLabels, labelOf
      <4> QED
        BY <3>3, <4>2, <4>3
    <3>4. CASE fin'[l].pc = "done"
      BY <3>4 DEF LabelInvOf, Active
    <3> QED
      BY <1>10, <3>1, <3>2, <3>3, <3>4
  <2>4. ASSUME NEW l \in Labels PROVE DeadInvOf(l)' /\ Allocated(fin[l].old)'
    <3>1. CASE l = m
      BY <1>10, <2>0, <3>1 DEF DeadInvOf, ResetPcs, FinOwner, FinOwnerOf, Allocated, Labels, Nil
    <3>2. CASE fin'[l] = fin[l]
      BY <1>3, <3>2
    <3>3. CASE fin'[l].pc = "done" /\ fin'[l].old = Nil
      BY <3>3 DEF DeadInvOf, ResetPcs, Allocated, Labels, Nil
    <3> QED
      BY <1>10, <3>1, <3>2, <3>3
  <2> QED
    BY <2>2, <2>3, <2>4 DEF ExitInv, PointerInv
<1>11. ASSUME NEW p \in Gs, registerCas(p) PROVE ExitInv'
  <2>1. PICK m \in Labels : /\ install(m, goid[p], findSlot(goid[p]), p)
                            /\ fin' = [fin EXCEPT ![m].pc = "armed"]
    BY <1>11 DEF registerCas
  <2>2. fin'[m].pc = "armed" /\ fin'[m].old = fin[m].old /\ \A l \in Labels \ {m} : fin'[l] = fin[l]
    BY <1>0, <2>1 DEF FinCall
  <2>3. goid' = goid
    BY <1>11 DEF registerCas
  <2> QED
    BY <1>10, <2>1, <2>2, <2>3
<1>12. ASSUME NEW l \in Labels, regCas(l) PROVE ExitInv'
  <2>1. PICK m \in Labels :
          /\ install(m, fin[l].id, labelMap[l].se, labelMap[l].gp)
          /\ fin' = [fin EXCEPT ![l].pc = "done", ![l].old = Nil, ![m].pc = "armed"]
    BY <1>12 DEF regCas
  <2>2. fin[l].pc = "regCas" /\ goid' = goid
    BY <1>12 DEF regCas
  <2>3. l # m
    BY <2>1, <2>2 DEF install, FreshLabel
  <2>4. /\ fin'[m].pc = "armed" /\ fin'[m].old = fin[m].old
        /\ fin'[l].pc = "done" /\ fin'[l].old = Nil
        /\ \A n \in Labels \ {l, m} : fin'[n] = fin[n]
    BY <1>0, <2>1, <2>3 DEF FinCall
  <2>5. labelMap[l].gp \in Gs /\ fin[l].id = goid[labelMap[l].gp]
    BY <1>2, <2>2 DEF FinOwner, FinOwnerOf, Active
  <2> QED
    BY <1>10, <2>1, <2>2, <2>4, <2>5
\* A step of the finalizer of l that leaves labels alone.
<1>13. ASSUME NEW l \in Labels, Active(l), labels' = labels, labelMap' = labelMap,
              goid' = goid, status' = status,
              \A m \in Labels \ {l} : fin'[m] = fin[m],
              fin'[l].old \in {Nil, fin[l].old, labels[labelMap[l].gp]},
              fin'[l].pc \in {"regCheck", "regCas"} =>
                \/ fin'[l].old = labels[labelMap[l].gp]
                \/ fin[l].pc \in {"regCheck", "regCas"} /\ fin'[l].old = fin[l].old,
              fin'[l].pc \in {"get"} \cup ResetPcs /\ Same(l) => status[labelMap[l].gp] = "dead"
       PROVE  ExitInv'
  <2>1. \A p \in Gs : Allocated(labels[p])'
    BY <1>1, <1>13 DEF ExitInv, PointerInv, Allocated
  <2>2. Allocated(fin[l].old)'
    BY <1>1, <1>2, <1>13 DEF ExitInv, PointerInv, Allocated, Labels, Nil
  <2>3. DeadInvOf(l)'
    BY <1>13 DEF DeadInvOf, Same
  <2>4. LabelInvOf(l)'
    BY <1>13 DEF ExitInv, LabelInvOf, OwnLabels, labelOf, Same
  <2>5. \A m \in Labels \ {l} : LabelInvOf(m)' /\ DeadInvOf(m)' /\ Allocated(fin[m].old)'
    BY <1>3, <1>5, <1>13 DEF Allocated
  <2> QED
    BY <2>1, <2>2, <2>3, <2>4, <2>5 DEF ExitInv, PointerInv
\* What the finalizer of l finds out about a goroutine of its shard is true.
<1>14. ASSUME NEW l \in Labels, fin[l].pc \in IdPcs, Same(l), Gone(l)
       PROVE  status[labelMap[l].gp] = "dead"
  BY <1>14 DEF Gone, FinOwner, FinOwnerOf
<1>15. ASSUME NEW l \in Labels, Active(l), Same(l), labels[labelMap[l].gp] = Nil
       PROVE  status[labelMap[l].gp] = "dead"
  BY <1>0, <1>2, <1>15 DEF ExitInv, LabelInvOf, OwnLabels
<1>16. ASSUME NEW l \in Labels, fin[l].pc = "regCheck", Same(l), regOutcome(l) = "get"
       PROVE  status[labelMap[l].gp] = "dead"
  <2>1. fin[l].id = goid[labelMap[l].gp] /\ labelMap[l].gp \in Gs /\ Active(l)
    BY <1>2, <1>16 DEF FinOwner, FinOwnerOf, IdPcs, Active
  <2>2. CASE Gone(l)
    BY <1>14, <1>16, <2>2 DEF IdPcs
  <2>3. CASE ~OwnLabels(l, fin[l].old)
    BY <1>0, <1>16, <2>1, <2>3 DEF ExitInv, LabelInvOf
  <2> QED
    BY <1>16, <2>1, <2>2, <2>3 DEF regOutcome, OwnLabels
<1>17. ASSUME NEW l \in Labels,
              \/ finalize(l) \/ finalizeCheck(l) \/ finalizeLabels(l)
              \/ regId(l) \/ regLabels(l) \/ regCheck(l) \/ regRetry(l)
       PROVE  ExitInv'
  <2>1. /\ Active(l) /\ labels' = labels /\ labelMap' = labelMap
        /\ goid' = goid /\ status' = status
        /\ \A m \in Labels \ {l} : fin'[m] = fin[m]
    BY <1>0, <1>17 DEF finalize, finalizeCheck, finalizeLabels, regId, regLabels, regCheck,
       regRetry, runtimeVars, Active
  <2>2. regOutcome(l) \in {"get", "done", "regCas"}
    BY DEF regOutcome
  <2>3. fin'[l].old \in {Nil, fin[l].old, labels[labelMap[l].gp]}
    BY <1>0, <1>17 DEF finalize, finalizeCheck, finalizeLabels, regId, regLabels, regCheck,
       regRetry, FinCall
  <2>4. fin'[l].pc \in {"regCheck", "regCas"} =>
          \/ fin'[l].old = labels[labelMap[l].gp]
          \/ fin[l].pc \in {"regCheck", "regCas"} /\ fin'[l].old = fin[l].old
    BY <1>0, <1>17, <2>2 DEF finalize, finalizeCheck, finalizeLabels, regId, regLabels,
       regCheck, regRetry, FinCall
  <2>5. fin'[l].pc \in {"get"} \cup ResetPcs =>
          \/ fin[l].pc = "check" /\ Gone(l)
          \/ fin[l].pc = "labels" /\ labels[labelMap[l].gp] = Nil
          \/ fin[l].pc = "regCheck" /\ regOutcome(l) = "get"
    BY <1>0, <1>17, <2>2 DEF finalize, finalizeCheck, finalizeLabels, regId, regLabels,
       regCheck, regRetry, FinCall, ResetPcs
  <2>6. fin'[l].pc \in {"get"} \cup ResetPcs /\ Same(l) => status[labelMap[l].gp] = "dead"
    BY <1>14, <1>15, <1>16, <2>1, <2>5 DEF IdPcs
  <2> QED
    BY <1>13, <2>1, <2>3, <2>4, <2>6
<1>18. ASSUME NEW l \in Labels,
              \/ resetGet(l) \/ resetTake(l) \/ resetClear(l)
              \/ resetRun(l) \/ resetDel(l) \/ resetClose(l)
       PROVE  ExitInv'
  <2>1. /\ fin[l].pc \in {"get"} \cup ResetPcs /\ labels' = labels /\ labelMap' = labelMap
        /\ goid' = goid /\ status' = status
        /\ \A m \in Labels \ {l} : fin'[m] = fin[m]
    BY <1>0, <1>18 DEF resetGet, resetTake, resetClear, resetRun, resetDel, resetClose,
       runtimeVars, ResetPcs
  <2>2. fin'[l].old = fin[l].old /\ fin'[l].pc \notin {"regCheck", "regCas"}
    <3>1. CASE resetGet(l) \/ resetTake(l) \/ resetClear(l)
      BY <1>0, <3>1 DEF resetGet, resetTake, resetClear, FinCall
    <3>2. CASE resetRun(l)
      BY <1>0, <3>2 DEF resetRun, FinCall
    <3>3. CASE resetDel(l) \/ resetClose(l)
      BY <1>0, <3>3 DEF resetDel, resetClose, FinCall
    <3> QED
      BY <1>18, <3>1, <3>2, <3>3
  <2>3. Same(l) => status[labelMap[l].gp] = "dead"
    BY <2>1 DEF ExitInv, DeadInvOf
  <2>4. Active(l)
    BY <2>1 DEF Active, ResetPcs
  <2> QED
    BY <1>13, <2>1, <2>2, <2>3, <2>4
<1>19. ASSUME NEW p \in Gs, \/ \E op \in Calls : fetchDataMap(p, op)
                            \/ CallStep(p) /\ ~registerCas(p)
       PROVE  UNCHANGED <<fin, labels>>
  BY <1>19 DEF fetchDataMap, CallStep, newGlsData, registerLoad, registerRetry, Set, Del,
     AtExit, Reset, Unload, alreadyReset, closeData, runtimeVars
<1>20. ASSUME UNCHANGED vars PROVE UNCHANGED <<fin, labels>>
  BY <1>20 DEF vars, runtimeVars
<1> QED
  BY <1>6, <1>7, <1>8, <1>9, <1>11, <1>12, <1>17, <1>18, <1>19, <1>20 DEF Next, Environment,
     FinalizerStep

(***************************************************************************)
(* No handler is run and no data is closed at the exit of a goroutine that *)
(* is still running, as long as no goroutine is started on a g that the    *)
(* finalizers of its shard are not done with (ApartStart) and user code    *)
(* does not remove the labels of a goroutine: whatever labels come and go, *)
(* whether or not the program unloads its storage, and also when a g is    *)
(* recycled.                                                               *)
(***************************************************************************)
THEOREM NoPrematureExitWhenApart ==
  ASSUME "ClearLabels" \notin Ops PROVE ApartSpec => []NoPrematureExit
<1>1. Init => OwnerInv /\ FinOwner /\ ExitInv
  BY OwnerInvInit, FinOwnerInit, ExitInvInit
<1>2. TypeInv /\ TypeInv' /\ OwnerInv /\ FinOwner /\ ExitInv /\ [Next]_vars /\ [ApartStart]_vars
        => OwnerInv' /\ FinOwner' /\ ExitInv'
  <2> SUFFICES ASSUME TypeInv, TypeInv', OwnerInv, FinOwner, ExitInv, [Next]_vars,
                      [ApartStart]_vars
               PROVE  OwnerInv' /\ FinOwner' /\ ExitInv'
    OBVIOUS
  <2>1. ApartStart /\ VacantStart
    BY ApartStutter DEF ApartStart
  <2> QED
    BY <2>1, OwnerInvStep, FinOwnerStep, ExitInvStep
<1>3. TypeInv /\ OwnerInv /\ FinOwner /\ ExitInv => NoPrematureExit
  <2> SUFFICES ASSUME TypeInv, OwnerInv, FinOwner, ExitInv,
                      NEW l \in Labels, fin[l].pc \in ResetPcs, NEW i \in exitOf(l)
               PROVE  ~Running(i)
    BY DEF NoPrematureExit
  <2> DEFINE p == labelMap[l].gp
             d == fin[l].dm
  <2>1. p \in Gs
    BY DEF TypeInv, FinInv, ResetPcs
  <2>2. d \in Dms /\ Occupant(p, labelMap[l].se, dmOwner[d])
    BY DEF TypeInv, FinInv, FinOwner, FinOwnerOf, Dms, Nil
  <2>3. i = dmOwner[d]
    <3>1. \A n \in DOMAIN fin[l].funcs : fin[l].funcs[n][1] = dmOwner[d]
      BY DEF FinOwner, FinOwnerOf
    <3>2. \A n \in DOMAIN dms[d].atExitFuncs : dms[d].atExitFuncs[n][1] = dmOwner[d]
      BY <2>2 DEF OwnerInv, DataOwner
    <3>3. \A it \in itemsOf(d) : it[1] = dmOwner[d]
      BY <2>2 DEF OwnerInv, DataOwner, itemsOf
    <3> QED
      BY <3>1, <3>2, <3>3, SMTT(30) DEF exitOf
  <2>4. Same(l) => status[p] = "dead"
    BY DEF ExitInv, DeadInvOf
  <2>5. goid[p] = i => Same(l)
    BY <2>2, <2>3 DEF Occupant, Same
  <2> QED
    BY <2>2, <2>3, <2>4, <2>5 DEF Running, Occupant
<1> QED
  BY <1>1, <1>2, <1>3, TypeInvAlways, SpecOfApart, PTL DEF Spec

(***************************************************************************)
(* Once per goroutine.  Without Unload, a goroutine allocates one glsData  *)
(* and keeps it in the store until its exit procedure, and registers one   *)
(* finalizer, which only hands over to a successor.  A goroutine of        *)
(* another shard on the same g has a glsData and a finalizer of its own.   *)
(***************************************************************************)
Storage(p) == slots[findSlot(goid[p])][p]
Owned(i) == \E d \in Dms : dmOwner[d] = i
Registered(p) == \E l \in Labels : Active(l) /\ labelMap[l].gp = p /\ Same(l)

TakenPcs == {"take", "clear", "run"}

OneDataInv ==
  /\ \A d \in Dms : dmOwner[d] < nextGoid
  /\ \A d, e \in Dms : dmOwner[d] = dmOwner[e] /\ d # e => dmOwner[d] = 0
  /\ \A p \in Gs : (status[p] = "running" /\ Storage(p) = Nil) \/ th[p].pc = "create"
                     => ~Registered(p) /\ ~Owned(goid[p])

OneExitInv ==
  /\ \A p \in Gs : th[p].pc \in {"load", "cas"} => ~Registered(p)
  /\ \A l, m \in Labels : l # m /\ Active(l) /\ Active(m) =>
       labelMap[l].gp # labelMap[m].gp \/ labelMap[l].se # labelMap[m].se
  /\ \A l \in Labels : fin[l].pc \in TakenPcs =>
       slots[labelMap[l].se][labelMap[l].gp] \in {Nil, fin[l].dm}

InPlaceInv ==
  \A p \in Gs : /\ th[p].pc \in {"load", "cas", "act"} => th[p].dm = Storage(p)
                /\ th[p].op # "Unload"

OnceInv == OneDataInv /\ OneExitInv /\ InPlaceInv

LEMMA OnceInvInit == Init => OnceInv
<1> SUFFICES ASSUME Init PROVE OnceInv
  OBVIOUS
<1>1. /\ \A l \in Labels : fin[l].pc = "free"
      /\ \A d \in Dms : dmOwner[d] = 0
      /\ \A p \in Gs : th[p].pc = "idle" /\ th[p].op = "none"
      /\ nextGoid = 2 /\ \A p \in Gs : status[p] = "running" => goid[p] = 1
  BY DEF Init, NoFinalizer, Idle
<1>2. OneDataInv
  BY <1>1 DEF OneDataInv, Owned, Registered, Active
<1>3. OneExitInv /\ InPlaceInv
  BY <1>1 DEF OneExitInv, InPlaceInv, Active, TakenPcs
<1> QED
  BY <1>2, <1>3 DEF OnceInv

\* The handlers an exit procedure has taken over are those of the glsData it found.
LEMMA TakenEffect ==
  ASSUME TypeInv, [Next]_vars, NEW l \in Labels, fin'[l].pc \in TakenPcs
  PROVE  \/ fin[l].pc \in TakenPcs /\ fin'[l].dm = fin[l].dm
         \/ resetGet(l) /\ fin'[l].dm = slots[labelMap[l].se][labelMap[l].gp]
<1>0. fin \in [Labels -> FinCall] /\ fin[l] \in FinCall
  BY DEF TypeInv, TypeOK
<1>1. ASSUME NEW m \in Labels, fin' = [fin EXCEPT ![m].pc = "armed"] PROVE fin'[l] = fin[l]
  BY <1>0, <1>1 DEF FinCall, TakenPcs
<1>2. ASSUME NEW m \in Labels, regCas(m) PROVE fin'[l] = fin[l]
  BY <1>0, <1>2 DEF regCas, FinCall, TakenPcs
<1>3. ASSUME NEW m \in Labels, FinalizerStep(m), ~regCas(m) PROVE m # l => fin'[l] = fin[l]
  BY <1>0, <1>3 DEF FinalizerStep, finalize, finalizeCheck, finalizeLabels, regId, regLabels,
     regCheck, regRetry, resetGet, resetTake, resetClear, resetRun, resetDel, resetClose
<1>4. ~ (finalize(l) \/ finalizeCheck(l) \/ finalizeLabels(l) \/ regId(l) \/ regLabels(l))
  BY <1>0 DEF finalize, finalizeCheck, finalizeLabels, regId, regLabels, FinCall, TakenPcs
<1>5. ~ (regCheck(l) \/ regRetry(l) \/ resetDel(l) \/ resetClose(l))
  BY <1>0 DEF regCheck, regRetry, resetDel, resetClose, FinCall, regOutcome, TakenPcs
<1>6. ASSUME resetTake(l) \/ resetClear(l) \/ resetRun(l)
      PROVE  fin[l].pc \in TakenPcs /\ fin'[l].dm = fin[l].dm
  BY <1>0, <1>6 DEF resetTake, resetClear, resetRun, FinCall, TakenPcs
<1>7. ASSUME resetGet(l) PROVE fin'[l].dm = slots[labelMap[l].se][labelMap[l].gp]
  BY <1>0, <1>7 DEF resetGet, getGlsData, FinCall
<1>8. ASSUME NEW p \in Gs, Environment(p) PROVE fin' = fin
  BY <1>8 DEF Environment, Spawn, Goexit, SetGoroutineLabels, fetchDataMap
<1>9. ASSUME NEW p \in Gs, CallStep(p) PROVE fin'[l] = fin[l]
  BY <1>1, <1>9 DEF CallStep, newGlsData, registerLoad, registerCas, registerRetry, Set, Del,
     AtExit, Reset, Unload, alreadyReset, closeData
<1>10. ASSUME UNCHANGED vars PROVE fin' = fin
  BY <1>10 DEF vars
<1>11. ASSUME NEW m \in Labels, FinalizerStep(m)
       PROVE  fin'[l] = fin[l] \/ resetTake(l) \/ resetClear(l) \/ resetRun(l) \/ resetGet(l)
  BY <1>2, <1>3, <1>4, <1>5, <1>11 DEF FinalizerStep
<1> QED
  BY <1>6, <1>7, <1>8, <1>9, <1>10, <1>11 DEF Next

LEMMA OnceInvStep ==
  ASSUME ApartStart, "Unload" \notin Ops, TypeInv, TypeInv', OwnerInv, FinOwner, PlaceInv, ExitInv,
         OnceInv, [Next]_vars
  PROVE  OnceInv'
<1> USE DEF OnceInv
<1>0. /\ th \in [Gs -> GoCall] /\ slots \in [Shards -> [Gs -> Dms \cup {Nil}]]
      /\ dmOwner \in [Dms -> 0..MaxGoid] /\ MaxGoid \in Nat
      /\ nextGoid \in Nat /\ nextGoid' \in Nat /\ goid \in [Gs -> 0..MaxGoid]
      /\ labelMap \in [Labels -> LabelMap]
  BY GlsConstants DEF TypeInv, TypeOK
\* A finalizer at work stays one of its shard, and of its goroutine if Same.
<1>1. ASSUME NEW l \in Labels, Active(l)
      PROVE  /\ fin[l].pc # "free" /\ labelMap[l].gp \in Gs /\ labelMap[l].se \in Shards
             /\ labelMap'[l] = labelMap[l]
             /\ Same(l)' => Same(l) /\ goid'[labelMap[l].gp] = goid[labelMap[l].gp]
  <2>1. /\ fin[l].pc # "free" /\ labelMap[l].gp \in Gs /\ labelMap[l].se \in Shards
        /\ labelMap'[l] = labelMap[l]
    BY <1>0, <1>1, LabelMapFixed DEF Active, TypeInv, FinInv, LabelMap
  <2>2. Same(l)' => goid'[labelMap[l].gp] = goid[labelMap[l].gp]
    BY <1>1, <2>1 DEF ApartStart, Same
  <2> QED
    BY <2>1, <2>2 DEF Same
<1>2. ASSUME NEW p \in Gs, Registered(p)'
      PROVE  goid'[p] = goid[p] /\ (Registered(p) \/ registerCas(p))
  <2>1. PICK l \in Labels : Active(l)' /\ labelMap'[l].gp = p /\ Same(l)'
    BY <1>2 DEF Registered
  <2>2. CASE fin[l].pc # "free"
    <3>1. Active(l)
      BY <2>1, <2>2, DoneForGood DEF Active
    <3> QED
      BY <1>1, <2>1, <3>1 DEF Registered
  <2>3. CASE fin[l].pc = "free"
    <3>1. fin'[l].pc # "free"
      BY <2>1 DEF Active
    <3>2. CASE registerCas(p)
      BY <3>2 DEF registerCas
    <3>3. ASSUME NEW k \in Labels, regCas(k), labelMap'[l].gp = labelMap[k].gp,
                 labelMap'[l].se = labelMap[k].se
          PROVE  goid'[p] = goid[p] /\ Registered(p)
      <4>1. Active(k) /\ goid' = goid
        BY <3>3 DEF regCas, Active
      <4>2. Same(k)
        BY <2>1, <3>3, <4>1 DEF Same
      <4> QED
        BY <2>1, <3>3, <4>1, <4>2 DEF Registered
    <3> QED
      BY <2>1, <2>3, <3>1, <3>2, <3>3, Registration
  <2> QED
    BY <2>2, <2>3
<1>3. ASSUME NEW d \in Dms
      PROVE  dmOwner'[d] = dmOwner[d] \/ \E p \in Gs : newGlsData(p, d) /\ dmOwner'[d] = goid[p]
  BY OwnerEffect
\* A goroutine that runs keeps its glsData.
<1>4. ASSUME NEW p \in Gs, status'[p] = "running", status[p] = "running", goid'[p] = goid[p]
      PROVE  \/ Storage(p)' = Storage(p)
             \/ \E d \in Dms : newGlsData(p, d) /\ Storage(p)' = d
  <2> DEFINE s == findSlot(goid[p])
  <2>1. s \in Shards /\ Storage(p)' = slots'[s][p]
    BY <1>0, <1>4, FindSlotType DEF Storage
  <2>2. ASSUME NEW q \in Gs, NEW d \in Dms, newGlsData(q, d)
        PROVE  slots'[s][p] = IF p = q THEN d ELSE slots[s][p]
    BY <1>0, <2>1, <2>2 DEF newGlsData
  <2>3. ASSUME NEW q \in Gs PROVE ~Unload(q)
    BY DEF Unload, Acting, InPlaceInv
  <2>4. ASSUME NEW l \in Labels, resetDel(l) PROVE slots'[s][p] = slots[s][p]
    <3>1. slots' = [slots EXCEPT ![labelMap[l].se][labelMap[l].gp] = Nil]
      BY <2>4 DEF resetDel, delGlsData
    <3>2. Same(l) => status[labelMap[l].gp] = "dead"
      BY <2>4 DEF resetDel, ExitInv, DeadInvOf, ResetPcs
    <3>3. ~(labelMap[l].gp = p /\ labelMap[l].se = s)
      BY <1>4, <3>2 DEF Same
    <3> QED
      BY <1>0, <2>1, <3>1, <3>3
  <2>5. ASSUME NEW q \in Gs, Environment(q) PROVE slots' = slots
    BY <2>5 DEF Environment, Spawn, Goexit, SetGoroutineLabels, fetchDataMap, storeVars
  <2>6. ASSUME NEW q \in Gs, CallStep(q), ~\E d \in Dms : newGlsData(q, d) PROVE slots' = slots
    BY <2>3, <2>6 DEF CallStep, registerLoad, registerCas, registerRetry, Set, Del, AtExit, Reset,
       alreadyReset, closeData, storeVars
  <2>7. ASSUME NEW l \in Labels, FinalizerStep(l), ~resetDel(l) PROVE slots' = slots
    BY <2>7 DEF FinalizerStep, finalize, finalizeCheck, finalizeLabels, regId, regLabels,
       regCheck, regCas, regRetry, resetGet, resetTake, resetClear, resetRun, resetClose, storeVars
  <2>8. ASSUME UNCHANGED vars PROVE slots' = slots
    BY <2>8 DEF vars, storeVars
  <2>9. slots'[s][p] = slots[s][p] => Storage(p)' = Storage(p)
    BY <2>1 DEF Storage
  <2>10. slots' = slots => slots'[s][p] = slots[s][p]
    OBVIOUS
  <2> HIDE DEF s
  <2> QED
    BY <2>1, <2>2, <2>4, <2>5, <2>6, <2>7, <2>8, <2>9, <2>10 DEF Next
\* How a call gets where it is.
<1>5. ASSUME NEW p \in Gs
      PROVE  /\ th'[p].pc = "create" =>
                  \/ th[p].pc = "create" /\ ~\E d \in Dms : newGlsData(p, d)
                  \/ status[p] = "running" /\ Storage(p) = Nil
                     /\ \E op \in Calls : fetchDataMap(p, op)
             /\ th'[p].pc \in {"load", "cas"} =>
                  \/ th[p].pc \in {"load", "cas"} /\ th'[p].dm = th[p].dm /\ ~registerCas(p)
                  \/ \E d \in Dms : newGlsData(p, d) /\ th'[p].dm = d
             /\ th'[p].pc = "act" =>
                  \/ th[p].pc \in {"load", "cas", "act"} /\ th'[p].dm = th[p].dm
                  \/ th'[p].dm = Storage(p) /\ \E op \in Calls : fetchDataMap(p, op)
             /\ th'[p].op # "Unload"
  <2> DEFINE Fine == /\ th'[p].pc = "create" =>
                          \/ th[p].pc = "create" /\ ~\E d \in Dms : newGlsData(p, d)
                          \/ status[p] = "running" /\ Storage(p) = Nil
                             /\ \E op \in Calls : fetchDataMap(p, op)
                     /\ th'[p].pc \in {"load", "cas"} =>
                          \/ th[p].pc \in {"load", "cas"} /\ th'[p].dm = th[p].dm /\ ~registerCas(p)
                          \/ \E d \in Dms : newGlsData(p, d) /\ th'[p].dm = d
                     /\ th'[p].pc = "act" =>
                          \/ th[p].pc \in {"load", "cas", "act"} /\ th'[p].dm = th[p].dm
                          \/ th'[p].dm = Storage(p) /\ \E op \in Calls : fetchDataMap(p, op)
                     /\ th'[p].op # "Unload"
  <2>0. th[p] \in GoCall /\ th[p].op # "Unload"
    BY <1>0 DEF InPlaceInv
  <2>1. ASSUME th'[p] = th[p] PROVE Fine
    <3>1. ASSUME NEW d \in Dms, newGlsData(p, d) PROVE FALSE
      BY <1>0, <2>0, <2>1, <3>1 DEF newGlsData, InCall, GoCall
    <3>2. ~registerCas(p)
      BY <1>0, <2>0, <2>1 DEF registerCas, InCall, GoCall
    <3> QED
      BY <2>0, <2>1, <3>1, <3>2
  <2>2. ASSUME th'[p].pc \in {"idle", "close"}, th'[p].op # "Unload" PROVE Fine
    BY <2>2
  <2>3. ASSUME NEW op \in Calls, fetchDataMap(p, op) PROVE Fine
    <3> DEFINE d == Storage(p)
    <3>1. /\ th' = [th EXCEPT ![p] = [Idle EXCEPT !.pc = afterLookup(op, d), !.op = op, !.dm = d]]
          /\ status[p] = "running" /\ op \in Ops
      BY <2>3 DEF fetchDataMap, InCall, getGlsData, Storage
    <3> HIDE DEF d
    <3>2. th'[p].pc = afterLookup(op, d) /\ th'[p].op = op /\ th'[p].dm = d
      BY <1>0, <3>1 DEF Idle
    <3>3. afterLookup(op, d) \in {"act", "create", "idle"} /\ (afterLookup(op, d) = "create" => d = Nil)
      BY DEF afterLookup
    <3> QED
      BY <2>3, <3>1, <3>2, <3>3 DEF d
  <2>4. ASSUME NEW d \in Dms, newGlsData(p, d) PROVE Fine
    <3>1. th'[p].pc = "load" /\ th'[p].dm = d /\ th'[p].op = th[p].op
      BY <1>0, <2>0, <2>4 DEF newGlsData, GoCall
    <3> QED
      BY <2>0, <2>4, <3>1
  <2>5. ASSUME registerLoad(p) \/ registerRetry(p) PROVE Fine
    <3>1. /\ th'[p].pc \in {"load", "cas", "act"} /\ th'[p].dm = th[p].dm /\ th'[p].op = th[p].op
          /\ th[p].pc \in {"load", "cas"}
      BY <1>0, <2>0, <2>5 DEF registerLoad, registerRetry, InCall, GoCall
    <3>2. ~registerCas(p)
      BY <2>5 DEF registerLoad, registerRetry, registerCas, InCall
    <3> QED
      BY <2>0, <3>1, <3>2
  <2>6. ASSUME registerCas(p) PROVE Fine
    <3>1. th'[p].pc = "act" /\ th'[p].dm = th[p].dm /\ th'[p].op = th[p].op /\ th[p].pc = "cas"
      BY <1>0, <2>0, <2>6 DEF registerCas, InCall, GoCall
    <3> QED
      BY <2>0, <3>1
  <2>7. ASSUME \/ \E k \in Keys : Set(p, k) \/ Del(p, k)
               \/ AtExit(p) \/ Reset(p) \/ alreadyReset(p) \/ closeData(p)
        PROVE  Fine
    <3>1. CASE Reset(p)
      <4>1. th' = [th EXCEPT ![p] = [Idle EXCEPT !.pc = "close", !.closing = itemsOf(th[p].dm)]]
        BY <3>1 DEF Reset
      <4>2. th'[p].pc = "close" /\ th'[p].op = "none"
        BY <1>0, <4>1 DEF Idle
      <4> QED
        BY <2>2, <4>2
    <3>2. CASE ~Reset(p)
      <4>1. th' = [th EXCEPT ![p] = Idle]
        BY <2>7, <3>2 DEF Set, Del, AtExit, alreadyReset, closeData
      <4>2. th'[p].pc = "idle" /\ th'[p].op = "none"
        BY <1>0, <4>1 DEF Idle
      <4> QED
        BY <2>2, <4>2
    <3> QED
      BY <3>1, <3>2
  <2>8. ~Unload(p)
    BY <2>0 DEF Unload, Acting
  <2>9. ASSUME CallStep(p) PROVE Fine
    <3> HIDE DEF Fine
    <3> QED
      BY <2>4, <2>5, <2>6, <2>7, <2>8, <2>9 DEF CallStep
  <2>10. ASSUME NEW q \in Gs, q # p, CallStep(q) PROVE th'[p] = th[p]
    BY <1>0, <2>10 DEF CallStep, newGlsData, registerLoad, registerCas, registerRetry, Set, Del,
       AtExit, Reset, Unload, alreadyReset, closeData
  <2>11. ASSUME NEW q \in Gs, Environment(q), ~\E op \in Calls : fetchDataMap(p, op)
         PROVE  th'[p] = th[p]
    BY <1>0, <2>11 DEF Environment, Spawn, Goexit, SetGoroutineLabels, fetchDataMap
  <2>12. ASSUME NEW l \in Labels, FinalizerStep(l) PROVE th' = th
    BY <2>12 DEF FinalizerStep, finalize, finalizeCheck, finalizeLabels, regId, regLabels,
       regCheck, regCas, regRetry, resetGet, resetTake, resetClear, resetRun, resetDel, resetClose
  <2>13. ASSUME UNCHANGED vars PROVE th' = th
    BY <2>13 DEF vars
  <2>14. Fine
    <3> HIDE DEF Fine
    <3> QED
      BY <2>1, <2>3, <2>9, <2>10, <2>11, <2>12, <2>13 DEF Next
  <2> QED
    BY <2>14
<1>6. (\A d \in Dms : dmOwner[d] < nextGoid)'
  <2> SUFFICES ASSUME NEW d \in Dms PROVE dmOwner'[d] < nextGoid'
    OBVIOUS
  <2>1. ASSUME NEW p \in Gs PROVE nextGoid <= nextGoid' /\ goid[p] < nextGoid /\ goid[p] \in Nat
    BY <1>0, StartEffect DEF TypeInv, GoidInv
  <2>2. 1 \in Gs /\ dmOwner[d] \in Nat /\ dmOwner[d] < nextGoid
    BY <1>0, GlsConstants DEF Gs, OneDataInv
  <2> QED
    BY <1>0, <1>3, <2>1, <2>2
\* Where a glsData is allocated, none was before.
<1>7. ASSUME NEW p \in Gs, NEW d \in Dms, newGlsData(p, d)
      PROVE  ~Owned(goid[p]) /\ ~Registered(p) /\ goid[p] # 0 /\ dmOwner[d] = 0
  BY <1>7 DEF newGlsData, InCall, OneDataInv, FreshDm, TypeInv, GoidInv
<1>8. (\A d, e \in Dms : dmOwner[d] = dmOwner[e] /\ d # e => dmOwner[d] = 0)'
  <2> SUFFICES ASSUME NEW d \in Dms, NEW e \in Dms, dmOwner'[d] = dmOwner'[e], d # e,
                      dmOwner'[d] # 0
               PROVE  FALSE
    OBVIOUS
  <2>1. ASSUME NEW p \in Gs, NEW q \in Gs, newGlsData(p, d), newGlsData(q, e) PROVE FALSE
    BY <1>0, <2>1 DEF newGlsData, FreshDm
  <2>2. ASSUME NEW p \in Gs, newGlsData(p, d), dmOwner'[d] = goid[p], dmOwner'[e] = dmOwner[e]
        PROVE FALSE
    BY <1>7, <2>2 DEF Owned
  <2>3. ASSUME NEW p \in Gs, newGlsData(p, e), dmOwner'[e] = goid[p], dmOwner'[d] = dmOwner[d]
        PROVE FALSE
    BY <1>7, <2>3 DEF Owned
  <2>4. ASSUME dmOwner'[e] = dmOwner[e], dmOwner'[d] = dmOwner[d] PROVE FALSE
    BY <2>4 DEF OneDataInv
  <2> QED
    BY <1>3, <2>1, <2>2, <2>3, <2>4
<1>9. ASSUME NEW p \in Gs, (status'[p] = "running" /\ Storage(p)' = Nil) \/ th'[p].pc = "create"
      PROVE  ~Registered(p)' /\ ~Owned(goid[p])'
  <2>1. CASE \E q \in Gs : Spawn(q, p)
    <3>1. PICK q \in Gs : Spawn(q, p)
      BY <2>1
    <3>2. goid'[p] = nextGoid /\ goid[p] < nextGoid /\ UNCHANGED <<dmOwner, fin, labelMap>>
      BY <1>0, <3>1 DEF Spawn, storeVars, TypeInv, GoidInv
    <3>3. ~Registered(p)'
      BY <1>0, <1>2, <3>2
    <3> QED
      BY <1>0, <3>2, <3>3 DEF OneDataInv, Owned
  <2>2. CASE /\ goid'[p] = goid[p] /\ status[p] = "running"
             /\ (Storage(p) = Nil \/ th[p].pc = "create")
             /\ ~(\E d \in Dms : newGlsData(p, d)) /\ ~registerCas(p)
    <3>1. ~Registered(p) /\ ~Owned(goid[p])
      BY <2>2 DEF OneDataInv
    <3>2. ~Registered(p)'
      BY <1>2, <2>2, <3>1
    <3>3. ASSUME NEW d \in Dms, dmOwner'[d] = goid[p] PROVE FALSE
      <4>1. CASE dmOwner'[d] = dmOwner[d]
        BY <3>1, <3>3, <4>1 DEF Owned
      <4>2. CASE \E q \in Gs : newGlsData(q, d) /\ dmOwner'[d] = goid[q]
        <5>1. PICK q \in Gs : newGlsData(q, d) /\ goid[q] = goid[p]
          BY <3>3, <4>2
        <5>2. p = q
          BY <1>7, <5>1 DEF TypeInv, GoidInv
        <5> QED
          BY <2>2, <5>1, <5>2
      <4> QED
        BY <1>3, <4>1, <4>2
    <3> QED
      BY <2>2, <3>2, <3>3 DEF Owned
  <2>3. CASE th'[p].pc = "create" /\ ~\E q \in Gs : Spawn(q, p)
    <3>1. CASE th[p].pc = "create" /\ ~\E d \in Dms : newGlsData(p, d)
      <4>1. status[p] = "running" /\ ~registerCas(p) /\ goid'[p] = goid[p]
        BY <2>3, <3>1, StartEffect DEF TypeInv, CallInv, registerCas, InCall
      <4> QED
        BY <2>2, <3>1, <4>1
    <3>2. CASE status[p] = "running" /\ Storage(p) = Nil /\ \E op \in Calls : fetchDataMap(p, op)
      <4>1. ~(\E d \in Dms : newGlsData(p, d)) /\ ~registerCas(p) /\ goid'[p] = goid[p]
        BY <3>2 DEF fetchDataMap, newGlsData, registerCas, InCall, runtimeVars
      <4> QED
        BY <2>2, <3>2, <4>1
    <3> QED
      BY <1>5, <2>3, <3>1, <3>2
  <2>4. CASE status'[p] = "running" /\ Storage(p)' = Nil /\ ~\E q \in Gs : Spawn(q, p)
    <3>1. goid'[p] = goid[p] /\ status[p] = "running"
      BY <2>4, StartEffect
    <3>2. Storage(p)' = Storage(p) /\ ~\E d \in Dms : newGlsData(p, d)
      <4>1. ASSUME NEW d \in Dms, newGlsData(p, d) PROVE FALSE
        <5>1. Storage(p)' = d
          BY <1>0, <3>1, <4>1, FindSlotType DEF newGlsData, Storage
        <5> QED
          BY <2>4, <5>1 DEF Dms, Nil
      <4> QED
        BY <1>4, <2>4, <3>1, <4>1
    <3>3. ~registerCas(p)
      <4>1. registerCas(p) => th[p].dm = Storage(p) /\ th[p].dm \in Dms
        BY DEF registerCas, InCall, InPlaceInv, TypeInv, CallInv
      <4> QED
        BY <2>4, <3>2, <4>1 DEF Dms, Nil
    <3> QED
      BY <2>2, <2>4, <3>1, <3>2, <3>3
  <2> QED
    BY <1>9, <2>1, <2>3, <2>4
<1>10. ASSUME NEW p \in Gs, th'[p].pc \in {"load", "cas"} PROVE ~Registered(p)'
  <2>1. CASE th[p].pc \in {"load", "cas"} /\ ~registerCas(p)
    BY <1>2, <2>1 DEF OneExitInv
  <2>2. CASE \E d \in Dms : newGlsData(p, d)
    <3>1. ~registerCas(p)
      BY <2>2 DEF newGlsData, registerCas, InCall
    <3> QED
      BY <1>2, <1>7, <2>2, <3>1
  <2> QED
    BY <1>5, <1>10, <2>1, <2>2
<1>11. ASSUME NEW l \in Labels, NEW m \in Labels, l # m, Active(l)', Active(m)',
              labelMap'[l].gp = labelMap'[m].gp, labelMap'[l].se = labelMap'[m].se
       PROVE  FALSE
  <2>1. ASSUME NEW k \in Labels, Active(k)', fin[k].pc # "free"
        PROVE  Active(k) /\ labelMap'[k] = labelMap[k]
    BY <1>1, <2>1, DoneForGood DEF Active
  <2>2. ASSUME NEW k \in Labels, NEW n \in Labels, k # n, Active(k)', Active(n)',
               fin[k].pc = "free", labelMap'[k].gp = labelMap'[n].gp,
               labelMap'[k].se = labelMap'[n].se
        PROVE  FALSE
    <3>0. fin'[k].pc # "free"
      BY <2>2 DEF Active
    <3>1. ASSUME NEW p \in Gs, registerCas(p), labelMap'[k].gp = p,
                 labelMap'[k].se = findSlot(goid[p]), fin'[n] = fin[n]
          PROVE  FALSE
      <4>1. Active(n)
        BY <2>2, <3>1 DEF Active
      <4>2. labelMap[n].gp = p /\ Same(n)
        BY <1>1, <2>2, <3>1, <4>1 DEF Same
      <4> QED
        BY <3>1, <4>1, <4>2 DEF registerCas, InCall, OneExitInv, Registered
    <3>2. ASSUME NEW j \in Labels \ {k}, regCas(j), labelMap'[k].gp = labelMap[j].gp,
                 labelMap'[k].se = labelMap[j].se,
                 fin'[j].pc = "done", \A i \in Labels \ {j, k} : fin'[i] = fin[i]
          PROVE  FALSE
      <4>1. n # j /\ fin[n] = fin'[n]
        BY <2>2, <3>2 DEF Active
      <4>2. Active(n) /\ Active(j)
        BY <2>2, <3>2, <4>1 DEF Active, regCas
      <4>3. labelMap[n].gp = labelMap[j].gp /\ labelMap[n].se = labelMap[j].se
        BY <1>1, <2>2, <3>2, <4>2
      <4> QED
        BY <4>1, <4>2, <4>3 DEF OneExitInv
    <3> QED
      BY <2>2, <3>0, <3>1, <3>2, Registration
  <2> QED
    BY <1>11, <2>1, <2>2 DEF OneExitInv
\* What an exit procedure has taken over leaves the store, or stays.
<1>13. ASSUME NEW l \in Labels, fin'[l].pc \in TakenPcs
       PROVE  slots'[labelMap'[l].se][labelMap'[l].gp] \in {Nil, fin'[l].dm}
  <2>1. CASE fin[l].pc \in TakenPcs /\ fin'[l].dm = fin[l].dm
    <3>1. Active(l)
      BY <2>1 DEF TakenPcs, Active
    <3>2. PICK s \in Shards : s = labelMap[l].se
      BY <1>1, <3>1
    <3>3. PICK p \in Gs : p = labelMap[l].gp
      BY <1>1, <3>1
    <3>4. slots[s][p] \in {Nil, fin[l].dm}
      BY <2>1, <3>2, <3>3 DEF OneExitInv
    <3>5. ASSUME NEW d \in Dms, newGlsData(p, d), s = findSlot(goid[p]) PROVE FALSE
      <4>1. Registered(p)
        BY <3>1, <3>2, <3>3, <3>5 DEF Registered, Same
      <4> QED
        BY <3>5, <4>1 DEF newGlsData, InCall, OneDataInv
    <3>6. slots'[s][p] \in {slots[s][p], Nil}
      BY <3>5, SlotsEffect
    <3> QED
      BY <1>1, <2>1, <3>1, <3>2, <3>3, <3>4, <3>6
  <2>2. CASE resetGet(l) /\ fin'[l].dm = slots[labelMap[l].se][labelMap[l].gp]
    BY <2>2 DEF resetGet, storeVars
  <2> QED
    BY <1>13, <2>1, <2>2, TakenEffect
<1>12. ASSUME NEW p \in Gs, th'[p].pc \in {"load", "cas", "act"} PROVE th'[p].dm = Storage(p)'
  <2>1. CASE th[p].pc \in {"load", "cas", "act"} /\ th'[p].dm = th[p].dm
    <3>1. status[p] = "running" /\ status'[p] = "running" /\ th[p].dm = Storage(p)
      BY <1>12, <2>1 DEF TypeInv, CallInv, InPlaceInv
    <3>2. goid'[p] = goid[p]
      BY <3>1, StartEffect DEF Spawn
    <3>3. ~\E d \in Dms : newGlsData(p, d)
      BY <2>1 DEF newGlsData, InCall
    <3> QED
      BY <1>4, <2>1, <3>1, <3>2, <3>3
  <2>2. ASSUME NEW d \in Dms, newGlsData(p, d), th'[p].dm = d PROVE th'[p].dm = Storage(p)'
    BY <1>0, <2>2, FindSlotType DEF newGlsData, Storage, runtimeVars
  <2>3. ASSUME NEW op \in Calls, fetchDataMap(p, op), th'[p].dm = Storage(p)
        PROVE  th'[p].dm = Storage(p)'
    BY <2>3 DEF fetchDataMap, Storage, runtimeVars, storeVars
  <2> QED
    BY <1>5, <1>12, <2>1, <2>2, <2>3
<1> QED
  <2>1. OneDataInv'
    BY <1>6, <1>8, <1>9 DEF OneDataInv
  <2>2. OneExitInv'
    BY <1>10, <1>11, <1>13 DEF OneExitInv
  <2>3. InPlaceInv'
    BY <1>5, <1>12 DEF InPlaceInv
  <2> QED
    BY <2>1, <2>2, <2>3

(***************************************************************************)
(* Handlers.  The handlers of a goroutine are numbered in the order of its *)
(* AtExit calls, wherever they are; they are either held by its glsData,   *)
(* or by its one exit procedure, which no handler that it has called       *)
(* precedes; and none of them is called before the goroutine has ended.    *)
(***************************************************************************)
Holds(fs, h) == \E n \in DOMAIN fs : fs[n] = h

Ascending(fs) == \A m, n \in DOMAIN fs : m < n => fs[m][2] < fs[n][2]

NumberInv ==
  \A d \in Dms : /\ Ascending(dms[d].atExitFuncs)
                 /\ \A n \in DOMAIN dms[d].atExitFuncs :
                      LET f == dms[d].atExitFuncs[n] IN f[2] <= nfuncs[f[1]]

TakenInv ==
  \A l \in Labels :
    /\ Ascending(fin[l].funcs)
    /\ fin[l].funcs # <<>> => fin[l].pc \in {"clear", "run"}
    /\ fin[l].pc = "clear" => fin[l].funcs = dms[fin[l].dm].atExitFuncs
    /\ fin[l].pc = "run" => dms[fin[l].dm].atExitFuncs = <<>>

RanInv ==
  \A a \in DOMAIN ran :
    /\ ran[a][1] < nextGoid
    /\ \A p \in Gs : status[p] = "running" => ran[a][1] # goid[p]
    /\ \A d \in Dms : dms[d].atExitFuncs # <<>> => ran[a][1] # dmOwner[d]
    /\ \A l \in Labels : \A n \in DOMAIN fin[l].funcs :
         ran[a][1] = fin[l].funcs[n][1] => ran[a][2] > fin[l].funcs[n][2]

\* A handler that has been called, or still will be.
Kept(h) ==
  \/ Holds(ran, h)
  \/ \E p \in Gs : LET d == slots[findSlot(h[1])][p]
                  IN  d # Nil /\ Holds(dms[d].atExitFuncs, h)
  \/ \E l \in Labels : Holds(fin[l].funcs, h)

KeptInv == \A h \in Handlers : h[2] <= nfuncs[h[1]] => Kept(h)

HandlerInv == NumberInv /\ TakenInv /\ RanInv /\ RanOnceInFiloOrder /\ KeptInv

LEMMA HandlerInvInit == Init => HandlerInv
<1> SUFFICES ASSUME Init PROVE HandlerInv
  OBVIOUS
<1>1. /\ ran = <<>> /\ \A l \in Labels : fin[l].pc = "free" /\ fin[l].funcs = <<>>
      /\ \A d \in Dms : dms[d].atExitFuncs = <<>>
      /\ nfuncs = [i \in Goids |-> 0]
  BY DEF Init, NoFinalizer, newData
<1>2. NumberInv /\ TakenInv /\ RanInv /\ RanOnceInFiloOrder
  BY <1>1 DEF NumberInv, TakenInv, RanInv, RanOnceInFiloOrder, Ascending
<1>3. KeptInv
  <2> SUFFICES ASSUME NEW h \in Handlers, h[2] <= nfuncs[h[1]] PROVE FALSE
    BY DEF KeptInv
  <2>1. h[1] \in Goids /\ h[2] \in 1..MaxFuncs
    BY DEF Handlers
  <2> QED
    BY <1>1, <2>1, GlsConstants
<1> QED
  BY <1>2, <1>3 DEF HandlerInv

\* Append keeps the handlers before it and adds one.
LEMMA AppendHolds ==
  ASSUME NEW fs \in Seq(Handlers), NEW h \in Handlers
  PROVE  /\ \A n \in DOMAIN fs : n \in DOMAIN Append(fs, h) /\ Append(fs, h)[n] = fs[n]
         /\ \A n \in DOMAIN Append(fs, h) :
              \/ n \in DOMAIN fs /\ Append(fs, h)[n] = fs[n]
              \/ n = Len(fs) + 1 /\ Append(fs, h)[n] = h
         /\ Len(fs) + 1 \in DOMAIN Append(fs, h) /\ Append(fs, h)[Len(fs) + 1] = h
         /\ \A n \in DOMAIN fs : n \in Nat /\ n < Len(fs) + 1
         /\ Len(fs) \in Nat
OBVIOUS

\* What resetRun leaves is what comes before the last handler.
LEMMA DropLastHolds ==
  ASSUME NEW fs \in Seq(Handlers), fs # <<>>, NEW rest,
         rest = SubSeq(fs, 1, Len(fs) - 1) \o SubSeq(fs, Len(fs) + 1, Len(fs))
  PROVE  /\ Len(fs) \in DOMAIN fs
         /\ \A n \in DOMAIN rest : n \in DOMAIN fs /\ n < Len(fs) /\ rest[n] = fs[n]
         /\ \A n \in DOMAIN fs : n = Len(fs) \/ (n \in DOMAIN rest /\ rest[n] = fs[n])
<1>1. Len(fs) \in Nat \ {0}
  BY EmptySeq
<1>2. SubSeq(fs, Len(fs) + 1, Len(fs)) = <<>>
  BY <1>1
<1>3. SubSeq(fs, 1, Len(fs) - 1) \in Seq(Handlers)
  BY <1>1
<1>4. rest = SubSeq(fs, 1, Len(fs) - 1)
  BY <1>2, <1>3
<1>5. DOMAIN rest = 1..(Len(fs) - 1) /\ \A n \in 1..(Len(fs) - 1) : rest[n] = fs[n]
  BY <1>1, <1>4
<1> QED
  BY <1>1, <1>5

\* The steps that move no handler.
LEMMA HandlersFixed ==
  ASSUME TypeInv, [Next]_vars,
         ~\E p \in Gs : AtExit(p) \/ Unload(p) \/ \E d \in Dms : newGlsData(p, d),
         ~\E l \in Labels : resetTake(l) \/ resetClear(l) \/ resetRun(l) \/ resetDel(l)
  PROVE  /\ UNCHANGED <<slots, dmOwner, nfuncs, ran>>
         /\ \A d \in Dms : dms'[d].atExitFuncs = dms[d].atExitFuncs
         /\ \A l \in Labels :
              /\ fin'[l].funcs = fin[l].funcs
              /\ {fin[l].pc, fin'[l].pc} \cap {"clear", "run"} # {} =>
                   fin'[l].pc = fin[l].pc /\ fin'[l].dm = fin[l].dm
<1>0. dms \in [Dms -> GlsData] /\ fin \in [Labels -> FinCall]
  BY DEF TypeInv, TypeOK
<1> DEFINE Store == UNCHANGED <<slots, dmOwner, nfuncs, ran>>
           Heap  == \A d \in Dms : dms'[d].atExitFuncs = dms[d].atExitFuncs
           Fins  == \A l \in Labels :
                      /\ fin'[l].funcs = fin[l].funcs
                      /\ {fin[l].pc, fin'[l].pc} \cap {"clear", "run"} # {} =>
                           fin'[l].pc = fin[l].pc /\ fin'[l].dm = fin[l].dm
<1>1. dms' = dms => Heap
  OBVIOUS
<1>2. fin' = fin => Fins
  OBVIOUS
<1>3. ASSUME NEW p \in Gs, Environment(p) PROVE Store /\ dms' = dms /\ fin' = fin
  BY <1>3 DEF Environment, Spawn, Goexit, SetGoroutineLabels, fetchDataMap, storeVars, userVars
<1>4. ASSUME NEW p \in Gs, registerLoad(p) \/ registerRetry(p) \/ alreadyReset(p) \/ closeData(p)
      PROVE  Store /\ dms' = dms /\ fin' = fin
  BY <1>4 DEF registerLoad, registerRetry, alreadyReset, closeData, storeVars, userVars
<1>5. ASSUME NEW p \in Gs, NEW k \in Keys, Set(p, k) PROVE Store /\ Heap /\ fin' = fin
  <2>1. PICK it : dms' = [dms EXCEPT ![th[p].dm].data[k] = it]
    BY <1>5 DEF Set
  <2> QED
    BY <1>0, <1>5, <2>1 DEF Set, GlsData
<1>6. ASSUME NEW p \in Gs, NEW k \in Keys, Del(p, k) PROVE Store /\ Heap /\ fin' = fin
  BY <1>0, <1>6 DEF Del, GlsData, userVars
<1>7. ASSUME NEW p \in Gs, Reset(p) PROVE Store /\ Heap /\ fin' = fin
  <2>1. PICK m : dms' = [dms EXCEPT ![th[p].dm].data = m]
    BY <1>7 DEF Reset, resetData
  <2> QED
    BY <1>0, <1>7, <2>1 DEF Reset, GlsData, userVars
<1>8. ASSUME NEW p \in Gs, registerCas(p) PROVE Store /\ dms' = dms /\ Fins
  <2>1. PICK m \in Labels : fin[m].pc = "free" /\ fin' = [fin EXCEPT ![m].pc = "armed"]
    BY <1>8 DEF registerCas, install, FreshLabel
  <2> QED
    BY <1>0, <1>8, <2>1 DEF registerCas, storeVars, userVars, FinCall
<1>9. ASSUME NEW k \in Labels, regCas(k) PROVE Store /\ dms' = dms /\ Fins
  <2>1. PICK m \in Labels :
          /\ fin[m].pc = "free" /\ fin[k].pc = "regCas"
          /\ fin' = [fin EXCEPT ![k].pc = "done", ![k].old = Nil, ![m].pc = "armed"]
    BY <1>9 DEF regCas, install, FreshLabel
  <2>2. Fins
    <3> SUFFICES ASSUME NEW l \in Labels
                 PROVE  /\ fin'[l].funcs = fin[l].funcs
                        /\ {fin[l].pc, fin'[l].pc} \cap {"clear", "run"} # {} =>
                             fin'[l].pc = fin[l].pc /\ fin'[l].dm = fin[l].dm
      OBVIOUS
    <3>1. CASE l = k
      BY <1>0, <2>1, <3>1 DEF FinCall
    <3>2. CASE l # k
      BY <1>0, <2>1, <3>2 DEF FinCall
    <3> QED
      BY <3>1, <3>2
  <2> QED
    BY <1>9, <2>2 DEF regCas, storeVars, userVars
<1>10. ASSUME NEW l \in Labels, FinalizerStep(l), ~regCas(l) PROVE Store /\ dms' = dms /\ Fins
  <2>1. Store /\ dms' = dms /\ \A m \in Labels \ {l} : fin'[m] = fin[m]
    BY <1>0, <1>10 DEF FinalizerStep, finalize, finalizeCheck, finalizeLabels, regId, regLabels,
       regCheck, regRetry, resetGet, resetClose, storeVars, userVars
  <2> DEFINE Fine == /\ fin'[l].funcs = fin[l].funcs
                     /\ {fin[l].pc, fin'[l].pc} \cap {"clear", "run"} = {}
  <2>2. ASSUME finalize(l) \/ finalizeCheck(l) \/ finalizeLabels(l) \/ regId(l) \/ regLabels(l)
        PROVE  Fine
    BY <1>0, <2>2 DEF finalize, finalizeCheck, finalizeLabels, regId, regLabels, FinCall
  <2>3. ASSUME regCheck(l) \/ regRetry(l) PROVE Fine
    BY <1>0, <2>3 DEF regCheck, regRetry, regOutcome, FinCall
  <2>4. ASSUME resetGet(l) \/ resetClose(l) PROVE Fine
    BY <1>0, <2>4 DEF resetGet, resetClose, FinCall
  <2>5. Fine
    BY <1>10, <2>2, <2>3, <2>4 DEF FinalizerStep
  <2> QED
    BY <2>1, <2>5
<1>11. ASSUME UNCHANGED vars PROVE Store /\ dms' = dms /\ fin' = fin
  BY <1>11 DEF vars, storeVars, userVars
<1>12. Store /\ Heap /\ Fins
  <2> HIDE DEF Store, Heap, Fins
  <2> QED
    BY <1>1, <1>2, <1>3, <1>4, <1>5, <1>6, <1>7, <1>8, <1>9, <1>10, <1>11
    DEF Next, CallStep, FinalizerStep
<1> QED
  BY <1>12

LEMMA HandlerInvStep ==
  ASSUME ApartStart, TypeInv, TypeInv', OwnerInv, FinOwner, ExitInv, PlaceInv, OnceInv,
         HandlerInv, [Next]_vars
  PROVE  HandlerInv'
<1> USE DEF HandlerInv, OnceInv
<1>0. /\ dms \in [Dms -> GlsData] /\ \A d \in Dms : dms[d].atExitFuncs \in Seq(Handlers)
      /\ fin \in [Labels -> FinCall] /\ \A l \in Labels : fin[l].funcs \in Seq(Handlers)
      /\ slots \in [Shards -> [Gs -> Dms \cup {Nil}]] /\ dmOwner \in [Dms -> 0..MaxGoid]
      /\ nfuncs \in [Goids -> 0..MaxFuncs] /\ MaxFuncs \in Nat /\ MaxGoid \in Nat
      /\ goid \in [Gs -> 0..MaxGoid] /\ ran \in Seq(Handlers) /\ nextGoid \in Nat
  <2>1. \A d \in Dms : dms[d].atExitFuncs \in Seq(Handlers)
    BY DEF TypeInv, TypeOK, GlsData
  <2>2. \A l \in Labels : fin[l].funcs \in Seq(Handlers)
    BY DEF TypeInv, TypeOK, FinCall
  <2>3. nextGoid \in Nat
    BY DEF TypeInv, TypeOK
  <2> QED
    BY <2>1, <2>2, <2>3, GlsConstants DEF TypeInv, TypeOK
\* The glsData of an exit procedure, and the goroutine that allocated it.
<1>1. ASSUME NEW l \in Labels, fin[l].pc \in ResetPcs
      PROVE  LET o == dmOwner[fin[l].dm]
             IN  /\ fin[l].dm \in Dms /\ o # 0 /\ o < nextGoid
                 /\ \A q \in Gs : status[q] = "running" => goid[q] # o
                 /\ \A d \in Dms : dmOwner[d] = o => d = fin[l].dm
                 /\ \A m \in Labels \ {l} : fin[m].pc \in ResetPcs =>
                      fin[m].dm # fin[l].dm /\ dmOwner[fin[m].dm] # o
  <2>1. ASSUME NEW m \in Labels, fin[m].pc \in ResetPcs
        PROVE  /\ Active(m) /\ fin[m].dm \in Dms
               /\ labelMap[m].gp \in Gs /\ labelMap[m].se \in Shards
               /\ Occupant(labelMap[m].gp, labelMap[m].se, dmOwner[fin[m].dm])
               /\ FoundAt(fin[m].dm, labelMap[m].se, labelMap[m].gp)
    <3>1. Active(m) /\ fin[m].dm \in Dms /\ labelMap[m].gp \in Gs
      BY <2>1 DEF TypeInv, FinInv, ResetPcs, Active
    <3>2. labelMap[m].se \in Shards
      BY DEF TypeInv, TypeOK, LabelMap
    <3>3. Occupant(labelMap[m].gp, labelMap[m].se, dmOwner[fin[m].dm])
      BY <3>1 DEF FinOwner, FinOwnerOf, Dms, Nil
    <3> QED
      BY <3>1, <3>2, <3>3 DEF FoundAt
  <2>2. Same(l) => status[labelMap[l].gp] = "dead"
    BY <1>1 DEF ExitInv, DeadInvOf
  <2>3. \A q \in Gs : status[q] = "running" => goid[q] # dmOwner[fin[l].dm]
    BY <1>1, <2>1, <2>2 DEF Occupant, Same
  <2>4. \A d \in Dms : dmOwner[d] = dmOwner[fin[l].dm] => d = fin[l].dm
    BY <1>1, <2>1 DEF OneDataInv, Occupant
  <2>5. ASSUME NEW m \in Labels \ {l}, fin[m].pc \in ResetPcs
        PROVE  fin[m].dm # fin[l].dm
    BY <1>1, <2>1, <2>5 DEF OneExitInv, PlaceInv
  <2> QED
    BY <1>1, <2>1, <2>3, <2>4, <2>5 DEF Occupant
<1>2. ASSUME NEW l \in Labels, NEW n \in DOMAIN fin[l].funcs
      PROVE  fin[l].pc \in ResetPcs /\ fin[l].funcs[n][1] = dmOwner[fin[l].dm]
  <2>1. fin[l].funcs # <<>>
    BY <1>0, <1>2
  <2> QED
    BY <1>2, <2>1 DEF TakenInv, FinOwner, FinOwnerOf, ResetPcs
<1>3. \A h \in Handlers : h[1] \in Goids /\ h[2] \in Nat /\ findSlot(h[1]) \in Shards
  BY FindSlotType DEF Handlers, Goids
<1>4. \A a \in DOMAIN ran : ran[a] \in Handlers
  BY <1>0
\* A step that moves no handler.
<1>5. CASE /\ UNCHANGED <<slots, dmOwner, nfuncs, ran>>
           /\ \A d \in Dms : dms'[d].atExitFuncs = dms[d].atExitFuncs
           /\ \A l \in Labels :
                /\ fin'[l].funcs = fin[l].funcs
                /\ {fin[l].pc, fin'[l].pc} \cap {"clear", "run"} # {} =>
                     fin'[l].pc = fin[l].pc /\ fin'[l].dm = fin[l].dm
  <2>1. NumberInv'
    BY <1>5 DEF NumberInv
  <2>2. TakenInv'
    <3> SUFFICES ASSUME NEW l \in Labels
                 PROVE  /\ Ascending(fin'[l].funcs)
                        /\ fin'[l].funcs # <<>> => fin'[l].pc \in {"clear", "run"}
                        /\ fin'[l].pc = "clear" => fin'[l].funcs = dms'[fin'[l].dm].atExitFuncs
                        /\ fin'[l].pc = "run" => dms'[fin'[l].dm].atExitFuncs = <<>>
      BY DEF TakenInv, Ascending
    <3>1. fin'[l].funcs # <<>> => fin'[l].pc \in {"clear", "run"}
      BY <1>5 DEF TakenInv
    <3>2. fin'[l].pc \in {"clear", "run"} =>
            /\ fin'[l].pc = fin[l].pc /\ fin'[l].dm = fin[l].dm
            /\ fin[l].dm \in Dms
      BY <1>1, <1>5 DEF ResetPcs
    <3> QED
      BY <1>5, <3>1, <3>2 DEF TakenInv
  <2>3. RanInv'
    <3> SUFFICES ASSUME NEW a \in DOMAIN ran
                 PROVE  /\ ran[a][1] < nextGoid'
                        /\ \A p \in Gs : status'[p] = "running" => ran[a][1] # goid'[p]
      BY <1>5 DEF RanInv
    <3>1. ran[a][1] \in Nat /\ ran[a][1] < nextGoid
      BY <1>3, <1>4 DEF RanInv, Goids
    <3>2. ASSUME NEW p \in Gs PROVE nextGoid <= nextGoid'
      BY StartEffect
    <3>3. 1 \in Gs /\ nextGoid' \in Nat
      BY GlsConstants DEF Gs, TypeInv, TypeOK
    <3>4. ASSUME NEW p \in Gs, status'[p] = "running" PROVE ran[a][1] # goid'[p]
      <4>1. (goid'[p] = goid[p] /\ status[p] = "running") \/ goid'[p] = nextGoid
        BY <3>4, StartEffect
      <4> QED
        BY <1>0, <3>1, <4>1 DEF RanInv
    <3> QED
      BY <1>0, <3>1, <3>2, <3>3, <3>4
  <2>4. RanOnceInFiloOrder'
    BY <1>5 DEF RanOnceInFiloOrder
  <2>5. KeptInv'
    <3> SUFFICES ASSUME NEW h \in Handlers, Kept(h) PROVE Kept(h)'
      BY <1>5 DEF KeptInv
    <3>1. \A p \in Gs : slots[findSlot(h[1])][p] \in Dms \cup {Nil}
      BY <1>0, <1>3
    <3> QED
      BY <1>5, <3>1 DEF Kept
  <2> QED
    BY <2>1, <2>2, <2>3, <2>4, <2>5
\* AtExit adds a handler to the glsData of a goroutine that runs.
<1>6. ASSUME NEW p \in Gs, AtExit(p) PROVE HandlerInv'
  <2> DEFINE i == goid[p]
             d == th[p].dm
             g == <<i, nfuncs[i] + 1>>
  <2>1. /\ status[p] = "running" /\ i \in Goids /\ d \in Dms /\ dmOwner[d] = i
        /\ d = slots[findSlot(i)][p] /\ nfuncs[i] < MaxFuncs
    BY <1>0, <1>6 DEF AtExit, Acting, InCall, TypeInv, CallInv, GoidInv, Goids, OwnerInv,
       CallOwner, InPlaceInv, Storage, Dms, Nil
  <2>2. /\ UNCHANGED <<status, goid, nextGoid, slots, dmOwner, fin, ran>>
        /\ nfuncs' = [nfuncs EXCEPT ![i] = @ + 1]
        /\ dms' = [dms EXCEPT ![d].atExitFuncs = Append(@, g)]
    BY <1>6 DEF AtExit, runtimeVars
  <2>3. g \in Handlers /\ g[1] = i /\ g[2] = nfuncs[i] + 1 /\ nfuncs[i] \in Nat
    BY <1>0, <2>1 DEF Handlers
  <2>4. /\ dms'[d].atExitFuncs = Append(dms[d].atExitFuncs, g)
        /\ \A e \in Dms \ {d} : dms'[e].atExitFuncs = dms[e].atExitFuncs
    BY <1>0, <2>1, <2>2 DEF GlsData
  <2>5. \A j \in Goids : /\ nfuncs[j] \in Nat /\ nfuncs'[j] \in Nat /\ nfuncs[j] <= nfuncs'[j]
                         /\ j # i => nfuncs'[j] = nfuncs[j]
                         /\ nfuncs'[i] = nfuncs[i] + 1
    BY <1>0, <2>1, <2>2
  <2> DEFINE fs == dms[d].atExitFuncs
  <2>6. /\ fs \in Seq(Handlers)
        /\ \A n \in DOMAIN fs : fs[n] \in Handlers /\ fs[n][1] = i /\ fs[n][2] <= nfuncs[i]
    BY <1>0, <2>1, SMTT(30) DEF NumberInv, OwnerInv, DataOwner
  <2> HIDE DEF g, fs
  <2>7. NumberInv'
    <3>1. ASSUME NEW e \in Dms \ {d}
          PROVE  /\ Ascending(dms'[e].atExitFuncs)
                 /\ \A n \in DOMAIN dms'[e].atExitFuncs :
                      LET f == dms'[e].atExitFuncs[n] IN f[2] <= nfuncs'[f[1]]
      <4>1. \A n \in DOMAIN dms[e].atExitFuncs :
              LET f == dms[e].atExitFuncs[n] IN f \in Handlers /\ f[2] <= nfuncs[f[1]]
        BY <1>0 DEF NumberInv
      <4>2. \A f \in Handlers : f[2] <= nfuncs[f[1]] => f[2] <= nfuncs'[f[1]]
        BY <1>3, <2>5
      <4> QED
        BY <2>4, <4>1, <4>2 DEF NumberInv
    <3>2. Ascending(Append(fs, g))
      <4> SUFFICES ASSUME NEW m \in DOMAIN Append(fs, g), NEW n \in DOMAIN Append(fs, g), m < n
                   PROVE  Append(fs, g)[m][2] < Append(fs, g)[n][2]
        BY DEF Ascending
      <4>1. m \in DOMAIN fs /\ Append(fs, g)[m] = fs[m]
        BY <2>3, <2>6, AppendHolds
      <4>2. CASE n \in DOMAIN fs /\ Append(fs, g)[n] = fs[n]
        BY <2>1, <4>1, <4>2 DEF NumberInv, Ascending, fs
      <4>3. CASE Append(fs, g)[n] = g
        BY <1>3, <2>3, <2>6, <4>1, <4>3
      <4> QED
        BY <2>3, <2>6, <4>2, <4>3, AppendHolds
    <3>3. \A n \in DOMAIN Append(fs, g) :
            LET f == Append(fs, g)[n] IN f[2] <= nfuncs'[f[1]]
      <4> SUFFICES ASSUME NEW n \in DOMAIN Append(fs, g)
                   PROVE  LET f == Append(fs, g)[n] IN f[2] <= nfuncs'[f[1]]
        OBVIOUS
      <4>1. CASE n \in DOMAIN fs /\ Append(fs, g)[n] = fs[n]
        BY <1>3, <2>1, <2>3, <2>5, <2>6, <4>1
      <4>2. CASE Append(fs, g)[n] = g
        BY <2>1, <2>3, <2>5, <4>2
      <4> QED
        BY <2>3, <2>6, <4>1, <4>2, AppendHolds
    <3>4. dms'[d].atExitFuncs = Append(fs, g)
      BY <2>4 DEF fs
    <3>5. ASSUME NEW e \in Dms
          PROVE  /\ Ascending(dms'[e].atExitFuncs)
                 /\ \A n \in DOMAIN dms'[e].atExitFuncs :
                      LET f == dms'[e].atExitFuncs[n] IN f[2] <= nfuncs'[f[1]]
      <4>1. CASE e = d
        BY <3>2, <3>3, <3>4, <4>1
      <4>2. CASE e # d
        BY <3>1, <4>2
      <4> QED
        BY <4>1, <4>2
    <3> QED
      BY <3>5 DEF NumberInv, Ascending
  <2>8. TakenInv'
    <3>1. \A l \in Labels : fin[l].pc \in {"clear", "run"} => fin[l].dm \in Dms \ {d}
      BY <1>1, <2>1 DEF ResetPcs
    <3> QED
      BY <2>2, <2>4, <3>1 DEF TakenInv
  <2>9. RanInv'
    <3>1. \A a \in DOMAIN ran : ran[a][1] # dmOwner[d]
      BY <2>1 DEF RanInv
    <3> QED
      BY <2>2, <2>4, <3>1 DEF RanInv
  <2>10. RanOnceInFiloOrder'
    BY <2>2 DEF RanOnceInFiloOrder
  <2>11. KeptInv'
    <3> SUFFICES ASSUME NEW h \in Handlers, h[2] <= nfuncs'[h[1]] PROVE Kept(h)'
      BY DEF KeptInv
    <3>1. \A e \in Dms : Holds(dms[e].atExitFuncs, h) => Holds(dms'[e].atExitFuncs, h)
      <4>1. Holds(fs, h) => Holds(Append(fs, g), h)
        BY <2>3, <2>6, AppendHolds DEF Holds
      <4> QED
        BY <2>4, <4>1 DEF fs
    <3>2. CASE h[2] <= nfuncs[h[1]]
      <4>1. Kept(h)
        BY <3>2 DEF KeptInv
      <4>2. \A q \in Gs : slots[findSlot(h[1])][q] \in Dms \cup {Nil}
        BY <1>0, <1>3
      <4> QED
        BY <2>2, <3>1, <4>1, <4>2 DEF Kept
    <3>3. CASE ~(h[2] <= nfuncs[h[1]])
      <4>1. h[1] = i /\ h[2] = nfuncs[i] + 1
        BY <1>3, <2>1, <2>5, <3>3
      <4>2. h = g
        BY <4>1 DEF Handlers, g
      <4>3. Holds(Append(fs, g), g)
        BY <2>3, <2>6, AppendHolds DEF Holds
      <4>4. Holds(dms'[d].atExitFuncs, h)
        BY <2>4, <4>2, <4>3 DEF fs
      <4>5. slots'[findSlot(h[1])][p] = d /\ d # Nil
        BY <2>1, <2>2, <4>1 DEF Dms, Nil
      <4> QED
        BY <4>4, <4>5 DEF Kept
    <3> QED
      BY <3>2, <3>3
  <2> QED
    BY <2>7, <2>8, <2>9, <2>10, <2>11
\* A new glsData holds no handler and takes the place of none.
<1>7. ASSUME NEW p \in Gs, NEW d \in Dms, newGlsData(p, d) PROVE HandlerInv'
  <2>1. /\ UNCHANGED <<status, goid, nextGoid, fin, ran, nfuncs>>
        /\ dmOwner' = [dmOwner EXCEPT ![d] = goid[p]]
        /\ dms' = [dms EXCEPT ![d] = newData]
        /\ slots' = [slots EXCEPT ![findSlot(goid[p])][p] = d]
    BY <1>7 DEF newGlsData, runtimeVars, userVars
  <2>2. dmOwner[d] = 0 /\ ~Owned(goid[p])
    BY <1>7 DEF newGlsData, FreshDm, InCall, OneDataInv
  <2>3. /\ dms'[d].atExitFuncs = <<>>
        /\ \A e \in Dms \ {d} : dms'[e] = dms[e] /\ dmOwner'[e] = dmOwner[e]
    BY <1>0, <2>1 DEF newData
  <2>4. NumberInv'
    BY <2>1, <2>3 DEF NumberInv, Ascending
  <2>5. TakenInv'
    <3>1. \A l \in Labels : fin[l].pc \in {"clear", "run"} => fin[l].dm \in Dms \ {d}
      BY <1>1, <2>2 DEF ResetPcs
    <3> QED
      BY <2>1, <2>3, <3>1 DEF TakenInv
  <2>6. RanInv'
    BY <2>1, <2>3 DEF RanInv
  <2>7. RanOnceInFiloOrder'
    BY <2>1 DEF RanOnceInFiloOrder
  <2>8. KeptInv'
    <3> SUFFICES ASSUME NEW h \in Handlers, Kept(h) PROVE Kept(h)'
      BY <2>1 DEF KeptInv
    <3>1. ASSUME NEW q \in Gs, slots[findSlot(h[1])][q] # Nil
          PROVE  LET e == slots[findSlot(h[1])][q]
                 IN  slots'[findSlot(h[1])][q] = e /\ dms'[e] = dms[e]
      <4>1. findSlot(h[1]) \in Shards
        BY <1>3
      <4>2. slots[findSlot(h[1])][q] \in Dms
        BY <1>0, <3>1, <4>1
      <4>3. Occupant(q, findSlot(h[1]), dmOwner[slots[findSlot(h[1])][q]])
        BY <3>1, <4>1 DEF OwnerInv, SlotOwner
      <4>4. ~(q = p /\ findSlot(h[1]) = findSlot(goid[p]))
        BY <2>2, <4>2, <4>3 DEF Owned, Occupant
      <4>5. slots'[findSlot(h[1])][q] = slots[findSlot(h[1])][q]
        BY <1>0, <2>1, <4>1, <4>4
      <4>6. slots[findSlot(h[1])][q] # d
        BY <2>2, <4>3 DEF Occupant
      <4> QED
        BY <2>3, <4>2, <4>5, <4>6
    <3> QED
      BY <2>1, <3>1 DEF Kept
  <2> QED
    BY <2>4, <2>5, <2>6, <2>7, <2>8
\* resetAtExit takes the handlers over ...
<1>8. ASSUME NEW l \in Labels, resetTake(l) PROVE HandlerInv'
  <2>1. /\ UNCHANGED <<status, goid, nextGoid, slots, dms, dmOwner, ran, nfuncs>>
        /\ fin[l].pc = "take"
        /\ fin' = [fin EXCEPT ![l].pc = "clear", ![l].funcs = dms[fin[l].dm].atExitFuncs]
    BY <1>8 DEF resetTake, runtimeVars, storeVars, userVars
  <2>2. /\ fin'[l].pc = "clear" /\ fin'[l].dm = fin[l].dm
        /\ fin'[l].funcs = dms[fin[l].dm].atExitFuncs
        /\ \A m \in Labels \ {l} : fin'[m] = fin[m]
    BY <1>0, <2>1 DEF FinCall
  <2>3. fin[l].dm \in Dms /\ fin[l].funcs = <<>>
    BY <1>1, <2>1 DEF TakenInv, ResetPcs
  <2>4. NumberInv' /\ RanOnceInFiloOrder'
    BY <2>1 DEF NumberInv, RanOnceInFiloOrder
  <2>5. TakenInv'
    <3>1. Ascending(dms[fin[l].dm].atExitFuncs)
      BY <2>3 DEF NumberInv
    <3> SUFFICES ASSUME NEW m \in Labels
                 PROVE  /\ Ascending(fin'[m].funcs)
                        /\ fin'[m].funcs # <<>> => fin'[m].pc \in {"clear", "run"}
                        /\ fin'[m].pc = "clear" => fin'[m].funcs = dms'[fin'[m].dm].atExitFuncs
                        /\ fin'[m].pc = "run" => dms'[fin'[m].dm].atExitFuncs = <<>>
      BY DEF TakenInv, Ascending
    <3>2. CASE m = l
      BY <2>1, <2>2, <3>1, <3>2
    <3>3. CASE m # l
      BY <2>1, <2>2, <3>3, ZenonT(30) DEF TakenInv
    <3> QED
      BY <3>2, <3>3
  <2>6. RanInv'
    <3>1. ASSUME NEW a \in DOMAIN ran, NEW n \in DOMAIN fin'[l].funcs
          PROVE  ran[a][1] # fin'[l].funcs[n][1]
      <4>1. dms[fin[l].dm].atExitFuncs # <<>>
        BY <1>0, <2>2, <2>3, <3>1
      <4>2. fin'[l].funcs[n][1] = dmOwner[fin[l].dm]
        BY <2>2, <2>3, <3>1 DEF OwnerInv, DataOwner
      <4> QED
        BY <2>3, <4>1, <4>2 DEF RanInv
    <3>2. ASSUME NEW a \in DOMAIN ran, NEW m \in Labels, NEW n \in DOMAIN fin'[m].funcs,
                 ran[a][1] = fin'[m].funcs[n][1]
          PROVE  ran[a][2] > fin'[m].funcs[n][2]
      <4>1. m # l
        BY <3>1, <3>2
      <4> QED
        BY <2>2, <3>2, <4>1 DEF RanInv
    <3> QED
      BY <2>1, <3>2 DEF RanInv
  <2>7. KeptInv'
    <3> SUFFICES ASSUME NEW h \in Handlers, Kept(h) PROVE Kept(h)'
      BY <2>1 DEF KeptInv
    <3>1. \A m \in Labels : Holds(fin[m].funcs, h) => Holds(fin'[m].funcs, h)
      BY <2>2, <2>3 DEF Holds
    <3> QED
      BY <2>1, <3>1 DEF Kept
  <2> QED
    BY <2>4, <2>5, <2>6, <2>7
\* ... drops them from the glsData ...
<1>9. ASSUME NEW l \in Labels, resetClear(l) PROVE HandlerInv'
  <2> DEFINE d == fin[l].dm
  <2>1. /\ UNCHANGED <<status, goid, nextGoid, slots, dmOwner, ran, nfuncs>>
        /\ fin[l].pc = "clear"
        /\ dms' = [dms EXCEPT ![d].atExitFuncs = <<>>, ![d].done = TRUE]
        /\ fin' = [fin EXCEPT ![l].pc = "run"]
    BY <1>9 DEF resetClear, runtimeVars, userVars
  <2>2. d \in Dms
    BY <1>1, <2>1 DEF ResetPcs
  <2>3. /\ fin'[l].pc = "run" /\ \A m \in Labels : fin'[m].dm = fin[m].dm /\ fin'[m].funcs = fin[m].funcs
        /\ \A m \in Labels \ {l} : fin'[m] = fin[m]
    BY <1>0, <2>1 DEF FinCall
  <2>4. /\ dms'[d].atExitFuncs = <<>>
        /\ \A e \in Dms \ {d} : dms'[e].atExitFuncs = dms[e].atExitFuncs
    BY <1>0, <2>1, <2>2 DEF GlsData
  <2>5. NumberInv' /\ RanOnceInFiloOrder'
    <3>1. ASSUME NEW e \in Dms
          PROVE  /\ Ascending(dms'[e].atExitFuncs)
                 /\ \A n \in DOMAIN dms'[e].atExitFuncs :
                      LET f == dms'[e].atExitFuncs[n] IN f[2] <= nfuncs[f[1]]
      <4>1. CASE e = d
        BY <2>4, <4>1 DEF Ascending
      <4>2. CASE e # d
        BY <2>4, <4>2 DEF NumberInv
      <4> QED
        BY <4>1, <4>2
    <3>2. NumberInv'
      BY <2>1, <3>1 DEF NumberInv, Ascending
    <3> QED
      BY <2>1, <3>2 DEF RanOnceInFiloOrder
  <2>6. TakenInv'
    <3>1. \A m \in Labels \ {l} : fin[m].pc \in {"clear", "run"} => fin[m].dm \in Dms \ {d}
      BY <1>1, <2>1 DEF ResetPcs
    <3> SUFFICES ASSUME NEW m \in Labels
                 PROVE  /\ Ascending(fin'[m].funcs)
                        /\ fin'[m].funcs # <<>> => fin'[m].pc \in {"clear", "run"}
                        /\ fin'[m].pc = "clear" => fin'[m].funcs = dms'[fin'[m].dm].atExitFuncs
                        /\ fin'[m].pc = "run" => dms'[fin'[m].dm].atExitFuncs = <<>>
      BY DEF TakenInv, Ascending
    <3>2. CASE m = l
      BY <2>3, <2>4, <3>2 DEF TakenInv
    <3>3. CASE m # l
      BY <2>3, <2>4, <3>1, <3>3 DEF TakenInv
    <3> QED
      BY <3>2, <3>3
  <2>7. RanInv'
    <3>1. \A e \in Dms : dms'[e].atExitFuncs # <<>> => dms[e].atExitFuncs # <<>>
      BY <2>4
    <3>2. UNCHANGED <<status, goid, nextGoid, dmOwner, ran>>
      BY <2>1
    <3>3. \A m \in Labels : fin'[m].funcs = fin[m].funcs
      BY <2>3
    <3> QED
      BY <3>1, <3>2, <3>3 DEF RanInv
  <2>8. KeptInv'
    <3> SUFFICES ASSUME NEW h \in Handlers, Kept(h) PROVE Kept(h)'
      BY <2>1 DEF KeptInv
    <3>1. fin[l].funcs = dms[d].atExitFuncs
      BY <2>1 DEF TakenInv
    <3>2. \A p \in Gs : slots[findSlot(h[1])][p] \in Dms \cup {Nil}
      BY <1>0, <1>3
    <3>3. CASE \E p \in Gs : slots[findSlot(h[1])][p] = d /\ Holds(dms[d].atExitFuncs, h)
      BY <2>3, <3>1, <3>3 DEF Kept
    <3>4. CASE \E p \in Gs : LET e == slots[findSlot(h[1])][p]
                            IN  e # Nil /\ e # d /\ Holds(dms[e].atExitFuncs, h)
      BY <2>1, <2>4, <3>2, <3>4 DEF Kept
    <3>5. CASE Holds(ran, h) \/ \E m \in Labels : Holds(fin[m].funcs, h)
      BY <2>1, <2>3, <3>5 DEF Kept
    <3> QED
      BY <3>3, <3>4, <3>5 DEF Kept
  <2> QED
    BY <2>5, <2>6, <2>7, <2>8
\* ... calls the last one left ...
<1>10. ASSUME NEW l \in Labels, resetRun(l) PROVE HandlerInv'
  <2> DEFINE fs == fin[l].funcs
             n == Len(fs)
             o == dmOwner[fin[l].dm]
             rest == SubSeq(fs, 1, n - 1) \o SubSeq(fs, n + 1, n)
  <2>1. /\ UNCHANGED <<status, goid, nextGoid, slots, dms, dmOwner, nfuncs>>
        /\ fin[l].pc = "run" /\ fs # <<>>
        /\ ran' = Append(ran, fs[n])
        /\ fin' = [fin EXCEPT ![l].funcs = rest]
    BY <1>0, <1>10 DEF resetRun, lastFunc, runtimeVars, storeVars
  <2>2. fs \in Seq(Handlers)
    BY <1>0
  <2>3. /\ n \in DOMAIN fs
        /\ \A m \in DOMAIN rest : m \in DOMAIN fs /\ m < n /\ rest[m] = fs[m]
        /\ \A m \in DOMAIN fs : m = n \/ (m \in DOMAIN rest /\ rest[m] = fs[m])
    <3> HIDE DEF fs
    <3> QED
      BY <2>1, <2>2, DropLastHolds
  <2>4. fs[n] \in Handlers /\ fs[n][1] = o
    BY <1>2, <2>2, <2>3
  <2>5. fin'[l].funcs = rest /\ \A m \in Labels : fin'[m].pc = fin[m].pc /\ fin'[m].dm = fin[m].dm
    BY <1>0, <2>1 DEF FinCall
  <2>6. \A m \in Labels \ {l} : fin'[m] = fin[m]
    BY <1>0, <2>1
  <2>7. /\ \A a \in DOMAIN ran : a \in DOMAIN ran' /\ ran'[a] = ran[a]
        /\ \A a \in DOMAIN ran' : \/ a \in DOMAIN ran /\ ran'[a] = ran[a]
                                  \/ a = Len(ran) + 1 /\ ran'[a] = fs[n]
        /\ Holds(ran', fs[n])
        /\ \A a \in DOMAIN ran : a \in Nat /\ a < Len(ran) + 1
        /\ Len(ran) \in Nat
    BY <1>0, <2>1, <2>4, AppendHolds DEF Holds
  <2>8. Ascending(fs) /\ dms[fin[l].dm].atExitFuncs = <<>>
    BY <2>1 DEF TakenInv
  <2>9. /\ o < nextGoid /\ fin[l].dm \in Dms
        /\ \A q \in Gs : status[q] = "running" => goid[q] # o
        /\ \A d \in Dms : dmOwner[d] = o => d = fin[l].dm
        /\ \A m \in Labels \ {l} : fin[m].pc \in ResetPcs => dmOwner[fin[m].dm] # o
    BY <1>1, <2>1 DEF ResetPcs
  <2> HIDE DEF rest
  <2>10. NumberInv'
    BY <2>1 DEF NumberInv
  <2>11. TakenInv'
    <3>1. Ascending(rest)
      BY <2>3, <2>8 DEF Ascending
    <3> SUFFICES ASSUME NEW m \in Labels
                 PROVE  /\ Ascending(fin'[m].funcs)
                        /\ fin'[m].funcs # <<>> => fin'[m].pc \in {"clear", "run"}
                        /\ fin'[m].pc = "clear" => fin'[m].funcs = dms'[fin'[m].dm].atExitFuncs
                        /\ fin'[m].pc = "run" => dms'[fin'[m].dm].atExitFuncs = <<>>
      BY DEF TakenInv, Ascending
    <3>2. CASE m = l
      BY <2>1, <2>5, <2>8, <3>1, <3>2
    <3>3. CASE m # l
      BY <2>1, <2>6, <3>3 DEF TakenInv
    <3> QED
      BY <3>2, <3>3
  <2>12. RanInv'
    <3>1. ASSUME NEW a \in DOMAIN ran
          PROVE  /\ ran[a][1] < nextGoid
                 /\ \A q \in Gs : status[q] = "running" => ran[a][1] # goid[q]
                 /\ \A d \in Dms : dms[d].atExitFuncs # <<>> => ran[a][1] # dmOwner[d]
                 /\ \A m \in Labels : \A k \in DOMAIN fin'[m].funcs :
                      ran[a][1] = fin'[m].funcs[k][1] => ran[a][2] > fin'[m].funcs[k][2]
      <4>1. ASSUME NEW m \in Labels, NEW k \in DOMAIN fin'[m].funcs
            PROVE  k \in DOMAIN fin[m].funcs /\ fin'[m].funcs[k] = fin[m].funcs[k]
        BY <2>3, <2>5, <2>6
      <4> QED
        BY <4>1 DEF RanInv
    <3>2. /\ fs[n][1] < nextGoid
          /\ \A q \in Gs : status[q] = "running" => fs[n][1] # goid[q]
          /\ \A d \in Dms : dms[d].atExitFuncs # <<>> => fs[n][1] # dmOwner[d]
      BY <2>4, <2>8, <2>9
    <3>3. ASSUME NEW m \in Labels, NEW k \in DOMAIN fin'[m].funcs, fs[n][1] = fin'[m].funcs[k][1]
          PROVE  fs[n][2] > fin'[m].funcs[k][2]
      <4>1. CASE m = l
        <5>1. k \in DOMAIN fs /\ k < n /\ fin'[m].funcs[k] = fs[k]
          BY <2>3, <2>5, <3>3, <4>1
        <5>2. fs[k][2] < fs[n][2]
          BY <2>3, <2>8, <5>1 DEF Ascending
        <5>3. fs[k] \in Handlers
          BY <2>2, <5>1
        <5> QED
          BY <1>3, <2>4, <5>1, <5>2, <5>3
      <4>2. CASE m # l
        BY <1>2, <2>4, <2>6, <2>9, <3>3, <4>2
      <4> QED
        BY <4>1, <4>2
    <3>4. \A a \in DOMAIN ran' :
            /\ ran'[a][1] < nextGoid
            /\ \A q \in Gs : status[q] = "running" => ran'[a][1] # goid[q]
            /\ \A d \in Dms : dms[d].atExitFuncs # <<>> => ran'[a][1] # dmOwner[d]
            /\ \A m \in Labels : \A k \in DOMAIN fin'[m].funcs :
                 ran'[a][1] = fin'[m].funcs[k][1] => ran'[a][2] > fin'[m].funcs[k][2]
      <4> HIDE DEF fs, n
      <4> QED
        BY <2>7, <3>1, <3>2, <3>3
    <3> QED
      BY <2>1, <3>4 DEF RanInv
  <2>13. RanOnceInFiloOrder'
    <3> SUFFICES ASSUME NEW a \in DOMAIN ran', NEW b \in DOMAIN ran', a < b,
                        ran'[a][1] = ran'[b][1]
                 PROVE  ran'[a][2] > ran'[b][2]
      BY DEF RanOnceInFiloOrder
    <3>1. a \in DOMAIN ran /\ ran'[a] = ran[a]
      BY <2>7
    <3>2. CASE b \in DOMAIN ran /\ ran'[b] = ran[b]
      BY <3>1, <3>2 DEF RanOnceInFiloOrder
    <3>3. CASE ran'[b] = fs[n]
      BY <2>3, <3>1, <3>3 DEF RanInv
    <3> QED
      BY <2>7, <3>2, <3>3
  <2>14. KeptInv'
    <3> SUFFICES ASSUME NEW h \in Handlers, Kept(h) PROVE Kept(h)'
      BY <2>1 DEF KeptInv
    <3>1. Holds(ran, h) => Holds(ran', h)
      BY <2>7 DEF Holds
    <3>2. ASSUME NEW m \in Labels, Holds(fin[m].funcs, h)
          PROVE  Holds(ran', h) \/ Holds(fin'[m].funcs, h)
      <4>1. CASE m = l
        BY <2>3, <2>5, <2>7, <3>2, <4>1 DEF Holds
      <4>2. CASE m # l
        BY <2>6, <3>2, <4>2
      <4> QED
        BY <4>1, <4>2
    <3> QED
      BY <2>1, <3>1, <3>2 DEF Kept
  <2> QED
    BY <2>10, <2>11, <2>12, <2>13, <2>14
\* ... and removes the entry when none is left.
<1>11. ASSUME NEW l \in Labels, resetDel(l) PROVE HandlerInv'
  <2> DEFINE p == labelMap[l].gp
  <2>1. /\ UNCHANGED <<status, goid, nextGoid, dms, dmOwner, ran, nfuncs>>
        /\ fin[l].pc = "run" /\ fin[l].funcs = <<>>
        /\ slots' = [slots EXCEPT ![labelMap[l].se][p] = Nil]
        /\ fin' = [fin EXCEPT ![l].pc = "close"]
    BY <1>11 DEF resetDel, delGlsData, runtimeVars, userVars
  <2>2. /\ fin'[l].pc = "close" /\ \A m \in Labels : fin'[m].funcs = fin[m].funcs
        /\ \A m \in Labels \ {l} : fin'[m] = fin[m]
    BY <1>0, <2>1 DEF FinCall
  <2>3. NumberInv' /\ RanOnceInFiloOrder'
    BY <2>1 DEF NumberInv, RanOnceInFiloOrder
  <2>4. TakenInv'
    BY <2>1, <2>2 DEF TakenInv
  <2>5. RanInv'
    BY <2>1, <2>2 DEF RanInv
  <2>6. KeptInv'
    <3> SUFFICES ASSUME NEW h \in Handlers, Kept(h) PROVE Kept(h)'
      BY <2>1 DEF KeptInv
    <3>1. ASSUME NEW q \in Gs, slots[findSlot(h[1])][q] # Nil,
                 Holds(dms[slots[findSlot(h[1])][q]].atExitFuncs, h)
          PROVE  slots'[findSlot(h[1])][q] = slots[findSlot(h[1])][q]
      <4>1. findSlot(h[1]) \in Shards
        BY <1>3
      <4>2. ~(q = p /\ findSlot(h[1]) = labelMap[l].se)
        <5>1. dms[fin[l].dm].atExitFuncs = <<>>
          BY <2>1 DEF TakenInv
        <5>2. q = p /\ findSlot(h[1]) = labelMap[l].se => slots[findSlot(h[1])][q] = fin[l].dm
          BY <2>1, <3>1 DEF OneExitInv, TakenPcs
        <5> QED
          BY <3>1, <5>1, <5>2 DEF Holds
      <4> QED
        BY <1>0, <2>1, <4>1, <4>2
    <3> QED
      BY <2>1, <2>2, <3>1 DEF Kept
  <2> QED
    BY <2>3, <2>4, <2>5, <2>6
<1>12. ASSUME NEW p \in Gs PROVE ~Unload(p)
  BY DEF Unload, Acting, InPlaceInv
<1>13. CASE /\ ~\E p \in Gs : AtExit(p) \/ Unload(p) \/ \E d \in Dms : newGlsData(p, d)
            /\ ~\E l \in Labels : resetTake(l) \/ resetClear(l) \/ resetRun(l) \/ resetDel(l)
  BY <1>5, <1>13, HandlersFixed
<1> QED
  BY <1>6, <1>7, <1>8, <1>9, <1>10, <1>11, <1>12, <1>13

LEMMA HandlerInvAlways ==
  ASSUME "ClearLabels" \notin Ops, "Unload" \notin Ops
  PROVE  ApartSpec => []HandlerInv
<1> DEFINE IInv == /\ OwnerInv /\ FinOwner /\ ExitInv /\ PlaceInv /\ OnceInv /\ HandlerInv
<1>1. Init => IInv
  BY OwnerInvInit, FinOwnerInit, ExitInvInit, PlaceInvInit, OnceInvInit, HandlerInvInit
<1>2. TypeInv /\ TypeInv' /\ IInv /\ [Next]_vars /\ [ApartStart]_vars => IInv'
  <2> SUFFICES ASSUME TypeInv, TypeInv', IInv, [Next]_vars, [ApartStart]_vars PROVE IInv'
    OBVIOUS
  <2>1. ApartStart /\ VacantStart
    BY ApartStutter DEF ApartStart
  <2> QED
    BY <2>1, OwnerInvStep, FinOwnerStep, ExitInvStep, PlaceInvStep, OnceInvStep, HandlerInvStep
<1>3. IInv => HandlerInv
  OBVIOUS
<1> QED
  BY <1>1, <1>2, <1>3, TypeInvAlways, SpecOfApart, PTL DEF Spec

(***************************************************************************)
(* As long as no goroutine is started on a g that the finalizers of its    *)
(* shard are not done with, user code does not remove labels and the       *)
(* program does not unload its storage, the handlers of a goroutine are    *)
(* called at most once each, the latest first, also when a g is recycled.  *)
(***************************************************************************)
THEOREM HandlersRunOnceWhenApart ==
  ASSUME "ClearLabels" \notin Ops, "Unload" \notin Ops
  PROVE  ApartSpec => []RanOnceInFiloOrder
<1>1. HandlerInv => RanOnceInFiloOrder
  BY DEF HandlerInv
<1> QED
  BY <1>1, HandlerInvAlways, PTL

(***************************************************************************)
(* Under the same conditions every handler passed to AtExit has been       *)
(* called, or is still held where its goroutine's exit procedure finds it. *)
(***************************************************************************)
THEOREM HandlersKeptWhenApart ==
  ASSUME "ClearLabels" \notin Ops, "Unload" \notin Ops
  PROVE  ApartSpec => []NoHandlerLost
<1>1. TypeInv /\ HandlerInv => NoHandlerLost
  <2> SUFFICES ASSUME TypeInv, HandlerInv, NEW i \in Goids, NEW n \in 1..nfuncs[i]
               PROVE  Kept(<<i, n>>)
    BY DEF NoHandlerLost, Kept, Holds, getGlsData
  <2>1. nfuncs[i] \in 0..MaxFuncs /\ MaxFuncs \in Nat
    BY GlsConstants DEF TypeInv, TypeOK
  <2>2. <<i, n>> \in Handlers /\ n <= nfuncs[i]
    BY <2>1 DEF Handlers
  <2> QED
    BY <2>2 DEF HandlerInv, KeptInv
<1> QED
  BY <1>1, HandlerInvAlways, TypeInvAlways, SpecOfApart, PTL DEF Spec

=============================================================================
