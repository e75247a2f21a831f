------------------------ MODULE ControlledPodsProofs ------------------------
(***************************************************************************)
(* Proofs about ControlledPods, for every set of objects and every bound:  *)
(* type correctness, no orphaned checker, checkers that follow the cache   *)
(* while the informer lists, relists and delivers events, and why gather   *)
(* is a barrier.  gather only counts keys, a resource version and          *)
(* checkers; that this says anything about the pods of the listed objects  *)
(* rests on events, cache and checkers staying in step, for every number   *)
(* of writes and every interleaving of informer, worker and checkers.      *)
(***************************************************************************)
EXTENDS ControlledPods, FiniteSetTheorems, WellFoundedInduction, TLAPS

-----------------------------------------------------------------------------
(* Type correctness.  Starts are counted by the calls of Execute.          *)
TypeInv == TypeOK /\ epoch <= calls

(* The largest of a few numbers is one of them.                            *)
LEMMA LargestOf ==
    ASSUME NEW a \in Nat, NEW b \in Nat, NEW c \in Nat,
           NEW S, S = {a} \/ S = {a, b} \/ S = {a, c} \/ S = {a, b, c}
    PROVE  Largest(S) \in S /\ \A n \in S : n <= Largest(S)
<1>1. \E m \in S : \A n \in S : n <= m
  OBVIOUS
<1> QED
  BY <1>1 DEF Largest

(* An event is well formed when its fields are.                            *)
LEMMA EventType ==
    ASSUME NEW k \in Objs, NEW u \in Version, NEW v \in Version
    PROVE  [key |-> k, old |-> u, new |-> v] \in Event
BY DEF Event

(* Absent is a version.                                                    *)
LEMMA AbsentType == Absent \in Version /\ NoObject \in [Objs -> Version]
BY ConstantsAssumption DEF Absent, Version, RV, NoObject

(* The orders of a set of objects are sequences of objects, each listed    *)
(* once.                                                                   *)
LEMMA OrdersType ==
    ASSUME NEW S \in SUBSET Objs, NEW s \in Orders(S)
    PROVE  /\ s \in Seq(S) /\ Len(s) \in Nat /\ DOMAIN s = 1 .. Len(s)
           /\ { s[i] : i \in DOMAIN s } = S
<1>1. Cardinality(S) \in Nat
  BY ConstantsAssumption, FS_Subset, FS_CardinalityType
<1>2. s \in [1 .. Cardinality(S) -> S] /\ { s[i] : i \in DOMAIN s } = S
  BY DEF Orders
<1> QED
  BY <1>1, <1>2

(* The events of a LIST are events.                                        *)
LEMMA ListEventsType ==
    ASSUME NEW store \in [Objs -> Version], obj \in [Objs -> Version],
           NEW S \in SUBSET Objs, NEW s \in Orders(S)
    PROVE  /\ ListEvents(store, s) \in Seq(Event)
           /\ Len(ListEvents(store, s)) = Len(s)
<1>1. s \in Seq(S) /\ Len(s) \in Nat /\ DOMAIN s = 1 .. Len(s)
  BY OrdersType
<1>2. ASSUME NEW i \in DOMAIN s
      PROVE  [key |-> s[i], old |-> store[s[i]],
              new |-> IF Exists(obj[s[i]]) THEN obj[s[i]] ELSE Absent] \in Event
  <2>1. s[i] \in Objs
    BY <1>1
  <2> QED
    BY <2>1, AbsentType, EventType
<1>3. ListEvents(store, s) \in [1 .. Len(s) -> Event]
  BY <1>1, <1>2 DEF ListEvents
<1> QED
  BY <1>1, <1>3

(* A LIST keeps the store, the queue and the watch well typed.             *)
LEMMA ReplaceType ==
    ASSUME TypeOK, NEW store \in [Objs -> Version], Replace(store)
    PROVE  /\ queue' \in Seq(Event) /\ seen' \in [Objs -> Version]
           /\ watch' \in Seq([key : Objs, v : Version])
           /\ informer' = "on"
<1> DEFINE S == { k \in Objs \ Outside : /\ store[k] # obj[k]
                                         /\ Exists(store[k]) \/ Exists(obj[k]) }
<1>1. PICK s \in Orders(S) : Enqueue(ListEvents(store, s))
  BY DEF Replace
<1>2. S \in SUBSET Objs
  OBVIOUS
<1> HIDE DEF S
<1>3. ListEvents(store, s) \in Seq(Event)
  BY <1>2, ListEventsType DEF TypeOK
<1>4. queue' \in Seq(Event)
  BY <1>1, <1>3 DEF Enqueue, TypeOK
<1>5. seen' \in [Objs -> Version]
  BY AbsentType DEF Replace, TypeOK
<1>6. watch' = << >> /\ informer' = "on"
  BY DEF Replace
<1> QED
  BY <1>4, <1>5, <1>6

(* What handling an event does to the checkers is well typed.              *)
LEMMA ReplaceCheckerType ==
    ASSUME TypeOK, NEW e \in Event, ReplaceChecker(e)
    PROVE  /\ checkerMap' \in [Objs -> Checker \cup {NoChecker}]
           /\ \A k \in Objs : checkerMap'[k] # NoChecker => checkerMap'[k].key = k
           /\ dropped' \subseteq Checker
<1>1. /\ e.key \in Objs /\ e.old \in Version /\ e.new \in Version
      /\ e.old.spec \in RV /\ e.new.spec \in RV
  BY DEF Event, Version
<1>2. NewChecker(e) \in Checker /\ NewChecker(e).key = e.key
  BY <1>1 DEF NewChecker, Checker, Status, TypeOK, Exists
<1>3. Dropped(e.key) \subseteq Checker
  <2>1. checkerMap[e.key].live => checkerMap[e.key] \in Checker
    BY <1>1 DEF TypeOK, NoChecker
  <2>2. ASSUME NEW x \in Checker PROVE [x EXCEPT !.stopped = TRUE] \in Checker
    BY DEF Checker
  <2> QED
    BY <2>1, <2>2 DEF Dropped
<1>4. checkerMap' \in [Objs -> Checker \cup {NoChecker}]
  BY <1>1, <1>2 DEF ReplaceChecker, TypeOK
<1>5. \A k \in Objs : checkerMap'[k] # NoChecker => checkerMap'[k].key = k
  BY <1>1, <1>2 DEF ReplaceChecker, TypeOK
<1> QED
  BY <1>3, <1>4, <1>5 DEF ReplaceChecker, TypeOK

(* The outcome of a checker goroutine keeps its record well typed.         *)
LEMMA OutcomeType ==
    ASSUME TypeOK, NEW k \in Objs, NEW status \in Status, Outcome(k, status)
    PROVE  /\ checkerMap' \in [Objs -> Checker \cup {NoChecker}]
           /\ \A l \in Objs : checkerMap'[l] # NoChecker => checkerMap'[l].key = l
<1>1. checkerMap[k] \in Checker /\ checkerMap[k].key = k
  BY DEF Outcome, TypeOK, NoChecker
<1> DEFINE c == [checkerMap[k] EXCEPT !.status = status, !.live = FALSE]
<1>2. c \in Checker /\ c.key = k
  BY <1>1 DEF Checker
<1>3. checkerMap' = [checkerMap EXCEPT ![k] = c]
  BY <1>1 DEF Outcome, TypeOK
<1> HIDE DEF c
<1> QED
  BY <1>2, <1>3 DEF TypeOK

(* Handling an event keeps the cache well typed.                           *)
LEMMA UpdateCacheType ==
    ASSUME TypeOK, NEW e \in Event, UpdateCache(e)
    PROVE  /\ objectKeys' \subseteq Objs /\ opRV' \in RV
           /\ handled' \in [Objs -> [from : RV, to : RV]]
<1>1. /\ e.key \in Objs /\ e.old.spec \in RV /\ e.new.spec \in RV
      /\ e.old.rv \in RV /\ e.new.rv \in RV
  BY DEF Event, Version
<1>2. opRV' \in RV
  <2> DEFINE S == {opRV} \cup { v.rv : v \in { x \in {e.old, e.new} : Exists(x) } }
  <2>1. \/ S = {opRV} \/ S = {opRV, e.old.rv} \/ S = {opRV, e.new.rv}
        \/ S = {opRV, e.old.rv, e.new.rv}
    <3>1. CASE Exists(e.old) /\ Exists(e.new)
      BY <3>1
    <3>2. CASE Exists(e.old) /\ ~Exists(e.new)
      BY <3>2
    <3>3. CASE ~Exists(e.old) /\ Exists(e.new)
      BY <3>3
    <3>4. CASE ~Exists(e.old) /\ ~Exists(e.new)
      BY <3>4
    <3> QED
      BY <3>1, <3>2, <3>3, <3>4
  <2>2. opRV' = Largest(S)
    BY DEF UpdateCache
  <2>3. opRV \in RV /\ RV \subseteq Nat
    BY ConstantsAssumption DEF TypeOK, RV
  <2> HIDE DEF S
  <2>4. Largest(S) \in S
    BY <1>1, <2>1, <2>3, LargestOf
  <2> QED
    BY <1>1, <2>1, <2>2, <2>3, <2>4
<1> QED
  BY <1>1, <1>2 DEF UpdateCache, TypeOK

(* Sequences over any set, the way the watch and the queue use them.       *)
LEMMA SeqFacts ==
    ASSUME NEW S, NEW w \in Seq(S)
    PROVE  /\ \A x \in S : Append(w, x) \in Seq(S)
           /\ w # << >> => Head(w) \in S /\ Tail(w) \in Seq(S)
OBVIOUS

(* TypeInv is inductive: one case per action.                              *)
LEMMA TypeStep == TypeInv /\ [Next]_vars => TypeInv'
<1> SUFFICES ASSUME TypeInv, [Next]_vars PROVE TypeInv'
  OBVIOUS
<1> USE DEF apiVars, infVars, mapVars, cacheVars, callVars
<1>0. TypeOK /\ epoch <= calls
  BY DEF TypeInv
<1>1. ASSUME NEW k \in Objs, NEW v, Write(k, v), v.spec \in RV \cup {rvNow + 1},
             v = [spec |-> v.spec, rv |-> rvNow + 1]
      PROVE  TypeInv'
  <2>1. rvNow + 1 \in RV
    BY <1>0, <1>1, ConstantsAssumption DEF Write, TypeOK, RV
  <2>2. v \in Version
    BY <1>1, <2>1 DEF Version
  <2>3. [key |-> k, v |-> v] \in [key : Objs, v : Version]
    BY <2>2
  <2>4. watch' \in Seq([key : Objs, v : Version])
    BY <1>0, <1>1, <2>3, SeqFacts DEF Write, TypeOK
  <2>5. obj' \in [Objs -> Version]
    BY <1>0, <1>1, <2>2 DEF Write, TypeOK
  <2> QED
    BY <1>0, <1>1, <2>1, <2>4, <2>5 DEF Write, TypeInv, TypeOK
<1>2. CASE Cluster
  <2>1. ASSUME NEW k \in Objs, ApplyObject(k) PROVE TypeInv'
    <3> DEFINE v == [spec |-> rvNow + 1, rv |-> rvNow + 1]
    <3>1. v.spec = rvNow + 1 /\ v = [spec |-> v.spec, rv |-> rvNow + 1] /\ Write(k, v)
      BY <2>1 DEF ApplyObject
    <3> HIDE DEF v
    <3> QED
      BY <1>1, <3>1
  <2>2. ASSUME NEW k \in Objs, RemoveObject(k) PROVE TypeInv'
    <3> DEFINE v == [spec |-> 0, rv |-> rvNow + 1]
    <3>1. v.spec = 0 /\ v = [spec |-> v.spec, rv |-> rvNow + 1] /\ Write(k, v)
      BY <2>2 DEF RemoveObject
    <3>2. 0 \in RV
      BY ConstantsAssumption DEF RV
    <3> HIDE DEF v
    <3> QED
      BY <1>1, <3>1, <3>2
  <2>3. ASSUME NEW k \in Objs, UpdateStatus(k) PROVE TypeInv'
    <3> DEFINE v == [spec |-> obj[k].spec, rv |-> rvNow + 1]
    <3>1. v.spec = obj[k].spec /\ v = [spec |-> v.spec, rv |-> rvNow + 1] /\ Write(k, v)
      BY <2>3 DEF UpdateStatus
    <3>2. obj[k].spec \in RV
      BY <1>0 DEF TypeOK, Version
    <3> HIDE DEF v
    <3> QED
      BY <1>1, <3>1, <3>2
  <2> QED
    BY <1>2, <2>1, <2>2, <2>3 DEF Cluster
<1>3. CASE Deliver
  <2> DEFINE k == Head(watch).key
             v == Head(watch).v
             old == [spec |-> seen[k].spec, rv |-> IF Exists(v) THEN seen[k].rv ELSE v.rv]
  <2>1. /\ k \in Objs /\ v \in Version
        /\ watch' \in Seq([key : Objs, v : Version])
    <3>1. watch # << >> /\ watch \in Seq([key : Objs, v : Version])
      BY <1>0, <1>3 DEF Deliver, TypeOK
    <3>2. /\ Head(watch) \in [key : Objs, v : Version]
          /\ Tail(watch) \in Seq([key : Objs, v : Version])
      BY <3>1, SeqFacts
    <3>3. watch' = Tail(watch)
      BY <1>3 DEF Deliver
    <3> QED
      BY <3>2, <3>3
  <2>2. /\ Enqueue(<<[key |-> k, old |-> old, new |-> v]>>)
        /\ seen' = [seen EXCEPT ![k] = v]
    BY <1>3 DEF Deliver
  <2> HIDE DEF k, v
  <2>3. old \in Version
    BY <1>0, <2>1 DEF TypeOK, Version
  <2> HIDE DEF old
  <2>4. <<[key |-> k, old |-> old, new |-> v]>> \in Seq(Event)
    BY <2>1, <2>3, EventType
  <2>5. queue' \in Seq(Event)
    BY <1>0, <2>2, <2>4 DEF Enqueue, TypeOK
  <2>6. seen' \in [Objs -> Version]
    BY <1>0, <2>1, <2>2 DEF TypeOK
  <2> QED
    BY <1>0, <1>3, <2>1, <2>5, <2>6 DEF Deliver, TypeInv, TypeOK
<1>4. CASE FirstList
  <2>1. Replace(seen) /\ seen \in [Objs -> Version]
    BY <1>0, <1>4 DEF FirstList, TypeOK
  <2> QED
    BY <1>0, <1>4, <2>1, ReplaceType DEF FirstList, TypeInv, TypeOK
<1>5. CASE Relist
  <2>1. Replace(seen) /\ seen \in [Objs -> Version]
    BY <1>0, <1>5 DEF Relist, TypeOK
  <2>2. relists' \in 0 .. MaxRelists
    BY <1>0, <1>5, ConstantsAssumption DEF Relist, TypeOK
  <2> QED
    BY <1>0, <1>5, <2>1, <2>2, ReplaceType DEF Relist, TypeInv, TypeOK
<1>6. CASE HandleObject
  <2> DEFINE e == Head(queue)
  <2>1. e \in Event /\ queue' \in Seq(Event)
    <3>1. queue # << >> /\ queue \in Seq(Event) /\ queue' = Tail(queue)
      BY <1>0, <1>6 DEF HandleObject, TypeOK
    <3> QED
      BY <3>1
  <2>2. /\ IF SameSpec(e) \/ ~isRunning THEN UNCHANGED mapVars ELSE ReplaceChecker(e)
        /\ UpdateCache(e)
    BY <1>6 DEF HandleObject
  <2> HIDE DEF e
  <2>3. /\ objectKeys' \subseteq Objs /\ opRV' \in RV
        /\ handled' \in [Objs -> [from : RV, to : RV]]
    BY <1>0, <2>1, <2>2, UpdateCacheType
  <2>4. /\ checkerMap' \in [Objs -> Checker \cup {NoChecker}]
        /\ \A k \in Objs : checkerMap'[k] # NoChecker => checkerMap'[k].key = k
        /\ dropped' \subseteq Checker
    <3>1. CASE SameSpec(e) \/ ~isRunning
      BY <1>0, <2>2, <3>1 DEF TypeOK
    <3>2. CASE ~(SameSpec(e) \/ ~isRunning)
      BY <1>0, <2>1, <2>2, <3>2, ReplaceCheckerType
    <3> QED
      BY <3>1, <3>2
  <2> QED
    BY <1>0, <1>6, <2>1, <2>3, <2>4 DEF HandleObject, TypeInv, TypeOK
<1>7. ASSUME NEW k \in Objs, NEW status \in Status, Outcome(k, status) PROVE TypeInv'
  BY <1>0, <1>7, OutcomeType DEF Outcome, TypeInv, TypeOK
<1>8. CASE CheckerEnds \/ \E k \in Objs : CheckerTimesOut(k) \/ CheckerCancelled(k)
  <2>1. PICK k \in Objs : \/ CheckerSucceeds(k) \/ CheckerFails(k) \/ ReplicasStartFails(k)
                          \/ CheckerTimesOut(k) \/ CheckerCancelled(k)
    BY <1>8 DEF CheckerEnds
  <2>2. \E status \in Status : Outcome(k, status)
    BY <2>1 DEF CheckerSucceeds, CheckerFails, ReplicasStartFails, CheckerTimesOut,
                CheckerCancelled, Status
  <2> QED
    BY <1>7, <2>2
<1>9. ASSUME NEW c \in dropped, DroppedEnds(c) PROVE TypeInv'
  BY <1>0, <1>9 DEF DroppedEnds, TypeInv, TypeOK
<1>10. CASE Start
  <2>1. calls' \in 0 .. MaxCalls /\ epoch' \in 0 .. MaxCalls /\ epoch' <= calls'
    BY <1>0, <1>10, ConstantsAssumption DEF Start, Call, TypeOK
  <2>2. /\ queue' \in Seq(Event) /\ seen' \in [Objs -> Version]
        /\ watch' \in Seq([key : Objs, v : Version])
        /\ informer' \in {"off", "starting", "on"}
    <3>1. CASE Replace(NoObject)
      BY <1>0, <3>1, AbsentType, ReplaceType
    <3>2. CASE ~Replace(NoObject)
      BY <1>0, <1>10, <3>2, AbsentType DEF Start, TypeOK
    <3> QED
      BY <3>1, <3>2
  <2> QED
    BY <1>0, <1>10, <2>1, <2>2 DEF Start, TypeInv, TypeOK
<1>11. CASE RepeatedCall \/ GatherRefused \/ Gather \/ Stop
  <2>1. calls' \in 0 .. MaxCalls /\ epoch' = epoch /\ epoch' <= calls'
    BY <1>0, <1>11, ConstantsAssumption
       DEF RepeatedCall, GatherRefused, Gather, Stop, Call, TypeOK
  <2>2. CASE RepeatedCall \/ GatherRefused
    BY <1>0, <2>1, <2>2 DEF RepeatedCall, GatherRefused, TypeInv, TypeOK
  <2>3. CASE Gather
    BY <1>0, <2>1, <2>3 DEF Gather, TypeInv, TypeOK
  <2>4. CASE Stop
    <3>1. << >> \in Seq([key : Objs, v : Version])
      OBVIOUS
    <3> QED
      BY <1>0, <2>1, <2>4, <3>1 DEF Stop, TypeInv, TypeOK
  <2> QED
    BY <1>11, <2>2, <2>3, <2>4
<1>12. CASE GatherSynced \/ GatherSyncTimeout \/ GatherWaited \/ GatherJudges
  BY <1>0, <1>12, AbsentType
     DEF GatherSynced, GatherSyncTimeout, GatherWaited, GatherJudges, TypeInv, TypeOK
<1>13. CASE StopQueue
  BY <1>0, <1>13 DEF StopQueue, TypeInv, TypeOK
<1>14. CASE StopCheckers
  <2>1. \A k \in Objs : checkerMap'[k] = checkerMap[k]
                        \/ /\ checkerMap[k] \in Checker
                           /\ checkerMap'[k] = [checkerMap[k] EXCEPT !.stopped = TRUE]
    BY <1>0, <1>14 DEF StopCheckers, LiveKeys, TypeOK, NoChecker
  <2>2. ASSUME NEW x \in Checker
        PROVE  [x EXCEPT !.stopped = TRUE] \in Checker /\ [x EXCEPT !.stopped = TRUE].key = x.key
    BY DEF Checker
  <2>3. checkerMap' = [k \in Objs |-> checkerMap'[k]]
    BY <1>14 DEF StopCheckers
  <2>4. /\ \A k \in Objs : checkerMap'[k] \in Checker \cup {NoChecker}
        /\ \A k \in Objs : checkerMap'[k] # NoChecker => checkerMap'[k].key = k
    <3> SUFFICES ASSUME NEW k \in Objs
                 PROVE  /\ checkerMap'[k] \in Checker \cup {NoChecker}
                        /\ checkerMap'[k] # NoChecker => checkerMap'[k].key = k
      OBVIOUS
    <3>1. CASE checkerMap'[k] = checkerMap[k]
      BY <1>0, <3>1 DEF TypeOK
    <3>2. CASE /\ checkerMap[k] \in Checker
               /\ checkerMap'[k] = [checkerMap[k] EXCEPT !.stopped = TRUE]
      <4>1. checkerMap[k] # NoChecker => checkerMap[k].key = k
        BY <1>0 DEF TypeOK
      <4>2. checkerMap[k] # NoChecker
        BY <3>2 DEF Checker, NoChecker, Status
      <4> QED
        BY <2>2, <3>2, <4>1, <4>2
    <3> QED
      BY <2>1, <3>1, <3>2
  <2>5. checkerMap' \in [Objs -> Checker \cup {NoChecker}]
    BY <2>3, <2>4
  <2> QED
    BY <1>0, <1>14, <2>4, <2>5 DEF StopCheckers, TypeInv, TypeOK
<1>15. CASE Finished \/ UNCHANGED vars
  BY <1>0, <1>15 DEF Finished, vars, TypeInv, TypeOK
<1> QED
  BY <1>2, <1>3, <1>4, <1>5, <1>6, <1>8, <1>9, <1>10, <1>11, <1>12, <1>13, <1>14, <1>15
     DEF Next, Progress, Execute

(* The initial state has these types.                                      *)
LEMMA TypeInit == Init => TypeInv
<1>1. 0 \in RV /\ << >> \in Seq(Event) /\ << >> \in Seq([key : Objs, v : Version])
  BY ConstantsAssumption DEF RV
<1>2. 0 \in 0 .. MaxCalls /\ 0 \in 0 .. MaxRelists /\ 0 <= 0
  BY ConstantsAssumption
<1>3. Init => /\ checkerMap \in [Objs -> Checker \cup {NoChecker}]
              /\ \A k \in Objs : checkerMap[k] = NoChecker
  BY DEF Init
<1>4. Init => handled \in [Objs -> [from : RV, to : RV]]
  BY <1>1 DEF Init
<1>5. Init => /\ seen \in [Objs -> Version] /\ obj \in [Objs -> Version]
              /\ listed \in [Objs -> Version]
  BY AbsentType DEF Init
<1> QED
  BY <1>1, <1>2, <1>3, <1>4, <1>5 DEF Init, TypeInv, TypeOK

(* The variables of the measurement keep their types, and every checker of *)
(* the map belongs to the key it is stored under, for every set of objects *)
(* and every interleaving of informer, worker, checkers and callers.       *)
THEOREM PodsTypeCorrect == Spec => []TypeOK
<1>1. TypeInv => TypeOK
  BY DEF TypeInv
<1> QED
  BY <1>1, TypeInit, TypeStep, PTL DEF Spec

-----------------------------------------------------------------------------
(* A step lets goroutines out of the map only stopped.                     *)
LEMMA OrphanStep == TypeInv /\ NoOrphanChecker /\ [Next]_vars => NoOrphanChecker'
<1> SUFFICES ASSUME TypeInv, NoOrphanChecker, [Next]_vars PROVE NoOrphanChecker'
  OBVIOUS
<1> USE DEF apiVars, infVars, mapVars, cacheVars, callVars
<1>1. CASE HandleObject
  <2> DEFINE e == Head(queue)
  <2>1. e \in Event /\ e.key \in Objs
    <3>1. queue # << >> /\ queue \in Seq(Event)
      BY <1>1 DEF HandleObject, TypeInv, TypeOK
    <3>2. e \in Event
      BY <3>1, SeqFacts
    <3> QED
      BY <3>2 DEF Event
  <2>2. dropped' = dropped \/ dropped' = dropped \cup Dropped(e.key)
    BY <1>1 DEF HandleObject, ReplaceChecker
  <2> HIDE DEF e
  <2>3. \A c \in Dropped(e.key) : c.stopped
    <3>1. checkerMap[e.key].live => checkerMap[e.key] \in Checker
      BY <2>1 DEF TypeInv, TypeOK, NoChecker
    <3>2. ASSUME NEW x \in Checker PROVE [x EXCEPT !.stopped = TRUE].stopped
      BY DEF Checker
    <3> QED
      BY <3>1, <3>2 DEF Dropped
  <2> QED
    BY <2>2, <2>3 DEF NoOrphanChecker
<1>2. CASE ~HandleObject
  <2>1. dropped' \subseteq dropped
    BY <1>2 DEF Next, Progress, Execute, Cluster, ApplyObject, RemoveObject, UpdateStatus, Write,
           Deliver, FirstList, Relist, CheckerEnds, CheckerSucceeds, CheckerFails,
           ReplicasStartFails, CheckerTimesOut, CheckerCancelled, Outcome, DroppedEnds,
           Start, RepeatedCall, GatherRefused, Gather, Stop, GatherSynced, GatherSyncTimeout,
           GatherWaited, GatherJudges, StopQueue, StopCheckers, Finished, vars
  <2> QED
    BY <2>1 DEF NoOrphanChecker
<1> QED
  BY <1>1, <1>2

(* A goroutine that is not the checker of its object any more has been     *)
(* told to stop: handleObjectLocked and checker.Map never leave one behind *)
(* that gather would wait for until its timeout.                           *)
THEOREM NoCheckerLeftBehind == Spec => []NoOrphanChecker
<1>1. Init => TypeInv /\ NoOrphanChecker
  BY TypeInit DEF Init, NoOrphanChecker
<1> QED
  BY <1>1, OrphanStep, TypeStep, PTL DEF Spec

-----------------------------------------------------------------------------
(* The invariant.                                                          *)

(* The measurement was not started yet, or runs since its first start.     *)
Fresh == epoch = 0 \/ (epoch = 1 /\ isRunning)

(* Who may be where: the callers, the queue and the informer.              *)
ControlInv ==
    /\ pc \in {"stopping", "draining"} => ~isRunning /\ epoch # 0
    /\ Gathering => isRunning
    /\ epoch = 0 => ~isRunning /\ informer = "off" /\ queue = << >>
    /\ Fresh => queueOpen
    /\ informer # "off" => isRunning
    /\ queueOpen /\ pc \notin {"stopping", "draining"} => Fresh
    /\ pc = "draining" => ~queueOpen
    /\ epoch = 0 \/ informer = "starting" => seen = NoObject
    /\ informer # "on" => watch = << >>

(* Resource versions: nothing is ahead of the API server, and the watch    *)
(* delivers changes in the order they were made.                           *)
VersionInv ==
    /\ opRV <= rvNow
    /\ \A k \in Objs : /\ seen[k].rv <= rvNow
                       /\ obj[k].spec <= obj[k].rv
                       /\ obj[k].rv <= rvNow
    /\ \A i \in 1 .. Len(queue) :
          /\ queue[i].new.rv <= rvNow /\ queue[i].old.rv <= rvNow
          /\ MaxRelists = 0 /\ Exists(queue[i].old) => queue[i].old.rv <= queue[i].new.rv
    /\ \A i \in 1 .. Len(watch) :
          /\ watch[i].v.rv <= rvNow
          /\ \A k \in Objs : seen[k].rv <= watch[i].v.rv
          /\ \A j \in 1 .. Len(watch) : i <= j => watch[i].v.rv <= watch[j].v.rv

(* A checker reports what it waits for, and belongs to a start.            *)
StatusInv ==
    \A k \in Objs : checkerMap[k] # NoChecker =>
        /\ checkerMap[k].status = "deleted" => checkerMap[k].gone
        /\ checkerMap[k].status = "running" => ~checkerMap[k].gone
        /\ checkerMap[k].epoch # 0 /\ checkerMap[k].epoch <= epoch

-----------------------------------------------------------------------------
(* Every nonempty set of numbers has a least one, every bounded one a      *)
(* greatest one.                                                           *)
LEMMA LeastNat ==
    ASSUME NEW T, T \subseteq Nat, T # {}
    PROVE  \E m \in T : \A n \in T : m <= n
<1>1. PICK m \in T : \A n \in T : <<n, m>> \notin OpToRel(<, Nat)
  BY WFMin, NatLessThanWellFounded, Zenon
<1>2. \A n \in T : ~(n < m)
  BY <1>1, Zenon DEF OpToRel
<1> QED
  BY <1>2

(* The largest of a bounded set of numbers bounds it.                      *)
LEMMA LargestBounds ==
    ASSUME NEW b \in Nat, NEW T, T \subseteq 0 .. b, T # {}
    PROVE  Largest(T) \in T /\ \A n \in T : n <= Largest(T)
<1> DEFINE U == { b - n : n \in T }
<1>1. \A n \in T : n \in Nat /\ b - n \in U /\ b - n \in Nat
  OBVIOUS
<1>2. \A u \in U : \E n \in T : u = b - n
  OBVIOUS
<1> HIDE DEF U
<1>3. U \subseteq Nat /\ U # {}
  BY <1>1, <1>2
<1>4. PICK u \in U : \A v \in U : u <= v
  BY <1>3, LeastNat
<1>5. PICK m \in T : u = b - m
  BY <1>2
<1>6. ASSUME NEW n \in T PROVE n <= m
  <2>1. u <= b - n /\ n \in Nat /\ m \in Nat
    BY <1>1, <1>4
  <2> QED
    BY <1>5, <2>1
<1> QED
  BY <1>6 DEF Largest

(* The elements of a sequence.                                             *)
LEMMA SeqElements ==
    ASSUME NEW S, NEW w \in Seq(S)
    PROVE  Len(w) \in Nat /\ \A i \in 1 .. Len(w) : w[i] \in S
OBVIOUS

(* Where the elements of a concatenation come from.                        *)
LEMMA SeqConcat ==
    ASSUME NEW S, NEW a \in Seq(S), NEW b \in Seq(S)
    PROVE  /\ Len(a \o b) = Len(a) + Len(b) /\ Len(a) \in Nat /\ Len(b) \in Nat
           /\ \A i \in 1 .. Len(a) : (a \o b)[i] = a[i]
           /\ \A i \in 1 .. Len(a \o b) : i > Len(a) =>
                 (a \o b)[i] = b[i - Len(a)] /\ i - Len(a) \in 1 .. Len(b)
OBVIOUS

(* The versions that events, stores and caches carry are numbers.          *)
LEMMA VersionTypes ==
    ASSUME TypeOK
    PROVE  /\ RV \subseteq Nat /\ rvNow \in Nat /\ opRV \in Nat /\ epoch \in Nat
           /\ queue \in Seq(Event) /\ Len(queue) \in Nat
           /\ watch \in Seq([key : Objs, v : Version]) /\ Len(watch) \in Nat
           /\ \A k \in Objs : /\ seen[k] \in Version /\ obj[k] \in Version
                              /\ seen[k].rv \in Nat /\ seen[k].spec \in RV
                              /\ obj[k].rv \in Nat /\ obj[k].spec \in RV
                              /\ handled[k].to \in RV /\ handled[k].from \in RV
           /\ \A i \in 1 .. Len(queue) :
                 /\ queue[i].key \in Objs
                 /\ queue[i].old.spec \in RV /\ queue[i].new.spec \in RV
                 /\ queue[i].old.rv \in RV /\ queue[i].new.rv \in RV
           /\ \A i \in 1 .. Len(watch) :
                 /\ watch[i].key \in Objs /\ watch[i].v \in Version
                 /\ watch[i].v.spec \in RV /\ watch[i].v.rv \in RV
<1>1. RV \subseteq Nat
  BY ConstantsAssumption DEF RV
<1>2. \A v \in Version : v.spec \in RV /\ v.rv \in RV
  BY DEF Version
<1>3. \A k \in Objs : seen[k] \in Version /\ obj[k] \in Version
  BY DEF TypeOK
<1>4. \A k \in Objs : handled[k].to \in RV /\ handled[k].from \in RV
  BY DEF TypeOK
<1>5. queue \in Seq(Event) /\ watch \in Seq([key : Objs, v : Version])
  BY DEF TypeOK
<1>6. /\ Len(queue) \in Nat
      /\ \A i \in 1 .. Len(queue) : /\ queue[i].key \in Objs
                                    /\ queue[i].old \in Version /\ queue[i].new \in Version
  <2>1. \A e \in Event : e.key \in Objs /\ e.old \in Version /\ e.new \in Version
    BY DEF Event
  <2>2. Len(queue) \in Nat /\ \A i \in 1 .. Len(queue) : queue[i] \in Event
    BY <1>5, SeqElements
  <2> QED
    BY <2>1, <2>2
<1>7. /\ Len(watch) \in Nat
      /\ \A i \in 1 .. Len(watch) : watch[i].key \in Objs /\ watch[i].v \in Version
  <2>1. Len(watch) \in Nat /\ \A i \in 1 .. Len(watch) : watch[i] \in [key : Objs, v : Version]
    BY <1>5, SeqElements
  <2> QED
    BY <2>1
<1>8. rvNow \in Nat /\ opRV \in Nat /\ epoch \in Nat
  BY <1>1, ConstantsAssumption DEF TypeOK
<1> QED
  BY <1>1, <1>2, <1>3, <1>4, <1>5, <1>6, <1>7, <1>8

(* What a LIST does to the informer.                                       *)
LEMMA ReplaceShape ==
    ASSUME NEW store, Replace(store)
    PROVE  informer' = "on" /\ watch' = << >>
BY DEF Replace

(* The invariant about callers, queue and informer is inductive.           *)
LEMMA ControlStep == TypeInv /\ ControlInv /\ [Next]_vars => ControlInv'
<1> SUFFICES ASSUME TypeInv, ControlInv, [Next]_vars PROVE ControlInv'
  OBVIOUS
<1> USE DEF apiVars, infVars, mapVars, cacheVars, callVars
<1>0. epoch \in Nat /\ isRunning \in BOOLEAN /\ queueOpen \in BOOLEAN
  BY VersionTypes DEF TypeInv, TypeOK
<1>1. ASSUME NEW k \in Objs, NEW v, Write(k, v) PROVE ControlInv'
  BY <1>1 DEF Write, ControlInv, Fresh, Gathering
<1>2. CASE Cluster
  BY <1>1, <1>2 DEF Cluster, ApplyObject, RemoveObject, UpdateStatus
<1>3. CASE Deliver
  BY <1>3 DEF Deliver, ControlInv, Fresh, Gathering
<1>4. CASE FirstList \/ Relist
  <2>1. /\ informer' = "on" /\ watch' = << >> /\ informer # "off"
        /\ UNCHANGED <<isRunning, epoch, pc, queueOpen>>
    BY <1>4, ReplaceShape DEF FirstList, Relist
  <2> QED
    BY <2>1 DEF ControlInv, Fresh, Gathering
<1>5. CASE HandleObject
  BY <1>5 DEF HandleObject, ControlInv, Fresh, Gathering
<1>6. ASSUME NEW k \in Objs, NEW status, Outcome(k, status) PROVE ControlInv'
  BY <1>6 DEF Outcome, ControlInv, Fresh, Gathering
<1>7. CASE CheckerEnds \/ \E k \in Objs : CheckerTimesOut(k) \/ CheckerCancelled(k)
  BY <1>6, <1>7 DEF CheckerEnds, CheckerSucceeds, CheckerFails, ReplicasStartFails,
                    CheckerTimesOut, CheckerCancelled
<1>8. ASSUME NEW c \in dropped, DroppedEnds(c) PROVE ControlInv'
  BY <1>8 DEF DroppedEnds, ControlInv, Fresh, Gathering
<1>9. CASE Start
  <2>1. /\ pc = "idle" /\ ~isRunning /\ isRunning' = TRUE /\ epoch' = epoch + 1
        /\ UNCHANGED <<pc, queueOpen>>
    BY <1>9 DEF Start, Call
  <2>2. \/ informer' = "on" /\ watch' = << >>
        \/ informer' \in {"starting", "off"} /\ seen' = NoObject /\ watch' = watch
    BY <1>9, ReplaceShape DEF Start
  <2>3. informer # "on"
    BY <2>1 DEF ControlInv
  <2>4. epoch' # 0 /\ (epoch' = 1 <=> epoch = 0)
    BY <1>0, <2>1
  <2>5. Fresh' <=> epoch = 0
    BY <2>1, <2>4 DEF Fresh
  <2>6. Fresh' <=> queueOpen'
    <3>1. epoch = 0 => queueOpen
      BY DEF ControlInv, Fresh
    <3>2. queueOpen => epoch = 0
      BY <2>1 DEF ControlInv, Fresh
    <3>3. queueOpen' = queueOpen
      BY <2>1
    <3> QED
      BY <2>5, <3>1, <3>2, <3>3
  <2>7. /\ watch = << >>
        /\ informer' # "on" => watch' = << >>
        /\ epoch' = 0 \/ informer' = "starting" => seen' = NoObject
    BY <2>2, <2>3, <2>4 DEF ControlInv
  <2> QED
    BY <2>1, <2>4, <2>6, <2>7 DEF ControlInv, Gathering
<1>10. CASE RepeatedCall \/ GatherRefused \/ Gather
  BY <1>10 DEF RepeatedCall, GatherRefused, Gather, Call, ControlInv, Fresh, Gathering
<1>11. CASE Stop
  BY <1>11 DEF Stop, Call, ControlInv, Fresh, Gathering
<1>12. CASE GatherSynced \/ GatherSyncTimeout \/ GatherWaited \/ GatherJudges
  BY <1>12 DEF GatherSynced, GatherSyncTimeout, GatherWaited, GatherJudges, ControlInv,
               Fresh, Gathering
<1>13. CASE StopQueue
  BY <1>0, <1>13 DEF StopQueue, ControlInv, Fresh, Gathering
<1>14. CASE StopCheckers
  <2>1. /\ pc = "draining" /\ pc' = "idle"
        /\ UNCHANGED <<isRunning, epoch, informer, watch, seen, queueOpen>>
    BY <1>14 DEF StopCheckers
  <2> QED
    BY <1>0, <2>1 DEF ControlInv, Fresh, Gathering
<1>15. CASE Finished \/ UNCHANGED vars
  BY <1>15 DEF Finished, vars, ControlInv, Fresh, Gathering
<1> QED
  BY <1>2, <1>3, <1>4, <1>5, <1>7, <1>8, <1>9, <1>10, <1>11, <1>12, <1>13, <1>14, <1>15
     DEF Next, Progress, Execute

-----------------------------------------------------------------------------
(* Resource versions.                                                      *)

(* Steps that neither write, list nor handle events.                       *)
LEMMA VersionFrame ==
    ASSUME VersionInv, UNCHANGED <<rvNow, obj, seen, queue, watch, opRV>>
    PROVE  VersionInv'
BY DEF VersionInv

(* A write takes the next resource version.                                *)
LEMMA VersionWrite ==
    ASSUME TypeOK, VersionInv, NEW k \in Objs, NEW v, Write(k, v),
           v.rv = rvNow + 1, v.spec \in RV \cup {rvNow + 1}, v.spec <= rvNow + 1
    PROVE  VersionInv'
<1> USE DEF cacheVars
<1>1. rvNow' = rvNow + 1 /\ UNCHANGED <<seen, queue, opRV>>
  BY DEF Write
<1>2. obj' = [obj EXCEPT ![k] = v] /\ obj \in [Objs -> Version]
  BY DEF Write, TypeOK
<1>3. opRV' <= rvNow'
  BY <1>1, VersionTypes DEF VersionInv
<1>4. \A l \in Objs : /\ seen'[l].rv <= rvNow'
                      /\ obj'[l].spec <= obj'[l].rv
                      /\ obj'[l].rv <= rvNow'
  BY <1>1, <1>2, VersionTypes DEF VersionInv
<1>5. \A i \in 1 .. Len(queue') :
          /\ queue'[i].new.rv <= rvNow' /\ queue'[i].old.rv <= rvNow'
          /\ MaxRelists = 0 /\ Exists(queue'[i].old) => queue'[i].old.rv <= queue'[i].new.rv
  BY <1>1, VersionTypes DEF VersionInv
<1>6. CASE watch' = watch
  BY <1>1, <1>3, <1>4, <1>5, <1>6, VersionTypes DEF VersionInv
<1>7. CASE watch' = Append(watch, [key |-> k, v |-> v])
  <2>1. /\ Len(watch') = Len(watch) + 1 /\ Len(watch) \in Nat
        /\ watch'[Len(watch) + 1].v = v
        /\ \A i \in 1 .. Len(watch) : watch'[i] = watch[i]
    BY <1>7, VersionTypes
  <2>2. \A i \in 1 .. Len(watch) :
            /\ watch[i].v.rv <= rvNow /\ watch[i].v.rv \in Nat
            /\ \A l \in Objs : seen[l].rv <= watch[i].v.rv
            /\ \A j \in 1 .. Len(watch) : i <= j => watch[i].v.rv <= watch[j].v.rv
    BY VersionTypes DEF VersionInv
  <2>3. ASSUME NEW i \in 1 .. Len(watch')
        PROVE  /\ watch'[i].v.rv <= rvNow'
               /\ \A l \in Objs : seen'[l].rv <= watch'[i].v.rv
               /\ \A j \in 1 .. Len(watch') : i <= j => watch'[i].v.rv <= watch'[j].v.rv
    <3>1. CASE i = Len(watch) + 1
      BY <1>1, <2>1, <3>1, VersionTypes DEF VersionInv
    <3>2. CASE i \in 1 .. Len(watch)
      <4>1. watch'[i] = watch[i]
        BY <2>1, <3>2
      <4>2. ASSUME NEW j \in 1 .. Len(watch'), i <= j
            PROVE  watch[i].v.rv <= watch'[j].v.rv
        <5>1. CASE j = Len(watch) + 1
          BY <2>1, <2>2, <3>2, <5>1, VersionTypes
        <5>2. CASE j \in 1 .. Len(watch)
          BY <2>1, <2>2, <3>2, <4>2, <5>2
        <5> QED
          BY <2>1, <5>1, <5>2
      <4>3. watch[i].v.rv <= rvNow + 1
        BY <2>2, <3>2, VersionTypes
      <4> QED
        BY <1>1, <2>2, <3>2, <4>1, <4>2, <4>3
    <3> QED
      BY <2>1, <3>1, <3>2
  <2> QED
    BY <1>3, <1>4, <1>5, <2>3 DEF VersionInv
<1> QED
  BY <1>6, <1>7 DEF Write

(* A delivered change is at least as new as what the store knows.          *)
LEMMA VersionDeliver ==
    ASSUME TypeOK, VersionInv, Deliver
    PROVE  VersionInv'
<1> USE DEF apiVars, cacheVars
<1> DEFINE k == watch[1].key
           v == watch[1].v
           old == [spec |-> seen[k].spec, rv |-> IF Exists(v) THEN seen[k].rv ELSE v.rv]
           e == [key |-> k, old |-> old, new |-> v]
<1>1. /\ watch # << >> /\ Len(watch) \in Nat /\ Len(watch) >= 1 /\ Head(watch) = watch[1]
      /\ Len(Tail(watch)) = Len(watch) - 1
      /\ \A i \in 1 .. (Len(watch) - 1) : Tail(watch)[i] = watch[i + 1]
  BY VersionTypes DEF Deliver
<1>2. /\ Enqueue(<<e>>) /\ seen' = [seen EXCEPT ![k] = v] /\ watch' = Tail(watch)
      /\ UNCHANGED <<rvNow, obj, opRV>>
  BY <1>1 DEF Deliver
<1>3. k \in Objs /\ v \in Version /\ v.rv \in Nat /\ rvNow \in Nat /\ v.rv <= rvNow
  BY <1>1, VersionTypes DEF VersionInv
<1>4. e.new = v /\ e.old.rv <= v.rv /\ e.old.rv \in Nat /\ e.old.rv <= rvNow
  BY <1>1, <1>3, VersionTypes DEF VersionInv
<1>5. \A l \in Objs : seen'[l] = IF l = k THEN v ELSE seen[l]
  BY <1>2, <1>3 DEF TypeOK
<1> HIDE DEF e, v, k
<1>6. \A i \in 1 .. Len(queue') :
          /\ queue'[i].new.rv <= rvNow /\ queue'[i].old.rv <= rvNow
          /\ MaxRelists = 0 /\ Exists(queue'[i].old) => queue'[i].old.rv <= queue'[i].new.rv
  <2>1. CASE queue' = queue
    BY <2>1, VersionTypes DEF VersionInv
  <2>2. CASE queue' = queue \o <<e>>
    <3>1. /\ Len(queue') = Len(queue) + 1 /\ Len(queue) \in Nat
          /\ queue'[Len(queue) + 1] = e
          /\ \A i \in 1 .. Len(queue) : queue'[i] = queue[i]
      BY <2>2, VersionTypes
    <3> QED
      BY <1>3, <1>4, <3>1 DEF VersionInv
  <2> QED
    BY <1>2, <2>1, <2>2 DEF Enqueue
<1>7. ASSUME NEW i \in 1 .. Len(watch')
      PROVE  /\ watch'[i].v.rv <= rvNow
             /\ \A l \in Objs : seen'[l].rv <= watch'[i].v.rv
             /\ \A j \in 1 .. Len(watch') : i <= j => watch'[i].v.rv <= watch'[j].v.rv
  <2>1. /\ Len(watch') = Len(watch) - 1
        /\ \A j \in 1 .. Len(watch') : watch'[j] = watch[j + 1] /\ j + 1 \in 1 .. Len(watch)
    BY <1>1, <1>2
  <2>2. watch'[i] = watch[i + 1] /\ i + 1 \in 1 .. Len(watch) /\ 1 \in 1 .. Len(watch)
    BY <1>1, <2>1
  <2>3. watch[1].v.rv <= watch[i + 1].v.rv
    BY <1>1, <2>2 DEF VersionInv
  <2>4. \A l \in Objs : seen'[l].rv <= watch[i + 1].v.rv
    BY <1>5, <2>2, <2>3 DEF VersionInv, v
  <2>5. \A j \in 1 .. Len(watch') : i <= j => watch[i + 1].v.rv <= watch[j + 1].v.rv
    BY <1>1, <2>1, <2>2 DEF VersionInv
  <2> QED
    BY <2>1, <2>2, <2>4, <2>5 DEF VersionInv
<1>8. \A l \in Objs : /\ seen'[l].rv <= rvNow
                      /\ obj'[l].spec <= obj'[l].rv
                      /\ obj'[l].rv <= rvNow
  BY <1>2, <1>3, <1>5 DEF VersionInv
<1> QED
  BY <1>2, <1>6, <1>7, <1>8 DEF VersionInv

(* s is an order of the objects in which a LIST differs from the store, L  *)
(* are the events for it.                                                  *)
Differs(store) == { k \in Objs \ Outside : /\ store[k] # obj[k]
                                           /\ Exists(store[k]) \/ Exists(obj[k]) }

Listing(store, s, L) ==
    /\ s \in Seq(Differs(store)) /\ Len(s) \in Nat
    /\ { s[i] : i \in 1 .. Len(s) } = Differs(store)
    /\ \A i, j \in 1 .. Len(s) : s[i] = s[j] => i = j
    /\ L \in Seq(Event) /\ Len(L) = Len(s)
    /\ \A i \in 1 .. Len(s) :
          /\ s[i] \in Objs
          /\ L[i].key = s[i]
          /\ L[i].old = store[s[i]]
          /\ L[i].new.spec = obj[s[i]].spec
          /\ L[i].new.rv <= obj[s[i]].rv
          /\ Exists(obj[s[i]]) => L[i].new = obj[s[i]]

(* What a LIST enqueues, if the queue is open.                             *)
LEMMA ReplaceEvents ==
    ASSUME TypeOK, NEW store \in [Objs -> Version], Replace(store)
    PROVE  /\ watch' = << >> /\ informer' = "on"
           /\ \A k \in Objs : seen'[k] = IF k \in Outside THEN Absent ELSE obj[k]
           /\ \E s, L : /\ Listing(store, s, L)
                        /\ queue' = IF queueOpen THEN queue \o L ELSE queue
<1> DEFINE S == Differs(store)
<1>1. PICK s \in Orders(S) : Enqueue(ListEvents(store, s))
  BY DEF Replace, Differs
<1>2. S \in SUBSET Objs
  BY DEF Differs
<1>3. \A k \in Objs : seen'[k] = IF k \in Outside THEN Absent ELSE obj[k]
  BY DEF Replace
<1>4. queue' = IF queueOpen THEN queue \o ListEvents(store, s) ELSE queue
  BY <1>1 DEF Enqueue
<1> HIDE DEF S
<1>5. s \in Seq(S) /\ Len(s) \in Nat /\ DOMAIN s = 1 .. Len(s) /\ { s[i] : i \in DOMAIN s } = S
  BY <1>2, OrdersType
<1>6. ListEvents(store, s) \in Seq(Event) /\ Len(ListEvents(store, s)) = Len(s)
  BY <1>2, ListEventsType DEF TypeOK
<1>7. \A i, j \in 1 .. Len(s) : s[i] = s[j] => i = j
  <2>1. IsFiniteSet(S) /\ Cardinality(S) \in Nat
    BY <1>2, ConstantsAssumption, FS_Subset, FS_CardinalityType
  <2>2. /\ s \in [1 .. Cardinality(S) -> S] /\ Len(s) = Cardinality(S)
    BY <2>1 DEF Orders
  <2>3. IsFiniteSet(1 .. Cardinality(S)) /\ Cardinality(1 .. Cardinality(S)) = Cardinality(S)
    <3>1. 1 \in Int /\ Cardinality(S) \in Int
      BY <2>1
    <3>2. /\ IsFiniteSet(1 .. Cardinality(S))
          /\ Cardinality(1 .. Cardinality(S)) =
                IF 1 > Cardinality(S) THEN 0 ELSE Cardinality(S) - 1 + 1
      BY <3>1, FS_Interval
    <3> QED
      BY <2>1, <3>2
  <2>4. \A x \in S : \E i \in 1 .. Cardinality(S) : s[i] = x
    BY <1>5, <2>2
  <2>5. s \in Surjection(1 .. Cardinality(S), S)
    BY <2>2, <2>4, Zenon DEF Surjection
  <2>6. s \in Injection(1 .. Cardinality(S), S)
    BY <2>3, <2>5, FS_SurjSameCardinalityImpliesInj
  <2>7. \A i, j \in 1 .. Cardinality(S) : s[i] = s[j] => i = j
    BY <2>6, Zenon DEF Injection, IsInjective
  <2> QED
    BY <2>2, <2>7
<1>8. ASSUME NEW i \in 1 .. Len(s)
      PROVE  /\ s[i] \in Objs
             /\ ListEvents(store, s)[i].key = s[i]
             /\ ListEvents(store, s)[i].old = store[s[i]]
             /\ ListEvents(store, s)[i].new.spec = obj[s[i]].spec
             /\ ListEvents(store, s)[i].new.rv <= obj[s[i]].rv
             /\ Exists(obj[s[i]]) => ListEvents(store, s)[i].new = obj[s[i]]
  <2>1. s[i] \in Objs
    BY <1>2, <1>5
  <2>2. ListEvents(store, s)[i] =
            [key |-> s[i], old |-> store[s[i]],
             new |-> IF Exists(obj[s[i]]) THEN obj[s[i]] ELSE Absent]
    BY <1>5 DEF ListEvents
  <2>3. obj[s[i]].rv \in Nat /\ obj[s[i]].spec \in Nat
    BY <2>1, VersionTypes
  <2> QED
    BY <2>1, <2>2, <2>3 DEF Exists, Absent
<1>9. Listing(store, s, ListEvents(store, s))
  BY <1>5, <1>6, <1>7, <1>8 DEF S, Listing
<1>10. watch' = << >> /\ informer' = "on"
  BY ReplaceShape
<1> QED
  BY <1>3, <1>4, <1>9, <1>10

(* A LIST hands out current versions.                                      *)
LEMMA VersionReplace ==
    ASSUME TypeOK, VersionInv, NEW store \in [Objs -> Version], Replace(store),
           \A k \in Objs : store[k].rv <= rvNow,
           MaxRelists = 0 => store = NoObject,
           UNCHANGED <<rvNow, obj, opRV>>
    PROVE  VersionInv'
<1>1. watch' = << >> /\ Len(watch') = 0
  BY ReplaceShape
<1>2. \A k \in Objs : seen'[k] = IF k \in Outside THEN Absent ELSE obj[k]
  BY ReplaceEvents
<1>3. \A k \in Objs : seen'[k].rv <= rvNow
  BY <1>2, VersionTypes DEF VersionInv, Absent
<1>4. PICK s, L : /\ Listing(store, s, L)
                  /\ queue' = IF queueOpen THEN queue \o L ELSE queue
  BY ReplaceEvents
<1>5. L \in Seq(Event) /\ Len(L) = Len(s)
  BY <1>4 DEF Listing
<1>6. \A i \in 1 .. Len(L) : L[i].new.rv \in Nat /\ L[i].old.rv \in Nat
  <2>1. \A i \in 1 .. Len(L) : L[i] \in Event
    BY <1>5, SeqElements
  <2>2. \A x \in Event : x.new.rv \in RV /\ x.old.rv \in RV
    BY DEF Event, Version
  <2> QED
    BY <2>1, <2>2, VersionTypes
<1>7. \A i \in 1 .. Len(L) :
          /\ L[i].new.rv <= rvNow /\ L[i].old.rv <= rvNow
          /\ MaxRelists = 0 => ~Exists(L[i].old)
  <2> SUFFICES ASSUME NEW i \in 1 .. Len(L)
               PROVE  /\ L[i].new.rv <= rvNow /\ L[i].old.rv <= rvNow
                      /\ MaxRelists = 0 => ~Exists(L[i].old)
    OBVIOUS
  <2>1. s[i] \in Objs /\ L[i].old = store[s[i]] /\ L[i].new.rv <= obj[s[i]].rv
    BY <1>4, <1>5 DEF Listing
  <2>2. obj[s[i]].rv <= rvNow /\ obj[s[i]].rv \in Nat /\ rvNow \in Nat
    BY <2>1, VersionTypes DEF VersionInv
  <2>3. MaxRelists = 0 => ~Exists(L[i].old)
    BY <2>1 DEF NoObject, Exists, Absent
  <2> QED
    BY <1>6, <2>1, <2>2, <2>3
<1>8. \A i \in 1 .. Len(queue') :
          /\ queue'[i].new.rv <= rvNow /\ queue'[i].old.rv <= rvNow
          /\ MaxRelists = 0 /\ Exists(queue'[i].old) => queue'[i].old.rv <= queue'[i].new.rv
  <2>1. CASE queue' = queue
    BY <2>1 DEF VersionInv
  <2>2. CASE queue' = queue \o L
    <3>0. queue \in Seq(Event)
      BY DEF TypeOK
    <3>1. /\ Len(queue') = Len(queue) + Len(L) /\ Len(queue) \in Nat /\ Len(L) \in Nat
          /\ \A i \in 1 .. Len(queue) : queue'[i] = queue[i]
          /\ \A i \in 1 .. Len(queue') : i > Len(queue) =>
                queue'[i] = L[i - Len(queue)] /\ i - Len(queue) \in 1 .. Len(L)
      BY <1>5, <2>2, <3>0, SeqConcat
    <3> QED
      BY <1>7, <3>1 DEF VersionInv
  <2> QED
    BY <1>4, <2>1, <2>2
<1> QED
  BY <1>1, <1>3, <1>8 DEF VersionInv

(* Handling an event raises the handled version to one of the event's.     *)
LEMMA HandledVersion ==
    ASSUME TypeOK, NEW e \in Event, UpdateCache(e)
    PROVE  /\ opRV' \in {opRV} \cup { v.rv : v \in { x \in {e.old, e.new} : Exists(x) } }
           /\ opRV <= opRV'
           /\ Exists(e.new) => e.new.rv <= opRV'
<1>1. e.old.rv \in Nat /\ e.new.rv \in Nat /\ opRV \in Nat
  BY VersionTypes DEF Event, Version
<1> DEFINE S == {opRV} \cup { v.rv : v \in { x \in {e.old, e.new} : Exists(x) } }
<1>2. opRV \in S /\ (Exists(e.new) => e.new.rv \in S)
  OBVIOUS
<1>3. \/ S = {opRV} \/ S = {opRV, e.old.rv} \/ S = {opRV, e.new.rv}
      \/ S = {opRV, e.old.rv, e.new.rv}
  <2>1. CASE Exists(e.old) /\ Exists(e.new)
    BY <2>1
  <2>2. CASE Exists(e.old) /\ ~Exists(e.new)
    BY <2>2
  <2>3. CASE ~Exists(e.old) /\ Exists(e.new)
    BY <2>3
  <2>4. CASE ~Exists(e.old) /\ ~Exists(e.new)
    BY <2>4
  <2> QED
    BY <2>1, <2>2, <2>3, <2>4
<1>4. opRV' = Largest(S)
  BY DEF UpdateCache
<1>5. opRV' \in S
  <2> HIDE DEF S
  <2> QED
    BY <1>1, <1>3, <1>4, LargestOf
<1>6. \A n \in S : n <= opRV'
  <2> HIDE DEF S
  <2> QED
    BY <1>1, <1>3, <1>4, LargestOf
<1> QED
  BY <1>2, <1>5, <1>6

(* The front of the queue, and what is behind it.                          *)
LEMMA QueueHead ==
    ASSUME TypeOK, queue # << >>, queue' = Tail(queue)
    PROVE  /\ Head(queue) = queue[1] /\ Head(queue) \in Event
           /\ Len(queue) \in Nat /\ Len(queue) >= 1 /\ Len(queue') = Len(queue) - 1
           /\ \A i \in 1 .. Len(queue') : /\ queue'[i] = queue[i + 1]
                                          /\ i + 1 \in 1 .. Len(queue)
BY VersionTypes

(* Handling an event.                                                      *)
LEMMA VersionHandle ==
    ASSUME TypeOK, VersionInv, HandleObject
    PROVE  VersionInv'
<1> USE DEF apiVars, infVars
<1>1. /\ queue # << >> /\ queue' = Tail(queue) /\ UpdateCache(Head(queue))
      /\ UNCHANGED <<rvNow, obj, seen, watch>>
  BY DEF HandleObject
<1>2. /\ Head(queue) = queue[1] /\ Head(queue) \in Event /\ 1 \in 1 .. Len(queue)
      /\ \A i \in 1 .. Len(queue') : /\ queue'[i] = queue[i + 1]
                                     /\ i + 1 \in 1 .. Len(queue)
  BY <1>1, QueueHead
<1>3. opRV' <= rvNow
  <2>1. queue[1].new.rv <= rvNow /\ queue[1].old.rv <= rvNow /\ opRV <= rvNow
    BY <1>2 DEF VersionInv
  <2>2. opRV' \in {opRV, queue[1].old.rv, queue[1].new.rv}
    BY <1>1, <1>2, HandledVersion
  <2> QED
    BY <2>1, <2>2
<1> QED
  BY <1>1, <1>2, <1>3 DEF VersionInv

(* VersionInv is inductive.                                                *)
LEMMA VersionStep == TypeInv /\ ControlInv /\ VersionInv /\ [Next]_vars => VersionInv'
<1> SUFFICES ASSUME TypeInv, ControlInv, VersionInv, [Next]_vars PROVE VersionInv'
  OBVIOUS
<1> USE DEF apiVars, infVars, mapVars, cacheVars, callVars
<1>0. TypeOK
  BY DEF TypeInv
<1>1. CASE Cluster
  <2>1. PICK k \in Objs : ApplyObject(k) \/ RemoveObject(k) \/ UpdateStatus(k)
    BY <1>1 DEF Cluster
  <2>2. PICK v : /\ Write(k, v) /\ v.rv = rvNow + 1
                 /\ v.spec = rvNow + 1 \/ v.spec = 0 \/ v.spec = obj[k].spec
    BY <2>1 DEF ApplyObject, RemoveObject, UpdateStatus
  <2>3. v.spec \in RV \cup {rvNow + 1} /\ v.spec <= rvNow + 1
    <3>1. 0 \in RV /\ obj[k].spec \in RV /\ rvNow \in Nat
      BY <1>0, VersionTypes, ConstantsAssumption DEF RV
    <3>2. /\ obj[k].spec \in Nat /\ obj[k].rv \in Nat
          /\ obj[k].spec <= obj[k].rv /\ obj[k].rv <= rvNow
      BY <1>0, VersionTypes DEF VersionInv
    <3> QED
      BY <2>2, <3>1, <3>2
  <2> QED
    BY <1>0, <2>2, <2>3, VersionWrite
<1>2. CASE Deliver
  BY <1>0, <1>2, VersionDeliver
<1>3. CASE FirstList \/ Relist
  <2>1. /\ Replace(seen) /\ UNCHANGED <<rvNow, obj, opRV>>
        /\ informer = "starting" \/ relists < MaxRelists
    BY <1>3 DEF FirstList, Relist
  <2>2. MaxRelists = 0 => seen = NoObject
    <3>1. relists \in Nat /\ MaxRelists \in Nat
      BY <1>0, ConstantsAssumption DEF TypeOK
    <3> QED
      BY <2>1, <3>1 DEF ControlInv
  <2>3. seen \in [Objs -> Version] /\ \A k \in Objs : seen[k].rv <= rvNow
    BY <1>0 DEF VersionInv, TypeOK
  <2> QED
    BY <1>0, <2>1, <2>2, <2>3, VersionReplace
<1>4. CASE HandleObject
  BY <1>0, <1>4, VersionHandle
<1>5. CASE CheckerEnds \/ \E k \in Objs : CheckerTimesOut(k) \/ CheckerCancelled(k)
  BY <1>5, VersionFrame DEF CheckerEnds, CheckerSucceeds, CheckerFails, ReplicasStartFails,
                            CheckerTimesOut, CheckerCancelled, Outcome
<1>6. ASSUME NEW c \in dropped, DroppedEnds(c) PROVE VersionInv'
  BY <1>6, VersionFrame DEF DroppedEnds
<1>7. CASE Start
  <2>1. NoObject \in [Objs -> Version] /\ \A k \in Objs : NoObject[k].rv <= rvNow
    BY <1>0, AbsentType, VersionTypes DEF NoObject, Absent
  <2>2. CASE Replace(NoObject)
    BY <1>0, <1>7, <2>1, <2>2, VersionReplace DEF Start
  <2>3. CASE ~Replace(NoObject)
    <3>1. seen' = NoObject /\ UNCHANGED <<rvNow, obj, opRV, watch, queue>>
      BY <1>7, <2>3 DEF Start
    <3>2. Len(watch) = 0
      BY <1>7 DEF Start, ControlInv
    <3>3. \A k \in Objs : seen'[k].rv <= rvNow
      BY <2>1, <3>1
    <3> QED
      BY <3>1, <3>2, <3>3 DEF VersionInv
  <2> QED
    BY <2>2, <2>3
<1>8. CASE RepeatedCall \/ GatherRefused \/ Gather
  BY <1>8, VersionFrame DEF RepeatedCall, GatherRefused, Gather
<1>9. CASE Stop
  <2>1. /\ UNCHANGED <<rvNow, obj, seen, queue, opRV>>
        /\ watch' = << >> /\ Len(watch') = 0
    BY <1>9 DEF Stop
  <2> QED
    BY <2>1 DEF VersionInv
<1>10. CASE GatherSynced \/ GatherSyncTimeout \/ GatherWaited \/ GatherJudges
  BY <1>10, VersionFrame DEF GatherSynced, GatherSyncTimeout, GatherWaited, GatherJudges
<1>11. CASE StopQueue \/ StopCheckers
  BY <1>11, VersionFrame DEF StopQueue, StopCheckers
<1>12. CASE Finished \/ UNCHANGED vars
  BY <1>12, VersionFrame DEF Finished, vars
<1> QED
  BY <1>1, <1>2, <1>3, <1>4, <1>5, <1>6, <1>7, <1>8, <1>9, <1>10, <1>11, <1>12
     DEF Next, Progress, Execute

-----------------------------------------------------------------------------
(* Checkers.                                                               *)

(* What a step does to the checkers: nothing, one goroutine ends, an event *)
(* replaces one, or all are stopped.                                       *)
LEMMA CheckerChanges ==
    ASSUME TypeInv, [Next]_vars
    PROVE  \/ UNCHANGED checkerMap
           \/ \E k \in Objs, status \in Status :
                 /\ Outcome(k, status)
                 /\ status = "deleted" => checkerMap[k].gone
                 /\ status = "running" => ~checkerMap[k].gone
           \/ HandleObject /\ isRunning /\ ReplaceChecker(Head(queue)) /\ queue # << >>
           \/ StopCheckers
<1> USE DEF apiVars, infVars, mapVars, cacheVars, callVars
<1>1. CASE Cluster
  BY <1>1 DEF Cluster, ApplyObject, RemoveObject, UpdateStatus, Write
<1>2. CASE Deliver \/ FirstList \/ Relist
  BY <1>2 DEF Deliver, FirstList, Relist
<1>3. CASE HandleObject
  BY <1>3 DEF HandleObject
<1>4. CASE CheckerEnds \/ \E k \in Objs : CheckerTimesOut(k) \/ CheckerCancelled(k)
  <2>1. PICK k \in Objs : \/ CheckerSucceeds(k) \/ CheckerFails(k) \/ ReplicasStartFails(k)
                          \/ CheckerTimesOut(k) \/ CheckerCancelled(k)
    BY <1>4 DEF CheckerEnds
  <2>2. checkerMap[k].live => checkerMap[k].gone \in BOOLEAN
    <3>1. checkerMap[k] \in Checker \/ checkerMap[k] = NoChecker
      BY DEF TypeInv, TypeOK
    <3> QED
      BY <3>1 DEF Checker, NoChecker
  <2>3. \E status \in Status : /\ Outcome(k, status)
                               /\ status = "deleted" => checkerMap[k].gone
                               /\ status = "running" => ~checkerMap[k].gone
    <3>1. CASE CheckerSucceeds(k)
      <4>1. checkerMap[k].live
        BY <3>1 DEF CheckerSucceeds, Outcome
      <4> QED
        BY <2>2, <3>1, <4>1 DEF CheckerSucceeds, Status
    <3>2. CASE CheckerTimesOut(k)
      BY <3>2 DEF CheckerTimesOut, Status
    <3>3. CASE CheckerFails(k) \/ CheckerCancelled(k)
      BY <3>3 DEF CheckerFails, CheckerCancelled, Status
    <3>4. CASE ReplicasStartFails(k)
      BY <3>4 DEF ReplicasStartFails, Status
    <3> QED
      BY <2>1, <3>1, <3>2, <3>3, <3>4
  <2> QED
    BY <2>3
<1>5. ASSUME NEW c \in dropped, DroppedEnds(c) PROVE UNCHANGED checkerMap
  BY <1>5 DEF DroppedEnds
<1>6. CASE Execute
  BY <1>6 DEF Execute, Start, RepeatedCall, GatherRefused, Gather, Stop
<1>7. CASE GatherSynced \/ GatherSyncTimeout \/ GatherWaited \/ GatherJudges \/ StopQueue
  BY <1>7 DEF GatherSynced, GatherSyncTimeout, GatherWaited, GatherJudges, StopQueue
<1>8. CASE Finished \/ UNCHANGED vars
  BY <1>8 DEF Finished, vars
<1> QED
  BY <1>1, <1>2, <1>3, <1>4, <1>5, <1>6, <1>7, <1>8 DEF Next, Progress

(* The outcome of a goroutine changes the status of its checker only.      *)
LEMMA OutcomeFields ==
    ASSUME TypeOK, NEW k \in Objs, NEW status \in Status, Outcome(k, status)
    PROVE  /\ checkerMap[k] # NoChecker /\ checkerMap'[k] # NoChecker
           /\ checkerMap'[k].status = status
           /\ checkerMap'[k].spec = checkerMap[k].spec
           /\ checkerMap'[k].gone = checkerMap[k].gone
           /\ checkerMap'[k].epoch = checkerMap[k].epoch
           /\ \A l \in Objs : l # k => checkerMap'[l] = checkerMap[l]
<1>1. checkerMap[k] \in Checker
  BY DEF Outcome, TypeOK, NoChecker
<1> DEFINE c == [checkerMap[k] EXCEPT !.status = status, !.live = FALSE]
<1>2. /\ c.status = status /\ c.spec = checkerMap[k].spec /\ c.gone = checkerMap[k].gone
      /\ c.epoch = checkerMap[k].epoch /\ c \in Checker
  BY <1>1 DEF Checker
<1>3. checkerMap' = [checkerMap EXCEPT ![k] = c]
  BY <1>1 DEF Outcome, TypeOK
<1>4. NoChecker \notin Checker
  BY DEF NoChecker, Checker, Status
<1> HIDE DEF c
<1> QED
  BY <1>1, <1>2, <1>3, <1>4 DEF TypeOK

(* Stopping the checkers leaves what they wait for, and found, alone.      *)
LEMMA StopFields ==
    ASSUME TypeOK, StopCheckers, NEW k \in Objs
    PROVE  /\ checkerMap'[k] # NoChecker <=> checkerMap[k] # NoChecker
           /\ checkerMap[k] # NoChecker =>
                 /\ checkerMap'[k].status = checkerMap[k].status
                 /\ checkerMap'[k].spec = checkerMap[k].spec
                 /\ checkerMap'[k].gone = checkerMap[k].gone
                 /\ checkerMap'[k].epoch = checkerMap[k].epoch
<1>1. \/ checkerMap'[k] = checkerMap[k]
      \/ /\ checkerMap[k] \in Checker
         /\ checkerMap'[k] = [checkerMap[k] EXCEPT !.stopped = TRUE]
  BY DEF StopCheckers, LiveKeys, TypeOK, NoChecker
<1>2. NoChecker \notin Checker
  BY DEF NoChecker, Checker, Status
<1>3. ASSUME NEW x \in Checker
      PROVE  LET y == [x EXCEPT !.stopped = TRUE]
             IN  /\ y \in Checker /\ y.status = x.status /\ y.spec = x.spec
                 /\ y.gone = x.gone /\ y.epoch = x.epoch
  BY DEF Checker
<1> QED
  BY <1>1, <1>2, <1>3

(* What the new checker of an event waits for.                             *)
LEMMA ReplaceFields ==
    ASSUME TypeOK, NEW e \in Event, ReplaceChecker(e)
    PROVE  /\ \A l \in Objs : l # e.key => checkerMap'[l] = checkerMap[l]
           /\ e.key \in Unwatchable => checkerMap'[e.key] = NoChecker
           /\ e.key \notin Unwatchable =>
                 /\ checkerMap'[e.key] # NoChecker
                 /\ checkerMap'[e.key].status = "unknown"
                 /\ checkerMap'[e.key].epoch = epoch
                 /\ checkerMap'[e.key].gone <=> ~Exists(e.new)
                 /\ checkerMap'[e.key].spec = IF Exists(e.new) THEN e.new.spec ELSE e.old.spec
<1>1. e.key \in Objs
  BY DEF Event
<1>2. NewChecker(e) # NoChecker
  <2>1. NewChecker(e).status = "unknown" /\ NoChecker.status = "none"
    BY DEF NewChecker, NoChecker
  <2> QED
    BY <2>1
<1> QED
  BY <1>1, <1>2 DEF ReplaceChecker, NewChecker, TypeOK

(* StatusInv is inductive.                                                 *)
LEMMA StatusStep == TypeInv /\ ControlInv /\ StatusInv /\ [Next]_vars => StatusInv'
<1> SUFFICES ASSUME TypeInv, ControlInv, StatusInv, [Next]_vars PROVE StatusInv'
  OBVIOUS
<1> USE DEF apiVars, infVars, mapVars, cacheVars, callVars
<1>0. TypeOK /\ epoch \in Nat /\ epoch' \in Nat
  <2>1. TypeOK /\ TypeOK'
    BY TypeStep DEF TypeInv
  <2> QED
    BY <2>1, ConstantsAssumption DEF TypeOK
<1>1. epoch' = epoch \/ (epoch' = epoch + 1 /\ UNCHANGED checkerMap)
  <2>1. CASE Start
    BY <2>1 DEF Start
  <2>2. CASE ~Start
    BY <2>2 DEF Next, Progress, Execute, Cluster, ApplyObject, RemoveObject, UpdateStatus, Write,
           Deliver, FirstList, Relist, HandleObject, CheckerEnds, CheckerSucceeds, CheckerFails,
           ReplicasStartFails, CheckerTimesOut, CheckerCancelled, Outcome, DroppedEnds,
           RepeatedCall, GatherRefused, Gather, Stop, GatherSynced, GatherSyncTimeout,
           GatherWaited, GatherJudges, StopQueue, StopCheckers, Finished, vars
  <2> QED
    BY <2>1, <2>2
<1>2. \A k \in Objs : checkerMap[k] # NoChecker => checkerMap[k].epoch \in Nat
  BY <1>0, ConstantsAssumption DEF TypeOK, Checker
<1>3. CASE UNCHANGED checkerMap
  BY <1>0, <1>1, <1>2, <1>3 DEF StatusInv
<1>4. ASSUME NEW k \in Objs, NEW status \in Status, Outcome(k, status),
             status = "deleted" => checkerMap[k].gone,
             status = "running" => ~checkerMap[k].gone
      PROVE  StatusInv'
  <2>1. epoch' = epoch
    BY <1>4 DEF Outcome
  <2> QED
    BY <1>0, <1>4, <2>1, OutcomeFields DEF StatusInv
<1>5. CASE HandleObject /\ isRunning /\ ReplaceChecker(Head(queue)) /\ queue # << >>
  <2> DEFINE e == Head(queue)
  <2>1. e \in Event /\ e.key \in Objs
    <3>1. e \in Event
      BY <1>0, <1>5, SeqFacts DEF TypeOK
    <3> QED
      BY <3>1 DEF Event
  <2>2. epoch' = epoch /\ epoch # 0
    BY <1>5 DEF HandleObject, ControlInv
  <2> HIDE DEF e
  <2>3. ReplaceChecker(e)
    BY <1>5 DEF e
  <2>4. ASSUME NEW k \in Objs, checkerMap'[k] # NoChecker
        PROVE  /\ checkerMap'[k].status = "deleted" => checkerMap'[k].gone
               /\ checkerMap'[k].status = "running" => ~checkerMap'[k].gone
               /\ checkerMap'[k].epoch # 0 /\ checkerMap'[k].epoch <= epoch
    <3>1. CASE k = e.key
      BY <1>0, <2>1, <2>2, <2>3, <2>4, <3>1, ReplaceFields
    <3>2. CASE k # e.key
      BY <1>0, <2>1, <2>3, <2>4, <3>2, ReplaceFields DEF StatusInv
    <3> QED
      BY <3>1, <3>2
  <2> QED
    BY <2>2, <2>4 DEF StatusInv
<1>6. CASE StopCheckers
  <2>1. epoch' = epoch
    BY <1>6 DEF StopCheckers
  <2> QED
    BY <1>0, <1>6, <2>1, StopFields DEF StatusInv
<1> QED
  BY <1>3, <1>4, <1>5, <1>6, CheckerChanges

-----------------------------------------------------------------------------
(* The thread of versions from the cache to the API server.                *)

(* h[0] is what the cache has handled, h[i] what it will have handled      *)
(* after the first i changes in the queue and then in the watch.           *)
Ahead == Len(queue) + Len(watch)

Moves(h, i, key, spec) ==
    /\ \A k \in Objs : h[i][k] = IF k = key THEN spec ELSE h[i - 1][k]
    /\ spec = 0 => h[i - 1][key] # 0

(* Every event takes up where the one before it left its object, the       *)
(* informer's store is reached at the end of the queue, the API server at  *)
(* the end of the watch; a current version is not left again.              *)
Threaded(h) ==
    /\ h \in [0 .. Ahead -> [Objs -> Nat]]
    /\ \A k \in Objs : h[0][k] = handled[k].to /\ h[Len(queue)][k] = seen[k].spec
    /\ \A i \in 1 .. Len(queue) : /\ queue[i].old.spec = h[i - 1][queue[i].key]
                                  /\ Moves(h, i, queue[i].key, queue[i].new.spec)
    /\ \A i \in 1 .. Len(watch) : Moves(h, Len(queue) + i, watch[i].key, watch[i].v.spec)
    /\ informer = "on" => \A k \in Objs \ Outside : h[Ahead][k] = obj[k].spec
    /\ \A i \in 0 .. Ahead, k \in Objs : h[i][k] <= rvNow /\ (k \in Outside => h[i][k] = 0)
    /\ \A i, j \in 0 .. Ahead, k \in Objs :
          i <= j /\ obj[k].spec # 0 /\ h[i][k] = obj[k].spec => h[j][k] = obj[k].spec

(* While the cache will still see an outdated version of an existing       *)
(* object, it and all changes up to then are behind the current one.  This *)
(* needs an informer that does not relist: a LIST is not in version order. *)
Behind(h) ==
    \A j \in 0 .. Ahead, k \in Objs :
        obj[k].spec # 0 /\ h[j][k] \notin {0, obj[k].spec} =>
            /\ opRV < obj[k].spec
            /\ \A i \in 1 .. Len(queue) : i <= j => queue[i].new.rv < obj[k].spec
            /\ \A i \in 1 .. Len(watch) : Len(queue) + i <= j => watch[i].v.rv < obj[k].spec

ThreadInv == Fresh => \E h : Threaded(h) /\ (MaxRelists = 0 => Behind(h))

(* Steps that touch neither objects nor changes.                           *)
LEMMA ThreadFrame ==
    ASSUME NEW h, Threaded(h), MaxRelists = 0 => Behind(h),
           informer' = "on" => informer = "on",
           UNCHANGED <<rvNow, obj, seen, queue, watch, opRV, handled>>
    PROVE  Threaded(h)' /\ (MaxRelists = 0 => Behind(h)')
<1>1. Ahead' = Ahead
  BY DEF Ahead
<1>2. Threaded(h)'
  BY <1>1 DEF Threaded, Moves
<1>3. MaxRelists = 0 => Behind(h)'
  BY <1>1 DEF Behind
<1> QED
  BY <1>2, <1>3

(* A write the informer does not watch.                                    *)
LEMMA ThreadUnwatched ==
    ASSUME TypeOK, VersionInv, NEW k \in Objs, NEW v, Write(k, v), watch' = watch,
           informer = "on" => k \in Outside,
           v.spec = rvNow + 1 \/ v.spec = 0 \/ v.spec = obj[k].spec,
           NEW h, Threaded(h), MaxRelists = 0 => Behind(h)
    PROVE  Threaded(h)' /\ (MaxRelists = 0 => Behind(h)')
<1> USE DEF cacheVars
<1>1. /\ rvNow' = rvNow + 1 /\ rvNow \in Nat
      /\ UNCHANGED <<seen, queue, watch, opRV, handled, informer>>
  BY VersionTypes DEF Write
<1>2. \A l \in Objs : obj'[l] = IF l = k THEN v ELSE obj[l]
  BY DEF Write, TypeOK
<1>3. Ahead' = Ahead
  BY <1>1 DEF Ahead
<1>4. \A i \in 0 .. Ahead, l \in Objs : h[i][l] <= rvNow /\ h[i][l] \in Nat
  BY DEF Threaded
<1>5. \A i, j \in 0 .. Ahead, l \in Objs :
          i <= j /\ obj'[l].spec # 0 /\ h[i][l] = obj'[l].spec => h[j][l] = obj'[l].spec
  <2> SUFFICES ASSUME NEW i \in 0 .. Ahead, NEW j \in 0 .. Ahead, NEW l \in Objs, i <= j,
                      obj'[l].spec # 0, h[i][l] = obj'[l].spec
               PROVE  h[j][l] = obj'[l].spec
    OBVIOUS
  <2>1. obj'[l].spec = obj[l].spec
    BY <1>1, <1>2, <1>4
  <2> QED
    BY <2>1 DEF Threaded
<1>6. Threaded(h)'
  <2>1. informer' = "on" => \A l \in Objs \ Outside : h[Ahead'][l] = obj'[l].spec
    BY <1>1, <1>2, <1>3 DEF Threaded
  <2>2. \A i \in 0 .. Ahead, l \in Objs : h[i][l] <= rvNow' /\ (l \in Outside => h[i][l] = 0)
    BY <1>1, <1>4 DEF Threaded
  <2> QED
    BY <1>1, <1>3, <1>5, <2>1, <2>2 DEF Threaded, Moves
<1>7. ASSUME MaxRelists = 0 PROVE Behind(h)'
  <2> SUFFICES ASSUME NEW j \in 0 .. Ahead, NEW l \in Objs,
                      obj'[l].spec # 0, h[j][l] \notin {0, obj'[l].spec}
               PROVE  /\ opRV < obj'[l].spec
                      /\ \A i \in 1 .. Len(queue) : i <= j => queue[i].new.rv < obj'[l].spec
                      /\ \A i \in 1 .. Len(watch) :
                            Len(queue) + i <= j => watch[i].v.rv < obj'[l].spec
    BY <1>1, <1>3 DEF Behind
  <2>1. CASE obj'[l].spec = obj[l].spec
    BY <1>7, <2>1 DEF Behind
  <2>2. CASE obj'[l].spec = rvNow + 1
    <3>1. \A i \in 1 .. Len(queue) : queue[i].new.rv <= rvNow /\ queue[i].new.rv \in Nat
      BY VersionTypes DEF VersionInv
    <3>2. \A i \in 1 .. Len(watch) : watch[i].v.rv <= rvNow /\ watch[i].v.rv \in Nat
      BY VersionTypes DEF VersionInv
    <3>3. opRV <= rvNow /\ opRV \in Nat
      BY VersionTypes DEF VersionInv
    <3> QED
      BY <1>1, <2>2, <3>1, <3>2, <3>3
  <2> QED
    BY <1>2, <2>1, <2>2
<1> QED
  BY <1>6, <1>7

(* A write the informer watches: the thread is longer by one change.       *)
LEMMA ThreadWatched ==
    ASSUME TypeOK, VersionInv, NEW k \in Objs \ Outside, NEW v, Write(k, v),
           informer = "on", watch' = Append(watch, [key |-> k, v |-> v]),
           \/ v.spec = rvNow + 1
           \/ v.spec = 0 /\ obj[k].spec # 0
           \/ v.spec = obj[k].spec /\ v.spec # 0,
           NEW h, Threaded(h), MaxRelists = 0 => Behind(h)
    PROVE  \E g : Threaded(g)' /\ (MaxRelists = 0 => Behind(g)')
<1> USE DEF cacheVars
<1>1. /\ rvNow' = rvNow + 1 /\ rvNow \in Nat
      /\ UNCHANGED <<seen, queue, opRV, handled, informer>>
  BY VersionTypes DEF Write
<1>2. \A l \in Objs : obj'[l] = IF l = k THEN v ELSE obj[l]
  BY DEF Write, TypeOK
<1>3. /\ Len(queue) \in Nat /\ Len(watch) \in Nat /\ Len(watch') = Len(watch) + 1
      /\ watch'[Len(watch) + 1] = [key |-> k, v |-> v]
      /\ \A i \in 1 .. Len(watch) : watch'[i] = watch[i]
  BY VersionTypes
<1>a. PICK n : n = Ahead
  OBVIOUS
<1>b. PICK g : g = [i \in 0 .. (n + 1) |->
          IF i <= n THEN h[i] ELSE [l \in Objs |-> IF l = k THEN v.spec ELSE h[n][l]]]
  OBVIOUS
<1>4. n \in Nat /\ n = Len(queue) + Len(watch) /\ Ahead' = n + 1
  BY <1>a, <1>1, <1>3 DEF Ahead
<1>5. v.spec \in Nat /\ v.spec <= rvNow + 1
  <2>1. /\ obj[k].spec \in Nat /\ obj[k].rv \in Nat
        /\ obj[k].spec <= obj[k].rv /\ obj[k].rv <= rvNow
    BY VersionTypes DEF VersionInv
  <2> QED
    BY <1>1, <2>1
<1>6. \A i \in 0 .. n, l \in Objs : /\ h[i][l] <= rvNow /\ h[i][l] \in Nat
                                    /\ l \in Outside => h[i][l] = 0
  BY <1>a DEF Threaded
<1>7. /\ \A i \in 0 .. n : g[i] = h[i]
      /\ \A l \in Objs : g[n + 1][l] = IF l = k THEN v.spec ELSE h[n][l]
      /\ g \in [0 .. (n + 1) -> [Objs -> Nat]]
  <2>1. h \in [0 .. n -> [Objs -> Nat]]
    BY <1>a DEF Threaded
  <2>2. [l \in Objs |-> IF l = k THEN v.spec ELSE h[n][l]] \in [Objs -> Nat]
    BY <1>4, <1>5, <1>6
  <2> QED
    BY <1>4, <1>b, <2>1, <2>2
<1>8. \A l \in Objs : l \notin Outside => g[n + 1][l] = obj'[l].spec
  <2>1. \A l \in Objs \ Outside : h[n][l] = obj[l].spec
    BY <1>a DEF Threaded
  <2> QED
    BY <1>2, <1>7, <2>1
<1>9. \A i \in 1 .. Len(queue) : /\ queue[i].old.spec = g[i - 1][queue[i].key]
                                 /\ Moves(g, i, queue[i].key, queue[i].new.spec)
  <2> SUFFICES ASSUME NEW i \in 1 .. Len(queue)
               PROVE  /\ queue[i].old.spec = g[i - 1][queue[i].key]
                      /\ Moves(g, i, queue[i].key, queue[i].new.spec)
    OBVIOUS
  <2>0. i \in 0 .. n /\ i - 1 \in 0 .. n
    BY <1>3, <1>4
  <2>1. g[i] = h[i] /\ g[i - 1] = h[i - 1]
    BY <1>7, <2>0
  <2> QED
    BY <2>1 DEF Threaded, Moves
<1>10. \A i \in 1 .. Len(watch') : Moves(g, Len(queue) + i, watch'[i].key, watch'[i].v.spec)
  <2> SUFFICES ASSUME NEW i \in 1 .. Len(watch')
               PROVE  Moves(g, Len(queue) + i, watch'[i].key, watch'[i].v.spec)
    OBVIOUS
  <2>1. CASE i \in 1 .. Len(watch)
    <3>0. Len(queue) + i \in 0 .. n /\ Len(queue) + i - 1 \in 0 .. n
      BY <1>3, <1>4, <2>1
    <3>1. g[Len(queue) + i] = h[Len(queue) + i] /\ g[Len(queue) + i - 1] = h[Len(queue) + i - 1]
      BY <1>7, <3>0
    <3>2. watch'[i] = watch[i]
      BY <1>3, <2>1
    <3>3. Moves(h, Len(queue) + i, watch[i].key, watch[i].v.spec)
      BY <2>1 DEF Threaded
    <3> QED
      BY <3>1, <3>2, <3>3 DEF Moves
  <2>2. CASE i = Len(watch) + 1
    <3>1. Len(queue) + i = n + 1 /\ Len(queue) + i - 1 = n
      BY <1>3, <1>4, <2>2
    <3>2. watch'[i].key = k /\ watch'[i].v.spec = v.spec
      BY <1>3, <2>2
    <3>3. g[n] = h[n] /\ h[n][k] = obj[k].spec
      BY <1>a, <1>4, <1>7 DEF Threaded
    <3>4. v.spec = 0 => h[n][k] # 0
      BY <1>1, <3>3
    <3>5. Moves(g, n + 1, k, v.spec)
      <4>1. (n + 1) - 1 = n
        BY <1>4
      <4>2. \A l \in Objs : g[n + 1][l] = IF l = k THEN v.spec ELSE g[(n + 1) - 1][l]
        BY <1>7, <3>3, <4>1
      <4> QED
        BY <3>3, <3>4, <4>1, <4>2, Zenon DEF Moves
    <3> QED
      BY <3>1, <3>2, <3>5
  <2> QED
    BY <1>3, <2>1, <2>2
<1>11. \A i \in 0 .. (n + 1), l \in Objs : /\ g[i][l] <= rvNow + 1
                                           /\ l \in Outside => g[i][l] = 0
  <2> SUFFICES ASSUME NEW i \in 0 .. (n + 1), NEW l \in Objs
               PROVE  g[i][l] <= rvNow + 1 /\ (l \in Outside => g[i][l] = 0)
    OBVIOUS
  <2>1. CASE i \in 0 .. n
    BY <1>1, <1>6, <1>7, <2>1
  <2>2. CASE i = n + 1
    <3>1. n \in 0 .. n
      BY <1>4
    <3>2. h[n][l] <= rvNow + 1 /\ (l \in Outside => h[n][l] = 0)
      BY <1>1, <1>6, <3>1
    <3>3. g[i][l] = IF l = k THEN v.spec ELSE h[n][l]
      BY <1>7, <2>2
    <3>4. CASE l = k
      BY <1>5, <3>3, <3>4
    <3>5. CASE l # k
      BY <3>2, <3>3, <3>5
    <3> QED
      BY <3>4, <3>5
  <2> QED
    BY <1>4, <2>1, <2>2
<1>12. ASSUME NEW i \in 0 .. (n + 1), NEW j \in 0 .. (n + 1), NEW l \in Objs, i <= j,
              obj'[l].spec # 0, g[i][l] = obj'[l].spec
       PROVE  g[j][l] = obj'[l].spec
  <2>1. l \notin Outside
    BY <1>11, <1>12
  <2>2. CASE j = n + 1
    BY <1>8, <2>1, <2>2
  <2>3. CASE j \in 0 .. n
    <3>1. i \in 0 .. n /\ g[i] = h[i] /\ g[j] = h[j]
      BY <1>4, <1>7, <1>12, <2>3
    <3>2. obj'[l].spec = obj[l].spec
      BY <1>1, <1>2, <1>6, <1>12, <3>1
    <3> QED
      BY <1>a, <1>12, <2>3, <3>1, <3>2 DEF Threaded
  <2> QED
    BY <1>4, <2>2, <2>3
<1>13. Threaded(g)'
  <2>1. \A l \in Objs : g[0][l] = handled[l].to /\ g[Len(queue)][l] = seen[l].spec
    <3>1. g[0] = h[0] /\ g[Len(queue)] = h[Len(queue)]
      BY <1>3, <1>4, <1>7
    <3> QED
      BY <3>1 DEF Threaded
  <2> QED
    BY <1>1, <1>4, <1>7, <1>8, <1>9, <1>10, <1>11, <1>12, <2>1 DEF Threaded
<1>14. ASSUME MaxRelists = 0 PROVE Behind(g)'
  <2> SUFFICES ASSUME NEW j \in 0 .. (n + 1), NEW l \in Objs,
                      obj'[l].spec # 0, g[j][l] \notin {0, obj'[l].spec}
               PROVE  /\ opRV < obj'[l].spec
                      /\ \A i \in 1 .. Len(queue) : i <= j => queue[i].new.rv < obj'[l].spec
                      /\ \A i \in 1 .. Len(watch') :
                            Len(queue) + i <= j => watch'[i].v.rv < obj'[l].spec
    BY <1>1, <1>4 DEF Behind
  <2>1. l \notin Outside /\ j # n + 1
    BY <1>8, <1>11
  <2>2. j \in 0 .. n /\ g[j] = h[j]
    BY <1>4, <1>7, <2>1
  <2>3. \A i \in 1 .. Len(watch') : Len(queue) + i <= j => i \in 1 .. Len(watch)
    BY <1>3, <1>4, <2>2
  <2>4. CASE obj'[l].spec = obj[l].spec
    BY <1>3, <1>14, <2>2, <2>3, <2>4, <1>a DEF Behind
  <2>5. CASE obj'[l].spec = rvNow + 1
    <3>1. \A i \in 1 .. Len(queue) : queue[i].new.rv <= rvNow /\ queue[i].new.rv \in Nat
      BY VersionTypes DEF VersionInv
    <3>2. \A i \in 1 .. Len(watch) : watch[i].v.rv <= rvNow /\ watch[i].v.rv \in Nat
      BY VersionTypes DEF VersionInv
    <3>3. opRV <= rvNow /\ opRV \in Nat
      BY VersionTypes DEF VersionInv
    <3> QED
      BY <1>1, <1>3, <2>3, <2>5, <3>1, <3>2, <3>3
  <2> QED
    BY <1>2, <2>4, <2>5
<1> QED
  BY <1>13, <1>14

(* A delivered change moves from the watch to the queue: the same thread.  *)
LEMMA ThreadDeliver ==
    ASSUME TypeOK, Deliver, queueOpen, NEW h, Threaded(h), MaxRelists = 0 => Behind(h)
    PROVE  Threaded(h)' /\ (MaxRelists = 0 => Behind(h)')
<1> USE DEF apiVars, cacheVars
<1> DEFINE q == Len(queue)
           k1 == watch[1].key
           v1 == watch[1].v
           old == [spec |-> seen[k1].spec, rv |-> IF Exists(v1) THEN seen[k1].rv ELSE v1.rv]
           e == [key |-> k1, old |-> old, new |-> v1]
<1>1. /\ watch # << >> /\ Len(watch) \in Nat /\ Len(watch) >= 1 /\ Head(watch) = watch[1]
      /\ Len(Tail(watch)) = Len(watch) - 1
      /\ \A i \in 1 .. (Len(watch) - 1) : Tail(watch)[i] = watch[i + 1]
  BY VersionTypes DEF Deliver
<1>2. /\ e.key = watch[1].key /\ e.new = watch[1].v
      /\ e.old.spec = seen[watch[1].key].spec
      /\ queue' = queue \o <<e>>
  BY <1>1 DEF Deliver, Enqueue
<1> HIDE DEF e
<1>3. /\ seen' = [seen EXCEPT ![watch[1].key] = watch[1].v] /\ watch' = Tail(watch)
      /\ UNCHANGED <<rvNow, obj, opRV, handled, informer>>
  BY <1>1 DEF Deliver
<1>4. /\ q \in Nat /\ Len(queue') = q + 1 /\ queue'[q + 1] = e
      /\ \A i \in 1 .. q : queue'[i] = queue[i]
  BY <1>2, VersionTypes
<1>5. /\ Len(watch') = Len(watch) - 1 /\ 1 \in 1 .. Len(watch)
      /\ \A i \in 1 .. Len(watch') : watch'[i] = watch[i + 1] /\ i + 1 \in 1 .. Len(watch)
  BY <1>1, <1>3
<1>6. Ahead' = Ahead /\ Ahead \in Nat /\ q + 1 \in 0 .. Ahead /\ q \in 0 .. Ahead
  BY <1>1, <1>4, <1>5 DEF Ahead
<1>7. watch[1].key \in Objs
  BY <1>5, VersionTypes
<1>8. Moves(h, q + 1, watch[1].key, watch[1].v.spec)
  BY <1>5 DEF Threaded
<1>9. \A k \in Objs : h[0][k] = handled[k].to /\ h[q][k] = seen[k].spec
  BY DEF Threaded
<1>10. q + 1 - 1 = q
  BY <1>4
<1>11. \A k \in Objs : h[q + 1][k] = seen'[k].spec
  <2>1. \A k \in Objs : seen'[k] = IF k = watch[1].key THEN watch[1].v ELSE seen[k]
    BY <1>3 DEF TypeOK
  <2> QED
    BY <1>8, <1>9, <1>10, <2>1 DEF Moves
<1>12. ASSUME NEW i \in 1 .. Len(queue')
       PROVE  /\ queue'[i].old.spec = h[i - 1][queue'[i].key]
              /\ Moves(h, i, queue'[i].key, queue'[i].new.spec)
  <2>1. CASE i \in 1 .. q
    BY <1>4, <2>1 DEF Threaded
  <2>2. CASE i = q + 1
    <3>1. queue'[i] = e /\ i - 1 = q
      BY <1>4, <2>2
    <3> QED
      BY <1>2, <1>7, <1>8, <1>9, <2>2, <3>1
  <2> QED
    BY <1>4, <2>1, <2>2
<1>13. ASSUME NEW i \in 1 .. Len(watch')
       PROVE  Moves(h, Len(queue') + i, watch'[i].key, watch'[i].v.spec)
  <2>1. watch'[i] = watch[i + 1] /\ i + 1 \in 1 .. Len(watch)
    BY <1>5
  <2>2. Len(queue') + i = q + (i + 1)
    BY <1>1, <1>4, <1>5
  <2> QED
    BY <2>1, <2>2 DEF Threaded
<1>14. Threaded(h)'
  <2>1. /\ h \in [0 .. Ahead -> [Objs -> Nat]]
        /\ informer = "on" => \A k \in Objs \ Outside : h[Ahead][k] = obj[k].spec
        /\ \A i \in 0 .. Ahead, k \in Objs : h[i][k] <= rvNow /\ (k \in Outside => h[i][k] = 0)
        /\ \A i, j \in 0 .. Ahead, k \in Objs :
              i <= j /\ obj[k].spec # 0 /\ h[i][k] = obj[k].spec => h[j][k] = obj[k].spec
    BY DEF Threaded
  <2>2. \A i \in 1 .. Len(queue') : /\ queue'[i].old.spec = h[i - 1][queue'[i].key]
                                    /\ Moves(h, i, queue'[i].key, queue'[i].new.spec)
    BY <1>12
  <2>3. \A i \in 1 .. Len(watch') : Moves(h, Len(queue') + i, watch'[i].key, watch'[i].v.spec)
    BY <1>13
  <2>4. \A k \in Objs : h[0][k] = handled'[k].to /\ h[Len(queue')][k] = seen'[k].spec
    BY <1>3, <1>4, <1>9, <1>11
  <2>5. /\ h \in [0 .. Ahead' -> [Objs -> Nat]]
        /\ informer' = "on" => \A k \in Objs \ Outside : h[Ahead'][k] = obj'[k].spec
        /\ \A i \in 0 .. Ahead', k \in Objs : h[i][k] <= rvNow' /\ (k \in Outside => h[i][k] = 0)
        /\ \A i, j \in 0 .. Ahead', k \in Objs :
              i <= j /\ obj'[k].spec # 0 /\ h[i][k] = obj'[k].spec => h[j][k] = obj'[k].spec
    <3>1. Ahead' = Ahead /\ informer' = informer /\ obj' = obj /\ rvNow' = rvNow
      BY <1>3, <1>6
    <3> QED
      BY <2>1, <3>1
  <2> QED
    BY <2>2, <2>3, <2>4, <2>5, Zenon DEF Threaded, Moves
<1>15. ASSUME MaxRelists = 0 PROVE Behind(h)'
  <2> SUFFICES ASSUME NEW j \in 0 .. Ahead, NEW k \in Objs,
                      obj[k].spec # 0, h[j][k] \notin {0, obj[k].spec}
               PROVE  /\ opRV < obj[k].spec
                      /\ \A i \in 1 .. Len(queue') : i <= j => queue'[i].new.rv < obj[k].spec
                      /\ \A i \in 1 .. Len(watch') :
                            Len(queue') + i <= j => watch'[i].v.rv < obj[k].spec
    BY <1>3, <1>6 DEF Behind
  <2>1. /\ opRV < obj[k].spec
        /\ \A i \in 1 .. q : i <= j => queue[i].new.rv < obj[k].spec
        /\ \A i \in 1 .. Len(watch) : q + i <= j => watch[i].v.rv < obj[k].spec
    BY <1>15 DEF Behind
  <2>2. ASSUME NEW i \in 1 .. Len(queue'), i <= j PROVE queue'[i].new.rv < obj[k].spec
    <3>1. CASE i \in 1 .. q
      BY <1>4, <2>1, <2>2, <3>1
    <3>2. CASE i = q + 1
      BY <1>2, <1>4, <1>5, <2>1, <2>2, <3>2
    <3> QED
      BY <1>4, <3>1, <3>2
  <2>3. ASSUME NEW i \in 1 .. Len(watch'), Len(queue') + i <= j
        PROVE  watch'[i].v.rv < obj[k].spec
    <3>1. watch'[i] = watch[i + 1] /\ i + 1 \in 1 .. Len(watch)
      BY <1>5
    <3>2. Len(queue') + i = q + (i + 1)
      BY <1>1, <1>4, <1>5
    <3> QED
      BY <2>1, <2>3, <3>1, <3>2
  <2> QED
    BY <2>1, <2>2, <2>3
<1> QED
  BY <1>14, <1>15

(* Handling the first event makes the thread shorter by it.                *)
LEMMA ThreadHandle ==
    ASSUME TypeOK, VersionInv, HandleObject, NEW h, Threaded(h), MaxRelists = 0 => Behind(h)
    PROVE  \E g : Threaded(g)' /\ (MaxRelists = 0 => Behind(g)')
<1> USE DEF apiVars, infVars
<1>1. /\ queue # << >> /\ queue' = Tail(queue) /\ UpdateCache(Head(queue))
      /\ UNCHANGED <<rvNow, obj, seen, watch, informer>>
  BY DEF HandleObject
<1>2. /\ Head(queue) = queue[1] /\ Head(queue) \in Event /\ 1 \in 1 .. Len(queue)
      /\ Len(queue) \in Nat /\ Len(queue) >= 1 /\ Len(queue') = Len(queue) - 1
      /\ \A i \in 1 .. Len(queue') : /\ queue'[i] = queue[i + 1]
                                     /\ i + 1 \in 1 .. Len(queue)
  BY <1>1, QueueHead
<1>3. PICK n : n = Ahead
  OBVIOUS
<1>4. Len(watch) \in Nat /\ n \in Nat /\ n >= 1 /\ n = Len(queue) + Len(watch) /\ Ahead' = n - 1
  BY <1>1, <1>2, <1>3, VersionTypes DEF Ahead
<1>5. PICK g : g = [i \in 0 .. (n - 1) |-> h[i + 1]]
  OBVIOUS
<1>6. h \in [0 .. n -> [Objs -> Nat]]
  BY <1>3 DEF Threaded
<1>7. /\ \A i \in 0 .. (n - 1) : g[i] = h[i + 1] /\ i + 1 \in 0 .. n
      /\ g \in [0 .. (n - 1) -> [Objs -> Nat]]
  <2>1. \A i \in 0 .. (n - 1) : i + 1 \in 0 .. n
    BY <1>4
  <2> QED
    BY <1>5, <1>6, <2>1
<1>8. \A k \in Objs : handled'[k].to = IF k = queue[1].key THEN queue[1].new.spec
                                       ELSE handled[k].to
  BY <1>1, <1>2 DEF UpdateCache, TypeOK
<1>9. \A k \in Objs : g[0][k] = handled'[k].to
  <2>1. Moves(h, 1, queue[1].key, queue[1].new.spec)
    BY <1>2 DEF Threaded
  <2>2. \A k \in Objs : h[0][k] = handled[k].to
    BY DEF Threaded
  <2>3. g[0] = h[1] /\ 1 - 1 = 0
    <3>1. 0 \in 0 .. (n - 1)
      BY <1>4
    <3> QED
      BY <1>7, <3>1
  <2> QED
    BY <1>8, <2>1, <2>2, <2>3 DEF Moves
<1>10. \A k \in Objs : g[Len(queue')][k] = seen'[k].spec
  <2>1. Len(queue') \in 0 .. (n - 1) /\ Len(queue') + 1 = Len(queue)
    BY <1>2, <1>4
  <2>2. g[Len(queue')] = h[Len(queue)]
    BY <1>7, <2>1
  <2> QED
    BY <1>1, <2>2 DEF Threaded
<1>11. ASSUME NEW i \in 1 .. n, i + 1 \in 1 .. n, NEW key, NEW spec, Moves(h, i + 1, key, spec),
              key \in Objs
       PROVE  Moves(g, i, key, spec) /\ g[i - 1][key] = h[(i + 1) - 1][key]
  <2>1. i \in 0 .. (n - 1) /\ i - 1 \in 0 .. (n - 1) /\ (i - 1) + 1 = (i + 1) - 1
    BY <1>4, <1>11
  <2>2. g[i] = h[i + 1] /\ g[i - 1] = h[(i + 1) - 1]
    BY <1>7, <2>1
  <2> QED
    BY <1>11, <2>2 DEF Moves
<1>12. ASSUME NEW i \in 1 .. Len(queue')
       PROVE  /\ queue'[i].old.spec = g[i - 1][queue'[i].key]
              /\ Moves(g, i, queue'[i].key, queue'[i].new.spec)
  <2>1. queue'[i] = queue[i + 1] /\ i + 1 \in 1 .. Len(queue)
    BY <1>2
  <2>2. i \in 1 .. n /\ i + 1 \in 1 .. n
    BY <1>2, <1>4, <2>1
  <2>3. /\ queue[i + 1].old.spec = h[(i + 1) - 1][queue[i + 1].key]
        /\ Moves(h, i + 1, queue[i + 1].key, queue[i + 1].new.spec)
        /\ queue[i + 1].key \in Objs
    BY <2>1, VersionTypes DEF Threaded
  <2>4. PICK key, spec : key = queue[i + 1].key /\ spec = queue[i + 1].new.spec
    OBVIOUS
  <2>5. Moves(h, i + 1, key, spec) /\ key \in Objs
    BY <2>3, <2>4
  <2>6. Moves(g, i, key, spec) /\ g[i - 1][key] = h[(i + 1) - 1][key]
    BY <1>11, <2>2, <2>5
  <2> QED
    BY <2>1, <2>3, <2>4, <2>6
<1>13. ASSUME NEW i \in 1 .. Len(watch)
       PROVE  Moves(g, Len(queue') + i, watch[i].key, watch[i].v.spec)
  <2>1. (Len(queue') + i) + 1 = Len(queue) + i
    BY <1>2
  <2>2. Len(queue') + i \in 1 .. n /\ (Len(queue') + i) + 1 \in 1 .. n
    BY <1>2, <1>4
  <2>3. Moves(h, Len(queue) + i, watch[i].key, watch[i].v.spec) /\ watch[i].key \in Objs
    BY VersionTypes DEF Threaded
  <2> QED
    BY <1>11, <2>1, <2>2, <2>3
<1>14. informer = "on" => \A k \in Objs \ Outside : g[n - 1][k] = obj[k].spec
  <2>1. n - 1 \in 0 .. (n - 1) /\ (n - 1) + 1 = n
    BY <1>4
  <2>2. g[n - 1] = h[n]
    BY <1>7, <2>1
  <2> QED
    BY <1>3, <2>2 DEF Threaded
<1>15. \A i \in 0 .. (n - 1), k \in Objs : g[i][k] <= rvNow /\ (k \in Outside => g[i][k] = 0)
  BY <1>3, <1>7 DEF Threaded
<1>16. ASSUME NEW i \in 0 .. (n - 1), NEW j \in 0 .. (n - 1), NEW k \in Objs, i <= j,
              obj[k].spec # 0, g[i][k] = obj[k].spec
       PROVE  g[j][k] = obj[k].spec
  <2>1. /\ g[i] = h[i + 1] /\ g[j] = h[j + 1] /\ i + 1 \in 0 .. Ahead /\ j + 1 \in 0 .. Ahead
    BY <1>3, <1>7
  <2>2. i + 1 <= j + 1
    BY <1>4, <1>16
  <2> QED
    BY <1>16, <2>1, <2>2 DEF Threaded
<1>17. Threaded(g)'
  <2>1. /\ \A i \in 1 .. Len(queue') : /\ queue'[i].old.spec = g[i - 1][queue'[i].key]
                                       /\ Moves(g, i, queue'[i].key, queue'[i].new.spec)
        /\ \A i \in 1 .. Len(watch') : Moves(g, Len(queue') + i, watch'[i].key, watch'[i].v.spec)
    BY <1>1, <1>12, <1>13
  <2>2. \A i, j \in 0 .. Ahead', k \in Objs :
            i <= j /\ obj'[k].spec # 0 /\ g[i][k] = obj'[k].spec => g[j][k] = obj'[k].spec
    <3>1. Ahead' = n - 1 /\ obj' = obj
      BY <1>1, <1>4
    <3> QED
      BY <1>16, <3>1
  <2>3. \A i \in 0 .. Ahead', k \in Objs : g[i][k] <= rvNow' /\ (k \in Outside => g[i][k] = 0)
    BY <1>1, <1>4, <1>15
  <2>4. informer' = "on" => \A k \in Objs \ Outside : g[Ahead'][k] = obj'[k].spec
    BY <1>1, <1>4, <1>14
  <2>5. g \in [0 .. Ahead' -> [Objs -> Nat]]
    BY <1>4, <1>7
  <2> QED
    BY <1>9, <1>10, <2>1, <2>2, <2>3, <2>4, <2>5 DEF Threaded, Moves
<1>18. ASSUME MaxRelists = 0 PROVE Behind(g)'
  <2> SUFFICES ASSUME NEW j \in 0 .. (n - 1), NEW k \in Objs,
                      obj[k].spec # 0, g[j][k] \notin {0, obj[k].spec}
               PROVE  /\ opRV' < obj[k].spec
                      /\ \A i \in 1 .. Len(queue') : i <= j => queue'[i].new.rv < obj[k].spec
                      /\ \A i \in 1 .. Len(watch) :
                            Len(queue') + i <= j => watch[i].v.rv < obj[k].spec
    BY <1>1, <1>4 DEF Behind
  <2>1. g[j] = h[j + 1] /\ j + 1 \in 0 .. Ahead
    BY <1>3, <1>7
  <2>2. /\ opRV < obj[k].spec
        /\ \A i \in 1 .. Len(queue) : i <= j + 1 => queue[i].new.rv < obj[k].spec
        /\ \A i \in 1 .. Len(watch) : Len(queue) + i <= j + 1 => watch[i].v.rv < obj[k].spec
    BY <1>18, <2>1 DEF Behind
  <2>3. opRV' < obj[k].spec
    <3>1. queue[1].new.rv < obj[k].spec
      BY <1>2, <1>4, <2>2
    <3>2. Exists(queue[1].old) => queue[1].old.rv < obj[k].spec
      <4>1. Exists(queue[1].old) => queue[1].old.rv <= queue[1].new.rv
        BY <1>2, <1>18 DEF VersionInv
      <4>2. queue[1].old.rv \in Nat /\ queue[1].new.rv \in Nat /\ obj[k].spec \in Nat
        BY <1>2, VersionTypes
      <4> QED
        BY <3>1, <4>1, <4>2
    <3>3. opRV' \in {opRV} \cup { v.rv : v \in { x \in {queue[1].old, queue[1].new} : Exists(x) } }
      BY <1>1, <1>2, HandledVersion
    <3> QED
      BY <2>2, <3>1, <3>2, <3>3
  <2>4. ASSUME NEW i \in 1 .. Len(queue'), i <= j PROVE queue'[i].new.rv < obj[k].spec
    <3>1. queue'[i] = queue[i + 1] /\ i + 1 \in 1 .. Len(queue)
      BY <1>2
    <3>2. i + 1 <= j + 1
      BY <1>2, <1>4, <2>4
    <3> QED
      BY <2>2, <3>1, <3>2
  <2>5. ASSUME NEW i \in 1 .. Len(watch), Len(queue') + i <= j
        PROVE  watch[i].v.rv < obj[k].spec
    <3>1. Len(queue) + i <= j + 1
      BY <1>2, <1>4, <2>5
    <3> QED
      BY <2>2, <3>1
  <2> QED
    BY <2>3, <2>4, <2>5
<1> QED
  BY <1>17, <1>18

(* A LIST: the changes still in the watch are skipped, and one event per   *)
(* object that differs takes the thread from the store to the API server.  *)
LEMMA ThreadReplace ==
    ASSUME TypeOK, VersionInv, Replace(seen), queueOpen, MaxRelists = 0 => seen = NoObject,
           UNCHANGED <<rvNow, obj, opRV, handled>>,
           NEW h, Threaded(h), MaxRelists = 0 => Behind(h)
    PROVE  \E g : Threaded(g)' /\ (MaxRelists = 0 => Behind(g)')
<1>1. /\ watch' = << >> /\ Len(watch') = 0 /\ informer' = "on"
      /\ \A k \in Objs : seen'[k] = IF k \in Outside THEN Absent ELSE obj[k]
  BY ReplaceEvents DEF TypeOK
<1>2. PICK s, L : Listing(seen, s, L) /\ queue' = queue \o L
  BY ReplaceEvents DEF TypeOK
<1>3. PICK q, m : q = Len(queue) /\ m = Len(s)
  OBVIOUS
<1>4. /\ q \in Nat /\ m \in Nat /\ Len(L) = m /\ Len(queue') = q + m /\ Ahead' = q + m
      /\ \A i \in 1 .. q : queue'[i] = queue[i]
      /\ \A i \in 1 .. (q + m) : i > q => queue'[i] = L[i - q] /\ i - q \in 1 .. m
  <2>1. L \in Seq(Event) /\ Len(L) = m /\ m \in Nat /\ queue \in Seq(Event)
    BY <1>2, <1>3, VersionTypes DEF Listing
  <2>2. /\ Len(queue \o L) = Len(queue) + Len(L) /\ Len(queue) \in Nat
        /\ \A i \in 1 .. Len(queue) : (queue \o L)[i] = queue[i]
        /\ \A i \in 1 .. Len(queue \o L) : i > Len(queue) =>
              (queue \o L)[i] = L[i - Len(queue)] /\ i - Len(queue) \in 1 .. Len(L)
    BY <2>1, SeqConcat
  <2>3. /\ Len(queue') = q + m /\ q \in Nat
        /\ \A i \in 1 .. q : queue'[i] = queue[i]
        /\ \A i \in 1 .. (q + m) : i > q => queue'[i] = L[i - q] /\ i - q \in 1 .. m
    BY <1>2, <1>3, <2>1, <2>2
  <2> QED
    BY <1>1, <2>1, <2>3 DEF Ahead
<1>5. PICK g : g = [i \in 0 .. (q + m) |->
          IF i <= q THEN h[i]
          ELSE [k \in Objs |-> IF \E j \in 1 .. (i - q) : s[j] = k THEN obj[k].spec
                               ELSE seen[k].spec]]
  OBVIOUS
<1>6. /\ Len(watch) \in Nat /\ Ahead \in Nat /\ \A i \in 0 .. q : i \in 0 .. Ahead
      /\ q \in 0 .. Ahead
  BY <1>3, <1>4, VersionTypes DEF Ahead
<1>7. \A k \in Objs : /\ h[q][k] = seen[k].spec
                      /\ seen[k].spec \in Nat /\ obj[k].spec \in Nat
                      /\ seen[k].spec <= rvNow /\ obj[k].spec <= rvNow
                      /\ k \in Outside => seen[k].spec = 0
  <2> SUFFICES ASSUME NEW k \in Objs
               PROVE  /\ h[q][k] = seen[k].spec
                      /\ seen[k].spec \in Nat /\ obj[k].spec \in Nat
                      /\ seen[k].spec <= rvNow /\ obj[k].spec <= rvNow
                      /\ k \in Outside => seen[k].spec = 0
    OBVIOUS
  <2>1. h[q][k] = seen[k].spec
    BY <1>3 DEF Threaded
  <2>2. h[q][k] <= rvNow /\ (k \in Outside => h[q][k] = 0)
    BY <1>6 DEF Threaded
  <2>3. /\ seen[k].spec \in Nat /\ obj[k].spec \in Nat /\ obj[k].rv \in Nat /\ rvNow \in Nat
        /\ obj[k].spec <= obj[k].rv /\ obj[k].rv <= rvNow
    BY VersionTypes DEF VersionInv
  <2> QED
    BY <2>1, <2>2, <2>3
<1>8. \A i \in 0 .. q : g[i] = h[i]
  BY <1>4, <1>5
<1>9. \A i \in 0 .. m, k \in Objs :
          g[q + i][k] = IF \E j \in 1 .. i : s[j] = k THEN obj[k].spec ELSE seen[k].spec
  <2> SUFFICES ASSUME NEW i \in 0 .. m, NEW k \in Objs
               PROVE  g[q + i][k] = IF \E j \in 1 .. i : s[j] = k THEN obj[k].spec
                                    ELSE seen[k].spec
    OBVIOUS
  <2>1. CASE i = 0
    <3>1. q + i = q /\ q \in 0 .. q /\ ~(\E j \in 1 .. i : s[j] = k)
      BY <1>4, <2>1
    <3> QED
      BY <1>7, <1>8, <3>1
  <2>2. CASE i # 0
    <3>1. q + i \in 0 .. (q + m) /\ ~(q + i <= q) /\ (q + i) - q = i
      BY <1>4, <2>2
    <3> QED
      BY <1>5, <3>1
  <2> QED
    BY <2>1, <2>2
<1>10. g \in [0 .. (q + m) -> [Objs -> Nat]]
  <2>1. h \in [0 .. Ahead -> [Objs -> Nat]]
    BY DEF Threaded
  <2>2. \A i \in 0 .. (q + m) : i <= q => h[i] \in [Objs -> Nat]
    BY <1>4, <1>6, <2>1
  <2>3. \A i \in 0 .. (q + m) :
            [k \in Objs |-> IF \E j \in 1 .. (i - q) : s[j] = k THEN obj[k].spec
                            ELSE seen[k].spec] \in [Objs -> Nat]
    BY <1>7
  <2> QED
    BY <1>5, <2>2, <2>3
<1> HIDE DEF Listing
<1>11. \A i \in 1 .. m :
          /\ s[i] \in Objs \ Outside /\ L[i].key = s[i] /\ L[i].old.spec = seen[s[i]].spec
          /\ L[i].new.spec = obj[s[i]].spec
          /\ obj[s[i]].spec = 0 => seen[s[i]].spec # 0
  <2>1. \A i \in 1 .. m : s[i] \in Differs(seen)
    BY <1>2, <1>3 DEF Listing
  <2>2. \A i \in 1 .. m : /\ L[i].key = s[i] /\ L[i].old = seen[s[i]]
                          /\ L[i].new.spec = obj[s[i]].spec
    BY <1>2, <1>3 DEF Listing
  <2> QED
    BY <2>1, <2>2 DEF Differs, Exists
<1>12. \A k \in Objs \ Outside : (\A i \in 1 .. m : s[i] # k) => seen[k].spec = obj[k].spec
  <2>1. { s[i] : i \in 1 .. m } = Differs(seen)
    BY <1>2, <1>3 DEF Listing
  <2> QED
    BY <2>1 DEF Differs, Exists
<1>13. \A i, j \in 1 .. m : s[i] = s[j] => i = j
  BY <1>2, <1>3 DEF Listing
<1>14. \A k \in Objs \ Outside : g[q + m][k] = obj[k].spec
  <2>1. m \in 0 .. m
    BY <1>4
  <2> QED
    BY <1>9, <1>12, <2>1
<1>15. \A k \in Objs : g[q + m][k] = seen'[k].spec
  <2>1. ASSUME NEW k \in Objs, k \in Outside PROVE g[q + m][k] = 0
    <3>1. m \in 0 .. m /\ ~(\E j \in 1 .. m : s[j] = k)
      BY <1>4, <1>11, <2>1
    <3> QED
      BY <1>7, <1>9, <2>1, <3>1
  <2> QED
    BY <1>1, <1>14, <2>1 DEF Absent
<1>16. ASSUME NEW j \in 1 .. m
       PROVE  /\ L[j].old.spec = g[q + j - 1][s[j]]
              /\ Moves(g, q + j, s[j], obj[s[j]].spec)
  <2>1. j \in 0 .. m /\ j - 1 \in 0 .. m /\ q + j - 1 = q + (j - 1)
    BY <1>4
  <2>2. ~(\E i \in 1 .. (j - 1) : s[i] = s[j])
    BY <1>4, <1>13
  <2>3. g[q + (j - 1)][s[j]] = seen[s[j]].spec
    BY <1>9, <1>11, <2>1, <2>2
  <2>4. ASSUME NEW k \in Objs
        PROVE  g[q + j][k] = IF k = s[j] THEN obj[s[j]].spec ELSE g[q + (j - 1)][k]
    <3>1. CASE k = s[j]
      <4>1. \E i \in 1 .. j : s[i] = k
        BY <3>1
      <4> QED
        BY <1>9, <2>1, <3>1, <4>1
    <3>2. CASE k # s[j]
      <4>1. (\E i \in 1 .. j : s[i] = k) <=> (\E i \in 1 .. (j - 1) : s[i] = k)
        BY <1>4, <3>2
      <4> QED
        BY <1>9, <2>1, <3>2, <4>1
    <3> QED
      BY <3>1, <3>2
  <2>5. L[j].old.spec = seen[s[j]].spec /\ (obj[s[j]].spec = 0 => seen[s[j]].spec # 0)
    BY <1>11
  <2>6. g[q + j - 1] = g[q + (j - 1)]
    BY <2>1
  <2>7. \A k \in Objs : g[q + j][k] = IF k = s[j] THEN obj[s[j]].spec ELSE g[q + j - 1][k]
    BY <2>4, <2>6, Zenon
  <2>8. obj[s[j]].spec = 0 => g[q + j - 1][s[j]] # 0
    BY <2>3, <2>5, <2>6
  <2>9. Moves(g, q + j, s[j], obj[s[j]].spec)
    <3>1. PICK i, spec : i = q + j /\ spec = obj[s[j]].spec
      OBVIOUS
    <3>2. /\ \A k \in Objs : g[i][k] = IF k = s[j] THEN spec ELSE g[i - 1][k]
          /\ spec = 0 => g[i - 1][s[j]] # 0
      BY <1>4, <2>7, <2>8, <3>1
    <3>3. Moves(g, i, s[j], spec)
      BY <3>2 DEF Moves
    <3> QED
      BY <3>1, <3>3
  <2> QED
    BY <2>3, <2>5, <2>6, <2>9
<1>17. ASSUME NEW i \in 1 .. (q + m)
       PROVE  /\ queue'[i].old.spec = g[i - 1][queue'[i].key]
              /\ Moves(g, i, queue'[i].key, queue'[i].new.spec)
  <2>1. CASE i <= q
    <3>1. i \in 1 .. q /\ i \in 0 .. q /\ i - 1 \in 0 .. q
      BY <1>4, <2>1
    <3>2. g[i] = h[i] /\ g[i - 1] = h[i - 1] /\ queue'[i] = queue[i]
      BY <1>4, <1>8, <3>1
    <3>3. /\ queue[i].old.spec = h[i - 1][queue[i].key]
          /\ Moves(h, i, queue[i].key, queue[i].new.spec)
      BY <1>3, <3>1 DEF Threaded
    <3> QED
      BY <3>2, <3>3 DEF Moves
  <2>2. CASE i > q
    <3>1. i - q \in 1 .. m /\ queue'[i] = L[i - q]
      BY <1>4, <2>2
    <3>2. q + (i - q) = i /\ q + (i - q) - 1 = i - 1
      BY <1>4
    <3> QED
      BY <1>11, <1>16, <3>1, <3>2
  <2> QED
    BY <1>4, <2>1, <2>2
<1>18. \A i \in 0 .. (q + m), k \in Objs : g[i][k] <= rvNow /\ (k \in Outside => g[i][k] = 0)
  <2> SUFFICES ASSUME NEW i \in 0 .. (q + m), NEW k \in Objs
               PROVE  g[i][k] <= rvNow /\ (k \in Outside => g[i][k] = 0)
    OBVIOUS
  <2>1. CASE i <= q
    <3>1. i \in 0 .. q /\ i \in 0 .. Ahead
      BY <1>4, <1>6, <2>1
    <3> QED
      BY <1>8, <3>1 DEF Threaded
  <2>2. CASE i > q
    <3>1. i - q \in 0 .. m /\ q + (i - q) = i
      BY <1>4, <2>2
    <3>2. g[i][k] = IF \E j \in 1 .. (i - q) : s[j] = k THEN obj[k].spec ELSE seen[k].spec
      BY <1>9, <3>1
    <3>3. k \in Outside => ~(\E j \in 1 .. (i - q) : s[j] = k)
      BY <1>4, <1>11, <3>1
    <3> QED
      BY <1>7, <3>2, <3>3
  <2> QED
    BY <1>4, <2>1, <2>2
<1>19. ASSUME NEW i \in 0 .. (q + m), NEW j \in 0 .. (q + m), NEW k \in Objs, i <= j,
              obj[k].spec # 0, g[i][k] = obj[k].spec
       PROVE  g[j][k] = obj[k].spec
  <2>1. CASE j <= q
    <3>1. i \in 0 .. q /\ j \in 0 .. q /\ i \in 0 .. Ahead /\ j \in 0 .. Ahead
      BY <1>4, <1>6, <1>19, <2>1
    <3>2. g[i] = h[i] /\ g[j] = h[j]
      BY <1>8, <3>1
    <3> QED
      BY <1>19, <3>1, <3>2 DEF Threaded
  <2>2. CASE i <= q /\ j > q
    <3>1. i \in 0 .. q /\ i \in 0 .. Ahead /\ q \in 0 .. Ahead
      BY <1>4, <1>6, <2>2
    <3>2. h[q][k] = obj[k].spec
      BY <1>8, <1>19, <3>1 DEF Threaded
    <3>3. j - q \in 0 .. m /\ q + (j - q) = j
      BY <1>4, <2>2
    <3> QED
      BY <1>7, <1>9, <3>2, <3>3
  <2>3. CASE i > q
    <3>1. i - q \in 0 .. m /\ q + (i - q) = i /\ j - q \in 0 .. m /\ q + (j - q) = j
      BY <1>4, <1>19, <2>3
    <3>2. (\E l \in 1 .. (i - q) : s[l] = k) => (\E l \in 1 .. (j - q) : s[l] = k)
      BY <1>4, <1>19, <3>1
    <3> QED
      BY <1>9, <1>19, <3>1, <3>2
  <2> QED
    BY <1>4, <2>1, <2>2, <2>3
<1>20. Threaded(g)'
  <2>1. \A k \in Objs : g[0][k] = handled'[k].to /\ g[Len(queue')][k] = seen'[k].spec
    <3>1. g[0] = h[0]
      BY <1>4, <1>8
    <3> QED
      BY <1>4, <1>15, <3>1 DEF Threaded
  <2>2. \A i \in 1 .. Len(queue') : /\ queue'[i].old.spec = g[i - 1][queue'[i].key]
                                    /\ Moves(g, i, queue'[i].key, queue'[i].new.spec)
    BY <1>4, <1>17
  <2>3. \A k \in Objs \ Outside : g[Ahead'][k] = obj'[k].spec
    BY <1>4, <1>14
  <2>4. \A i \in 0 .. Ahead', k \in Objs : g[i][k] <= rvNow' /\ (k \in Outside => g[i][k] = 0)
    BY <1>4, <1>18
  <2>5. \A i, j \in 0 .. Ahead', k \in Objs :
            i <= j /\ obj'[k].spec # 0 /\ g[i][k] = obj'[k].spec => g[j][k] = obj'[k].spec
    BY <1>4, <1>19
  <2>6. g \in [0 .. Ahead' -> [Objs -> Nat]]
    BY <1>4, <1>10
  <2>7. \A i \in 1 .. Len(watch') : Moves(g, Len(queue') + i, watch'[i].key, watch'[i].v.spec)
    BY <1>1
  <2> QED
    BY <2>1, <2>2, <2>3, <2>4, <2>5, <2>6, <2>7 DEF Threaded, Moves
<1>21. ASSUME MaxRelists = 0 PROVE Behind(g)'
  <2> SUFFICES ASSUME NEW j \in 0 .. (q + m), NEW k \in Objs,
                      obj[k].spec # 0, g[j][k] \notin {0, obj[k].spec}
               PROVE  /\ opRV < obj[k].spec
                      /\ \A i \in 1 .. (q + m) : i <= j => queue'[i].new.rv < obj[k].spec
    BY <1>1, <1>4 DEF Behind
  <2>1. j <= q
    <3> SUFFICES ASSUME j > q PROVE FALSE
      BY <1>4
    <3>1. j - q \in 0 .. m /\ q + (j - q) = j
      BY <1>4
    <3>2. seen[k].spec = 0
      BY <1>21 DEF NoObject, Absent
    <3> QED
      BY <1>9, <3>1, <3>2
  <2>2. j \in 0 .. q /\ j \in 0 .. Ahead /\ g[j] = h[j]
    BY <1>4, <1>6, <1>8, <2>1
  <2>3. /\ opRV < obj[k].spec
        /\ \A i \in 1 .. q : i <= j => queue[i].new.rv < obj[k].spec
    BY <1>3, <1>21, <2>2 DEF Behind
  <2>4. ASSUME NEW i \in 1 .. (q + m), i <= j PROVE queue'[i].new.rv < obj[k].spec
    <3>1. i \in 1 .. q
      BY <1>4, <2>1, <2>4
    <3> QED
      BY <1>4, <2>3, <2>4, <3>1
  <2> QED
    BY <2>3, <2>4
<1> QED
  BY <1>20, <1>21

(* Once the measurement was stopped or started again it stays so.          *)
LEMMA FreshBefore ==
    ASSUME TypeInv, ControlInv, [Next]_vars, Fresh'
    PROVE  Fresh /\ ~Stop
<1> USE DEF apiVars, infVars, mapVars, cacheVars, callVars
<1>1. epoch \in Nat
  BY VersionTypes DEF TypeInv
<1>2. CASE Stop
  <2>1. isRunning /\ isRunning' = FALSE /\ epoch' = epoch
    BY <1>2 DEF Stop
  <2> QED
    BY <2>1 DEF ControlInv, Fresh
<1>3. CASE Start
  <2>1. ~isRunning /\ epoch' = epoch + 1
    BY <1>3 DEF Start
  <2> QED
    BY <1>1, <1>2, <2>1 DEF Fresh
<1>4. CASE ~Start /\ ~Stop
  <2>1. UNCHANGED <<epoch, isRunning>>
    BY <1>4 DEF Next, Progress, Execute, Cluster, ApplyObject, RemoveObject, UpdateStatus, Write,
           Deliver, FirstList, Relist, HandleObject, CheckerEnds, CheckerSucceeds, CheckerFails,
           ReplicasStartFails, CheckerTimesOut, CheckerCancelled, Outcome, DroppedEnds,
           RepeatedCall, GatherRefused, Gather, GatherSynced, GatherSyncTimeout,
           GatherWaited, GatherJudges, StopQueue, StopCheckers, Finished, vars
  <2> QED
    BY <1>4, <2>1 DEF Fresh
<1> QED
  BY <1>2, <1>3, <1>4

(* ThreadInv is inductive.                                                 *)
LEMMA ThreadStep ==
    TypeInv /\ ControlInv /\ VersionInv /\ ThreadInv /\ [Next]_vars => ThreadInv'
<1> SUFFICES ASSUME TypeInv, ControlInv, VersionInv, ThreadInv, [Next]_vars, Fresh'
             PROVE  \E g : Threaded(g)' /\ (MaxRelists = 0 => Behind(g)')
  BY DEF ThreadInv
<1> USE DEF apiVars, infVars, mapVars, cacheVars, callVars
<1>0. TypeOK /\ Fresh /\ ~Stop /\ queueOpen
  BY FreshBefore DEF TypeInv, ControlInv
<1>1. PICK h : Threaded(h) /\ (MaxRelists = 0 => Behind(h))
  BY <1>0 DEF ThreadInv
<1>2. CASE Cluster
  <2>1. PICK k \in Objs : ApplyObject(k) \/ RemoveObject(k) \/ UpdateStatus(k)
    BY <1>2 DEF Cluster
  <2>2. PICK v : /\ Write(k, v)
                 /\ \/ v.spec = rvNow + 1
                    \/ v.spec = 0 /\ obj[k].spec # 0
                    \/ v.spec = obj[k].spec /\ v.spec # 0
    BY <2>1 DEF ApplyObject, RemoveObject, UpdateStatus, Exists
  <2>3. CASE informer = "on" /\ k \notin Outside
    <3>1. watch' = Append(watch, [key |-> k, v |-> v])
      BY <2>2, <2>3 DEF Write
    <3> QED
      BY <1>0, <1>1, <2>2, <2>3, <3>1, ThreadWatched
  <2>4. CASE ~(informer = "on" /\ k \notin Outside)
    <3>1. watch' = watch
      BY <2>2, <2>4 DEF Write
    <3> QED
      BY <1>0, <1>1, <2>2, <2>4, <3>1, ThreadUnwatched
  <2> QED
    BY <2>3, <2>4
<1>3. CASE Deliver
  BY <1>0, <1>1, <1>3, ThreadDeliver
<1>4. CASE FirstList \/ Relist
  <2>1. /\ Replace(seen) /\ UNCHANGED <<rvNow, obj, opRV, handled>>
        /\ informer = "starting" \/ relists < MaxRelists
    BY <1>4 DEF FirstList, Relist
  <2>2. MaxRelists = 0 => seen = NoObject
    <3>1. relists \in Nat /\ MaxRelists \in Nat
      BY <1>0, ConstantsAssumption DEF TypeOK
    <3> QED
      BY <2>1, <3>1 DEF ControlInv
  <2> QED
    BY <1>0, <1>1, <2>1, <2>2, ThreadReplace
<1>5. CASE HandleObject
  BY <1>0, <1>1, <1>5, ThreadHandle
<1>6. CASE CheckerEnds \/ \E k \in Objs : CheckerTimesOut(k) \/ CheckerCancelled(k)
  <2>1. UNCHANGED <<rvNow, obj, seen, queue, watch, opRV, handled, informer>>
    BY <1>6 DEF CheckerEnds, CheckerSucceeds, CheckerFails, ReplicasStartFails,
                CheckerTimesOut, CheckerCancelled, Outcome
  <2> QED
    BY <1>1, <2>1, ThreadFrame
<1>7. ASSUME NEW c \in dropped, DroppedEnds(c)
      PROVE  \E g : Threaded(g)' /\ (MaxRelists = 0 => Behind(g)')
  <2>1. UNCHANGED <<rvNow, obj, seen, queue, watch, opRV, handled, informer>>
    BY <1>7 DEF DroppedEnds
  <2> QED
    BY <1>1, <2>1, ThreadFrame
<1>8. CASE Start
  <2>1. seen = NoObject
    BY <1>0, <1>8 DEF Start, ControlInv, Fresh
  <2>2. CASE Replace(NoObject)
    BY <1>0, <1>1, <1>8, <2>1, <2>2, ThreadReplace DEF Start
  <2>3. CASE ~Replace(NoObject)
    <3>1. /\ UNCHANGED <<rvNow, obj, seen, queue, watch, opRV, handled>>
          /\ informer' # "on"
      BY <1>8, <2>1, <2>3 DEF Start
    <3> QED
      BY <1>1, <3>1, ThreadFrame
  <2> QED
    BY <2>2, <2>3
<1>9. CASE \/ RepeatedCall \/ GatherRefused \/ Gather \/ GatherSynced \/ GatherSyncTimeout
           \/ GatherWaited \/ GatherJudges \/ StopQueue \/ StopCheckers \/ Finished
           \/ UNCHANGED vars
  <2>1. UNCHANGED <<rvNow, obj, seen, queue, watch, opRV, handled, informer>>
    BY <1>9 DEF RepeatedCall, GatherRefused, Gather, GatherSynced, GatherSyncTimeout,
                GatherWaited, GatherJudges, StopQueue, StopCheckers, Finished, vars
  <2> QED
    BY <1>1, <2>1, ThreadFrame
<1> QED
  BY <1>0, <1>2, <1>3, <1>4, <1>5, <1>6, <1>7, <1>8, <1>9 DEF Next, Progress, Execute

(* The thread before the first event.                                      *)
LEMMA BarrierInit == Init => ControlInv /\ VersionInv /\ StatusInv /\ ThreadInv
<1> SUFFICES ASSUME Init PROVE ControlInv /\ VersionInv /\ StatusInv /\ ThreadInv
  OBVIOUS
<1>1. /\ Len(queue) = 0 /\ Len(watch) = 0 /\ Ahead = 0
      /\ \A k \in Objs : /\ obj[k].spec = 0 /\ obj[k].rv = 0
                         /\ seen[k].spec = 0 /\ seen[k].rv = 0 /\ handled[k].to = 0
                         /\ checkerMap[k] = NoChecker
      /\ rvNow = 0 /\ opRV = 0 /\ informer = "off"
  BY DEF Init, Ahead, NoObject, Absent
<1>2. ControlInv
  BY DEF Init, ControlInv, Fresh, Gathering
<1>3. VersionInv
  BY <1>1 DEF VersionInv
<1>4. StatusInv
  BY <1>1 DEF StatusInv
<1>5. PICK h : h = [i \in 0 .. 0 |-> [k \in Objs |-> 0]]
  OBVIOUS
<1>6. h \in [0 .. 0 -> [Objs -> Nat]] /\ \A i \in 0 .. 0, k \in Objs : h[i][k] = 0
  BY <1>5
<1>7. Threaded(h)
  BY <1>1, <1>6 DEF Threaded
<1>8. Behind(h)
  BY <1>1, <1>6 DEF Behind
<1> QED
  BY <1>2, <1>3, <1>4, <1>7, <1>8 DEF ThreadInv

-----------------------------------------------------------------------------
(* Checkers and cache follow the events that were handled.                 *)

FollowInv ==
    Fresh =>
        /\ objectKeys = { k \in Objs : handled[k].to # 0 }
        /\ \A k \in Objs \ Unwatchable :
              /\ handled[k].to # 0 => /\ checkerMap[k] # NoChecker
                                      /\ checkerMap[k].spec = handled[k].to
                                      /\ ~checkerMap[k].gone
              /\ handled[k].to = 0 /\ handled[k].from # 0 =>
                                      /\ checkerMap[k] # NoChecker
                                      /\ checkerMap[k].spec = handled[k].from
                                      /\ checkerMap[k].gone

(* The first event of the queue starts from what was handled last, and one *)
(* of its versions exists.                                                 *)
LEMMA FirstEvent ==
    ASSUME TypeOK, ThreadInv, Fresh, queue # << >>
    PROVE  /\ 1 \in 1 .. Len(queue) /\ queue[1] \in Event /\ Head(queue) = queue[1]
           /\ queue[1].key \in Objs
           /\ queue[1].old.spec = handled[queue[1].key].to
           /\ queue[1].new.spec = 0 => queue[1].old.spec # 0
<1>1. PICK h : Threaded(h)
  BY DEF ThreadInv
<1>2. 1 \in 1 .. Len(queue) /\ Head(queue) = queue[1] /\ queue[1] \in Event
  BY VersionTypes
<1>3. queue[1].key \in Objs
  BY <1>2, VersionTypes
<1>4. /\ queue[1].old.spec = h[1 - 1][queue[1].key]
      /\ queue[1].new.spec = 0 => h[1 - 1][queue[1].key] # 0
  BY <1>1, <1>2 DEF Threaded, Moves
<1>5. h[0][queue[1].key] = handled[queue[1].key].to
  BY <1>1, <1>3 DEF Threaded
<1>6. 1 - 1 = 0
  OBVIOUS
<1> QED
  BY <1>2, <1>3, <1>4, <1>5, <1>6

(* What a step does to the cache: nothing, or it handles an event.         *)
LEMMA CacheChanges ==
    ASSUME [Next]_vars, ~HandleObject
    PROVE  UNCHANGED <<objectKeys, opRV, handled>>
BY DEF apiVars, infVars, mapVars, cacheVars, callVars, Next, Progress, Execute, Cluster,
       ApplyObject, RemoveObject, UpdateStatus, Write, Deliver, FirstList, Relist, CheckerEnds,
       CheckerSucceeds, CheckerFails, ReplicasStartFails, CheckerTimesOut, CheckerCancelled,
       Outcome, DroppedEnds, Start, Stop, RepeatedCall, GatherRefused, Gather, GatherSynced,
       GatherSyncTimeout, GatherWaited, GatherJudges, StopQueue, StopCheckers, Finished, vars

(* FollowInv is inductive.                                                 *)
LEMMA FollowStep ==
    TypeInv /\ ControlInv /\ ThreadInv /\ FollowInv /\ [Next]_vars => FollowInv'
<1> SUFFICES ASSUME TypeInv, ControlInv, ThreadInv, FollowInv, [Next]_vars, Fresh'
             PROVE  FollowInv'
  BY DEF FollowInv
<1>0. TypeOK /\ Fresh
  BY FreshBefore DEF TypeInv
<1>1. CASE HandleObject
  <2>1. /\ queue # << >> /\ UpdateCache(Head(queue))
        /\ IF SameSpec(Head(queue)) \/ ~isRunning THEN UNCHANGED checkerMap
           ELSE ReplaceChecker(Head(queue))
    BY <1>1 DEF HandleObject, mapVars
  <2>2. isRunning
    BY <1>0, <2>1 DEF ControlInv, Fresh
  <2>3. PICK e : e = queue[1]
    OBVIOUS
  <2>4. /\ e \in Event /\ e.key \in Objs /\ e = Head(queue)
        /\ e.old.spec = handled[e.key].to
        /\ e.new.spec = 0 => e.old.spec # 0
    BY <1>0, <2>1, <2>3, FirstEvent
  <2>5. \A k \in Objs : handled'[k] = IF k = e.key THEN [from |-> e.old.spec, to |-> e.new.spec]
                                      ELSE handled[k]
    BY <1>0, <2>1, <2>4 DEF UpdateCache, TypeOK
  <2>6. objectKeys' = { k \in Objs : handled'[k].to # 0 }
    <3>1. objectKeys = { k \in Objs : handled[k].to # 0 }
      BY <1>0 DEF FollowInv
    <3>2. objectKeys' = (objectKeys \ (IF e.old.spec # 0 THEN {e.key} ELSE {}))
                            \cup (IF e.new.spec # 0 THEN {e.key} ELSE {})
      BY <2>1, <2>4 DEF UpdateCache, Exists
    <3>3. handled'[e.key].to = e.new.spec
      BY <2>4, <2>5
    <3>4. \A k \in Objs : k # e.key => handled'[k] = handled[k]
      BY <2>5
    <3>5. ASSUME NEW k PROVE k \in objectKeys' <=> k \in Objs /\ handled'[k].to # 0
      <4>1. CASE k = e.key
        BY <2>4, <3>2, <3>3, <4>1
      <4>2. CASE k # e.key
        BY <3>1, <3>2, <3>4, <4>2
      <4> QED
        BY <4>1, <4>2
    <3> QED
      BY <3>5
  <2>7. ASSUME NEW k \in Objs \ Unwatchable
        PROVE  /\ handled'[k].to # 0 => /\ checkerMap'[k] # NoChecker
                                        /\ checkerMap'[k].spec = handled'[k].to
                                        /\ ~checkerMap'[k].gone
               /\ handled'[k].to = 0 /\ handled'[k].from # 0 =>
                                        /\ checkerMap'[k] # NoChecker
                                        /\ checkerMap'[k].spec = handled'[k].from
                                        /\ checkerMap'[k].gone
    <3>1. CASE k # e.key
      <4>1. checkerMap'[k] = checkerMap[k]
        BY <1>0, <2>1, <2>4, <3>1, ReplaceFields
      <4>2. handled'[k] = handled[k]
        BY <2>5, <3>1
      <4> QED
        BY <1>0, <4>1, <4>2 DEF FollowInv
    <3>2. CASE k = e.key /\ SameSpec(e)
      <4>1. checkerMap' = checkerMap
        BY <2>1, <2>4, <3>2
      <4>2. handled'[k].to # 0 /\ handled'[k].to = handled[k].to
        BY <2>4, <2>5, <3>2 DEF SameSpec
      <4> QED
        BY <1>0, <4>1, <4>2 DEF FollowInv
    <3>3. CASE k = e.key /\ ~SameSpec(e)
      <4>1. ReplaceChecker(e)
        BY <2>1, <2>2, <2>4, <3>3
      <4>2. /\ checkerMap'[k] # NoChecker
            /\ checkerMap'[k].gone <=> e.new.spec = 0
            /\ checkerMap'[k].spec = IF e.new.spec # 0 THEN e.new.spec ELSE e.old.spec
        BY <1>0, <2>4, <3>3, <4>1, ReplaceFields DEF Exists
      <4>3. handled'[k].to = e.new.spec /\ handled'[k].from = e.old.spec
        BY <2>5, <3>3
      <4> QED
        BY <4>2, <4>3
    <3> QED
      BY <3>1, <3>2, <3>3
  <2> QED
    BY <2>6, <2>7 DEF FollowInv
<1>2. CASE ~HandleObject
  <2>1. UNCHANGED <<objectKeys, handled>>
    BY <1>2, CacheChanges
  <2>2. \A k \in Objs : checkerMap[k] # NoChecker =>
            /\ checkerMap'[k] # NoChecker
            /\ checkerMap'[k].spec = checkerMap[k].spec
            /\ checkerMap'[k].gone = checkerMap[k].gone
    <3>1. CASE UNCHANGED checkerMap
      BY <3>1
    <3>2. CASE \E k \in Objs, status \in Status : Outcome(k, status)
      BY <1>0, <3>2, OutcomeFields
    <3>3. CASE StopCheckers
      BY <1>0, <3>3, StopFields
    <3> QED
      BY <1>2, <3>1, <3>2, <3>3, CheckerChanges
  <2>3. /\ objectKeys = { k \in Objs : handled[k].to # 0 }
        /\ \A k \in Objs \ Unwatchable :
              /\ handled[k].to # 0 => /\ checkerMap[k] # NoChecker
                                      /\ checkerMap[k].spec = handled[k].to
                                      /\ ~checkerMap[k].gone
              /\ handled[k].to = 0 /\ handled[k].from # 0 =>
                                      /\ checkerMap[k] # NoChecker
                                      /\ checkerMap[k].spec = handled[k].from
                                      /\ checkerMap[k].gone
    BY <1>0 DEF FollowInv
  <2> QED
    BY <2>1, <2>2, <2>3 DEF FollowInv
<1> QED
  BY <1>1, <1>2

-----------------------------------------------------------------------------
(* What gather listed, and what it may rely on after it caught up.         *)

ListedInv ==
    Gathering => \A k \in Objs : /\ listed[k].spec <= listed[k].rv
                                 /\ listed[k].rv <= obj[k].rv
                                 /\ ~Interference => listed[k].spec = obj[k].spec

SyncInv ==
    pc \in {"waiting", "judging"} /\ Fresh /\ ~Interference /\ MaxRelists = 0 =>
        \A k \in ListedKeys : handled[k].to = listed[k].spec

(* What a step does to gather's local state.                               *)
LEMMA GatherChanges ==
    ASSUME [Next]_vars
    PROVE  \/ UNCHANGED <<pc, listed>>
           \/ Gather
           \/ GatherSynced
           \/ pc = "waiting" /\ pc' = "judging" /\ UNCHANGED <<listed, obj, handled>>
           \/ pc' \in {"idle", "stopping", "draining"}
<1> USE DEF apiVars, infVars, mapVars, cacheVars, callVars
<1>1. CASE Cluster \/ Relist \/ CheckerEnds \/ Finished \/ UNCHANGED vars
  BY <1>1 DEF Cluster, ApplyObject, RemoveObject, UpdateStatus, Write, Relist, CheckerEnds,
              CheckerSucceeds, CheckerFails, ReplicasStartFails, Outcome, Finished, vars
<1>2. CASE Execute
  BY <1>2 DEF Execute, Start, RepeatedCall, GatherRefused, Stop
<1>3. CASE Progress
  BY <1>3 DEF Progress, Deliver, FirstList, HandleObject, CheckerTimesOut, CheckerCancelled,
              Outcome, DroppedEnds, GatherSyncTimeout, GatherWaited, GatherJudges, StopQueue,
              StopCheckers
<1> QED
  BY <1>1, <1>2, <1>3 DEF Next

(* What a step does to the objects.                                        *)
LEMMA ObjectChanges ==
    ASSUME TypeOK, VersionInv, [Next]_vars
    PROVE  \/ UNCHANGED obj
           \/ /\ UNCHANGED <<pc, listed>>
              /\ \A k \in Objs : /\ obj[k].rv <= obj'[k].rv /\ obj'[k].rv \in Nat
                                 /\ Gathering /\ ~Interference => obj'[k].spec = obj[k].spec
<1> USE DEF apiVars, infVars, mapVars, cacheVars, callVars
<1>1. CASE Cluster
  <2>1. PICK k \in Objs : ApplyObject(k) \/ RemoveObject(k) \/ UpdateStatus(k)
    BY <1>1 DEF Cluster
  <2>2. PICK v : /\ Write(k, v) /\ v.rv = rvNow + 1
                 /\ Gathering /\ ~Interference => v.spec = obj[k].spec
    BY <2>1 DEF ApplyObject, RemoveObject, UpdateStatus
  <2>3. \A l \in Objs : obj'[l] = IF l = k THEN v ELSE obj[l]
    BY <2>2 DEF Write, TypeOK
  <2>4. UNCHANGED <<pc, listed>>
    BY <2>2 DEF Write
  <2>5. \A l \in Objs : obj[l].rv \in Nat /\ obj[l].rv <= rvNow /\ rvNow \in Nat
    BY VersionTypes DEF VersionInv
  <2> QED
    BY <2>2, <2>3, <2>4, <2>5
<1>2. CASE Relist \/ CheckerEnds \/ Finished \/ UNCHANGED vars
  BY <1>2 DEF Relist, CheckerEnds,
              CheckerSucceeds, CheckerFails, ReplicasStartFails, Outcome, Finished, vars
<1>3. CASE Execute
  BY <1>3 DEF Execute, Start, RepeatedCall, GatherRefused, Gather, Stop
<1>4. CASE Progress
  BY <1>4 DEF Progress, Deliver, FirstList, HandleObject, CheckerTimesOut, CheckerCancelled,
              Outcome, DroppedEnds, GatherSynced, GatherSyncTimeout, GatherWaited, GatherJudges,
              StopQueue, StopCheckers
<1> QED
  BY <1>1, <1>2, <1>3, <1>4 DEF Next

(* ListedInv is inductive.                                                 *)
LEMMA ListedStep == TypeInv /\ VersionInv /\ ListedInv /\ [Next]_vars => ListedInv'
<1> SUFFICES ASSUME TypeInv, VersionInv, ListedInv, [Next]_vars, Gathering', NEW k \in Objs
             PROVE  /\ listed'[k].spec <= listed'[k].rv
                    /\ listed'[k].rv <= obj'[k].rv
                    /\ ~Interference => listed'[k].spec = obj'[k].spec
  BY DEF ListedInv
<1>0. TypeOK
  BY DEF TypeInv
<1>1. CASE Gather
  <2>1. listed' = obj /\ obj' = obj
    BY <1>1 DEF Gather, apiVars
  <2> QED
    BY <1>0, <2>1, VersionTypes DEF VersionInv
<1>2. CASE ~Gather
  <2>1. Gathering /\ UNCHANGED listed
    BY <1>2, GatherChanges DEF Gathering, GatherSynced
  <2>2. listed[k].rv \in Nat /\ listed[k].rv <= obj[k].rv /\ listed[k].spec <= listed[k].rv
    <3>1. listed[k].rv \in RV
      BY <1>0 DEF TypeOK, Version
    <3> QED
      BY <1>0, <2>1, <3>1, VersionTypes DEF ListedInv
  <2>3. listed[k].rv <= obj'[k].rv
    BY <1>0, <2>1, <2>2, ObjectChanges, VersionTypes
  <2>4. ~Interference => listed[k].spec = obj'[k].spec
    BY <1>0, <2>1, ObjectChanges DEF ListedInv
  <2> QED
    BY <2>1, <2>2, <2>3, <2>4
<1> QED
  BY <1>1, <1>2

(* A largest listed version bounds the listed ones.                        *)
LEMMA MaxListedBounds ==
    ASSUME TypeOK
    PROVE  /\ MaxListed \in Nat /\ \A k \in ListedKeys : listed[k].rv <= MaxListed
           /\ MaxListed = 0 \/ \E k \in ListedKeys : MaxListed = listed[k].rv
<1> DEFINE T == {0} \cup { listed[k].rv : k \in ListedKeys }
<1>1. \A k \in ListedKeys : listed[k].rv \in 0 .. MaxRV /\ listed[k].rv \in T
  BY DEF ListedKeys, TypeOK, Version, RV
<1>2. T \subseteq 0 .. MaxRV /\ T # {} /\ MaxRV \in Nat
  BY <1>1, ConstantsAssumption
<1>3. MaxListed = Largest(T)
  BY DEF MaxListed
<1>4. \A t \in T : t = 0 \/ \E k \in ListedKeys : t = listed[k].rv
  OBVIOUS
<1> HIDE DEF T
<1>5. MaxListed \in T /\ \A t \in T : t <= MaxListed
  BY <1>2, <1>3, LargestBounds
<1>6. MaxListed \in Nat
  BY <1>2, <1>5
<1> QED
  BY <1>1, <1>4, <1>5, <1>6

(* SyncInv is inductive: the cache caught up with what was listed, and     *)
(* handles no older version of it any more.                                *)
LEMMA SyncStep ==
    /\ TypeInv /\ ControlInv /\ VersionInv /\ ThreadInv /\ FollowInv /\ ListedInv /\ SyncInv
    /\ [Next]_vars
    => SyncInv'
<1> SUFFICES ASSUME TypeInv, ControlInv, VersionInv, ThreadInv, FollowInv, ListedInv, SyncInv,
                    [Next]_vars, pc' \in {"waiting", "judging"}, Fresh', ~Interference,
                    MaxRelists = 0, NEW k \in ListedKeys'
             PROVE  handled'[k].to = listed'[k].spec
  BY DEF SyncInv
<1>0. TypeOK /\ Fresh
  BY FreshBefore DEF TypeInv
<1>1. PICK h : Threaded(h) /\ Behind(h)
  BY <1>0 DEF ThreadInv
<1>2. UNCHANGED listed /\ pc \in {"syncing", "waiting", "judging"} /\ k \in ListedKeys /\ k \in Objs
  <2>1. UNCHANGED listed /\ pc \in {"syncing", "waiting", "judging"}
    BY GatherChanges DEF Gather, GatherSynced
  <2> QED
    BY <2>1 DEF ListedKeys
<1>3. /\ listed[k].spec = obj[k].spec /\ listed[k].spec # 0 /\ listed[k].spec <= listed[k].rv
      /\ listed[k].spec \in Nat /\ listed[k].rv \in Nat
  <2>1. listed[k].spec \in RV /\ listed[k].rv \in RV
    BY <1>0, <1>2 DEF TypeOK, Version
  <2> QED
    BY <1>0, <1>2, <2>1, VersionTypes DEF ListedInv, Gathering, ListedKeys, Exists
<1>4. h[0][k] = handled[k].to /\ 0 \in 0 .. Ahead
  BY <1>0, <1>1, <1>2, VersionTypes DEF Threaded, Ahead
<1>5. CASE GatherSynced
  <2>1. CaughtUp /\ UNCHANGED <<listed, handled>>
    BY <1>5 DEF GatherSynced, cacheVars
  <2>2. listed[k].rv <= opRV
    <3>1. opRV >= MaxListed /\ opRV \in Nat
      BY <1>0, <2>1, VersionTypes DEF CaughtUp
    <3>2. MaxListed \in Nat /\ listed[k].rv <= MaxListed
      BY <1>0, <1>2, MaxListedBounds
    <3> QED
      BY <1>3, <3>1, <3>2
  <2>3. handled[k].to # 0
    BY <1>0, <1>2, <2>1 DEF CaughtUp, FollowInv
  <2>4. h[0][k] = obj[k].spec
    <3> SUFFICES ASSUME h[0][k] # obj[k].spec PROVE FALSE
      OBVIOUS
    <3>1. opRV < obj[k].spec
      BY <1>1, <1>2, <1>3, <1>4, <2>3 DEF Behind
    <3> QED
      BY <1>0, <1>3, <2>2, <3>1, VersionTypes
  <2> QED
    BY <1>3, <1>4, <2>1, <2>4
<1>6. CASE HandleObject
  <2>1. pc \in {"waiting", "judging"} /\ queue # << >> /\ UpdateCache(Head(queue))
    BY <1>6 DEF HandleObject, callVars
  <2>2. h[0][k] = obj[k].spec
    BY <1>0, <1>2, <1>3, <1>4, <2>1 DEF SyncInv
  <2>3. 1 \in 1 .. Len(queue) /\ Head(queue) = queue[1]
    BY <1>0, <2>1, FirstEvent
  <2>4. 1 \in 0 .. Ahead
    BY <1>0, <2>3, VersionTypes DEF Ahead
  <2>5. h[1][k] = obj[k].spec
    BY <1>1, <1>2, <1>3, <1>4, <2>2, <2>4 DEF Threaded
  <2>6. Moves(h, 1, queue[1].key, queue[1].new.spec) /\ 1 - 1 = 0
    BY <1>1, <2>3 DEF Threaded
  <2>7. handled'[k].to = IF k = queue[1].key THEN queue[1].new.spec ELSE handled[k].to
    BY <1>0, <1>2, <2>1, <2>3 DEF UpdateCache, TypeOK
  <2>8. handled'[k].to = h[1][k]
    BY <1>2, <1>4, <2>6, <2>7 DEF Moves
  <2> QED
    BY <1>2, <1>3, <2>5, <2>8
<1>7. CASE ~GatherSynced /\ ~HandleObject
  <2>1. pc \in {"waiting", "judging"}
    BY <1>7, GatherChanges DEF Gather
  <2>2. UNCHANGED handled
    BY <1>7, CacheChanges
  <2> QED
    BY <1>0, <1>2, <2>1, <2>2 DEF SyncInv
<1> QED
  BY <1>5, <1>6, <1>7

-----------------------------------------------------------------------------
(* No version is lost on the way to the cache.                             *)

(* The version the informer knows of an object was handled, or is at least *)
(* overtaken by a version in the queue.                                    *)
Covered ==
    \A k \in Objs : Exists(seen[k]) =>
        \/ seen[k].rv <= opRV
        \/ \E i \in 1 .. Len(queue) : Exists(queue[i].new) /\ seen[k].rv <= queue[i].new.rv

(* The informer knows an object as it is, or the last change of it in the  *)
(* watch says so.                                                          *)
Latest ==
    informer = "on" =>
        \A k \in Objs \ Outside : Exists(obj[k]) =>
            \/ seen[k] = obj[k] /\ \A i \in 1 .. Len(watch) : watch[i].key # k
            \/ \E i \in 1 .. Len(watch) :
                  /\ watch[i].key = k /\ watch[i].v = obj[k]
                  /\ \A j \in 1 .. Len(watch) : j > i => watch[j].key # k

CoverInv == Fresh => Covered /\ Latest

(* Steps that touch neither objects nor changes.                           *)
LEMMA CoverFrame ==
    ASSUME Covered, Latest, informer' = "on" => informer = "on",
           UNCHANGED <<obj, seen, queue, watch, opRV>>
    PROVE  Covered' /\ Latest'
<1>1. Covered'
  BY DEF Covered
<1>2. Latest'
  BY DEF Latest
<1> QED
  BY <1>1, <1>2

(* A write becomes the last change of its object in the watch.             *)
LEMMA CoverWrite ==
    ASSUME TypeOK, Covered, Latest, NEW l \in Objs, NEW v, Write(l, v)
    PROVE  Covered' /\ Latest'
<1>1. UNCHANGED <<seen, queue, opRV, informer>>
  BY DEF Write, cacheVars
<1>2. Covered'
  BY <1>1 DEF Covered
<1>3. \A k \in Objs : obj'[k] = IF k = l THEN v ELSE obj[k]
  BY DEF Write, TypeOK
<1>4. CASE informer = "on" /\ l \notin Outside
  <2>1. watch' = Append(watch, [key |-> l, v |-> v])
    BY <1>4 DEF Write
  <2>2. /\ Len(watch) \in Nat /\ Len(watch') = Len(watch) + 1
        /\ watch'[Len(watch) + 1] = [key |-> l, v |-> v]
        /\ \A i \in 1 .. Len(watch) : watch'[i] = watch[i]
    BY <2>1, VersionTypes
  <2>3. ASSUME NEW k \in Objs \ Outside, Exists(obj'[k])
        PROVE  \/ seen'[k] = obj'[k] /\ \A i \in 1 .. Len(watch') : watch'[i].key # k
               \/ \E i \in 1 .. Len(watch') :
                     /\ watch'[i].key = k /\ watch'[i].v = obj'[k]
                     /\ \A j \in 1 .. Len(watch') : j > i => watch'[j].key # k
    <3>1. CASE k = l
      <4>1. Len(watch) + 1 \in 1 .. Len(watch') /\ watch'[Len(watch) + 1].key = k
            /\ watch'[Len(watch) + 1].v = obj'[k]
        BY <1>3, <2>2, <3>1
      <4>2. \A j \in 1 .. Len(watch') : ~(j > Len(watch) + 1)
        BY <2>2
      <4> QED
        BY <4>1, <4>2
    <3>2. CASE k # l
      <4>1. obj'[k] = obj[k] /\ Exists(obj[k])
        BY <1>3, <2>3, <3>2
      <4>2. watch'[Len(watch) + 1].key # k
        BY <2>2, <3>2
      <4>3. CASE seen[k] = obj[k] /\ \A i \in 1 .. Len(watch) : watch[i].key # k
        BY <1>1, <2>2, <4>1, <4>2, <4>3
      <4>4. CASE \E i \in 1 .. Len(watch) :
                    /\ watch[i].key = k /\ watch[i].v = obj[k]
                    /\ \A j \in 1 .. Len(watch) : j > i => watch[j].key # k
        <5>1. PICK i \in 1 .. Len(watch) :
                    /\ watch[i].key = k /\ watch[i].v = obj[k]
                    /\ \A j \in 1 .. Len(watch) : j > i => watch[j].key # k
          BY <4>4
        <5>2. i \in 1 .. Len(watch') /\ watch'[i] = watch[i]
          BY <2>2
        <5>3. \A j \in 1 .. Len(watch') : j > i => watch'[j].key # k
          BY <2>2, <4>2, <5>1
        <5> QED
          BY <4>1, <5>1, <5>2, <5>3
      <4> QED
        BY <1>4, <4>1, <4>3, <4>4 DEF Latest
    <3> QED
      BY <3>1, <3>2
  <2> QED
    BY <1>2, <2>3 DEF Latest
<1>5. CASE ~(informer = "on" /\ l \notin Outside)
  <2>1. watch' = watch
    BY <1>5 DEF Write
  <2> QED
    BY <1>1, <1>2, <1>3, <1>5, <2>1 DEF Latest
<1> QED
  BY <1>4, <1>5

(* A delivered change is in the queue.                                     *)
LEMMA CoverDeliver ==
    ASSUME TypeOK, Covered, Latest, Deliver, queueOpen
    PROVE  Covered' /\ Latest'
<1> USE DEF apiVars, cacheVars
<1>1. /\ watch # << >> /\ Len(watch) \in Nat /\ Len(watch) >= 1 /\ Head(watch) = watch[1]
      /\ 1 \in 1 .. Len(watch) /\ Len(Tail(watch)) = Len(watch) - 1
      /\ \A i \in 1 .. (Len(watch) - 1) : Tail(watch)[i] = watch[i + 1]
  BY VersionTypes DEF Deliver
<1> DEFINE k1 == watch[1].key
           v1 == watch[1].v
           old == [spec |-> seen[k1].spec, rv |-> IF Exists(v1) THEN seen[k1].rv ELSE v1.rv]
           e == [key |-> k1, old |-> old, new |-> v1]
<1>2. queue' = queue \o <<e>> /\ e.new = v1
  BY <1>1 DEF Deliver, Enqueue
<1> HIDE DEF e
<1>3. /\ watch' = Tail(watch) /\ UNCHANGED <<obj, opRV, informer>> /\ informer = "on"
      /\ \A k \in Objs : seen'[k] = IF k = k1 THEN v1 ELSE seen[k]
  BY <1>1 DEF Deliver, TypeOK
<1>4. /\ Len(queue) \in Nat /\ Len(queue') = Len(queue) + 1 /\ queue'[Len(queue) + 1] = e
      /\ \A i \in 1 .. Len(queue) : queue'[i] = queue[i]
  BY <1>2, VersionTypes
<1>5. /\ Len(watch') = Len(watch) - 1
      /\ \A i \in 1 .. Len(watch') : watch'[i] = watch[i + 1] /\ i + 1 \in 1 .. Len(watch)
      /\ \A i \in 1 .. Len(watch) : i > 1 => i - 1 \in 1 .. Len(watch') /\ watch'[i - 1] = watch[i]
  BY <1>1, <1>3
<1>6. v1.rv \in Nat
  BY <1>1, VersionTypes
<1> HIDE DEF k1, v1
<1>7. ASSUME NEW k \in Objs, Exists(seen'[k])
      PROVE  \/ seen'[k].rv <= opRV'
             \/ \E i \in 1 .. Len(queue') : /\ Exists(queue'[i].new)
                                            /\ seen'[k].rv <= queue'[i].new.rv
  <2>1. CASE k = k1
    <3>1. Len(queue) + 1 \in 1 .. Len(queue') /\ seen'[k] = v1 /\ v1.rv <= v1.rv
      BY <1>3, <1>4, <1>6, <2>1
    <3> QED
      BY <1>2, <1>4, <1>7, <3>1
  <2>2. CASE k # k1
    <3>1. seen'[k] = seen[k]
      BY <1>3, <2>2
    <3>2. CASE seen[k].rv <= opRV
      BY <1>3, <3>1, <3>2
    <3>3. CASE \E i \in 1 .. Len(queue) : Exists(queue[i].new) /\ seen[k].rv <= queue[i].new.rv
      <4>1. PICK i \in 1 .. Len(queue) : Exists(queue[i].new) /\ seen[k].rv <= queue[i].new.rv
        BY <3>3
      <4>2. i \in 1 .. Len(queue') /\ queue'[i] = queue[i]
        BY <1>4
      <4> QED
        BY <3>1, <4>1, <4>2
    <3> QED
      BY <1>7, <3>1, <3>2, <3>3 DEF Covered
  <2> QED
    BY <2>1, <2>2
<1>8. ASSUME NEW k \in Objs \ Outside, Exists(obj[k])
      PROVE  \/ seen'[k] = obj[k] /\ \A i \in 1 .. Len(watch') : watch'[i].key # k
             \/ \E i \in 1 .. Len(watch') :
                   /\ watch'[i].key = k /\ watch'[i].v = obj[k]
                   /\ \A j \in 1 .. Len(watch') : j > i => watch'[j].key # k
  <2>1. CASE seen[k] = obj[k] /\ \A i \in 1 .. Len(watch) : watch[i].key # k
    <3>1. k # k1
      BY <1>1, <2>1 DEF k1
    <3> QED
      BY <1>3, <1>5, <2>1, <3>1
  <2>2. CASE \E i \in 1 .. Len(watch) :
                /\ watch[i].key = k /\ watch[i].v = obj[k]
                /\ \A j \in 1 .. Len(watch) : j > i => watch[j].key # k
    <3>1. PICK i \in 1 .. Len(watch) :
                /\ watch[i].key = k /\ watch[i].v = obj[k]
                /\ \A j \in 1 .. Len(watch) : j > i => watch[j].key # k
      BY <2>2
    <3>2. CASE i = 1
      <4>1. seen'[k] = obj[k]
        BY <1>3, <3>1, <3>2 DEF k1, v1
      <4>2. \A j \in 1 .. Len(watch') : watch'[j].key # k
        <5> SUFFICES ASSUME NEW j \in 1 .. Len(watch') PROVE watch'[j].key # k
          OBVIOUS
        <5>1. watch'[j] = watch[j + 1] /\ j + 1 \in 1 .. Len(watch) /\ j + 1 > 1
          BY <1>5
        <5> QED
          BY <3>1, <3>2, <5>1
      <4> QED
        BY <4>1, <4>2
    <3>3. CASE i > 1
      <4>1. i - 1 \in 1 .. Len(watch') /\ watch'[i - 1] = watch[i]
        BY <1>5, <3>3
      <4>2. ASSUME NEW j \in 1 .. Len(watch'), j > i - 1 PROVE watch'[j].key # k
        <5>1. watch'[j] = watch[j + 1] /\ j + 1 \in 1 .. Len(watch)
          BY <1>5
        <5>2. j + 1 > i
          BY <4>2
        <5> QED
          BY <3>1, <5>1, <5>2
      <4> QED
        BY <3>1, <4>1, <4>2
    <3> QED
      BY <1>1, <3>2, <3>3
  <2> QED
    BY <1>3, <1>8, <2>1, <2>2 DEF Latest
<1>9. Covered'
  BY <1>7 DEF Covered
<1>10. Latest'
  <2>1. obj' = obj
    BY <1>3
  <2> QED
    BY <1>8, <2>1 DEF Latest
<1> QED
  BY <1>9, <1>10

(* A LIST enqueues what the informer did not know.                         *)
LEMMA CoverReplace ==
    ASSUME TypeOK, Covered, Replace(seen), queueOpen, UNCHANGED <<obj, opRV>>
    PROVE  Covered' /\ Latest'
<1>1. /\ watch' = << >> /\ Len(watch') = 0 /\ informer' = "on"
      /\ \A k \in Objs : seen'[k] = IF k \in Outside THEN Absent ELSE obj[k]
  BY ReplaceEvents DEF TypeOK
<1>2. PICK s, L : Listing(seen, s, L) /\ queue' = queue \o L
  BY ReplaceEvents DEF TypeOK
<1>3. L \in Seq(Event) /\ Len(L) = Len(s) /\ Len(s) \in Nat /\ queue \in Seq(Event)
  BY <1>2, VersionTypes DEF Listing
<1>4. /\ Len(queue') = Len(queue) + Len(L) /\ Len(queue) \in Nat
      /\ \A i \in 1 .. Len(queue) : queue'[i] = queue[i]
      /\ \A i \in 1 .. Len(queue') : i > Len(queue) => queue'[i] = L[i - Len(queue)]
  BY <1>2, <1>3, SeqConcat
<1>5. ASSUME NEW k \in Objs, Exists(seen'[k])
      PROVE  \/ seen'[k].rv <= opRV'
             \/ \E i \in 1 .. Len(queue') : /\ Exists(queue'[i].new)
                                            /\ seen'[k].rv <= queue'[i].new.rv
  <2>1. k \notin Outside /\ seen'[k] = obj[k] /\ Exists(obj[k]) /\ obj[k].rv \in Nat
    BY <1>1, <1>5, VersionTypes DEF Exists, Absent
  <2>2. CASE k \in Differs(seen)
    <3>1. PICK j \in 1 .. Len(s) : s[j] = k
      BY <1>2, <2>2 DEF Listing
    <3>2. L[j].new = obj[k]
      BY <1>2, <2>1, <3>1 DEF Listing
    <3>3. /\ Len(queue) + j \in 1 .. Len(queue') /\ Len(queue) + j > Len(queue)
          /\ (Len(queue) + j) - Len(queue) = j
      BY <1>3, <1>4
    <3>4. queue'[Len(queue) + j] = L[j]
      BY <1>4, <3>3
    <3>5. obj[k].rv <= obj[k].rv
      BY <2>1
    <3> QED
      BY <2>1, <3>2, <3>3, <3>4, <3>5
  <2>3. CASE k \notin Differs(seen)
    <3>1. seen[k] = obj[k]
      BY <2>1, <2>3 DEF Differs
    <3>2. CASE seen[k].rv <= opRV
      BY <2>1, <3>1, <3>2
    <3>3. CASE \E i \in 1 .. Len(queue) : Exists(queue[i].new) /\ seen[k].rv <= queue[i].new.rv
      <4>1. PICK i \in 1 .. Len(queue) : Exists(queue[i].new) /\ seen[k].rv <= queue[i].new.rv
        BY <3>3
      <4>2. i \in 1 .. Len(queue') /\ queue'[i] = queue[i]
        BY <1>3, <1>4
      <4> QED
        BY <2>1, <3>1, <4>1, <4>2
    <3> QED
      BY <2>1, <3>1, <3>2, <3>3 DEF Covered
  <2> QED
    BY <2>2, <2>3
<1>6. Covered'
  BY <1>5 DEF Covered
<1>7. Latest'
  BY <1>1 DEF Latest
<1> QED
  BY <1>6, <1>7

(* A handled version is at least the one the event carried.                *)
LEMMA CoverHandle ==
    ASSUME TypeOK, Covered, Latest, HandleObject, \A k \in Objs : seen[k].rv \in Nat
    PROVE  Covered' /\ Latest'
<1> USE DEF apiVars, infVars
<1>1. /\ queue # << >> /\ queue' = Tail(queue) /\ UpdateCache(Head(queue))
      /\ UNCHANGED <<obj, seen, watch, informer>>
  BY DEF HandleObject
<1>2. /\ Head(queue) = queue[1] /\ Head(queue) \in Event /\ 1 \in 1 .. Len(queue)
      /\ Len(queue) \in Nat /\ Len(queue) >= 1 /\ Len(queue') = Len(queue) - 1
      /\ \A i \in 1 .. Len(queue') : queue'[i] = queue[i + 1]
  BY <1>1, QueueHead
<1>3. opRV <= opRV' /\ (Exists(queue[1].new) => queue[1].new.rv <= opRV')
  BY <1>1, <1>2, HandledVersion
<1>4. opRV \in Nat /\ opRV' \in Nat /\ queue[1].new.rv \in Nat
  <2>1. opRV' \in RV
    BY <1>1, <1>2, UpdateCacheType
  <2> QED
    BY <1>2, <2>1, VersionTypes
<1>5. ASSUME NEW k \in Objs, Exists(seen[k])
      PROVE  \/ seen[k].rv <= opRV'
             \/ \E i \in 1 .. Len(queue') : /\ Exists(queue'[i].new)
                                            /\ seen[k].rv <= queue'[i].new.rv
  <2>1. CASE seen[k].rv <= opRV
    BY <1>3, <1>4, <2>1
  <2>2. CASE \E i \in 1 .. Len(queue) : Exists(queue[i].new) /\ seen[k].rv <= queue[i].new.rv
    <3>1. PICK i \in 1 .. Len(queue) : Exists(queue[i].new) /\ seen[k].rv <= queue[i].new.rv
      BY <2>2
    <3>2. CASE i = 1
      BY <1>3, <1>4, <3>1, <3>2
    <3>3. CASE i > 1
      <4>1. i - 1 \in 1 .. Len(queue') /\ (i - 1) + 1 = i
        BY <1>2, <3>3
      <4>2. queue'[i - 1] = queue[i]
        BY <1>2, <4>1
      <4> QED
        BY <3>1, <4>1, <4>2
    <3> QED
      BY <1>2, <3>2, <3>3
  <2> QED
    BY <1>5, <2>1, <2>2 DEF Covered
<1>6. Covered'
  BY <1>1, <1>5 DEF Covered
<1>7. Latest'
  BY <1>1 DEF Latest
<1> QED
  BY <1>6, <1>7

(* CoverInv is inductive.                                                  *)
LEMMA CoverStep == TypeInv /\ ControlInv /\ CoverInv /\ [Next]_vars => CoverInv'
<1> SUFFICES ASSUME TypeInv, ControlInv, CoverInv, [Next]_vars, Fresh'
             PROVE  Covered' /\ Latest'
  BY DEF CoverInv
<1> USE DEF apiVars, infVars, mapVars, cacheVars, callVars
<1>0. TypeOK /\ Fresh /\ ~Stop /\ queueOpen
  BY FreshBefore DEF TypeInv, ControlInv
<1>1. Covered /\ Latest /\ \A k \in Objs : seen[k].rv \in Nat
  BY <1>0, VersionTypes DEF CoverInv
<1>2. CASE Cluster
  BY <1>0, <1>1, <1>2, CoverWrite DEF Cluster, ApplyObject, RemoveObject, UpdateStatus
<1>3. CASE Deliver
  BY <1>0, <1>1, <1>3, CoverDeliver
<1>4. CASE FirstList \/ Relist
  BY <1>0, <1>1, <1>4, CoverReplace DEF FirstList, Relist
<1>5. CASE HandleObject
  BY <1>0, <1>1, <1>5, CoverHandle
<1>6. CASE CheckerEnds \/ \E k \in Objs : CheckerTimesOut(k) \/ CheckerCancelled(k)
  <2>1. UNCHANGED <<obj, seen, queue, watch, opRV, informer>>
    BY <1>6 DEF CheckerEnds, CheckerSucceeds, CheckerFails, ReplicasStartFails,
                CheckerTimesOut, CheckerCancelled, Outcome
  <2> QED
    BY <1>1, <2>1, CoverFrame
<1>7. ASSUME NEW c \in dropped, DroppedEnds(c) PROVE Covered' /\ Latest'
  <2>1. UNCHANGED <<obj, seen, queue, watch, opRV, informer>>
    BY <1>7 DEF DroppedEnds
  <2> QED
    BY <1>1, <2>1, CoverFrame
<1>8. CASE Start
  <2>1. seen = NoObject
    BY <1>0, <1>8 DEF Start, ControlInv, Fresh
  <2>2. CASE Replace(NoObject)
    BY <1>0, <1>1, <1>8, <2>1, <2>2, CoverReplace DEF Start
  <2>3. CASE ~Replace(NoObject)
    <3>1. UNCHANGED <<obj, seen, queue, watch, opRV>> /\ informer' # "on"
      BY <1>8, <2>1, <2>3 DEF Start
    <3> QED
      BY <1>1, <3>1, CoverFrame
  <2> QED
    BY <2>2, <2>3
<1>9. CASE \/ RepeatedCall \/ GatherRefused \/ Gather \/ GatherSynced \/ GatherSyncTimeout
           \/ GatherWaited \/ GatherJudges \/ StopQueue \/ StopCheckers \/ Finished
           \/ UNCHANGED vars
  <2>1. UNCHANGED <<obj, seen, queue, watch, opRV, informer>>
    BY <1>9 DEF RepeatedCall, GatherRefused, Gather, GatherSynced, GatherSyncTimeout,
                GatherWaited, GatherJudges, StopQueue, StopCheckers, Finished, vars
  <2> QED
    BY <1>1, <2>1, CoverFrame
<1> QED
  BY <1>0, <1>2, <1>3, <1>4, <1>5, <1>6, <1>7, <1>8, <1>9 DEF Next, Progress, Execute

-----------------------------------------------------------------------------
(* The theorems.                                                           *)

BarrierInv == /\ TypeInv /\ ControlInv /\ VersionInv /\ StatusInv /\ ThreadInv
              /\ FollowInv /\ ListedInv /\ SyncInv /\ CoverInv

(* The conjunction of the invariants above holds in every state.           *)
LEMMA BarrierInvariant == Spec => []BarrierInv
<1>1. Init => BarrierInv
  <2> SUFFICES ASSUME Init PROVE BarrierInv
    OBVIOUS
  <2>1. TypeInv /\ ControlInv /\ VersionInv /\ StatusInv /\ ThreadInv
    BY TypeInit, BarrierInit
  <2>2. /\ \A k \in Objs : /\ handled[k].to = 0 /\ handled[k].from = 0
                           /\ seen[k].spec = 0
        /\ objectKeys = {} /\ informer = "off" /\ pc = "idle"
    BY DEF Init, NoObject, Absent
  <2>3. FollowInv /\ ListedInv /\ SyncInv /\ CoverInv
    BY <2>2 DEF FollowInv, ListedInv, SyncInv, CoverInv, Covered, Latest, Exists, Gathering
  <2> QED
    BY <2>1, <2>3 DEF BarrierInv
<1>2. BarrierInv /\ [Next]_vars => BarrierInv'
  BY TypeStep, ControlStep, VersionStep, StatusStep, ThreadStep, FollowStep, ListedStep,
     SyncStep, CoverStep DEF BarrierInv
<1> QED
  BY <1>1, <1>2, PTL DEF Spec

(* CheckersFollowCache: with the worker, the informer and the checkers     *)
(* interleaved in any way, relists and interference included, the checker  *)
(* of every object is for the version handled last.                        *)
THEOREM CheckersFollow == Spec => []CheckersFollowCache
<1>1. BarrierInv => CheckersFollowCache
  BY DEF BarrierInv, FollowInv, Fresh, CheckersFollowCache
<1> QED
  BY <1>1, BarrierInvariant, PTL

(* A measurement that gathers and was started once runs since then.        *)
LEMMA GatherFresh ==
    ASSUME BarrierInv, Gathering, epoch <= 1
    PROVE  Fresh /\ epoch = 1
<1>1. epoch \in Nat
  BY VersionTypes DEF BarrierInv, TypeInv
<1>2. isRunning /\ epoch # 0
  BY DEF BarrierInv, ControlInv
<1> QED
  BY <1>1, <1>2 DEF Fresh

(* When gather returns no error, every checker it judged has succeeded.    *)
LEMMA JudgedOk ==
    ASSUME BarrierInv, [Next]_vars, GatherSucceeds, epoch <= 1, NEW k \in Objs,
           checkerMap[k] # NoChecker
    PROVE  /\ Fresh
           /\ checkerMap[k].status = IF checkerMap[k].gone THEN "deleted" ELSE "running"
           /\ checkerMap[k].epoch = epoch
<1> USE DEF apiVars, infVars, mapVars, cacheVars, callVars
<1>0. TypeOK /\ epoch \in Nat
  BY VersionTypes DEF BarrierInv, TypeInv
<1>1. Fresh /\ epoch = 1
  BY GatherFresh DEF Gathering, GatherSucceeds
<1>2. Verdict = "ok"
  <2>1. GatherJudges
    <3>1. pc = "judging" /\ pc' = "idle"
      BY DEF GatherSucceeds
    <3>2. CASE Cluster \/ Relist \/ CheckerEnds \/ Finished \/ UNCHANGED vars
      BY <3>1, <3>2 DEF Cluster, ApplyObject, RemoveObject, UpdateStatus, Write, Relist,
              CheckerEnds, CheckerSucceeds, CheckerFails, ReplicasStartFails, Outcome, Finished,
              vars
    <3>3. CASE Execute
      BY <3>1, <3>3 DEF Execute, Start, RepeatedCall, GatherRefused, Gather, Stop, Call
    <3>4. CASE Progress
      BY <3>1, <3>4 DEF Progress, Deliver, FirstList, HandleObject, CheckerTimesOut,
              CheckerCancelled, Outcome, DroppedEnds, GatherSynced, GatherSyncTimeout,
              GatherWaited, StopQueue, StopCheckers
    <3> QED
      BY <3>2, <3>3, <3>4 DEF Next
  <2> QED
    BY <2>1 DEF GatherJudges, GatherSucceeds
<1>3. /\ WithStatus({"unknown"}) = {} /\ WithStatus({"timeout", "deleteTimeout"}) = {}
      /\ WithStatus({"failed"}) = {}
  BY <1>2 DEF Verdict
<1>4. checkerMap[k].status \notin {"unknown", "timeout", "deleteTimeout", "failed"}
  BY <1>3 DEF WithStatus
<1>5. checkerMap[k].status \in Status /\ checkerMap[k].epoch \in Nat
  BY <1>0, ConstantsAssumption DEF TypeOK, Checker
<1>6. /\ checkerMap[k].status = "deleted" => checkerMap[k].gone
      /\ checkerMap[k].status = "running" => ~checkerMap[k].gone
      /\ checkerMap[k].epoch # 0 /\ checkerMap[k].epoch <= epoch
  BY DEF BarrierInv, StatusInv
<1> QED
  BY <1>1, <1>4, <1>5, <1>6 DEF Status

(* DeletionsAwaited, for a measurement that is started once: when gather   *)
(* returns no error the pods of every object whose deletion was handled    *)
(* were seen gone.                                                         *)
THEOREM DeletionsAreAwaited == Spec /\ [](epoch <= 1) => DeletionsAwaited
<1> DEFINE A == GatherSucceeds =>
                   \A k \in Objs \ Unwatchable :
                      handled[k].from # 0 /\ handled[k].to = 0 => Seen(k, handled[k].from, TRUE)
<1>1. BarrierInv /\ epoch <= 1 /\ [Next]_vars => A
  <2> SUFFICES ASSUME BarrierInv, epoch <= 1, [Next]_vars, GatherSucceeds,
                      NEW k \in Objs \ Unwatchable, handled[k].from # 0, handled[k].to = 0
               PROVE  Seen(k, handled[k].from, TRUE)
    OBVIOUS
  <2>1. Fresh
    BY GatherFresh DEF Gathering, GatherSucceeds
  <2>2. /\ checkerMap[k] # NoChecker /\ checkerMap[k].spec = handled[k].from
        /\ checkerMap[k].gone
    BY <2>1 DEF BarrierInv, FollowInv
  <2> QED
    BY <2>2, JudgedOk DEF Seen
<1> QED
  BY <1>1, BarrierInvariant, PTL DEF Spec, DeletionsAwaited

(* GatherSound, for a measurement that is started once, whose objects are  *)
(* not changed while it gathers and can all be watched, and an informer    *)
(* that does not relist: the barrier holds for any number of objects,      *)
(* writes, calls and any interleaving.                                     *)
THEOREM GatherIsSound ==
    ASSUME ~Interference, Unwatchable = {}, MaxRelists = 0
    PROVE  Spec /\ [](epoch <= 1) => GatherSound
<1> DEFINE A == GatherSucceeds => \A k \in ListedKeys : Seen(k, listed[k].spec, FALSE)
<1>1. BarrierInv /\ epoch <= 1 /\ [Next]_vars => A
  <2> SUFFICES ASSUME BarrierInv, epoch <= 1, [Next]_vars, GatherSucceeds,
                      NEW k \in ListedKeys
               PROVE  Seen(k, listed[k].spec, FALSE)
    OBVIOUS
  <2>1. Fresh /\ pc = "judging" /\ k \in Objs /\ listed[k].spec # 0
    BY GatherFresh DEF Gathering, GatherSucceeds, ListedKeys, Exists
  <2>2. handled[k].to = listed[k].spec
    BY <2>1 DEF BarrierInv, SyncInv
  <2>3. /\ checkerMap[k] # NoChecker /\ checkerMap[k].spec = listed[k].spec
        /\ ~checkerMap[k].gone
    BY <2>1, <2>2 DEF BarrierInv, FollowInv
  <2> QED
    BY <2>1, <2>3, JudgedOk DEF Seen
<1> QED
  BY <1>1, BarrierInvariant, PTL DEF Spec, GatherSound

(* NoSpuriousSyncTimeout, when nothing is outside the namespace the        *)
(* informer watches and objects are not changed while gather runs: relists *)
(* and restarts included, gather does not give up on an idle handler.      *)
THEOREM SyncTimeoutIsReal ==
    ASSUME ~Interference, Outside = {}
    PROVE  Spec => NoSpuriousSyncTimeout
<1> DEFINE A == pc = "syncing" /\ pc' = "idle" /\ result' = "syncTimeout" =>
                   informer # "on" \/ watch # << >> \/ queue # << >> \/ ~queueOpen
<1>1. BarrierInv /\ [Next]_vars => A
  <2> SUFFICES ASSUME BarrierInv, [Next]_vars, pc = "syncing", pc' = "idle", informer = "on",
                      watch = << >>, queue = << >>, queueOpen
               PROVE  CaughtUp /\ ~CaughtUp
    OBVIOUS
  <2> USE DEF apiVars, infVars, mapVars, cacheVars, callVars
  <2>0. TypeOK /\ opRV \in Nat
    BY VersionTypes DEF BarrierInv, TypeInv
  <2>1. ~CaughtUp
    <3>1. CASE Cluster \/ Relist \/ CheckerEnds \/ Finished \/ UNCHANGED vars
      BY <3>1 DEF Cluster, ApplyObject, RemoveObject, UpdateStatus, Write, Relist,
              CheckerEnds, CheckerSucceeds, CheckerFails, ReplicasStartFails, Outcome, Finished,
              vars
    <3>2. CASE Execute
      BY <3>2 DEF Execute, Start, RepeatedCall, GatherRefused, Gather, Stop, Call
    <3>3. CASE Progress
      BY <3>3 DEF Progress, Deliver, FirstList, HandleObject, CheckerTimesOut,
              CheckerCancelled, Outcome, DroppedEnds, GatherSynced, GatherSyncTimeout,
              GatherWaited, GatherJudges, StopQueue, StopCheckers
    <3> QED
      BY <3>1, <3>2, <3>3 DEF Next
  <2>2. Fresh
    BY DEF BarrierInv, ControlInv
  <2>3. \A k \in Objs : /\ listed[k].spec = obj[k].spec /\ listed[k].rv <= obj[k].rv
                        /\ listed[k].rv \in Nat /\ obj[k].rv \in Nat
    <3>1. \A k \in Objs : listed[k].rv \in RV
      BY <2>0 DEF TypeOK, Version
    <3> QED
      BY <2>0, <3>1, VersionTypes DEF BarrierInv, ListedInv, Gathering
  <2>4. \A k \in Objs : handled[k].to = obj[k].spec
    <3>1. PICK h : Threaded(h)
      BY <2>2 DEF BarrierInv, ThreadInv
    <3>2. Ahead = 0
      BY DEF Ahead
    <3> QED
      BY <3>1, <3>2 DEF Threaded
  <2>5. objectKeys = ListedKeys
    BY <2>2, <2>3, <2>4 DEF BarrierInv, FollowInv, ListedKeys, Exists
  <2>6. \A k \in ListedKeys : listed[k].rv <= opRV
    <3> SUFFICES ASSUME NEW k \in ListedKeys PROVE listed[k].rv <= opRV
      OBVIOUS
    <3>1. k \in Objs \ Outside /\ Exists(obj[k])
      BY <2>3 DEF ListedKeys, Exists
    <3>2. seen[k] = obj[k]
      BY <2>2, <3>1 DEF BarrierInv, CoverInv, Latest
    <3>3. obj[k].rv <= opRV
      BY <2>2, <3>1, <3>2 DEF BarrierInv, CoverInv, Covered
    <3> QED
      BY <2>0, <2>3, <3>1, <3>3
  <2>7. opRV >= MaxListed
    BY <2>0, <2>6, MaxListedBounds
  <2> QED
    BY <2>1, <2>5, <2>7 DEF CaughtUp
<1> QED
  BY <1>1, BarrierInvariant, PTL DEF Spec, NoSpuriousSyncTimeout
=============================================================================
