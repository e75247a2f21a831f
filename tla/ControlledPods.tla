--------------------------- MODULE ControlledPods ---------------------------
(***************************************************************************)
(* The WaitForControlledPodsRunning measurement: the barrier between the   *)
(* steps of most tests.                                                    *)
(*                                                                         *)
(*   pkg/measurement/common/wait_for_controlled_pods.go                    *)
(*   pkg/measurement/util/workerqueue/workerqueue.go                       *)
(*   pkg/measurement/util/checker/checker_map.go                           *)
(*   pkg/measurement/util/informer/informer.go                             *)
(*   pkg/measurement/util/wait_for_pods.go (outcomes)                      *)
(*                                                                         *)
(* An informer follows the controlling objects and puts every event on a   *)
(* queue.  One worker handles the events under the measurement's lock: it  *)
(* replaces the checker of the object and updates a cache of keys and the  *)
(* largest resource version handled.  A checker is a goroutine that waits  *)
(* for the pods of one version of one object.  gather LISTs the objects,   *)
(* waits until the cache has caught up, waits for all checker goroutines,  *)
(* and judges the checkers that are in the map then.                       *)
(*                                                                         *)
(* The API server hands out resource versions 1, 2, ...; the version of a  *)
(* spec is the resource version of the write that set it, 0 if the object  *)
(* does not exist.  Pods are not modelled: a checker that waits may find   *)
(* the pods it waits for, or not.                                          *)
(***************************************************************************)
EXTENDS Integers, Sequences, FiniteSets

CONSTANTS
    Objs,           \* controlling objects that match the selector
    Outside,        \* those outside the namespace of the measurement
    Unwatchable,    \* objects for which waitForRuntimeObject fails
    NodeCounted,    \* objects whose replicas come from a NodeCounter
    TimesOut,       \* operationTimeout is not zero
    Interference,   \* specs may change while gather runs
    MaxRV,          \* bound: writes of objects
    MaxRelists,     \* bound: relists of the informer after its first LIST
    MaxCalls        \* bound: calls of Execute

ASSUME ConstantsAssumption ==
    /\ IsFiniteSet(Objs)
    /\ Outside \subseteq Objs
    /\ Unwatchable \subseteq Objs
    /\ NodeCounted \subseteq Objs
    /\ TimesOut \in BOOLEAN
    /\ Interference \in BOOLEAN
    /\ MaxRV \in Nat
    /\ MaxRelists \in Nat
    /\ MaxCalls \in Nat

RV      == 0 .. MaxRV
Version == [spec : RV, rv : RV]
Absent  == [spec |-> 0, rv |-> 0]
Exists(v) == v.spec # 0

Event   == [key : Objs, old : Version, new : Version]
Status  == {"unknown", "running", "deleted", "failed", "timeout", "deleteTimeout"}

(* objectChecker and its goroutine.  gone: it waits for the pods of a      *)
(* deleted object to go; live: the goroutine has not returned; stopped:    *)
(* its context is cancelled; epoch: the start it belongs to.               *)
Checker == [key : Objs, spec : RV, gone : BOOLEAN, epoch : 0 .. MaxCalls,
            status : Status, live : BOOLEAN, stopped : BOOLEAN]
NoChecker == [status |-> "none", live |-> FALSE, stopped |-> FALSE]

VARIABLES
    rvNow,      \* last resource version handed out
    obj,        \* Version of each object in the API server
    informer,   \* "off", "starting" (not listed yet) or "on"
    relists,    \* relists so far
    watch,      \* changes not yet delivered to the informer
    seen,       \* the informer's store
    queue,      \* events in the worker queue
    queueOpen,  \* the worker queue is not shut down
    isRunning,
    objectKeys,
    opRV,       \* opResourceVersion
    checkerMap, \* the checker of each key, NoChecker if there is none
    dropped,    \* checkers not in the map any more whose goroutine is live
    pc,         \* where the caller of Execute is
    calls,      \* calls of Execute so far
    epoch,      \* starts so far
    listed,     \* what gather's LIST returned (local to gather)
    result,     \* what the last Execute returned
    handled     \* history: spec versions of the last event handled, per object

apiVars  == <<rvNow, obj>>
infVars  == <<informer, relists, watch, seen>>
mapVars  == <<checkerMap, dropped>>
cacheVars == <<objectKeys, opRV, handled>>
callVars == <<pc, calls, epoch, listed, result>>
vars == <<apiVars, infVars, queue, queueOpen, isRunning, cacheVars, mapVars, callVars>>

Largest(S) == CHOOSE m \in S : \A n \in S : n <= m
NoObject   == [k \in Objs |-> Absent]
LiveKeys   == { k \in Objs : checkerMap[k].live }
Gathering  == pc \in {"syncing", "waiting", "judging"}

Init ==
    /\ rvNow = 0
    /\ obj = NoObject
    /\ informer = "off"
    /\ relists = 0
    /\ watch = << >>
    /\ seen = NoObject
    /\ queue = << >>
    /\ queueOpen = TRUE
    /\ isRunning = FALSE
    /\ objectKeys = {}
    /\ opRV = 0
    /\ checkerMap = [k \in Objs |-> NoChecker]
    /\ dropped = {}
    /\ pc = "idle"
    /\ calls = 0
    /\ epoch = 0
    /\ listed = NoObject
    /\ result = "none"
    /\ handled = [k \in Objs |-> [from |-> 0, to |-> 0]]

-----------------------------------------------------------------------------
(* The cluster: phases write objects, controllers update their status.     *)

Write(k, v) ==
    /\ rvNow < MaxRV
    /\ rvNow' = rvNow + 1
    /\ obj' = [obj EXCEPT ![k] = v]
    /\ watch' = IF informer = "on" /\ k \notin Outside
                THEN Append(watch, [key |-> k, v |-> v]) ELSE watch
    /\ UNCHANGED <<informer, relists, seen, queue, queueOpen, isRunning,
                   cacheVars, mapVars, callVars>>

ApplyObject(k)  == /\ Gathering => Interference
                   /\ Write(k, [spec |-> rvNow + 1, rv |-> rvNow + 1])
RemoveObject(k) == /\ Gathering => Interference
                   /\ Exists(obj[k])
                   /\ Write(k, [spec |-> 0, rv |-> rvNow + 1])
UpdateStatus(k) == /\ Exists(obj[k])
                   /\ Write(k, [spec |-> obj[k].spec, rv |-> rvNow + 1])

-----------------------------------------------------------------------------
(* The informer.                                                           *)

(* addEventHandler: w.queue.Add; a queue that is shut down drops events.   *)
Enqueue(es) == queue' = IF queueOpen THEN queue \o es ELSE queue

(* A watch event: Add, Update or Delete, decided by the informer's store.  *)
(* The object of a Delete carries the resource version of the deletion.    *)
Deliver ==
    /\ informer = "on"
    /\ watch # << >>
    /\ LET k == Head(watch).key
           v == Head(watch).v
           old == [spec |-> seen[k].spec, rv |-> IF Exists(v) THEN seen[k].rv ELSE v.rv]
       IN  /\ Enqueue(<<[key |-> k, old |-> old, new |-> v]>>)
           /\ seen' = [seen EXCEPT ![k] = v]
    /\ watch' = Tail(watch)
    /\ UNCHANGED <<apiVars, informer, relists, queueOpen, isRunning, cacheVars, mapVars,
                   callVars>>

(* The orders in which the objects of a LIST are handed out: LISTs are not *)
(* sorted by resource version.                                             *)
Orders(S) == { s \in [1 .. Cardinality(S) -> S] : { s[i] : i \in DOMAIN s } = S }

(* A LIST: the informer's store is replaced, and every difference becomes  *)
(* an event.  A deletion only noticed now has the last known version.      *)
ListEvents(store, s) ==
    [i \in DOMAIN s |-> [key |-> s[i], old |-> store[s[i]],
                         new |-> IF Exists(obj[s[i]]) THEN obj[s[i]] ELSE Absent]]

Replace(store) ==
    \E s \in Orders({ k \in Objs \ Outside : /\ store[k] # obj[k]
                                             /\ Exists(store[k]) \/ Exists(obj[k]) }) :
        /\ Enqueue(ListEvents(store, s))
        /\ seen' = [k \in Objs |-> IF k \in Outside THEN Absent ELSE obj[k]]
        /\ watch' = << >>
        /\ informer' = "on"

FirstList ==
    /\ informer = "starting"
    /\ Replace(seen)
    /\ UNCHANGED <<apiVars, relists, queueOpen, isRunning, cacheVars, mapVars, callVars>>

Relist ==
    /\ informer = "on"
    /\ relists < MaxRelists
    /\ relists' = relists + 1
    /\ Replace(seen)
    /\ UNCHANGED <<apiVars, queueOpen, isRunning, cacheVars, mapVars, callVars>>

-----------------------------------------------------------------------------
(* The worker: handleObject, run as a whole under w.lock.                  *)

(* updateCacheLocked, run last for every event.                            *)
UpdateCache(e) ==
    /\ objectKeys' = (objectKeys \ (IF Exists(e.old) THEN {e.key} ELSE {}))
                         \cup (IF Exists(e.new) THEN {e.key} ELSE {})
    /\ opRV' = Largest({opRV} \cup { v.rv : v \in { x \in {e.old, e.new} : Exists(x) } })
    /\ handled' = [handled EXCEPT ![e.key] = [from |-> e.old.spec, to |-> e.new.spec]]

(* Mutants: a replaced checker is stopped without looking whether there is *)
(* one; a replaced checker is not stopped.                                 *)
DroppedWithoutLookup(k) == { [c EXCEPT !.stopped = TRUE] : c \in {checkerMap[k]} }
DroppedRunning(k) == { x \in {checkerMap[k]} : x.live }

(* checker.Map: the checker of key k leaves the map and is stopped.        *)
Dropped(k) == { [c EXCEPT !.stopped = TRUE] : c \in { x \in {checkerMap[k]} : x.live } }

NewChecker(e) ==
    [key |-> e.key, gone |-> ~Exists(e.new), epoch |-> epoch, status |-> "unknown",
     spec |-> IF Exists(e.new) THEN e.new.spec ELSE e.old.spec,
     live |-> TRUE, stopped |-> FALSE]

(* Mutant: the checker of an object that goes away is only removed.        *)
ReplaceCheckerOfExisting(e) ==
    /\ dropped' = dropped \cup Dropped(e.key)
    /\ checkerMap' = [checkerMap EXCEPT ![e.key] =
                          IF e.key \in Unwatchable \/ ~Exists(e.new)
                          THEN NoChecker ELSE NewChecker(e)]

(* deleteObjectLocked and handleObjectLocked.  When no checker can be made *)
(* the old one is gone all the same.                                       *)
ReplaceChecker(e) ==
    /\ dropped' = dropped \cup Dropped(e.key)
    /\ checkerMap' = [checkerMap EXCEPT ![e.key] =
                          IF e.key \in Unwatchable THEN NoChecker ELSE NewChecker(e)]

SameSpec(e) == e.old.spec = e.new.spec

(* Mutant: updates that leave the spec alone return before the cache is    *)
(* updated.                                                                *)
HandleChangedObject ==
    /\ queue # << >>
    /\ LET e == Head(queue)
       IN  IF SameSpec(e) THEN UNCHANGED <<mapVars, cacheVars>>
           ELSE /\ IF isRunning THEN ReplaceChecker(e) ELSE UNCHANGED mapVars
                /\ UpdateCache(e)
    /\ queue' = Tail(queue)
    /\ UNCHANGED <<apiVars, infVars, queueOpen, isRunning, callVars>>

HandleObject ==
    /\ queue # << >>
    /\ LET e == Head(queue)
       IN  /\ IF SameSpec(e) \/ ~isRunning THEN UNCHANGED mapVars ELSE ReplaceChecker(e)
           /\ UpdateCache(e)
    /\ queue' = Tail(queue)
    /\ UNCHANGED <<apiVars, infVars, queueOpen, isRunning, callVars>>

-----------------------------------------------------------------------------
(* A checker goroutine: waitForRuntimeObject's function, by its outcome.   *)

(* Its status is what gather reads, if the map still holds it then.        *)
Outcome(k, status) ==
    /\ checkerMap[k].live
    /\ checkerMap' = [checkerMap EXCEPT ![k].status = status, ![k].live = FALSE]
    /\ UNCHANGED <<apiVars, infVars, queue, queueOpen, isRunning, cacheVars, dropped, callVars>>

(* WaitForPods finds the pods it waits for, even if its context was        *)
(* cancelled between two polls.                                            *)
CheckerSucceeds(k) ==
    Outcome(k, IF checkerMap[k].gone THEN "deleted" ELSE "running")

(* The pods cannot be listed.                                              *)
CheckerFails(k) == Outcome(k, "failed")

(* The context was cancelled by Stop.                                      *)
CheckerCancelled(k) ==
    /\ checkerMap[k].live => checkerMap[k].stopped
    /\ Outcome(k, "failed")

(* Mutant: the operation timeout only applies to deletions.                *)
GoneCheckerTimesOut(k) ==
    /\ TimesOut
    /\ checkerMap[k].live => checkerMap[k].gone
    /\ Outcome(k, "deleteTimeout")

(* The deadline of the operation timeout passes.                           *)
CheckerTimesOut(k) ==
    /\ TimesOut
    /\ Outcome(k, IF checkerMap[k].gone THEN "deleteTimeout" ELSE "timeout")

(* runtimeObjectReplicas.Start fails: the status is never set.             *)
ReplicasStartFails(k) ==
    /\ k \in NodeCounted
    /\ checkerMap[k].live => ~checkerMap[k].gone
    /\ Outcome(k, "unknown")

(* A goroutine out of the map ends once it is stopped, or times out.       *)
DroppedEnds(c) ==
    /\ c.stopped \/ TimesOut
    /\ dropped' = dropped \ {c}
    /\ UNCHANGED <<apiVars, infVars, queue, queueOpen, isRunning, cacheVars, checkerMap, callVars>>

-----------------------------------------------------------------------------
(* Execute, called by the steps of the test one after the other.           *)

Call == pc = "idle" /\ calls < MaxCalls /\ calls' = calls + 1

(* action: start.  The first LIST of the informer is awaited; when it      *)
(* takes too long, or the pods index cannot be built, start returns an     *)
(* error but the measurement counts as running.                            *)
Start ==
    /\ Call
    /\ ~isRunning
    /\ isRunning' = TRUE
    /\ epoch' = epoch + 1
    /\ \/ /\ Replace(NoObject)
          /\ result' = "started"
       \/ /\ informer' \in {"starting", "off"}
          /\ result' = "startError"
          /\ seen' = NoObject
          /\ UNCHANGED <<watch, queue>>
    /\ UNCHANGED <<apiVars, relists, queueOpen, cacheVars, mapVars, pc, listed>>

(* start of a measurement that runs, stop of one that does not.            *)
RepeatedCall ==
    /\ Call
    /\ result' = IF isRunning THEN "started" ELSE "stopped"
    /\ UNCHANGED <<apiVars, infVars, queue, queueOpen, isRunning, cacheVars, mapVars,
                   pc, epoch, listed>>

(* action: gather.                                                         *)
GatherRefused ==
    /\ Call
    /\ result' = IF isRunning THEN "listError" ELSE "notStarted"
    /\ UNCHANGED <<apiVars, infVars, queue, queueOpen, isRunning, cacheVars, mapVars,
                   pc, epoch, listed>>

(* getObjectKeysAndMaxVersion: LIST in all namespaces.                     *)
Gather ==
    /\ Call
    /\ isRunning
    /\ listed' = obj
    /\ pc' = "syncing"
    /\ UNCHANGED <<apiVars, infVars, queue, queueOpen, isRunning, cacheVars, mapVars,
                   epoch, result>>

ListedKeys == { k \in Objs : Exists(listed[k]) }
MaxListed  == Largest({0} \cup { listed[k].rv : k \in ListedKeys })

(* Mutant: gather only waits for the keys.                                 *)
CaughtUpOnKeys == objectKeys = ListedKeys

(* The condition gather polls, under the lock.                             *)
CaughtUp   == opRV >= MaxListed /\ objectKeys = ListedKeys

GatherSynced ==
    /\ pc = "syncing"
    /\ CaughtUp
    /\ pc' = "waiting"
    /\ UNCHANGED <<apiVars, infVars, queue, queueOpen, isRunning, cacheVars, mapVars,
                   calls, epoch, listed, result>>

(* syncTimeout is over, and the last poll still finds it false.            *)
GatherSyncTimeout ==
    /\ pc = "syncing"
    /\ ~CaughtUp
    /\ pc' = "idle"
    /\ result' = "syncTimeout"
    /\ listed' = NoObject
    /\ UNCHANGED <<apiVars, infVars, queue, queueOpen, isRunning, cacheVars, mapVars,
                   calls, epoch>>

(* handlingGroup.Wait() returns; the lock is not taken yet.                *)
GatherWaited ==
    /\ pc = "waiting"
    /\ LiveKeys = {} /\ dropped = {}
    /\ pc' = "judging"
    /\ UNCHANGED <<apiVars, infVars, queue, queueOpen, isRunning, cacheVars, mapVars,
                   calls, epoch, listed, result>>

WithStatus(S) == { k \in Objs : checkerMap[k].status \in S }

(* Mutant: objects whose deletion timed out are not counted.               *)
VerdictOnExisting ==
    IF WithStatus({"unknown"}) # {} THEN "unknownStatus"
    ELSE IF WithStatus({"timeout"}) # {} THEN "objectsTimedOut"
    ELSE IF Cardinality(ListedKeys) # Cardinality(WithStatus({"running"})) THEN "incorrectNumber"
    ELSE IF WithStatus({"failed"}) # {} THEN "failed"
    ELSE "ok"

(* The switch over the checkers of the map and the checks after it, in     *)
(* their order.                                                            *)
Verdict ==
    IF WithStatus({"unknown"}) # {} THEN "unknownStatus"
    ELSE IF WithStatus({"timeout", "deleteTimeout"}) # {} THEN "objectsTimedOut"
    ELSE IF Cardinality(ListedKeys) # Cardinality(WithStatus({"running"})) THEN "incorrectNumber"
    ELSE IF WithStatus({"failed"}) # {} THEN "failed"
    ELSE "ok"

(* The rest of gather, under the lock.  The force-deletion of pods after a *)
(* deleteTimeout only touches pods.                                        *)
GatherJudges ==
    /\ pc = "judging"
    /\ result' = Verdict
    /\ listed' = NoObject
    /\ pc' = "idle"
    /\ UNCHANGED <<apiVars, infVars, queue, queueOpen, isRunning, cacheVars, mapVars,
                   calls, epoch>>

(* action: stop, and Dispose at the end of the test.                       *)
Stop ==
    /\ Call
    /\ isRunning
    /\ isRunning' = FALSE
    /\ informer' = "off"
    /\ watch' = << >>
    /\ pc' = "stopping"
    /\ UNCHANGED <<apiVars, relists, seen, queue, queueOpen, cacheVars, mapVars,
                   epoch, listed, result>>

(* queue.Stop(): the queue is shut down; the worker drains it.             *)
StopQueue ==
    /\ pc = "stopping"
    /\ queueOpen' = FALSE
    /\ pc' = "draining"
    /\ UNCHANGED <<apiVars, infVars, queue, isRunning, cacheVars, mapVars,
                   calls, epoch, listed, result>>

(* checkerMap.Dispose() stops the checkers; it reassigns its own receiver, *)
(* so the measurement's map keeps them.                                    *)
StopCheckers ==
    /\ pc = "draining"
    /\ queue = << >>
    /\ checkerMap' = [k \in Objs |-> IF k \in LiveKeys
                         THEN [checkerMap[k] EXCEPT !.stopped = TRUE] ELSE checkerMap[k]]
    /\ result' = "stopped"
    /\ pc' = "idle"
    /\ UNCHANGED <<apiVars, infVars, queue, queueOpen, isRunning, cacheVars, dropped,
                   calls, epoch, listed>>

Cluster == \E k \in Objs : \/ ApplyObject(k) \/ RemoveObject(k)
                           \/ UpdateStatus(k)

Execute == \/ Start \/ RepeatedCall \/ Gather \/ GatherRefused \/ Stop

Progress == \/ Deliver \/ FirstList \/ HandleObject
            \/ \E k \in Objs : CheckerTimesOut(k) \/ CheckerCancelled(k)
            \/ \E c \in dropped : DroppedEnds(c)
            \/ GatherSynced \/ GatherSyncTimeout \/ GatherWaited \/ GatherJudges
            \/ StopQueue \/ StopCheckers

(* What a checker need not do.                                             *)
CheckerEnds == \E k \in Objs : CheckerSucceeds(k) \/ CheckerFails(k) \/ ReplicasStartFails(k)

Finished == pc = "idle" /\ calls = MaxCalls /\ UNCHANGED vars

Next == Cluster \/ Relist \/ Execute \/ CheckerEnds \/ Progress \/ Finished

Spec     == Init /\ [][Next]_vars
FairSpec == Spec /\ WF_vars(Progress)

-----------------------------------------------------------------------------
(* Properties.                                                             *)

(* The variables keep their types; every checker of the map belongs to the *)
(* key it is stored under (handleObjectLocked, checker.Map).               *)
TypeOK ==
    /\ rvNow \in RV
    /\ obj \in [Objs -> Version]
    /\ informer \in {"off", "starting", "on"}
    /\ relists \in 0 .. MaxRelists
    /\ watch \in Seq([key : Objs, v : Version])
    /\ seen \in [Objs -> Version]
    /\ queue \in Seq(Event)
    /\ queueOpen \in BOOLEAN
    /\ isRunning \in BOOLEAN
    /\ objectKeys \subseteq Objs
    /\ opRV \in RV
    /\ checkerMap \in [Objs -> Checker \cup {NoChecker}]
    /\ \A k \in Objs : checkerMap[k] # NoChecker => checkerMap[k].key = k
    /\ dropped \subseteq Checker
    /\ pc \in {"idle", "syncing", "waiting", "judging", "stopping", "draining"}
    /\ calls \in 0 .. MaxCalls
    /\ epoch \in 0 .. MaxCalls
    /\ listed \in [Objs -> Version]
    /\ handled \in [Objs -> [from : RV, to : RV]]

(* A goroutine that still waits for pods is either the one the map holds   *)
(* for its object, or it has been told to stop: replacing a checker never  *)
(* leaves one behind that gather would wait for until its timeout.         *)
NoOrphanChecker == \A c \in dropped : c.stopped

(* While the measurement runs (and was not stopped before), the checker of *)
(* every object waits, or has waited, for the version handled last, and    *)
(* the cache holds the keys of the objects that exist in it, also when the *)
(* informer relists and specs change while gather runs.                    *)
CheckersFollowCache ==
    isRunning /\ epoch = 1 =>
        /\ objectKeys = { k \in Objs : handled[k].to # 0 }
        /\ \A k \in Objs \ Unwatchable :
              /\ handled[k].to # 0 => /\ checkerMap[k] # NoChecker
                                      /\ checkerMap[k].spec = handled[k].to
                                      /\ ~checkerMap[k].gone
              /\ handled[k].to = 0 /\ handled[k].from # 0 =>
                                      /\ checkerMap[k] # NoChecker
                                      /\ checkerMap[k].spec = handled[k].from
                                      /\ checkerMap[k].gone

(* The verdict of gather, in the step that returns it without an error.    *)
GatherSucceeds == pc = "judging" /\ pc' = "idle" /\ result' = "ok"

(* The checker of key k has seen the pods of that version of the object    *)
(* since the measurement was started.                                      *)
Seen(k, spec, gone) ==
    /\ checkerMap[k].status = IF gone THEN "deleted" ELSE "running"
    /\ checkerMap[k].spec = spec
    /\ checkerMap[k].epoch = epoch

(* "gather waits until specified number of controlling objects have all    *)
(* pods running": when gather returns no error, the pods of the listed     *)
(* version of every listed object were all seen running since the          *)
(* measurement was started.  gather itself only counts checkers: it holds  *)
(* because the events, the cache and the checkers stay in step.            *)
GatherSound ==
    [][GatherSucceeds => \A k \in ListedKeys : Seen(k, listed[k].spec, FALSE)]_vars

(* Likewise the pods of every object whose deletion was handled were all   *)
(* seen gone.                                                              *)
DeletionsAwaited ==
    [][GatherSucceeds =>
        \A k \in Objs \ Unwatchable :
            handled[k].from # 0 /\ handled[k].to = 0 => Seen(k, handled[k].from, TRUE)]_vars

(* gather gives up waiting for its handler only if there is something left *)
(* to handle: when the informer is up to date and the queue is empty, the  *)
(* cache agrees with what was listed.                                      *)
NoSpuriousSyncTimeout ==
    [][pc = "syncing" /\ pc' = "idle" /\ result' = "syncTimeout" =>
         informer # "on" \/ watch # << >> \/ queue # << >> \/ ~queueOpen]_vars

(* Every call of Execute returns: gather is bounded by syncTimeout and by  *)
(* the operation timeout of the checkers, and stop by a queue that drains. *)
ExecuteReturns == (pc # "idle") ~> (pc = "idle")
=============================================================================
