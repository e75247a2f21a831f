------------------------------ MODULE SloMonitor ------------------------------
(***************************************************************************)
(* The slo-monitor (src/slo-monitor/src/monitors): a watch on pods and one *)
(* on kubelet events feed two NoStoreQueues (store.go); what is popped     *)
(* starts a goroutine per item (pod_monitor.go), so the milestones of a    *)
(* pod arrive in any order, and the pod's latency is observed when all     *)
(* are there.                                                              *)
(***************************************************************************)
EXTENDS Integers, Sequences, FiniteSets, Bags

CONSTANTS
    Pods,       \* keys namespace/name
    Containers, \* containers of a pod, each with an image to pull
    Repeats,    \* bound: reasons of the Events that are repeated
    MaxLives,   \* bound: creations of a pod of one name
    MaxExtras   \* bound: further updates of a ready pod, repeated events and
                \* notifications lost by a broken watch, together

VARIABLES
    now,        \* the clock: one tick per step of a kubelet
    pod,        \* pod -> [life, state, created, events]: state as in KubeletStates,
                \* events the Events of this life
    touches, lost,      \* history: updates and losses so far
    podQueue, eventQueue,
    handlers,   \* goroutines that have not taken the lock yet, a bag
    PodStartupData, toDelete,
    observed    \* history: observations, as [pod, life, e2e, full]

vars == <<now, pod, touches, lost, podQueue, eventQueue, handlers, PodStartupData,
          toDelete, observed>>
api == <<now, pod, touches, lost>>
monitor == <<PodStartupData, toDelete, observed>>

KubeletStates == {"absent", "pending", "pulling", "ready"}

(* time.Time: the zero time, time.Unix(0, 0), or a reading of the clock.   *)
ZeroTime == 0 - 1
Epoch == 0
StartTime == 100    \* long after the epoch, as clocks are

NoMilestones == [created |-> ZeroTime, startedPulling |-> ZeroTime,
                 finishedPulling |-> ZeroTime, observedRunning |-> ZeroTime,
                 deletedTimestamp |-> ZeroTime, seenPulled |-> 0, needPulled |-> 0,
                 accountedFor |-> FALSE]

-----------------------------------------------------------------------------
(* NoStoreQueue: items are [op, key, obj]; indices gives the ever growing  *)
(* index of a key's item, offset that of the first item.                   *)
NewNoStoreQueue == [queue |-> << >>, indices |-> [k \in {} |-> 0], nextIndex |-> 0,
                    offset |-> 0]

Enqueue(q, key, obj, op) ==
    IF key \in DOMAIN q.indices
    THEN [q EXCEPT !.queue[q.indices[key] - q.offset + 1] =
                       [key |-> key, obj |-> obj, op |-> op]]
    ELSE [q EXCEPT !.indices = [k \in DOMAIN @ \cup {key} |->
                                   IF k = key THEN q.nextIndex ELSE @[k]],
                   !.nextIndex = @ + 1,
                   !.queue = Append(@, [key |-> key, obj |-> obj, op |-> op])]

(* Mutant: the offset stays behind when an item is popped.                 *)
PoppedAtOffset(q) ==
    [q EXCEPT !.queue = Tail(@),
              !.indices = [k \in DOMAIN @ \ {Head(q.queue).key} |-> @[k]]]

Popped(q) ==
    [q EXCEPT !.queue = Tail(@), !.offset = @ + 1,
              !.indices = [k \in DOMAIN @ \ {Head(q.queue).key} |-> @[k]]]

Init ==
    /\ now = StartTime
    /\ pod = [p \in Pods |-> [life |-> 0, state |-> "absent", created |-> 0, events |-> {}]]
    /\ touches = 0 /\ lost = 0
    /\ podQueue = NewNoStoreQueue /\ eventQueue = NewNoStoreQueue
    /\ handlers = EmptyBag
    /\ PodStartupData = [p \in {} |-> NoMilestones] /\ toDelete = << >>
    /\ observed = << >>

-----------------------------------------------------------------------------
(* The cluster (external): a pod is created, pulls its image or finds it   *)
(* on the machine, becomes ready, is updated again and deleted.  Each      *)
(* change is a notification of one of the watches, unless the watch is     *)
(* broken: the relist that follows replaces nothing (Replace).             *)
Notify(q, key, obj, op) ==
    \/ q' = Enqueue(q, key, obj, op) /\ UNCHANGED lost
    \/ touches + lost < MaxExtras /\ lost' = lost + 1 /\ UNCHANGED q

PodObj(p) == [life |-> pod'[p].life, ready |-> pod'[p].state = "ready",
              created |-> pod'[p].created]

CreatePod(p) ==
    /\ pod[p].state = "absent" /\ pod[p].life < MaxLives
    /\ now' = now + 1
    /\ pod' = [pod EXCEPT ![p] = [life |-> @.life + 1, state |-> "pending",
                                  created |-> now, events |-> {}]]
    /\ Notify(podQueue, p, PodObj(p), "set")
    /\ UNCHANGED <<touches, eventQueue, handlers, monitor>>

(* An Event is an object of its own, with the time it first happened.      *)
EventKey(p, e) == <<p, pod[p].life, e.reason, e.container>>
EventObj(p, e) == [pod |-> p, life |-> pod[p].life, reason |-> e.reason, time |-> e.time]

(* The kubelet pulls the images of the containers one after the other.     *)
Pulled(p) == Cardinality({ e \in pod[p].events : e.reason # "pulling" })

Kubelet(p, from, to, reason) ==
    LET e == [reason |-> reason, container |-> Pulled(p) + 1, time |-> now]
    IN  /\ pod[p].state = from /\ Pulled(p) < Containers
        /\ now' = now + 1
        /\ pod' = [pod EXCEPT ![p].state = to, ![p].events = @ \cup {e}]
        /\ Notify(eventQueue, EventKey(p, e), EventObj(p, e), "set")
        /\ UNCHANGED <<touches, podQueue, handlers, monitor>>

(* A restarted container, or a pull that is tried again: the Event is      *)
(* counted up and keeps its first timestamp.                               *)
RepeatEvent(p) ==
    /\ pod[p].state # "absent" /\ touches + lost < MaxExtras
    /\ touches' = touches + 1
    /\ \E e \in pod[p].events : e.reason \in Repeats /\ Notify(eventQueue, EventKey(p, e), EventObj(p, e), "set")
    /\ UNCHANGED <<now, pod, podQueue, handlers, monitor>>

BecomeReady(p) ==
    /\ pod[p].state = "pending" /\ Pulled(p) = Containers
    /\ now' = now + 1
    /\ pod' = [pod EXCEPT ![p].state = "ready"]
    /\ Notify(podQueue, p, PodObj(p), "set")
    /\ UNCHANGED <<touches, eventQueue, handlers, monitor>>

TouchPod(p) ==
    /\ pod[p].state = "ready" /\ touches + lost < MaxExtras
    /\ touches' = touches + 1
    /\ UNCHANGED pod
    /\ Notify(podQueue, p, PodObj(p), "set")
    /\ UNCHANGED <<now, eventQueue, handlers, monitor>>

DeletePod(p) ==
    /\ pod[p].state # "absent"
    /\ now' = now + 1
    /\ pod' = [pod EXCEPT ![p].state = "absent"]
    /\ Notify(podQueue, p, PodObj(p), "delete")
    /\ UNCHANGED <<touches, eventQueue, handlers, monitor>>

-----------------------------------------------------------------------------
(* Pop and the handlers of the pod watch: deletions are handled in place,  *)
(* ready pods by a goroutine with the time of the pop as running time.     *)
PopDelete ==
    /\ podQueue.queue # << >> /\ Head(podQueue.queue).op = "delete"
    /\ LET p == Head(podQueue.queue).key
           data == IF p \in DOMAIN PodStartupData THEN PodStartupData[p]
                   ELSE [NoMilestones EXCEPT !.startedPulling = Epoch]
       IN /\ PodStartupData' = [r \in DOMAIN PodStartupData \cup {p} |->
                 IF r = p THEN [data EXCEPT !.deletedTimestamp = now]
                 ELSE PodStartupData[r]]
          /\ toDelete' = Append(toDelete, p)
    /\ podQueue' = Popped(podQueue)
    /\ UNCHANGED <<api, eventQueue, handlers, observed>>

Goroutine(h) == handlers (+) SetToBag({h})

PopSet ==
    /\ podQueue.queue # << >> /\ Head(podQueue.queue).op = "set"
    /\ LET i == Head(podQueue.queue)
       IN handlers' = IF i.obj.ready
                      THEN Goroutine([kind |-> "running", pod |-> i.key,
                                      life |-> i.obj.life,
                                      created |-> i.obj.created, time |-> now])
                      ELSE handlers
    /\ podQueue' = Popped(podQueue)
    /\ UNCHANGED <<api, eventQueue, monitor>>

PopEvent ==
    /\ eventQueue.queue # << >>
    /\ LET i == Head(eventQueue.queue).obj
       IN handlers' = Goroutine([kind |-> i.reason, pod |-> i.pod, life |-> i.life,
                                 created |-> Epoch, time |-> i.time])
    /\ eventQueue' = Popped(eventQueue)
    /\ UNCHANGED <<api, podQueue, monitor>>

(* handlePullingImageEvent, handlePulledImageEvent, insertPodRunningTime:  *)
(* the milestones after one of them, without the metric.                   *)
Recorded(h) ==
    LET known == h.pod \in DOMAIN PodStartupData
        data == IF known THEN PodStartupData[h.pod] ELSE NoMilestones
    IN CASE h.kind = "pulling" ->
              LET d == IF known THEN data
                       ELSE [data EXCEPT !.finishedPulling = Epoch, !.needPulled = 0 - 1]
              IN [d EXCEPT !.startedPulling = IF @ = ZeroTime \/ @ > h.time THEN h.time ELSE @]
         [] h.kind \in {"pulled", "present"} ->
              LET d == IF known
                       THEN [data EXCEPT !.startedPulling = Epoch, !.needPulled = 0 - 1]
                       ELSE data
              IN [d EXCEPT !.finishedPulling = IF @ = ZeroTime \/ @ < h.time THEN h.time ELSE @,
                           !.startedPulling = IF h.kind = "present" THEN h.time ELSE @,
                           !.seenPulled = @ + 1]
         [] h.kind = "running" ->
              LET d == IF known THEN data
                       ELSE [data EXCEPT !.startedPulling = Epoch, !.finishedPulling = Epoch]
              IN [d EXCEPT !.created = h.created, !.observedRunning = h.time,
                           !.needPulled = Containers]

IsComplete(d) ==
    /\ ZeroTime \notin {d.created, d.startedPulling, d.finishedPulling, d.observedRunning}
    /\ d.seenPulled = d.needPulled /\ ~d.accountedFor

(* updateMetric.                                                           *)
Observation(p, life, d) ==
    LET full == d.observedRunning - d.created
        startup == full - (d.finishedPulling - d.startedPulling)
    IN [pod |-> p, life |-> life, full |-> full, e2e |-> IF startup < 0 THEN 0 ELSE startup]

(* Mutant: the data is stored before the metric is updated.                *)
HandleForgetful(h) ==
    /\ BagIn(h, handlers)
    /\ LET d == Recorded(h)
       IN /\ observed' = IF IsComplete(d) THEN Append(observed, Observation(h.pod, h.life, d))
                         ELSE observed
          /\ PodStartupData' = [r \in DOMAIN PodStartupData \cup {h.pod} |->
                 IF r = h.pod THEN d ELSE PodStartupData[r]]
    /\ handlers' = handlers (-) SetToBag({h})
    /\ UNCHANGED <<api, podQueue, eventQueue, toDelete>>

(* A goroutine gets the lock, updates the metric and stores the data.      *)
Handle(h) ==
    /\ BagIn(h, handlers)
    /\ LET d == Recorded(h)
       IN /\ observed' = IF IsComplete(d) THEN Append(observed, Observation(h.pod, h.life, d))
                         ELSE observed
          /\ PodStartupData' = [r \in DOMAIN PodStartupData \cup {h.pod} |->
                 IF r = h.pod THEN [d EXCEPT !.accountedFor = @ \/ IsComplete(d)]
                 ELSE PodStartupData[r]]
    /\ handlers' = handlers (-) SetToBag({h})
    /\ UNCHANGED <<api, podQueue, eventQueue, toDelete>>

(* purgeOutdated: entries deleted more than purgeAfter ago go, with the    *)
(* milestones of a new pod of that name.  No event of a pod that is gone   *)
(* is on its way for that long (the assumption purgeAfter makes).          *)
Gone(p, life) == life < pod[p].life \/ pod[p].state = "absent"

PurgeOutdated(recent) ==
    /\ toDelete # << >>
    /\ \A p \in recent : PodStartupData[p].deletedTimestamp # ZeroTime
    /\ \A j \in 1 .. Len(toDelete) : toDelete[j] \in recent
          \/ /\ \A h \in BagToSet(handlers) : h.pod = toDelete[j] => ~Gone(h.pod, h.life)
             /\ \A i \in 1 .. Len(eventQueue.queue) :
                   LET obj == eventQueue.queue[i].obj
                   IN  obj.pod = toDelete[j] => ~Gone(obj.pod, obj.life)
    /\ LET gone == { toDelete[j] : j \in 1 .. Len(toDelete) } \ recent
       IN PodStartupData' = [p \in DOMAIN PodStartupData \ gone |-> PodStartupData[p]]
    /\ toDelete' = SelectSeq(toDelete, LAMBDA p : p \in recent)
    /\ UNCHANGED <<api, podQueue, eventQueue, handlers, observed>>

Next ==
    \/ PopDelete \/ PopSet \/ PopEvent
    \/ \E h \in BagToSet(handlers) : Handle(h)
    \/ \E recent \in SUBSET DOMAIN PodStartupData : PurgeOutdated(recent)
    \/ \E p \in Pods : \/ CreatePod(p) \/ BecomeReady(p) \/ TouchPod(p) \/ DeletePod(p)
                       \/ Kubelet(p, "pending", "pulling", "pulling")
                       \/ Kubelet(p, "pulling", "pending", "pulled")
                       \/ Kubelet(p, "pending", "pending", "present")
                       \/ RepeatEvent(p)

Spec == Init /\ [][Next]_vars

-----------------------------------------------------------------------------
TypeOK ==
    /\ \A p \in Pods : pod[p].life \in 0 .. MaxLives /\ pod[p].state \in KubeletStates
    /\ DOMAIN PodStartupData \subseteq Pods
    /\ \A p \in DOMAIN PodStartupData : DOMAIN PodStartupData[p] = DOMAIN NoMilestones

(* NoStoreQueue (store.go): the queue keeps one item per key, found        *)
(* through its index however the items before it were popped: an update of *)
(* a queued item never changes that of another key.                        *)
QueueIndexed ==
    TypeOK /\ \A q \in {podQueue, eventQueue} :
       /\ Cardinality(DOMAIN q.indices) = Len(q.queue)
       /\ \A key \in DOMAIN q.indices :
             /\ q.indices[key] - q.offset + 1 \in 1 .. Len(q.queue)
             /\ q.queue[q.indices[key] - q.offset + 1].key = key

(* A pod is observed at most once for each time it was created, in         *)
(* whatever order its milestones arrive and however often it is updated:   *)
(* the flag survives every later handler.                                  *)
ObservedOnce ==
    \A p \in Pods :
       Cardinality({ i \in 1 .. Len(observed) : observed[i].pod = p }) <= pod[p].life

(* "Pod e2e startup latencies in seconds, without image pull times": a pod *)
(* that took time beside its pull has that time observed, never zero.      *)
PullTimeExcluded ==
    \A i \in 1 .. Len(observed) : observed[i].full > 0 => observed[i].e2e > 0
=============================================================================
