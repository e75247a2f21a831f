------------------------- MODULE ReachabilityClient -------------------------
(***************************************************************************)
(* The two test clients of network/tools/network-policy-enforcement-       *)
(* latency, which NetPolicy deploys:                                       *)
(*   pod     pod-creation-reachability-latency: an informer queues Add and *)
(*           Update events of the target pods, workers pick the pods that  *)
(*           have an address and start a request loop for each             *)
(*   policy  policy-creation-enforcement-latency: lists the target pods    *)
(*           once and starts a request loop for each                       *)
(* and what they share, pkg/utils/utils.go.  The work queue is client-go's *)
(* workqueue.Type: an item is queued once, and never handled by two        *)
(* workers at a time.  SIGTERM is one value in a channel of capacity one,  *)
(* which the request loops and the main goroutine all read.                *)
(***************************************************************************)
EXTENDS Integers, Sequences, SequencesExt, FiniteSets

CONSTANTS
    Kinds,      \* the clients to check
    Pods,       \* target pods
    Steady,     \* bound: those of them that have an address from the start and stay
    Workers,    \* workerCount of them
    MaxTargets

VARIABLES
    kind,
    main,       \* "start", "waiting" (wg.Wait), "idle", "exited", "panicked"
    pods,       \* pod -> "absent", "new", "ip" (has an address), "deleted"
    fresh,      \* history: the pods created after the client started
    store,      \* pod -> "absent", "new" or "ip" in the informer's indexer
    notes,      \* the informer's notifications its handler has not seen
    queue, dirty, processing,   \* the work queue: items [pod, add]
    worker,     \* worker -> [at, item]
    informer,   \* informerStopChan: "open" or "closed"
    created,    \* createdPodsMap
    targets,    \* targetPodsMap
    request,    \* pod -> its RecordFirstSuccessfulRequest
    policy,     \* the allow policy: "absent", "created", "cached" (policyCreatedTime)
    signal      \* "none", "pending" (in MainStopChan), "taken"

vars == <<kind, main, pods, fresh, store, notes, queue, dirty, processing, worker, informer,
          created, targets, request, policy, signal>>

podVars   == <<pods, fresh>>
cacheVars == <<store, notes>>
queueVars == <<queue, dirty, processing>>

Item(p, add) == [pod |-> p, add |-> add]
Idle == [at |-> "get", item |-> Item("none", TRUE)]

Init ==
    /\ kind \in Kinds
    /\ main = "start"
    /\ pods \in { f \in [Pods -> {"absent", "new", "ip"}] : \A p \in Steady : f[p] = "ip" }
    /\ fresh = {}
    /\ store = [p \in Pods |-> "absent"] /\ notes = << >>
    /\ queue = << >> /\ dirty = {} /\ processing = {}
    /\ worker = [w \in Workers |-> Idle]
    /\ informer = "open"
    /\ created = {} /\ targets = {}
    /\ request = [p \in Pods |-> "none"]
    /\ policy = "absent"
    /\ signal = "none"

Running == main \notin {"exited", "panicked"}

---------------------------------------------------------------------------
(* The cluster                                                             *)

(* The name of a deleted pod is not used again.                            *)
PodChanges(p) ==
    /\ pods[p] # "deleted" /\ p \notin Steady
    /\ \/ pods' = [pods EXCEPT ![p] = IF @ = "absent" THEN "new" ELSE "ip"] /\ pods' # pods
       \/ pods[p] # "absent" /\ pods' = [pods EXCEPT ![p] = "deleted"]
    /\ fresh' = IF pods[p] = "absent" THEN fresh \cup {p} ELSE fresh
    /\ UNCHANGED <<kind, main, cacheVars, queueVars, worker, informer, created, targets, request,
                   policy, signal>>

CreatePolicy ==
    /\ kind = "policy" /\ policy = "absent"
    /\ policy' = "created"
    /\ UNCHANGED <<kind, main, podVars, cacheVars, queueVars, worker, informer, created, targets,
                   request, signal>>

SigTerm ==
    /\ Running /\ signal = "none"
    /\ signal' = "pending"
    /\ UNCHANGED <<kind, main, podVars, cacheVars, queueVars, worker, informer, created, targets,
                   request, policy>>

---------------------------------------------------------------------------
(* The pod client: informer and work queue                                 *)

(* The informer changes its indexer and notifies the listener; a deletion  *)
(* has no handler.                                                         *)
StorePod(p) ==
    LET seen == IF pods[p] = "deleted" THEN "absent" ELSE pods[p]
    IN  /\ Running /\ kind = "pod" /\ informer = "open"
        /\ store[p] # seen
        /\ store' = [store EXCEPT ![p] = seen]
        /\ notes' = IF seen = "absent" THEN notes ELSE Append(notes, Item(p, store[p] = "absent"))
        /\ UNCHANGED <<kind, main, podVars, queueVars, worker, informer, created, targets, request,
                       policy, signal>>

(* handlePodEvent, with workqueue.Type.Add                                 *)
HandlePodEvent ==
    /\ Running /\ notes # << >>
    /\ LET item == Head(notes)
       IN  /\ dirty' = dirty \cup {item}
           /\ queue' = IF item \in dirty \cup processing THEN queue ELSE Append(queue, item)
    /\ notes' = Tail(notes)
    /\ UNCHANGED <<kind, main, podVars, store, processing, worker, informer, created, targets,
                   request, policy, signal>>

(* measurePodCreation: the caller goes idle when the informer has synced,  *)
(* or after ten attempts.                                                  *)
InformerSynced ==
    /\ kind = "pod" /\ main = "start"
    /\ main' = "idle"
    /\ UNCHANGED <<kind, podVars, cacheVars, queueVars, worker, informer, created, targets, request,
                   policy, signal>>

Get(w) ==
    /\ Running /\ worker[w].at = "get" /\ queue # << >>
    /\ LET item == Head(queue)
       IN  /\ worker' = [worker EXCEPT ![w] = [at |-> "track", item |-> item]]
           /\ processing' = processing \cup {item}
           /\ dirty' = dirty \ {item}
    /\ queue' = Tail(queue)
    /\ UNCHANGED <<kind, main, podVars, cacheVars, informer, created, targets, request, policy, signal>>

(* The deferred workqueue.Type.Done; wait.Until then looks at the channel. *)
Done(w) ==
    LET item == worker[w].item
    IN  /\ processing' = processing \ {item}
        /\ queue' = IF item \in dirty THEN Append(queue, item) ELSE queue
        /\ dirty' = dirty
        /\ worker' = [worker EXCEPT ![w] = IF informer' = "closed" THEN [Idle EXCEPT !.at = "exited"]
                                                                  ELSE Idle]

(* Mutant: the Add of a pod is skipped like an untracked Update.           *)
TrackAfterSkip(w) ==
    LET item == worker[w].item
    IN  /\ Running /\ worker[w].at = "track"
        /\ created' = IF item.add THEN created \cup {item.pod} ELSE created
        /\ UNCHANGED informer
        /\ IF item.pod \in created
             THEN worker' = [worker EXCEPT ![w].at = "lookup"] /\ UNCHANGED queueVars
             ELSE Done(w)
        /\ UNCHANGED <<kind, main, podVars, cacheVars, targets, request, policy, signal>>

(* skipUpdateForUntrackedPods                                              *)
Track(w) ==
    LET item == worker[w].item
    IN  /\ Running /\ worker[w].at = "track"
        /\ created' = IF item.add THEN created \cup {item.pod} ELSE created
        /\ UNCHANGED informer
        /\ IF item.pod \in created'
             THEN worker' = [worker EXCEPT ![w].at = "lookup"] /\ UNCHANGED queueVars
             ELSE Done(w)
        /\ UNCHANGED <<kind, main, podVars, cacheVars, targets, request, policy, signal>>

(* The pod as the indexer has it now: it may be gone, or have no address.  *)
Lookup(w) ==
    /\ Running /\ worker[w].at = "lookup"
    /\ UNCHANGED informer
    /\ IF store[worker[w].item.pod] = "ip"
         THEN worker' = [worker EXCEPT ![w].at = "insert"] /\ UNCHANGED queueVars
         ELSE Done(w)
    /\ UNCHANGED <<kind, main, podVars, cacheVars, created, targets, request, policy, signal>>

(* Under the lock of targetPodsMap: a pod is a target once, and the ones   *)
(* after the first MaxTargets stop the informer.                           *)
InsertTarget(w) ==
    LET p == worker[w].item.pod
    IN  /\ Running /\ worker[w].at = "insert"
        /\ UNCHANGED informer
        /\ targets' = targets \cup {p}
        /\ IF p \in targets
             THEN Done(w)
             ELSE /\ worker' = [worker EXCEPT ![w].at =
                                  IF Cardinality(targets') > MaxTargets THEN "stop" ELSE "start"]
                  /\ UNCHANGED queueVars
        /\ UNCHANGED <<kind, main, podVars, cacheVars, created, request, policy, signal>>

(* After the unlock: other workers may have stopped the informer by now.   *)
StartRequest(w) ==
    /\ Running /\ worker[w].at = "start"
    /\ UNCHANGED informer
    /\ request' = [request EXCEPT ![worker[w].item.pod] = "sending"]
    /\ Done(w)
    /\ UNCHANGED <<kind, main, podVars, cacheVars, created, targets, policy, signal>>

(* stopInformerChan: the channel is tested, then closed.                   *)
TestChannel(w) ==
    /\ Running /\ worker[w].at = "stop"
    /\ UNCHANGED informer
    /\ IF informer = "open"
         THEN worker' = [worker EXCEPT ![w].at = "close"] /\ UNCHANGED queueVars
         ELSE Done(w)
    /\ UNCHANGED <<kind, main, podVars, cacheVars, created, targets, request, policy, signal>>

CloseChannel(w) ==
    /\ Running /\ worker[w].at = "close"
    /\ informer' = "closed"
    /\ IF informer = "open" THEN Done(w) /\ UNCHANGED main
                            ELSE main' = "panicked" /\ UNCHANGED <<queueVars, worker>>
    /\ UNCHANGED <<kind, podVars, cacheVars, created, targets, request, policy, signal>>

---------------------------------------------------------------------------
(* The policy client                                                       *)

(* listTargetPods, with a limit; a pod without an address is skipped by    *)
(* RecordFirstSuccessfulRequest.  A failed or empty list ends the test.    *)
ListTargetPods ==
    /\ kind = "policy" /\ main = "start"
    /\ \/ \E list \in SUBSET { p \in Pods : pods[p] \in {"new", "ip"} } :
            /\ \/ Cardinality(list) = MaxTargets
               \/ list = { p \in Pods : pods[p] \in {"new", "ip"} }
            /\ list # {} /\ Cardinality(list) <= MaxTargets
            /\ targets' = list
            /\ request' = [p \in Pods |-> IF p \in list /\ pods[p] = "ip" THEN "sending" ELSE "none"]
            /\ main' = "waiting"
       \/ main' = "idle" /\ UNCHANGED <<targets, request>>
    /\ UNCHANGED <<kind, podVars, cacheVars, queueVars, worker, informer, created, policy, signal>>

AllReached ==
    /\ main = "waiting"
    /\ \A p \in Pods : request[p] # "sending"
    /\ main' = "idle"
    /\ UNCHANGED <<kind, podVars, cacheVars, queueVars, worker, informer, created, targets, request,
                   policy, signal>>

---------------------------------------------------------------------------
(* RecordFirstSuccessfulRequest and EnterIdleState                         *)

(* A request succeeds, and its latency is observed: for the policy client  *)
(* only if the policy's creation time is known or can be read now.         *)
Reached(p) ==
    /\ Running /\ request[p] = "sending"
    /\ kind = "policy" => policy # "absent"
    /\ \/ /\ request' = [request EXCEPT ![p] = "observed"]
          /\ policy' = IF kind = "policy" THEN "cached" ELSE policy
       \/ /\ policy = "created"
          /\ request' = [request EXCEPT ![p] = "reached"]
          /\ UNCHANGED policy
    /\ UNCHANGED <<kind, main, podVars, cacheVars, queueVars, worker, informer, created, targets,
                   signal>>

(* Between two requests a loop looks for the signal, and takes it.         *)
RequestStopped(p) ==
    /\ Running /\ request[p] = "sending" /\ signal = "pending"
    /\ signal' = "taken"
    /\ request' = [request EXCEPT ![p] = "stopped"]
    /\ UNCHANGED <<kind, main, podVars, cacheVars, queueVars, worker, informer, created, targets,
                   policy>>

LeaveIdleState ==
    /\ main = "idle" /\ signal = "pending"
    /\ signal' = "taken"
    /\ main' = "exited"
    /\ UNCHANGED <<kind, podVars, cacheVars, queueVars, worker, informer, created, targets, request,
                   policy>>

WorkerStep(w) ==
    \/ Get(w) \/ Track(w) \/ Lookup(w) \/ InsertTarget(w) \/ StartRequest(w)
    \/ TestChannel(w) \/ CloseChannel(w)

Next ==
    \/ \E p \in Pods : PodChanges(p) \/ StorePod(p) \/ Reached(p) \/ RequestStopped(p)
    \/ HandlePodEvent
    \/ CreatePolicy \/ SigTerm \/ InformerSynced
    \/ \E w \in Workers : WorkerStep(w)
    \/ ListTargetPods \/ AllReached \/ LeaveIdleState

Spec == Init /\ [][Next]_vars

---------------------------------------------------------------------------
Items == [pod : Pods, add : BOOLEAN]

TypeOK ==
    /\ kind \in Kinds
    /\ main \in {"start", "waiting", "idle", "exited", "panicked"}
    /\ pods \in [Pods -> {"absent", "new", "ip", "deleted"}] /\ fresh \subseteq Pods
    /\ store \in [Pods -> {"absent", "new", "ip"}] /\ ToSet(notes) \subseteq Items
    /\ dirty \subseteq Items /\ processing \subseteq Items /\ ToSet(queue) \subseteq Items
    /\ \A w \in Workers : worker[w].at \in {"get", "track", "lookup", "insert", "start", "stop",
                                           "close", "exited"}
    /\ informer \in {"open", "closed"}
    /\ created \subseteq Pods /\ targets \subseteq Pods
    /\ request \in [Pods -> {"none", "sending", "reached", "observed", "stopped"}]
    /\ policy \in {"absent", "created", "cached"}
    /\ signal \in {"none", "pending", "taken"}

(* No new pod is lost and no target too many: whatever two workers do with *)
(* the Add and the Update of one pod (an Update that is handled first is   *)
(* skipped, and never comes again), as soon as nothing is queued every new *)
(* pod that has an address and was not deleted since is a target (pods     *)
(* that existed before are targets too, with the Adds of the first LIST,   *)
(* but nothing is claimed of them: client.go:198 does not want them).  The *)
(* first MaxTargets that the workers enter, in whatever order, and no      *)
(* others, are sent requests or are about to be, also when another worker  *)
(* stops the informer between the unlock and the request.                  *)
Quiet == notes = << >> /\ queue = << >> /\ processing = {}

TargetsExact ==
    LET sent     == { p \in Pods : request[p] # "none" }
        starting == { worker[w].item.pod : w \in { x \in Workers : worker[x].at = "start" } }
    IN  /\ sent \subseteq targets /\ Cardinality(sent) <= MaxTargets
        /\ kind = "pod" =>
             /\ Quiet /\ informer = "open" => { p \in fresh : store[p] = "ip" } \subseteq targets
             /\ Cardinality(sent \cup starting)
                  = IF Cardinality(targets) > MaxTargets THEN MaxTargets ELSE Cardinality(targets)
=============================================================================
