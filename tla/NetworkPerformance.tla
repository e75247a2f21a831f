-------------------------- MODULE NetworkPerformance --------------------------
(***************************************************************************)
(* The NetworkPerformanceMetrics measurement (measurement/common/network)  *)
(* and the worker it runs in its pods (util-images/network/                *)
(* netperfbenchmark).  start pairs the worker pods across nodes and        *)
(* creates one NetworkTestRequest per pair; the two workers of a pair act  *)
(* on it and write its status; each update event of the informer is        *)
(* counted as one response, and gather waits until there are as many as    *)
(* clients.                                                                *)
(***************************************************************************)
EXTENDS Integers, Sequences, FiniteSets, FiniteSetsExt

CONSTANTS
    Nodes,
    MaxClients,     \* bound: numberOfClients
    MaxFaults,      \* bound: failed calls, relists and container restarts
    MaxStarts       \* bound: calls of start

VARIABLES
    pc,         \* "idle", then an object to create, "store", "pairing",
                \* "running", "gathering", "panicked"
    clients, servers, protocol,     \* the parameters
    cluster,    \* created: "namespace", "rbac", "crd"
    layout,     \* node -> worker pods found (storeWorkerPods)
    left,       \* node -> pods not paired yet (workerPodMap)
    pairs,      \* podPairList, as pairs of nodes
    work,       \* pair -> role -> "none", "waiting", "done"
    events,     \* updates the informer has not delivered
    stopCh,     \* "nil", "open", "closed"
    metricVal,  \* responses, as [pair, ok], over all starts
    report,     \* << >> or the summary: [all: no timeout, metrics]
    faults, starts  \* history

vars == <<pc, clients, servers, protocol, cluster, layout, left, pairs, work, events,
          stopCh, metricVal, report, faults, starts>>
params == <<clients, servers, protocol>>
measured == <<work, events, metricVal, report>>

Roles == {"client", "server"}
PairSet == 1 .. MaxClients
NoPods == [n \in Nodes |-> 0]
NoWork == [i \in PairSet |-> [r \in Roles |-> "none"]]
NoReport == [all |-> FALSE, metrics |-> << >>]
Total(f) == MapThenSumSet(LAMBDA n : f[n], Nodes)

(* validate: both numbers are positive.                                    *)
Init ==
    /\ pc = "idle"
    /\ clients \in 1 .. MaxClients /\ servers \in 1 .. MaxClients
    /\ protocol \in {"TCP", "HTTP"}
    /\ cluster = {} /\ layout = NoPods /\ left = NoPods /\ pairs = << >>
    /\ work = NoWork /\ events = << >> /\ stopCh = "nil" /\ metricVal = << >>
    /\ report = NoReport /\ faults = 0 /\ starts = 0

-----------------------------------------------------------------------------
Start ==
    /\ pc = "idle" /\ starts < MaxStarts
    /\ pc' = "namespace" /\ starts' = starts + 1
    /\ UNCHANGED <<params, cluster, layout, left, pairs, measured, stopCh, faults>>

Fail ==
    /\ faults < MaxFaults
    /\ faults' = faults + 1

(* prepareCluster, createAndWaitForWorkerPods: an object that exists is    *)
(* accepted; the deployment lives in the namespace.                        *)
NextObject == [namespace |-> "rbac", rbac |-> "crd", crd |-> "deployment",
               deployment |-> "store"]

Create(o) ==
    /\ pc = o
    /\ \/ /\ cluster' = cluster \cup ({o} \ {"deployment"})
          /\ pc' = NextObject[o] /\ UNCHANGED faults
       \/ Fail /\ pc' = "idle" /\ UNCHANGED cluster
    /\ UNCHANGED <<params, layout, left, pairs, measured, stopCh, starts>>

(* WaitForPods, storeWorkerPods (a pod without an IP is skipped) and       *)
(* initializeInformer; then the ratio is checked (getPodRatioType).        *)
StoreWorkerPods(f) ==
    /\ pc = "store"
    /\ Total(f) <= clients + servers
    /\ layout' = f /\ left' = f /\ pairs' = << >>
    /\ stopCh' = "open"
    /\ pc' = IF clients = servers THEN "pairing" ELSE "idle"
    /\ UNCHANGED <<params, cluster, measured, faults, starts>>

(* formUniquePodPair: the heap yields the two nodes with most pods left.   *)
Fullest(n, ns) == n \in ns /\ \A m \in ns : left[m] <= left[n]

Candidates == { n \in Nodes : left[n] > 0 }

FormPair(n, m) ==
    /\ pc = "pairing" /\ Cardinality(Candidates) > 1
    /\ Fullest(n, Candidates) /\ Fullest(m, Candidates \ {n})
    /\ left' = [left EXCEPT ![n] = @ - 1, ![m] = @ - 1]
    /\ pairs' = Append(pairs, <<n, m>>)
    /\ UNCHANGED <<pc, params, cluster, layout, measured, stopCh, faults, starts>>

(* createCustomResourcePerUniquePodPair: a request that cannot be created  *)
(* is logged, one left by an earlier start stays as it is.                 *)
CreateRequests(created) ==
    /\ pc = "pairing" /\ Cardinality(Candidates) <= 1
    /\ created \subseteq 1 .. Len(pairs)
    /\ IF created = 1 .. Len(pairs) THEN UNCHANGED faults ELSE Fail
    /\ work' = [i \in PairSet |-> [r \in Roles |->
                   IF i \in created /\ work[i][r] = "none" THEN "waiting" ELSE work[i][r]]]
    /\ pc' = "running"
    /\ UNCHANGED <<params, cluster, layout, left, pairs, events, metricVal, report,
                   stopCh, starts>>

-----------------------------------------------------------------------------
(* A worker gets the request's add event, runs its command at the agreed   *)
(* time and updates the status: the HTTP client and the servers of the     *)
(* other protocols with the parsed result, anyone with an error.  An       *)
(* update that fails is not retried.                                       *)
Reporter(r) == r = IF protocol = "HTTP" THEN "client" ELSE "server"

Work(i, r, outcome) ==
    /\ work[i][r] = "waiting" /\ {"namespace", "crd"} \subseteq cluster
    /\ IF outcome = "ok" THEN UNCHANGED faults ELSE Fail
    /\ work' = [work EXCEPT ![i][r] = "done"]
    /\ events' = IF outcome = "error" \/ (outcome = "ok" /\ Reporter(r))
                 THEN Append(events, [pair |-> i, ok |-> outcome = "ok"]) ELSE events
    /\ UNCHANGED <<pc, params, cluster, layout, left, pairs, stopCh, metricVal, report,
                   starts>>

(* A worker's container restarts and sees the request as new once more.    *)
WorkerRestarts(i, r) ==
    /\ work[i][r] = "done" /\ {"namespace", "crd"} \subseteq cluster /\ Fail
    /\ work' = [work EXCEPT ![i][r] = "waiting"]
    /\ UNCHANGED <<pc, params, cluster, layout, left, pairs, events, stopCh, metricVal,
                   report, starts>>

(* handleUpdateNetworkTestEvents.                                          *)
HandleUpdate ==
    /\ stopCh = "open" /\ events # << >>
    /\ metricVal' = Append(metricVal, Head(events))
    /\ events' = Tail(events)
    /\ UNCHANGED <<pc, params, cluster, layout, left, pairs, work, stopCh, report,
                   faults, starts>>

-----------------------------------------------------------------------------
Gather ==
    /\ pc \in {"idle", "running"} /\ starts > 0
    /\ pc' = "gathering"
    /\ UNCHANGED <<params, cluster, layout, left, pairs, measured, stopCh, faults, starts>>

(* cleanupCluster: every object is tried, failures are logged.             *)
CleanupCluster(kept) ==
    /\ kept \subseteq cluster
    /\ IF kept = {} THEN UNCHANGED faults ELSE Fail
    /\ cluster' = kept
    /\ work' = IF {"namespace", "crd"} \subseteq kept THEN work ELSE NoWork

(* waitForMetricsFromPods polls until the count is exact or time is up;    *)
(* closing a channel that start never made, or twice, panics.              *)
Gathered(all, kept) ==
    /\ pc = "gathering"
    /\ all => Len(metricVal) = clients
    /\ IF stopCh # "open"
       THEN pc' = "panicked" /\ UNCHANGED <<cluster, report, stopCh, layout, work,
                                            events, faults>>
       ELSE /\ CleanupCluster(kept)
            /\ report' = [all |-> all, metrics |-> metricVal]
            /\ stopCh' = "closed" /\ pc' = "idle"
            /\ events' = << >> /\ layout' = NoPods
    /\ UNCHANGED <<params, left, pairs, metricVal, starts>>

Dispose(kept) ==
    /\ pc \in {"idle", "running"} /\ starts > 0 /\ cluster # {}
    /\ CleanupCluster(kept)
    /\ UNCHANGED <<pc, params, layout, left, pairs, events, metricVal, report, stopCh,
                   starts>>

Next ==
    \/ Start \/ Gather \/ HandleUpdate
    \/ \E o \in DOMAIN NextObject : Create(o)
    \/ \E f \in [Nodes -> 0 .. 2 * MaxClients] : StoreWorkerPods(f)
    \/ \E n, m \in Nodes : FormPair(n, m)
    \/ \E created \in SUBSET PairSet : CreateRequests(created)
    \/ \E i \in PairSet, r \in Roles :
          \/ \E outcome \in {"ok", "error", "lost"} : Work(i, r, outcome)
          \/ WorkerRestarts(i, r)
    \/ \E all \in BOOLEAN, kept \in SUBSET cluster : Gathered(all, kept)
    \/ \E kept \in SUBSET cluster : Dispose(kept)

-----------------------------------------------------------------------------
TypeOK ==
    /\ pc \in {"idle", "store", "pairing", "running", "gathering", "panicked"}
          \cup DOMAIN NextObject
    /\ cluster \subseteq {"namespace", "rbac", "crd"}
    /\ layout \in [Nodes -> 0 .. 2 * MaxClients] /\ left \in [Nodes -> 0 .. 2 * MaxClients]
    /\ stopCh \in {"nil", "open", "closed"} /\ faults \in 0 .. MaxFaults

(* The greedy pairing is the best there is: each pair joins two nodes, and *)
(* there are as many pairs as the pods allow, half of them unless one node *)
(* holds more than all the others, however the heap breaks ties.           *)
PairingIsMaximal ==
    pc = "running" /\ layout # NoPods =>
       LET total == Total(layout)
           most == Max({ layout[n] : n \in Nodes })
           best == IF 2 * most > total THEN total - most ELSE total \div 2
       IN Len(pairs) = best /\ \A i \in 1 .. Len(pairs) : pairs[i][1] # pairs[i][2]

(* Responses carry no pair, gather only counts them: still, when it sees   *)
(* as many as clients and nothing has failed, it has one from every pair.  *)
EveryPairResponded ==
    report.all /\ faults = 0 /\ starts = 1 =>
       { report.metrics[k].pair : k \in 1 .. Len(report.metrics) } = 1 .. clients
=============================================================================
