------------------------------ MODULE NodeSync ------------------------------
(***************************************************************************)
(* LoadBalancerNodeSyncLatency (loadbalancer_nodesync_latency.go): "measure"*)
(* takes a node out of the backends of all load balancers by a label and   *)
(* waits for the service controller's event of each load balancer;         *)
(* "gather" takes the label away and reports the latencies.                *)
(***************************************************************************)
EXTENDS Integers, FiniteSets

CONSTANTS
    Nodes,
    Services,   \* services of type LoadBalancer that the selector selects
    MaxMeasures,\* bound: calls of measure
    MaxEvents   \* bound: events per measure

VARIABLES
    pc,         \* Execute: "idle", "nodes", "label", "poll", "unlabel" (the
                \* deferred call), "gather"
    label,      \* nodes with the label
    ready,      \* nodes that are ready
    excludedNodeName,   \* a node, or "" before the first measure
    watching,   \* the informer's watch is established
    lbSvcMap,   \* services of this measure
    triggered,  \* tracker: service -> the measure of its start time, 0 if none
    complete,   \* tracker: service -> the measure during which its event
                \* was created, 0 if none
    result,     \* of the last measure: "none", "ok", "error"
    exempt,     \* history: nodes never among the backends, or whose
                \* label could not be taken away
    measures, events    \* history

vars == <<pc, label, ready, excludedNodeName, watching, lbSvcMap, triggered, complete, result,
          exempt, measures, events>>

Init ==
    /\ pc = "idle"
    /\ label \in SUBSET Nodes           \* some nodes are never backends
    /\ ready \in SUBSET Nodes
    /\ excludedNodeName = ""
    /\ watching = FALSE
    /\ lbSvcMap = {}
    /\ triggered = [s \in Services |-> 0]
    /\ complete = [s \in Services |-> 0]
    /\ result = "none"
    /\ exempt = label
    /\ measures = 0 /\ events = 0

---------------------------------------------------------------------------
(* measureNodeSyncLatency lists the services and starts the informer,      *)
(* whose goroutine it does not wait for.                                   *)
Measure ==
    /\ pc = "idle" /\ measures < MaxMeasures
    /\ measures' = measures + 1
    /\ events' = 0
    /\ lbSvcMap' \in SUBSET Services
    /\ pc' = "nodes"
    /\ UNCHANGED <<label, ready, excludedNodeName, watching, triggered, complete, result, exempt>>

IsCandidateNode(n) == n \notin label /\ n \in ready

(* Without a candidate the name of the last measure is used again.         *)
PickNode ==
    /\ pc = "nodes"
    /\ \/ \E n \in Nodes : IsCandidateNode(n) /\ excludedNodeName' = n
       \/ (\A n \in Nodes : ~IsCandidateNode(n)) /\ UNCHANGED excludedNodeName
    /\ IF excludedNodeName' = "" THEN pc' = "idle" /\ result' = "error" /\ watching' = FALSE
                                 ELSE pc' = "label" /\ UNCHANGED <<result, watching>>
    /\ UNCHANGED <<label, ready, lbSvcMap, triggered, complete, exempt, measures, events>>

ListFails ==
    /\ pc = "nodes"
    /\ pc' = "idle" /\ result' = "error" /\ watching' = FALSE
    /\ UNCHANGED <<label, ready, excludedNodeName, lbSvcMap, triggered, complete, exempt, measures, events>>

(* labelNodeForLBs(true), then the start times.                            *)
LabelNode ==
    /\ pc = "label"
    /\ label' = label \cup {excludedNodeName}
    /\ triggered' = [s \in Services |-> IF s \in lbSvcMap THEN measures ELSE triggered[s]]
    /\ pc' = "poll"
    /\ UNCHANGED <<ready, excludedNodeName, watching, lbSvcMap, complete, result, exempt, measures, events>>

LabelFails ==
    /\ pc = "label"
    /\ pc' = "unlabel" /\ result' = "error"
    /\ UNCHANGED <<label, ready, excludedNodeName, watching, lbSvcMap, triggered, complete, exempt,
                   measures, events>>

(* getEventInformer lists no items: only events of the watch count, and    *)
(* those that came before the watch are lost.                              *)
WatchStarts ==
    /\ pc \in {"nodes", "label", "poll"} /\ ~watching
    /\ watching' = TRUE
    /\ UNCHANGED <<pc, label, ready, excludedNodeName, lbSvcMap, triggered, complete, result, exempt,
                   measures, events>>

(* processEvent: the first event of a service is kept, over all measures.  *)
ProcessEvent(s) ==
    /\ pc \in {"nodes", "label", "poll", "unlabel"} /\ events < MaxEvents
    /\ events' = events + 1
    /\ complete' = IF watching /\ s \in lbSvcMap /\ complete[s] = 0
                     THEN [complete EXCEPT ![s] = measures] ELSE complete
    /\ UNCHANGED <<pc, label, ready, excludedNodeName, watching, lbSvcMap, triggered, result, exempt,
                   measures>>

Completed == { s \in Services : complete[s] # 0 }

PollSucceeds ==
    /\ pc = "poll"
    /\ Cardinality(Completed) = Cardinality(lbSvcMap)
    /\ pc' = "unlabel" /\ result' = "ok"
    /\ UNCHANGED <<label, ready, excludedNodeName, watching, lbSvcMap, triggered, complete, exempt,
                   measures, events>>

(* Mutant: a timeout returns before the deferred call is set up.           *)
PollTimesOutLabelled ==
    /\ pc = "poll"
    /\ pc' = "idle" /\ result' = "error"
    /\ UNCHANGED <<label, ready, excludedNodeName, watching, lbSvcMap, triggered, complete, exempt,
                   measures, events>>

PollTimesOut ==
    /\ pc = "poll"
    /\ pc' = "unlabel" /\ result' = "error"
    /\ UNCHANGED <<label, ready, excludedNodeName, watching, lbSvcMap, triggered, complete, exempt,
                   measures, events>>

(* The deferred labelNodeForLBs(false), whose error is only logged; the    *)
(* informer is stopped.                                                    *)
Unlabel ==
    /\ pc = "unlabel"
    /\ \/ label' = label \ {excludedNodeName} /\ exempt' = exempt \ {excludedNodeName}
       \/ UNCHANGED label /\ exempt' = exempt \cup (label \cap {excludedNodeName})
    /\ pc' = "idle" /\ watching' = FALSE
    /\ UNCHANGED <<ready, excludedNodeName, lbSvcMap, triggered, complete, result, measures, events>>

(* gather takes the label from the node of the last measure; before any    *)
(* measure there is no such node, and its Get fails.                       *)
Gather ==
    /\ pc = "idle" /\ excludedNodeName # ""
    /\ label' = label \ {excludedNodeName} /\ exempt' = exempt \ {excludedNodeName}
    /\ UNCHANGED <<pc, ready, excludedNodeName, watching, lbSvcMap, triggered, complete, result,
                   measures, events>>

NodeChanges(n) ==
    /\ measures < MaxMeasures
    /\ ready' = IF n \in ready THEN ready \ {n} ELSE ready \cup {n}
    /\ UNCHANGED <<pc, label, excludedNodeName, watching, lbSvcMap, triggered, complete, result,
                   exempt, measures, events>>

Next ==
    \/ Measure \/ PickNode \/ ListFails \/ LabelNode \/ LabelFails \/ WatchStarts
    \/ PollSucceeds \/ PollTimesOut \/ Unlabel \/ Gather
    \/ \E s \in Services : ProcessEvent(s)
    \/ \E n \in Nodes : NodeChanges(n)

Spec == Init /\ [][Next]_vars

---------------------------------------------------------------------------
TypeOK ==
    /\ pc \in {"idle", "nodes", "label", "poll", "unlabel"}
    /\ label \subseteq Nodes /\ ready \subseteq Nodes /\ exempt \subseteq Nodes
    /\ excludedNodeName \in Nodes \cup {""}
    /\ lbSvcMap \subseteq Services
    /\ result \in {"none", "ok", "error"}

(* Between two measures no node is left out of the load balancers, on any  *)
(* path of measure, save those that never were backends and those whose    *)
(* label the API server refused to take away.                              *)
BackendsRestored == pc = "idle" => label \subseteq exempt

(* The first measure that succeeds has an event of every service it looks  *)
(* at, created after the measure began.                                    *)
SyncObserved ==
    result = "ok" /\ measures = 1 => \A s \in lbSvcMap : complete[s] = 1
=============================================================================
