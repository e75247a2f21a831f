------------------------------ MODULE MCTools -------------------------------
(***************************************************************************)
(* Model checking of the tools beside clusterloader2: the netperf          *)
(* benchmark, perfdash and slo-monitor.  They are separate programs; the   *)
(* initial state chooses one and the others stand still.                   *)
(***************************************************************************)
EXTENDS NetPerf, PerfDash, TLC

CONSTANTS Tools

VARIABLES tool, v1, v2, v3, v4, v5, v6, v7, v8, v9, v10     \* the last of slo-monitor

sloVars == <<v1, v2, v3, v4, v5, v6, v7, v8, v9, v10>>
all == <<tool, netPerfVars, dashVars, sloVars>>

(* A testcase of several sizes, one within a worker, and one of one size.  *)
NetperfCases ==
    <<[src |-> "w1", dst |-> "w2", kind |-> "tcp"],
      [src |-> "w2", dst |-> "w2", kind |-> "netperf"],
      [src |-> "w2", dst |-> "w1", kind |-> "udp"]>>

(* Two jobs with one prefix, or with two.                                  *)
OnePrefix == ("a" :> "x") @@ ("b" :> "x")
DashConfigs == {OnePrefix, ("a" :> "x") @@ ("b" :> "y")}

(* A pod of one container that is created again, and one of two containers *)
(* whose Events are repeated.                                              *)
Slo == INSTANCE SloMonitor WITH
    Pods <- {"p1"}, Containers <- 1, Repeats <- {}, MaxLives <- 2, MaxExtras <- 1,
    now <- v1, pod <- v2, touches <- v3, lost <- v4, podQueue <- v5,
    eventQueue <- v6, handlers <- v7, PodStartupData <- v8, toDelete <- v9,
    observed <- v10

SloPair == INSTANCE SloMonitor WITH
    Pods <- {"p1"}, Containers <- 2, Repeats <- {"pulling", "pulled", "present"},
    MaxLives <- 1, MaxExtras <- 1,
    now <- v1, pod <- v2, touches <- v3, lost <- v4, podQueue <- v5,
    eventQueue <- v6, handlers <- v7, PodStartupData <- v8, toDelete <- v9,
    observed <- v10

Init ==
    /\ tool \in Tools
    /\ NetPerfInit /\ DashInit /\ Slo!Init
    /\ tool # "perfdash" => prefix = OnePrefix /\ bucket = [j \in Jobs |-> << >>]

Launch(A) == tool = "netperf" /\ A /\ UNCHANGED <<tool, dashVars, sloVars>>
Serve     == tool = "perfdash" /\ DashNext /\ UNCHANGED <<tool, netPerfVars, sloVars>>
Observe   == /\ (tool = "slo" /\ Slo!Next) \/ (tool = "slo pair" /\ SloPair!Next)
             /\ UNCHANGED <<tool, netPerfVars, dashVars>>

Next == Launch(NetPerfNext) \/ Serve \/ Observe

(* The launcher goes on, and so do the workers: their loops never end and  *)
(* Kubernetes restarts a container that did.                               *)
Fairness == /\ WF_all(Launch(LaunchStep))
            /\ \A w \in Workers : WF_all(Launch(WorkerStep(w)))

Spec == Init /\ [][Next]_all /\ Fairness

-----------------------------------------------------------------------------

(* slo-monitor: a pod is observed at most once for each time it was        *)
(* created, in whatever order its milestones arrive and however often it   *)
(* is updated (Handle and the goroutines of pod_monitor.go).               *)
ObservedOnce == Slo!ObservedOnce

(* slo-monitor: the queues that feed the monitor (store.go) find an item   *)
(* by its key however many were popped before it.                          *)
QueueIndexed == Slo!QueueIndexed
=============================================================================
