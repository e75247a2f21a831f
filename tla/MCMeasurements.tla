-------------------------- MODULE MCMeasurements ----------------------------
(***************************************************************************)
(* Model checking of the measurements and the reports of their steps, of   *)
(* the tuning sets and of the DNS load generator.  These share no state    *)
(* with each other, so one run takes them in turn: the initial state       *)
(* chooses a part.  Reports and tuning sets have variables of their own,   *)
(* which stand still in the other parts; v1, v2, ... are the variables of  *)
(* the part that is chosen otherwise.                                      *)
(***************************************************************************)
EXTENDS StepReports, TuningSets, TLC

CONSTANTS
    Parts,                      \* the parts to check
    k1,                         \* a key of EventLatency
    Pods, MorePods, Workers     \* pods and workers of several parts

VARIABLES part, v1, v2, v3, v4, v5, v6, v7, v8, v9, v10, v11, v12, v13, v14, v15, v16

(* Nothing tells the workers of a pool apart, nor two of the pods.         *)
Interchangeable == Permutations(Workers) \cup Permutations(Pods)

own == <<v1, v2, v3, v4, v5, v6, v7, v8, v9, v10, v11, v12, v13, v14, v15, v16>>
all == <<part, reportVars, tuningVars, own>>

(* Two measurements of which one has two instances; then two phases.       *)
ReportedSteps == <<[calls |-> <<{"a"}, {"a", "b"}>>, phases |-> 0],
                   [calls |-> << >>, phases |-> 2]>>

(* Two phases where a set is shared, one where it is not, and no phase.    *)
NoPhases == [p \in {} |-> [kind |-> "qps", actions |-> 0]]
TuningLoads ==
    {NoPhases, [p \in {"p1", "p2"} |-> [kind |-> "global", actions |-> 2]]} \cup
    {[p \in {"p1"} |-> [kind |-> k, actions |-> n]] :
        k \in SetKinds \ {"global"}, n \in {0, 2, 3}}

(* Services of one type and of two.                                        *)
ServiceTypes ==
    { [s \in {"a", "b"} |-> IF s = "a" THEN t[1] ELSE t[2]] :
        t \in {<<"LoadBalancer", "LoadBalancer">>, <<"LoadBalancer", "ClusterIP">>} }

(* No service, a headless one, and one without an address.                 *)
DnsService(n, ip, h) == [name |-> n, clusterIP |-> ip, externalName |-> "", hostnames |-> h]
DnsClusters == {{}, {DnsService("a", "None", {"x"})}, {DnsService("b", "", {})},
                {DnsService("a", "None", {}), DnsService("c", "ip", {})}}

(* With and without a scheduler to ask, a restart allowed in one place.    *)
MetricsConfigs ==
    {[scheduler |-> TRUE, pods |-> TRUE, check |-> TRUE,
      overrides |-> ("default" :> 1) @@ ("b" :> 0)],
     [scheduler |-> FALSE, pods |-> FALSE, check |-> FALSE, overrides |-> << >>],
     [scheduler |-> TRUE, pods |-> TRUE, check |-> TRUE, overrides |-> << >>]}

PromSetup(kind, client, valid, violations, overrides) ==
    [kind |-> kind, client |-> client, framework |-> TRUE, valid |-> valid,
     violations |-> violations, allowed |-> 0, overrides |-> overrides]
PromSetups ==
    { PromSetup("generic", "inCluster", valid, TRUE, {}) : valid \in BOOLEAN } \cup
    { PromSetup("restarts", "managed", valid, TRUE, {1, 2}) : valid \in BOOLEAN } \cup
    { PromSetup(kind, "inCluster", TRUE, FALSE, {}) : kind \in {"generic", "restarts"} } \cup
    { [PromSetup("generic", client, TRUE, TRUE, {}) EXCEPT !.framework = FALSE] :
          client \in {"inCluster", "other"} }
PromQueries ==
    <<[threshold |-> 1, lowerBound |-> FALSE, requireSamples |-> TRUE],
      [threshold |-> 1, lowerBound |-> TRUE, requireSamples |-> FALSE]>>
PromAnswers ==
    { << >>, <<[key |-> "x", value |-> -1]>> } \cup
    { <<[key |-> "x", value |-> n]>> : n \in 0 .. 2 } \cup
    { <<[key |-> "x", value |-> 1], [key |-> k, value |-> n]>> : k \in {"x", "y"}, n \in {1, 2} }

-----------------------------------------------------------------------------
Command == INSTANCE PodCommand WITH
    Pods <- Pods, Commands <- {"c1", "c2"}, Limit <- 1,
    FailOn <- {"timeout"}, MaxTicks <- 2, MaxStarts <- 2,
    caller <- v1, isRunning <- v2, skipGather <- v3, stopCh <- v4,
    worker <- v5, applicable <- v6, command <- v7, stats <- v8,
    results <- v9, failed <- v10, starts <- v11

Events == INSTANCE EventLatency WITH
    Kinds <- {"pod", "claim"}, Keys <- {k1},
    MaxLives <- 2, MaxQueue <- 2, MaxStarts <- 2,
    kind <- v1, cluster <- v2, seen <- v3, podSeen <- v4, queue <- v5,
    open <- v6, running <- v7, test <- v8, pending <- v9, entries <- v10,
    stateless <- v11, samples <- v12, known <- v13, starts <- v14

Jobs == INSTANCE EventLatency WITH
    Kinds <- {"job"}, Keys <- Pods,
    MaxLives <- 1, MaxQueue <- 1, MaxStarts <- 2,
    kind <- v1, cluster <- v2, seen <- v3, podSeen <- v4, queue <- v5,
    open <- v6, running <- v7, test <- v8, pending <- v9, entries <- v10,
    stateless <- v11, samples <- v12, known <- v13, starts <- v14

ServiceReach == INSTANCE ServiceLatency WITH
    TypeMaps <- ServiceTypes, Workers <- Workers, PingChecks <- 2,
    MaxQueue <- 1,
    cluster <- v1, seen <- v2, queue <- v3, open <- v4, worker <- v5,
    phases <- v6, checkers <- v7, isRunning <- v8, test <- v9, poll <- v10,
    typeOf <- v11

Policies == INSTANCE NetPolicy WITH
    Targets <- 2, LoadCount <- 2, MaxRuns <- 2,
    baseline <- v1, isSet <- v2, targets <- v3, objects <- v4, call <- v5,
    i <- v6, load <- v7, errors <- v8, denied <- v9, runs <- v10

Client == INSTANCE ReachabilityClient WITH
    Kinds <- {"pod", "policy"}, Pods <- MorePods, Steady <- Pods, Workers <- Workers,
    MaxTargets <- 1,
    kind <- v1, main <- v2, pods <- v3, store <- v4, queue <- v5,
    dirty <- v6, processing <- v7, worker <- v8, informer <- v9,
    created <- v10, targets <- v11, request <- v12, policy <- v13,
    fresh <- v14, notes <- v15, signal <- v16

Index == INSTANCE PodIndex WITH
    Pods <- Pods, ReplicaSets <- {"r1"}, Margin <- 0, MaxDesired <- 1,
    MaxNotes <- 2,
    podCluster <- v1, podStore <- v2, podNotes <- v3, rsCluster <- v4,
    rsCache <- v5, rsNotes <- v6, rsIndexer <- v7, rsPendingDeletion <- v8,
    wait <- v9, desired <- v10, known <- v11, late <- v12,
    missed <- v13

Api == INSTANCE ApiAvailability WITH
    Hosts <- {"h1"}, MaxPolls <- 3, MaxStarts <- 2,
    isRunning <- v1, isPaused <- v2, stopCh <- v3, caller <- v4, loop <- v5,
    left <- v6, metrics <- v7, report <- v8, outcomes <- v9, starts <- v10

Ooms == INSTANCE OomTracker WITH
    Ignored <- {"a"}, Processes <- {"a", "b"}, MaxEvents <- 3, PageSize <- 2,
    MaxRelists <- 1, MaxStarts <- 2,
    events <- v1, watched <- v2, page <- v3, listed <- v4, tracker <- v5,
    startTime <- v6, recorded <- v7, ooms <- v8, report <- v9,
    relists <- v10, skipped <- v11, starts <- v12

Network == INSTANCE NetworkPerformance WITH
    Nodes <- {"n1", "n2", "n3"}, MaxClients <- 2, MaxFaults <- 1,
    MaxStarts <- 1,
    pc <- v1, clients <- v2, servers <- v3, protocol <- v4, cluster <- v5,
    layout <- v6, left <- v7, pairs <- v8, work <- v9, events <- v10,
    stopCh <- v11, metricVal <- v12, report <- v13, faults <- v14,
    starts <- v15

Sampling == INSTANCE Samplers WITH
    Kinds <- {"throughput", "profile", "etcd", "usage", "ksm"}, Hosts <- 2,
    MaxStarts <- 2, MaxSamples <- 1,
    kind <- v1, isRunning <- v2, stopCh <- v3, closed <- v4, sampler <- v5,
    samples <- v6, report <- v7, test <- v8, starts <- v9, channels <- v10,
    abandoned <- v11

Waits == INSTANCE ObjectWaits WITH
    Kinds <- {"pvs", "pvcs", "nodes", "generic", "jobs"},
    Objects <- {"a", "b"}, Selected <- {"a", "b"}, Desired <- 1,
    MaxWanted <- 1, MaxLives <- 2, MaxFeed <- 2,
    kind <- v1, cluster <- v2, feed <- v3, store <- v4, queue <- v5,
    isRunning <- v6, finishedJobs <- v7, wait <- v8, listed <- v9,
    held <- v10, unfinished <- v11

Sync == INSTANCE NodeSync WITH
    Nodes <- {"n1", "n2"}, Services <- {"s1", "s2"}, MaxMeasures <- 2,
    MaxEvents <- 2,
    pc <- v1, label <- v2, ready <- v3, excludedNodeName <- v4,
    watching <- v5, lbSvcMap <- v6, triggered <- v7, complete <- v8,
    result <- v9, exempt <- v10, measures <- v11, events <- v12

Probing == INSTANCE Probes WITH
    Probers <- {"network", "dns"}, Manifests <- 2, Replicas <- 1,
    MaxTests <- 2,
    test <- v1, mode <- v2, pc <- v3, framework <- v4, startTime <- v5,
    applied <- v6, ns <- v7, objs <- v8, targets <- v9, logged <- v10

Dns == INSTANCE DnsPerf WITH
    Clusters <- DnsClusters, QpsSleep <- 2, TestDuration <- 3,
    IdleDuration <- 1, QueryTimeout <- 2, MaxTime <- 8,
    now <- v1, loop <- v2, due <- v3, ticker <- v4, stopChan <- v5,
    started <- v6, waiting <- v7, looking <- v8, sending <- v9,
    result <- v10, idles <- v11

Metrics == INSTANCE MetricsBundle WITH
    Containers <- {<<"p", "a">>, <<"p", "b">>}, Bounds <- 1 .. 2,
    Configs <- MetricsConfigs, MaxStarts <- 2, MaxFaults <- 1,
    MaxEvents <- 2,
    config <- v1, call <- v2, pos <- v3, summaries <- v4, failed <- v5,
    initialLatency <- v6, initSnapshot <- v7, scheduler <- v8,
    restarts <- v9, running <- v10, report <- v11, since <- v12,
    happened <- v13, resets <- v14, starts <- v15, events <- v16

Prom == INSTANCE PromMeasurement WITH
    Setups <- PromSetups, Queries <- PromQueries, Answers <- PromAnswers,
    NoThreshold <- -2, NaN <- -1, Second <- 2, MaxPolls <- 1, MaxTime <- 5,
    setup <- v1, now <- v2, startTime <- v3, configured <- v4, pc <- v5,
    endTime <- v6, q <- v7, polls <- v8, errs <- v9, items <- v10,
    result <- v11, restarted <- v12, counted <- v13, answers <- v14

-----------------------------------------------------------------------------
(* The variables a part does not have.                                     *)
rest16 == <<part, reportVars, tuningVars, v16>>
rest15 == <<part, reportVars, tuningVars, v15, v16>>
rest14 == <<part, reportVars, tuningVars, v14, v15, v16>>
rest13 == <<part, reportVars, tuningVars, v13, v14, v15, v16>>
rest12 == <<part, reportVars, tuningVars, v12, v13, v14, v15, v16>>
rest11 == <<part, reportVars, tuningVars, v11, v12, v13, v14, v15, v16>>
rest0  == <<part, reportVars, tuningVars>>

Off16  == v16 = 0
Off15  == v15 = 0 /\ Off16
Off14  == v14 = 0 /\ Off15
Off13  == v13 = 0 /\ Off14
Off12  == v12 = 0 /\ Off13
Off11  == v11 = 0 /\ Off12
Off1   == /\ v1 = 0 /\ v2 = 0 /\ v3 = 0 /\ v4 = 0 /\ v5 = 0 /\ v6 = 0 /\ v7 = 0
          /\ v8 = 0 /\ v9 = 0 /\ v10 = 0 /\ Off11

Init ==
    /\ part \in Parts
    /\ ReportInit /\ TuningInit /\ (part # "tuning" => load = NoPhases)
    /\ \/ part \in {"reports", "tuning"} /\ Off1
       \/ part = "command" /\ Command!Init /\ Off12
       \/ part = "events" /\ Events!Init /\ Off15
       \/ part = "jobs" /\ Jobs!Init /\ Off15
       \/ part = "services" /\ ServiceReach!Init /\ Off12
       \/ part = "policies" /\ Policies!Init /\ Off11
       \/ part = "targets" /\ Client!Init
       \/ part = "index" /\ Index!Init /\ Off14
       \/ part = "api" /\ Api!Init /\ Off11
       \/ part = "ooms" /\ Ooms!Init /\ Off13
       \/ part = "network" /\ Network!Init /\ Off16
       \/ part = "samplers" /\ Sampling!Init /\ Off12
       \/ part = "waits" /\ Waits!Init /\ Off12
       \/ part = "sync" /\ Sync!Init /\ Off13
       \/ part = "probes" /\ Probing!Init /\ Off11
       \/ part = "dns" /\ Dns!Init /\ Off12
       \/ part = "metrics" /\ Metrics!Init
       \/ part = "prometheus" /\ Prom!Init /\ Off15

Next ==
    \/ part = "reports" /\ ReportNext /\ UNCHANGED <<part, tuningVars, own>>
    \/ part = "tuning" /\ TuningNext /\ UNCHANGED <<part, reportVars, own>>
    \/ part = "command" /\ Command!Next /\ UNCHANGED rest12
    \/ part = "events" /\ Events!Next /\ UNCHANGED rest15
    \/ part = "jobs" /\ Jobs!Next /\ UNCHANGED rest15
    \/ part = "services" /\ ServiceReach!Next /\ UNCHANGED rest12
    \/ part = "policies" /\ Policies!Next /\ UNCHANGED rest11
    \/ part = "targets" /\ Client!Next /\ UNCHANGED rest0
    \/ part = "index" /\ Index!Next /\ UNCHANGED rest14
    \/ part = "api" /\ Api!Next /\ UNCHANGED rest11
    \/ part = "ooms" /\ Ooms!Next /\ UNCHANGED rest13
    \/ part = "network" /\ Network!Next /\ UNCHANGED rest16
    \/ part = "samplers" /\ Sampling!Next /\ UNCHANGED rest12
    \/ part = "waits" /\ Waits!Next /\ UNCHANGED rest12
    \/ part = "sync" /\ Sync!Next /\ UNCHANGED rest13
    \/ part = "probes" /\ Probing!Next /\ UNCHANGED rest11
    \/ part = "dns" /\ Dns!Next /\ UNCHANGED rest12
    \/ part = "metrics" /\ Metrics!Next /\ UNCHANGED rest0
    \/ part = "prometheus" /\ Prom!Next /\ UNCHANGED rest15

Spec == Init /\ [][Next]_all

-----------------------------------------------------------------------------
(* Type correctness of every part.                                         *)
TypeOK ==
    /\ part = "reports" => ReportTypeOK
    /\ part = "tuning" => TuningTypeOK
    /\ part = "command" => Command!TypeOK
    /\ part = "events" => Events!TypeOK
    /\ part = "jobs" => Jobs!TypeOK
    /\ part = "services" => ServiceReach!TypeOK
    /\ part = "policies" => Policies!TypeOK
    /\ part = "targets" => Client!TypeOK
    /\ part = "index" => Index!TypeOK
    /\ part = "api" => Api!TypeOK
    /\ part = "ooms" => Ooms!TypeOK
    /\ part = "network" => Network!TypeOK
    /\ part = "samplers" => Sampling!TypeOK
    /\ part = "waits" => Waits!TypeOK
    /\ part = "sync" => Sync!TypeOK
    /\ part = "probes" => Probing!TypeOK
    /\ part = "dns" => Dns!TypeOK
    /\ part = "metrics" => Metrics!TypeOK
    /\ part = "prometheus" => Prom!TypeOK

(* What a measurement reports is what happened: PodPeriodicCommand's       *)
(* results are complete, the API availability is that of the polls since   *)
(* start, no goroutine adds to a summary that was made, every OOM event is *)
(* tracked once, a pod's start-up times belong to one pod, a node sync     *)
(* latency to events after its measure began, a probe that has a start     *)
(* time is running, what is a difference of two snapshots, or asked of     *)
(* Prometheus, is about the time since start, and a restart count or a     *)
(* sample beyond its bound is reported as an error.                        *)
ReportsAreExact ==
    /\ part = "command" => Command!GatherIsComplete
    /\ part = "api" => Api!ReportIsExact
    /\ part = "samplers" => Sampling!ReportIsFinal
    /\ part = "ooms" => Ooms!NoOomMissed
    /\ part = "events" => Events!StartupOfOnePod
    /\ part = "sync" => Sync!SyncObserved
    /\ part = "probes" => Probing!StartedProbesRun
    /\ part = "metrics" => Metrics!MetricsCoverTheTest
    /\ part = "prometheus" => Prom!RestartsOfTheTest
    /\ part = "metrics" => Metrics!RestartsAreJudged
    /\ part = "prometheus" => Prom!ViolationsReported

(* A wait that succeeds was not fooled by what it reads through informers, *)
(* queues and counters: services are reached, jobs have their latencies    *)
(* and are finished, pods of deleted ReplicaSets are waited for, and the   *)
(* wanted volumes, nodes and objects were there at one moment.             *)
WaitsAreSound ==
    [][/\ part = "index" => Index!PodsAwaited /\ Index!IndexFollowsCluster'
       /\ part = "services" => ServiceReach!ReadyServicesReached'
       /\ part = "jobs" => Jobs!JobsAwaited'
       /\ part = "waits" => Waits!ListedJobsFinished' /\ Waits!WaitedStateWasReal']_all

(* Measurements of the network: enforcement latency is measured from       *)
(* denied to allowed, and its clients lose no pod and take no target too   *)
(* many; throughput has as many pairs of pods as the nodes allow and, if   *)
(* nothing fails, a report with a response of every pair; the DNS client   *)
(* sends for a whole test between pauses and counts each query once.       *)
NetworksMeasured ==
    /\ part = "policies" => Policies!ClientsStartDenied
    /\ part = "targets" => Client!TargetsExact
    /\ part = "network" => Network!PairingIsMaximal /\ Network!EveryPairResponded
    /\ part = "dns" => Dns!TestsRunInFull /\ Dns!QueriesCounted

(* A measurement leaves no goroutines behind that nothing will stop, no    *)
(* nodes that are excluded from the load balancers, and no probes.         *)
NothingLeftBehind ==
    /\ part = "samplers" => Sampling!DisposedSamplersEnd
    /\ part = "sync" => Sync!BackendsRestored
    /\ part = "probes" => Probing!NoProbesLeft
    /\ part = "metrics" => Metrics!OnlyReplacedGatherersRun

(* The worker of PodPeriodicCommand runs and commands end or time out.     *)
CommandSpec == Spec /\ WF_all(Command!WorkerStep /\ UNCHANGED rest12)
                    /\ WF_all((Command!Gather \/ Command!Dispose) /\ UNCHANGED rest12)

(* "doneCh is closed after stopCh is closed and all in progress commands   *)
(* have finished" (pod_command.go:230): a stop returns.                    *)
StopReturns == Command!StopReturns
=============================================================================
