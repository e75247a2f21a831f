--------------------------- MODULE MetricsBundle ----------------------------
(***************************************************************************)
(* The TestMetrics measurement and the two of its members that report a    *)
(* difference of snapshots: what the scheduler and the containers of       *)
(* kube-system counted between "start" and "gather".                       *)
(*                                                                         *)
(*   pkg/measurement/common/bundle/test_metrics.go                         *)
(*   pkg/measurement/common/scheduler_latency.go, system_pod_metrics.go    *)
(*   pkg/measurement/common/metrics_for_e2e.go, util/histogram.go          *)
(*                                                                         *)
(* The members run one after the other; the cluster goes on meanwhile.     *)
(* The error of a member does not stop the next one.  What the members do  *)
(* in the background is modelled in Samplers and OomTracker; here they     *)
(* only start and stop it, each in its way.                                *)
(***************************************************************************)
EXTENDS Integers, Sequences, FiniteSets

CONSTANTS
    Containers,  \* <<pod, container>> of kube-system
    Bounds,      \* upper bounds of the scheduler's histogram: 1 .. n
    Configs,     \* [scheduler, pods, check : BOOLEAN, overrides : name -> Nat]
    MaxStarts,   \* bound: start calls
    MaxFaults,   \* bound: members that fail, but for restart counts
    MaxEvents    \* bound: events of the cluster

VARIABLES
    config,         \* the parameters of the measurement
    call,           \* "none", "start", "gather", "gathered" or "disposed"
    pos,            \* position in the members of the call
    summaries,      \* members that gave a summary
    failed,         \* members whose error is in an errList that was returned
    initialLatency, \* initialLatency of SchedulingMetrics
    initSnapshot,   \* initSnapshot of SystemPodMetrics, or NoSnapshot
    scheduler,      \* cumulative histogram of the running scheduler
    restarts,       \* restart counts, as the API server's cache has them
    running,        \* [tasks, gatherer]: what is at work in the background, as
                    \* <<member, start>>, and the start whose gatherer the
                    \* measurement of resource usage holds, 0 if none
    report,         \* what the summaries say
    since,          \* history: what happened since the last start
    happened,       \* history: since, when the summary was made
    resets,         \* history: counters that began again since the last start
    starts, events

clusterVars == <<scheduler, restarts, since, resets, events>>
vars == <<config, call, pos, summaries, failed, initialLatency, initSnapshot,
          running, report, happened, starts, clusterVars>>

(* The profiles of four components are alike and stand as one member.      *)
StartMembers  == <<"etcdMetrics", "schedulingMetrics", "resourceUsageSummary",
                   "profile", "systemPodMetrics", "clusterOOMsTracker">>
GatherMembers == <<"etcdMetrics", "schedulingMetrics", "metricsForE2E",
                   "resourceUsageSummary", "profile", "systemPodMetrics",
                   "clusterOOMsTracker">>
Background    == {"etcdMetrics", "resourceUsageSummary", "profile", "clusterOOMsTracker"}

Members   == IF call = "start" THEN StartMembers ELSE GatherMembers
Turn(m)   == call \in {"start", "gather"} /\ pos <= Len(Members) /\ Members[pos] = m

Scheduler    == <<"scheduler">>
EmptyHist    == [b \in Bounds |-> 0]
NoRestarts   == [c \in Containers |-> 0]
NoSnapshot   == [taken |-> FALSE, counts |-> NoRestarts]
NoReport     == [latency |-> EmptyHist, restarts |-> NoRestarts]

(* The scheduler has scheduled before the test; kube-system is empty or    *)
(* has containers that restarted before.                                   *)
Init ==
    /\ config \in Configs
    /\ call = "none" /\ pos = 1 /\ summaries = {} /\ failed = {}
    /\ initialLatency = EmptyHist /\ initSnapshot = NoSnapshot
    /\ scheduler = [b \in Bounds |-> 1]
    /\ \E cs \in {{}, Containers} : restarts = [c \in cs |-> 1]
    /\ running = [tasks |-> {}, gatherer |-> 0] /\ report = NoReport
    /\ since = NoReport /\ happened = NoReport /\ resets = {}
    /\ starts = 0 /\ events = 0

-----------------------------------------------------------------------------
(* The bundle.                                                             *)

Execute(action) ==
    /\ call = "none"
    /\ action = "start" => starts < MaxStarts
    /\ call' = action /\ pos' = 1
    /\ starts' = IF action = "start" THEN starts + 1 ELSE starts
    /\ UNCHANGED <<config, summaries, failed, initialLatency, initSnapshot,
                   running, report, happened, clusterVars>>

MayFail(m) == Cardinality(failed \cup {m}) <= MaxFaults

(* appendResults, and on to the next member.                               *)
AppendResults(m, ok, summary) ==
    /\ pos' = pos + 1
    /\ failed' = IF ok THEN failed ELSE failed \cup {m}
    /\ summaries' = IF summary THEN summaries \cup {m} ELSE summaries
    /\ UNCHANGED <<config, call, starts, events>>

(* All members had their turn: the summaries and the errors are returned.  *)
(* A gather is the last call: another one panics (see Samplers).           *)
ExecuteReturns ==
    /\ call \in {"start", "gather"}
    /\ pos = Len(Members) + 1
    /\ call' = IF call = "start" THEN "none" ELSE "gathered"
    /\ UNCHANGED <<config, pos, summaries, failed, initialLatency, initSnapshot,
                   running, report, happened, starts, clusterVars>>

Tasks(m) == { t \in running.tasks : t[1] = m }

(* What the stop of a member reaches.                                      *)
Stopped(m) == IF m = "resourceUsageSummary" THEN {<<m, running.gatherer>>} ELSE Tasks(m)

(* Dispose names neither SystemPodMetrics nor ClusterOOMsTracker, and the  *)
(* Dispose of a profile is empty.                                          *)
Dispose ==
    /\ call \in {"none", "gathered"}
    /\ call' = "disposed"
    /\ running' = [running EXCEPT !.tasks = @ \ (Stopped("etcdMetrics")
                                                \cup Stopped("resourceUsageSummary"))]
    /\ UNCHANGED <<config, pos, summaries, failed, initialLatency, initSnapshot,
                   report, happened, starts, clusterVars>>

(* Each start of etcdMetrics and of resourceUsageSummary begins anew; a    *)
(* profile and the tracker of OOMs say that they run already.  A start     *)
(* that fails has left the tracker running if its informer did not sync,   *)
(* and no gatherer (or the last one, if it failed early) in the            *)
(* measurement of resource usage, where a new gatherer replaces the last.  *)
StartBackground(m) ==
    LET begun == IF m \in {"profile", "clusterOOMsTracker"} /\ Tasks(m) # {}
                   THEN running.tasks ELSE running.tasks \cup {<<m, starts>>}
    IN  /\ call = "start" /\ m \in Background /\ Turn(m)
        /\ \/ /\ AppendResults(m, TRUE, FALSE)
              /\ running' = [tasks |-> begun, gatherer |-> IF m = "resourceUsageSummary"
                                                             THEN starts ELSE running.gatherer]
           \/ /\ MayFail(m)
              /\ AppendResults(m, FALSE, FALSE)
              /\ \/ UNCHANGED running
                 \/ m = "clusterOOMsTracker" /\ running' = [running EXCEPT !.tasks = begun]
                 \/ m = "resourceUsageSummary" /\ running' = [running EXCEPT !.gatherer = 0]
        /\ UNCHANGED <<initialLatency, initSnapshot, scheduler, restarts, report,
                       since, happened, resets>>

(* Asked for its samples a member stops first, also if it fails then; two  *)
(* may fail with a summary.  Without a gatherer there is neither summary   *)
(* nor error; a tracker that does not run is an error, if it is enabled.   *)
GatherBackground(m) ==
    LET unable == CASE m = "resourceUsageSummary" -> running.gatherer = 0
                    [] m = "clusterOOMsTracker"   -> Tasks(m) = {}
                    [] OTHER                      -> FALSE
    IN  /\ call = "gather" /\ m \in Background /\ Turn(m)
        /\ running' = [running EXCEPT !.tasks = @ \ Stopped(m)]
        /\ IF unable
             THEN \/ AppendResults(m, TRUE, FALSE)
                  \/ m = "clusterOOMsTracker" /\ AppendResults(m, FALSE, FALSE)
             ELSE \/ AppendResults(m, TRUE, TRUE)
                  \/ /\ m # "profile" /\ MayFail(m)
                     /\ \E summary \in {FALSE, m # "etcdMetrics"} : AppendResults(m, FALSE, summary)
        /\ UNCHANGED <<initialLatency, initSnapshot, scheduler, restarts, report,
                       since, happened, resets>>

(* MetricsForE2E: the grabber cannot be made, or grabs all or a part.      *)
GrabMetrics ==
    /\ Turn("metricsForE2E")
    /\ \E ok, summary \in BOOLEAN :
          /\ IF ok THEN summary ELSE MayFail("metricsForE2E")
          /\ AppendResults("metricsForE2E", ok, summary)
    /\ UNCHANGED <<initialLatency, initSnapshot, scheduler, restarts, running,
                   report, since, happened, resets>>

-----------------------------------------------------------------------------
(* SchedulingMetrics.  The nodes are listed first; a LIST that fails       *)
(* leaves initialLatency alone, a request to the scheduler that fails      *)
(* leaves empty histograms.  One histogram stands for the fourteen: each   *)
(* sums up the buckets of its samples.                                     *)
GetSchedulingMetrics == scheduler
RequestFails         == config.scheduler /\ MayFail("schedulingMetrics")

HistogramSub(final, initial) == [b \in Bounds |-> final[b] - initial[b]]

SchedulingReset ==
    /\ call = "start" /\ Turn("schedulingMetrics")
    /\ \/ /\ config.scheduler => MayFail("schedulingMetrics")
          /\ AppendResults("schedulingMetrics", ~config.scheduler, FALSE)
          /\ UNCHANGED initialLatency
       \/ /\ RequestFails
          /\ AppendResults("schedulingMetrics", FALSE, FALSE)
          /\ initialLatency' = EmptyHist
       \/ /\ config.scheduler
          /\ AppendResults("schedulingMetrics", TRUE, FALSE)
          /\ initialLatency' = GetSchedulingMetrics
    /\ since' = [since EXCEPT !.latency = EmptyHist]
    /\ resets' = resets \ {Scheduler}
    /\ UNCHANGED <<initSnapshot, scheduler, restarts, running, report, happened>>

SchedulingGather ==
    /\ call = "gather" /\ Turn("schedulingMetrics")
    /\ \/ /\ config.scheduler => MayFail("schedulingMetrics")
          /\ AppendResults("schedulingMetrics", ~config.scheduler, FALSE)
          /\ UNCHANGED <<report, happened>>
       \/ /\ config.scheduler
          /\ AppendResults("schedulingMetrics", TRUE, TRUE)
          /\ report' = [report EXCEPT !.latency = HistogramSub(GetSchedulingMetrics, initialLatency)]
          /\ happened' = [happened EXCEPT !.latency = since.latency]
    /\ UNCHANGED <<initialLatency, initSnapshot, scheduler, restarts, running,
                   since, resets>>

-----------------------------------------------------------------------------
(* SystemPodMetrics: the bundle passes its own action on.                  *)

PodsDisabled ==
    /\ Turn("systemPodMetrics")
    /\ ~config.pods
    /\ AppendResults("systemPodMetrics", TRUE, FALSE)
    /\ UNCHANGED <<initialLatency, initSnapshot, scheduler, restarts, running,
                   report, since, happened, resets>>

(* extractMetrics of the LIST: the restart counts, by pod and container.   *)
GetPodMetrics == restarts

(* The LIST of the pods fails, or the overrides cannot be read.            *)
PodsFail ==
    /\ Turn("systemPodMetrics")
    /\ config.pods /\ MayFail("systemPodMetrics")
    /\ AppendResults("systemPodMetrics", FALSE, FALSE)
    /\ UNCHANGED <<initialLatency, initSnapshot, scheduler, restarts, running,
                   report, since, happened, resets>>

PodsStart ==
    /\ call = "start" /\ Turn("systemPodMetrics")
    /\ config.pods
    /\ AppendResults("systemPodMetrics", TRUE, FALSE)
    /\ initSnapshot' = [taken |-> TRUE, counts |-> GetPodMetrics]
    /\ since' = [since EXCEPT !.restarts = NoRestarts]
    /\ resets' = resets \cap {Scheduler}
    /\ UNCHANGED <<initialLatency, scheduler, restarts, running, report, happened>>

(* subtractInitialRestartCounts, per pod and container name.               *)
Subtract(counts, initial) ==
    [c \in DOMAIN counts |-> IF c \in DOMAIN initial THEN counts[c] - initial[c]
                                                     ELSE counts[c]]

(* getMaxAllowedRestarts.                                                  *)
MaxAllowedRestarts(c) ==
    IF c[2] \in DOMAIN config.overrides THEN config.overrides[c[2]]
    ELSE IF "default" \in DOMAIN config.overrides THEN config.overrides["default"]
    ELSE 0

(* validateRestartCounts.                                                  *)
RestartCountsValid(counts) ==
    config.check => \A c \in DOMAIN counts : counts[c] <= MaxAllowedRestarts(c)

PodsGather ==
    /\ call = "gather" /\ Turn("systemPodMetrics")
    /\ config.pods
    /\ IF initSnapshot.taken
       THEN LET counts == Subtract(GetPodMetrics, initSnapshot.counts)
            IN  /\ AppendResults("systemPodMetrics", RestartCountsValid(counts), TRUE)
                /\ report' = [report EXCEPT !.restarts = counts]
                /\ happened' = [happened EXCEPT !.restarts = since.restarts]
       ELSE /\ AppendResults("systemPodMetrics", FALSE, FALSE)
            /\ UNCHANGED <<report, happened>>
    /\ UNCHANGED <<initialLatency, initSnapshot, scheduler, restarts, running,
                   since, resets>>

-----------------------------------------------------------------------------
(* The cluster under test.                                                 *)

ClusterEvent ==
    /\ events < MaxEvents
    /\ events' = events + 1
    /\ UNCHANGED <<config, call, pos, summaries, failed, initialLatency,
                   initSnapshot, running, report, happened, starts>>

Observe(hist, b) == [x \in Bounds |-> IF b <= x THEN hist[x] + 1 ELSE hist[x]]

SchedulePod(b) ==
    /\ scheduler' = Observe(scheduler, b)
    /\ since' = [since EXCEPT !.latency = Observe(@, b)]
    /\ UNCHANGED <<restarts, resets>>
    /\ ClusterEvent

RestartScheduler ==
    /\ scheduler' = EmptyHist
    /\ resets' = resets \cup {Scheduler}
    /\ UNCHANGED <<restarts, since>>
    /\ ClusterEvent

RestartContainer(c) ==
    /\ c \in DOMAIN restarts
    /\ restarts' = [restarts EXCEPT ![c] = @ + 1]
    /\ since' = [since EXCEPT !.restarts[c] = @ + 1]
    /\ UNCHANGED <<scheduler, resets>>
    /\ ClusterEvent

(* A pod with the name of one that is gone (a static pod, a StatefulSet)   *)
(* counts from zero.                                                       *)
CreateContainer(c) ==
    /\ restarts' = [x \in DOMAIN restarts \cup {c} |-> IF x = c THEN 0 ELSE restarts[x]]
    /\ since' = [since EXCEPT !.restarts[c] = 0]
    /\ resets' = IF initSnapshot.taken /\ c \in DOMAIN initSnapshot.counts
                 THEN resets \cup {c} ELSE resets
    /\ UNCHANGED scheduler
    /\ ClusterEvent

RemoveContainer(c) ==
    /\ c \in DOMAIN restarts
    /\ restarts' = [x \in DOMAIN restarts \ {c} |-> restarts[x]]
    /\ UNCHANGED <<scheduler, since, resets>>
    /\ ClusterEvent

Next ==
    \/ \E action \in {"start", "gather"} : Execute(action)
    \/ ExecuteReturns
    \/ Dispose
    \/ \E m \in Background : StartBackground(m) \/ GatherBackground(m)
    \/ GrabMetrics
    \/ SchedulingReset
    \/ SchedulingGather
    \/ PodsDisabled
    \/ PodsFail
    \/ PodsStart
    \/ PodsGather
    \/ RestartScheduler
    \/ \E b \in Bounds : SchedulePod(b)
    \/ \E c \in Containers : RestartContainer(c) \/ CreateContainer(c) \/ RemoveContainer(c)

Spec == Init /\ [][Next]_vars

-----------------------------------------------------------------------------
TypeOK ==
    /\ config \in Configs
    /\ call \in {"none", "start", "gather", "gathered", "disposed"}
    /\ pos \in 1 .. Len(GatherMembers) + 1
    /\ summaries \subseteq { GatherMembers[i] : i \in DOMAIN GatherMembers }
    /\ failed \subseteq { GatherMembers[i] : i \in DOMAIN GatherMembers }
    /\ running.tasks \subseteq Background \X (1 .. MaxStarts)
    /\ running.gatherer \in 0 .. MaxStarts
    /\ initialLatency \in [Bounds -> Nat]
    /\ scheduler \in [Bounds -> Nat]
    /\ DOMAIN restarts \subseteq Containers
    /\ \A c \in DOMAIN restarts : restarts[c] \in Nat
    /\ starts \in 0 .. MaxStarts /\ events \in 0 .. MaxEvents

(* system_pod_metrics.go: "only restarts that happened during test         *)
(* execution (between "start" and "gather") are visible in the final       *)
(* summary"; the same for the scheduler's histograms.  It holds for every  *)
(* counter that did not begin again, unless the member has reported an     *)
(* error, at the start too.                                                *)
MetricsCoverTheTest ==
    /\ /\ "schedulingMetrics" \in summaries \ failed
       /\ starts > 0 /\ Scheduler \notin resets
       => report.latency = happened.latency
    /\ "systemPodMetrics" \in summaries \ failed =>
          \A c \in DOMAIN report.restarts \ resets :
             report.restarts[c] = happened.restarts[c]

(* A container that restarted more often than its override allows, or at   *)
(* all where neither it nor "default" is overridden, fails the test.       *)
RestartsAreJudged ==
    "systemPodMetrics" \in summaries \ failed /\ config.check =>
        \A c \in DOMAIN report.restarts \ resets :
           /\ c[2] \in DOMAIN config.overrides =>
                 happened.restarts[c] <= config.overrides[c[2]]
           /\ {c[2], "default"} \cap DOMAIN config.overrides = {} =>
                 happened.restarts[c] = 0

(* Whichever members fail, at the start or at the gather, after a gather   *)
(* nothing the bundle has started is at work any more, except gatherers of *)
(* resource usage that a later start has replaced: no call can stop these. *)
OnlyReplacedGatherersRun ==
    call = "gathered" => \A t \in running.tasks :
        t[1] = "resourceUsageSummary" /\ t[2] # running.gatherer /\ t[2] < starts
=============================================================================
