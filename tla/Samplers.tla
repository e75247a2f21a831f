------------------------------ MODULE Samplers ------------------------------
(***************************************************************************)
(* The measurements that sample something at an interval between "start"   *)
(* and "gather", each in goroutines of its own:                            *)
(*   throughput  SchedulingThroughput      (scheduling_throughput.go)      *)
(*   profile     CPU, memory, block profile (profile.go)                   *)
(*   etcd        EtcdMetrics, one goroutine per master (etcd_metrics.go)   *)
(*   usage       ResourceUsageSummary, one worker per node                 *)
(*               (resource_usage.go, gatherers/...)                        *)
(*   ksm         KubeStateMetricsLatency                                   *)
(*               (kube_state_metrics_measurement.go)                       *)
(* They differ in who makes the stop channel, who checks isRunning, who    *)
(* resets it and who waits for the goroutines; that is what is modelled.   *)
(* Samples are only counted.                                               *)
(***************************************************************************)
EXTENDS Integers, FiniteSets

CONSTANTS
    Kinds,      \* the measurements to check
    Hosts,      \* masters of etcd, nodes of usage: 1 .. Hosts
    MaxStarts,  \* bound: starts that get as far as their goroutines
    MaxSamples  \* bound: samples of one goroutine

VARIABLES
    kind,
    isRunning,  \* of the measurement; of e.gatherer for usage
    stopCh,     \* the channel in the field, a number; 0 is nil (no gatherer)
    closed,     \* channels that are closed
    sampler,    \* <<start, host>> -> [at, stop]: its goroutine, its channel
    samples,    \* <<start, host>> -> samples recorded
    report,     \* samples in the last summary, by goroutine
    test,       \* "idle", "gathering", "disposing" (waiting for goroutines),
                \* "disposed" or "panicked"
    starts,     \* history: starts that made goroutines
    channels,   \* history: channels made
    abandoned   \* history: a start failed after the field had changed

vars == <<kind, isRunning, stopCh, closed, sampler, samples, report, test, starts,
          channels, abandoned>>

Ids == (1 .. MaxStarts) \X (1 .. Hosts)

Live(s)    == sampler[s].at \in {"waiting", "sampling"}
Started(s) == sampler[s].at # "none"
AllExited  == \A s \in Ids : ~Live(s)

(* create...: etcd and ksm make their channel (context) here, for good.    *)
Init ==
    /\ kind \in Kinds
    /\ isRunning = FALSE
    /\ channels = (IF kind \in {"etcd", "ksm"} THEN 1 ELSE 0)
    /\ stopCh = channels
    /\ closed = {}
    /\ sampler = [s \in Ids |-> [at |-> "none", stop |-> 0]]
    /\ samples = [s \in Ids |-> 0]
    /\ report = [s \in {} |-> 0]
    /\ test = "idle"
    /\ starts = 0
    /\ abandoned = FALSE

---------------------------------------------------------------------------
(* start                                                                   *)

Launch(hosts, ch) ==
    /\ starts < MaxStarts
    /\ starts' = starts + 1
    /\ sampler' = [s \in Ids |-> IF s[1] = starts' /\ s[2] \in hosts
                                   THEN [at |-> "waiting", stop |-> ch] ELSE sampler[s]]

MakeChannel ==
    /\ channels' = channels + 1
    /\ stopCh' = channels'

(* The channel is made before the pod store, which may fail.               *)
StartThroughput ==
    /\ ~isRunning
    /\ MakeChannel
    /\ \/ isRunning' = TRUE /\ Launch({1}, stopCh') /\ UNCHANGED abandoned
       \/ /\ channels <= MaxStarts    \* bound: failed starts
          /\ abandoned' = TRUE
          /\ UNCHANGED <<isRunning, sampler, starts>>
    /\ UNCHANGED samples

StartProfile ==
    /\ ~isRunning
    /\ MakeChannel
    /\ isRunning' = TRUE
    /\ Launch({1}, stopCh')
    /\ samples' = [s \in Ids |-> 0]         \* p.summaries = make(...)
    /\ UNCHANGED abandoned

(* No check of isRunning, and always the channel of the measurement.       *)
StartEtcd ==
    /\ isRunning' = TRUE
    /\ Launch(1 .. Hosts, stopCh)
    /\ UNCHANGED <<stopCh, channels, samples, abandoned>>

(* e.gatherer is assigned whether or not NewResourceUsageGatherer failed.  *)
StartUsage ==
    /\ \/ MakeChannel /\ isRunning' = TRUE /\ Launch(1 .. Hosts, stopCh') /\ UNCHANGED abandoned
       \/ /\ stopCh' = 0 /\ isRunning' = FALSE /\ abandoned' = TRUE
          /\ UNCHANGED <<channels, sampler, starts>>
    /\ UNCHANGED samples

(* The query loop runs even if the first retrieval fails.                  *)
StartKSM ==
    /\ ~isRunning
    /\ isRunning' = TRUE
    /\ Launch({1}, stopCh)
    /\ UNCHANGED <<stopCh, channels, samples, abandoned>>

Start ==
    /\ test = "idle"
    /\ \/ kind = "throughput" /\ StartThroughput
       \/ kind = "profile"    /\ StartProfile
       \/ kind = "etcd"       /\ StartEtcd
       \/ kind = "usage"      /\ StartUsage
       \/ kind = "ksm"        /\ StartKSM
    /\ UNCHANGED <<kind, closed, report, test>>

---------------------------------------------------------------------------
(* The goroutines: select over the interval's timer and the stop channel.  *)
(* A timer that fires before the channel is closed is a Tick before it.    *)

Tick(s) ==
    /\ sampler[s].at = "waiting"
    /\ sampler[s].stop \notin closed
    /\ samples[s] < MaxSamples
    /\ sampler' = [sampler EXCEPT ![s].at = "sampling"]
    /\ UNCHANGED <<kind, isRunning, stopCh, closed, samples, report, test, starts, channels,
                   abandoned>>

(* What a round may record.  PodStore.List cannot fail; gatherProfile drops *)
(* the profiles of all hosts when one fails; the others log their errors;  *)
(* the query loop of ksm only makes load.                                  *)
GatherProfile       == {0, 1}
CollectDatabaseSize == {0, 1}
SingleProbe         == {0, 1}

Rounds == [throughput |-> {1}, profile |-> GatherProfile, etcd |-> CollectDatabaseSize,
           usage |-> SingleProbe, ksm |-> {0}]

(* The loops of throughput and profile read the field stopCh again in each *)
(* round; a worker of usage has a copy.                                    *)
Sampled(s) ==
    /\ sampler[s].at = "sampling"
    /\ \E n \in Rounds[kind] : samples' = [samples EXCEPT ![s] = @ + n]
    /\ sampler' = [sampler EXCEPT ![s] =
                     [at |-> "waiting", stop |-> IF kind = "usage" THEN @.stop ELSE stopCh]]
    /\ UNCHANGED <<kind, isRunning, stopCh, closed, report, test, starts, channels, abandoned>>

Exit(s) ==
    /\ sampler[s].at = "waiting"
    /\ sampler[s].stop \in closed
    /\ sampler' = [sampler EXCEPT ![s].at = "exited"]
    /\ UNCHANGED <<kind, isRunning, stopCh, closed, samples, report, test, starts, channels,
                   abandoned>>

---------------------------------------------------------------------------
(* stop, gather, Dispose                                                   *)

(* What stop leaves of isRunning: profile and ksm never reset it.          *)
Reset == isRunning' = (isRunning /\ kind \in {"profile", "ksm"})

(* close of a closed channel panics; cancel of a context does not.         *)
Close(next) ==
    /\ closed' = closed \cup {stopCh}
    /\ test' = IF stopCh \in closed /\ kind # "ksm" THEN "panicked" ELSE next

Summarize(ids) == report' = [s \in { t \in ids : Started(t) } |-> samples[s]]

(* throughput: the list is read at once, whatever the goroutine does.      *)
GatherThroughput ==
    /\ kind = "throughput" /\ test = "idle" /\ isRunning
    /\ Close("idle") /\ Reset /\ Summarize(Ids)
    /\ UNCHANGED <<kind, stopCh, sampler, samples, starts, channels, abandoned>>

(* The others close the channel and wait; if nothing runs they only        *)
(* report (profile, etcd, usage with a stopped gatherer).                  *)
Gather ==
    /\ kind \in {"profile", "etcd", "usage"} /\ test = "idle"
    /\ kind = "usage" => stopCh # 0
    /\ IF isRunning THEN Close("gathering") /\ Reset
                    ELSE test' = "gathering" /\ UNCHANGED <<closed, isRunning>>
    /\ UNCHANGED <<kind, stopCh, sampler, samples, report, starts, channels, abandoned>>

(* ksm: the context is cancelled on every path, for every later start; the *)
(* goroutine is waited for only if the last retrieval succeeded (it cannot *)
(* with a cancelled context).                                              *)
GatherKSM ==
    /\ kind = "ksm" /\ test = "idle"
    /\ closed' = closed \cup {stopCh}
    /\ \/ stopCh \notin closed /\ isRunning /\ test' = "gathering"
       \/ test' = "idle"
    /\ UNCHANGED <<kind, isRunning, stopCh, sampler, samples, report, starts, channels, abandoned>>

(* Who is waited for: the goroutines that use the field's channel; the     *)
(* gatherer of usage has workers of its own, and gives up on them after    *)
(* two minutes.                                                            *)
Awaited == { s \in Ids : kind = "usage" => sampler[s].stop = stopCh }
Joined  == \A s \in Awaited : ~Live(s)

Finished == { s \in Awaited : kind = "usage" => sampler[s].at = "exited" }

GatherEnds ==
    /\ test = "gathering"
    /\ Joined \/ kind = "usage"
    /\ test' = "idle"
    /\ \/ Summarize(Finished)
       \/ kind = "etcd" /\ UNCHANGED report     \* getEtcdMetrics failed
    /\ UNCHANGED <<kind, isRunning, stopCh, closed, sampler, samples, starts, channels, abandoned>>

(* profile's Dispose is empty.                                             *)
Dispose ==
    /\ test = "idle"
    /\ IF isRunning /\ kind # "profile"
         THEN Close(IF kind \in {"etcd", "ksm"} THEN "disposing" ELSE "disposed") /\ Reset
         ELSE test' = "disposed" /\ UNCHANGED <<closed, isRunning>>
    /\ UNCHANGED <<kind, stopCh, sampler, samples, report, starts, channels, abandoned>>

Disposed ==
    /\ test = "disposing"
    /\ Joined
    /\ test' = "disposed"
    /\ UNCHANGED <<kind, isRunning, stopCh, closed, sampler, samples, report, starts, channels,
                   abandoned>>

Next ==
    \/ Start \/ GatherThroughput \/ Gather \/ GatherKSM \/ GatherEnds
    \/ Dispose \/ Disposed
    \/ \E s \in Ids : Tick(s) \/ Sampled(s) \/ Exit(s)

Spec == Init /\ [][Next]_vars

---------------------------------------------------------------------------
TypeOK ==
    /\ kind \in Kinds
    /\ isRunning \in BOOLEAN
    /\ channels \in 0 .. 2 * MaxStarts + 1 /\ stopCh \in 0 .. channels
    /\ closed \subseteq 1 .. channels
    /\ sampler \in [Ids -> [at : {"none", "waiting", "sampling", "exited"}, stop : 0 .. channels]]
    /\ samples \in [Ids -> 0 .. MaxSamples]
    /\ DOMAIN report \subseteq Ids /\ \A s \in DOMAIN report : report[s] \in 0 .. MaxSamples
    /\ test \in {"idle", "gathering", "disposing", "disposed", "panicked"}
    /\ starts \in 0 .. MaxStarts
    /\ abandoned \in BOOLEAN

(* A summary is final: no goroutine adds to samples that were already      *)
(* reported, through restarts, failed samples and timed-out gathers.  Not  *)
(* so for throughput, whose goroutine is not waited for.                   *)
ReportIsFinal ==
    kind # "throughput" => \A s \in DOMAIN report : samples[s] = report[s]

(* Once a measurement is disposed of, every goroutine it still has ends:   *)
(* the channel it selects on, or will when it is done with its sample, is  *)
(* closed.  Outside of it are profile, whose Dispose is empty, a start     *)
(* that failed after it had replaced the channel, and the workers of a     *)
(* gatherer that a second start replaced.                                  *)
DisposedSamplersEnd ==
    test = "disposed" /\ kind # "profile" /\ ~abandoned =>
      \A s \in Awaited : Live(s) =>
        \/ sampler[s].stop \in closed
        \/ sampler[s].at = "sampling" /\ kind # "usage" /\ stopCh \in closed
=============================================================================
