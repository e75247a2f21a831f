----------------------------- MODULE PodCommand -----------------------------
(***************************************************************************)
(* The PodPeriodicCommand measurement (measurement/common/pod_command.go): *)
(* a worker runs the commands in the applicable pods on every tick, one    *)
(* goroutine per pod and command, until gather or Dispose stops it.        *)
(***************************************************************************)
EXTENDS Integers, FiniteSets, FiniteSetsExt

CONSTANTS
    Pods, Commands,
    Limit,      \* params.Limit
    FailOn,     \* the outcomes for which a FailOn... parameter is set
    MaxTicks,   \* bound: ticks of the worker
    MaxStarts   \* bound: calls of start

Outcomes == {"ok", "rc", "execError", "timeout"}
Runs     == Pods \X Commands

VARIABLES
    caller,     \* the test: "idle", "syncing", "gather" or "dispose" (in stop),
                \* "gathered", "panicked" or "disposed"
    isRunning, skipGather,
    stopCh,     \* "nil", "open" or "closed"
    worker,     \* "none", "tick" (doTick), "select" or "exited" (doneCh closed)
    applicable, \* pods of the informer's store that isApplicablePod accepts
    command,    \* this tick's goroutines: "idle", "queued", "running", outcome
    stats,      \* execs, ticks and the count of every outcome but "ok"
    results,    \* commands in p.results, by outcome
    failed,     \* gather returned an error
    starts      \* history: calls of start

vars == <<caller, isRunning, skipGather, stopCh, worker, applicable, command,
          stats, results, failed, starts>>

NoStats   == [k \in (Outcomes \ {"ok"}) \cup {"execs", "ticks", "noPods"} |-> 0]
NoResults == [o \in Outcomes |-> 0]

Init ==
    /\ caller = "idle" /\ isRunning = FALSE /\ skipGather = FALSE
    /\ stopCh = "nil" /\ worker = "none" /\ applicable = {}
    /\ command = [r \in Runs |-> "idle"]
    /\ stats = NoStats /\ results = NoResults /\ failed = FALSE /\ starts = 0

-----------------------------------------------------------------------------
StartFails ==                           \* the parameters do not parse
    /\ caller \in {"idle", "gathered"}
    /\ skipGather' = TRUE
    /\ UNCHANGED <<caller, isRunning, stopCh, worker, applicable, command, stats,
                   results, failed, starts>>

(* start: everything is made anew, isRunning is set, then the informer is  *)
(* synced.                                                                 *)
Start ==
    /\ caller \in {"idle", "gathered"} /\ ~isRunning /\ starts < MaxStarts
    /\ caller' = "syncing" /\ isRunning' = TRUE /\ skipGather' = FALSE
    /\ stopCh' = "open" /\ worker' = "none"
    /\ stats' = NoStats /\ results' = NoResults /\ starts' = starts + 1
    /\ UNCHANGED <<applicable, command, failed>>

Synced ==
    /\ caller = "syncing"
    /\ caller' = "idle" /\ worker' = "select"
    /\ UNCHANGED <<isRunning, skipGather, stopCh, applicable, command, stats,
                   results, failed, starts>>

SyncTimesOut ==                         \* no worker will close doneCh
    /\ caller = "syncing"
    /\ caller' = "idle"
    /\ UNCHANGED <<isRunning, skipGather, stopCh, worker, applicable, command,
                   stats, results, failed, starts>>

(* The pods in the informer's store come, go, become ready and unready.    *)
PodEvent(p) ==
    /\ applicable' \in {applicable \cup {p}, applicable \ {p}}
    /\ UNCHANGED <<caller, isRunning, skipGather, stopCh, worker, command, stats,
                   results, failed, starts>>

-----------------------------------------------------------------------------
(* The first tick comes at once, the others with the ticker; select may    *)
(* prefer either when the stop channel is closed too.                      *)
MaxNPods == { T \in SUBSET applicable :
                Cardinality(T) = Min({Limit, Cardinality(applicable)}) }

Tick ==
    /\ worker = "select" /\ stats.ticks < MaxTicks
    /\ \/ /\ applicable = {}
          /\ stats' = [stats EXCEPT !.ticks = @ + 1, !.noPods = @ + 1]
          /\ UNCHANGED <<worker, command>>
       \/ /\ applicable # {}
          /\ stats' = [stats EXCEPT !.ticks = @ + 1]
          /\ worker' = "tick"
          /\ \E T \in MaxNPods :
                command' = [r \in Runs |-> IF r[1] \in T THEN "queued" ELSE "idle"]
    /\ UNCHANGED <<caller, isRunning, skipGather, stopCh, applicable, results,
                   failed, starts>>

RunCommandInPod(r) ==
    /\ command[r] = "queued"
    /\ command' = [command EXCEPT ![r] = "running"]
    /\ stats' = [stats EXCEPT !.execs = @ + 1]
    /\ UNCHANGED <<caller, isRunning, skipGather, stopCh, worker, applicable,
                   results, failed, starts>>

(* The stream ends, with or without an error, or the timeout fires first   *)
(* and the stream is left to itself.                                       *)
CommandReturns(r, o) ==
    /\ command[r] = "running"
    /\ command' = [command EXCEPT ![r] = o]
    /\ stats' = IF o = "ok" THEN stats ELSE [stats EXCEPT ![o] = @ + 1]
    /\ UNCHANGED <<caller, isRunning, skipGather, stopCh, worker, applicable,
                   results, failed, starts>>

(* Both wait groups are done: the results of the tick are appended.        *)
EndTick ==
    /\ worker = "tick"
    /\ \A r \in Runs : command[r] \notin {"queued", "running"}
    /\ results' = [o \in Outcomes |->
                     results[o] + Cardinality({ r \in Runs : command[r] = o })]
    /\ command' = [r \in Runs |-> "idle"]
    /\ worker' = "select"
    /\ UNCHANGED <<caller, isRunning, skipGather, stopCh, applicable, stats,
                   failed, starts>>

WorkerStops ==
    /\ worker = "select" /\ stats.ticks > 0 /\ stopCh = "closed"
    /\ worker' = "exited"
    /\ UNCHANGED <<caller, isRunning, skipGather, stopCh, applicable, command,
                   stats, results, failed, starts>>

-----------------------------------------------------------------------------
(* stop, as called by gather and by Dispose.                               *)
Stop(who) ==
    /\ caller \in {"idle", "gathered"} /\ isRunning
    /\ who = "gather" => ~skipGather
    /\ isRunning' = FALSE /\ stopCh' = "closed"
    /\ caller' = who
    /\ UNCHANGED <<skipGather, worker, applicable, command, stats, results,
                   failed, starts>>

(* Mutant: stop closes the channel and does not wait for doneCh.           *)
StoppedAtOnce(who) ==
    \/ caller = who
    \/ caller \in {"idle", "gathered"} /\ ~isRunning /\ (who = "gather" => ~skipGather)

(* What follows <-doneCh, or a stop of a measurement that does not run.    *)
Stopped(who) ==
    \/ caller = who /\ worker = "exited"
    \/ caller \in {"idle", "gathered"} /\ ~isRunning /\ (who = "gather" => ~skipGather)

Gather ==
    /\ Stopped("gather") /\ starts > 0
    /\ caller' = "gathered"
    /\ failed' = \E o \in FailOn : results[o] > 0
    /\ UNCHANGED <<isRunning, skipGather, stopCh, worker, applicable, command,
                   stats, results, starts>>

GatherPanics ==                         \* p.stats is nil before any start
    /\ Stopped("gather") /\ starts = 0
    /\ caller' = "panicked"
    /\ UNCHANGED <<isRunning, skipGather, stopCh, worker, applicable, command,
                   stats, results, failed, starts>>

Dispose ==
    /\ Stopped("dispose")
    /\ caller' = "disposed"
    /\ UNCHANGED <<isRunning, skipGather, stopCh, worker, applicable, command,
                   stats, results, failed, starts>>

WorkerStep ==
    \/ Tick
    \/ EndTick
    \/ WorkerStops
    \/ \E r \in Runs : RunCommandInPod(r)
    \/ \E r \in Runs, o \in Outcomes : CommandReturns(r, o)

CallerStep ==
    \/ StartFails \/ Start \/ Synced \/ SyncTimesOut
    \/ Gather \/ GatherPanics \/ Dispose
    \/ Stop("gather") \/ Stop("dispose")

Next == CallerStep \/ WorkerStep \/ \E p \in Pods : PodEvent(p)

(* The goroutines of the worker run; a command ends or times out.          *)
Fairness == WF_vars(WorkerStep) /\ WF_vars(Gather \/ Dispose)

-----------------------------------------------------------------------------
TypeOK ==
    /\ caller \in {"idle", "syncing", "gather", "dispose", "gathered",
                   "panicked", "disposed"}
    /\ stopCh \in {"nil", "open", "closed"}
    /\ worker \in {"none", "tick", "select", "exited"}
    /\ applicable \subseteq Pods
    /\ command \in [Runs -> Outcomes \cup {"idle", "queued", "running"}]
    /\ stats \in [DOMAIN NoStats -> Nat]
    /\ results \in [Outcomes -> Nat]

(* What gather reports is complete and consistent: it waited for every     *)
(* command in flight, so each command that was executed is in the results, *)
(* the statistics agree with them, and the error follows the FailOn        *)
(* parameters.                                                             *)
GatherIsComplete ==
    caller = "gathered" =>
       /\ stats.execs = MapThenSumSet(LAMBDA o : results[o], Outcomes)
       /\ \A o \in Outcomes \ {"ok"} : stats[o] = results[o]
       /\ ~failed => \A o \in FailOn : stats[o] = 0

(* "doneCh is closed after stopCh is closed and all in progress commands   *)
(* have finished" (pod_command.go:230): whoever stops the measurement      *)
(* gets its answer.                                                        *)
StopReturns == caller \in {"gather", "dispose"} ~> caller \in {"gathered", "disposed"}
=============================================================================
