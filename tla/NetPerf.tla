------------------------------- MODULE NetPerf -------------------------------
(***************************************************************************)
(* The netperf benchmark (src/network/benchmarks/netperf): launch.go       *)
(* creates an orchestrator and workers in a namespace and waits for the    *)
(* CSV in the orchestrator's log; nptest.go is both: the workers ask the   *)
(* orchestrator for work by RPC, run it and send the output back.  An      *)
(* output carries no job: the orchestrator books it on the job it handed   *)
(* out last, and therefore hands out one job at a time.  The RPC server    *)
(* runs each call in a goroutine of its own: an output may still be on its *)
(* way when the worker that sent it is up again.                           *)
(***************************************************************************)
EXTENDS Integers, Sequences, FiniteSets

CONSTANTS
    Workers,
    Cases,          \* testcases[testFrom:testTo], a sequence of [src, dst, kind]
    Sizes,          \* the MSS and message sizes are 1 .. Sizes
    Iterations,     \* --iterations
    MaxCrashes      \* bound: restarts of a container, failures of launch.go

(* A benchmark: a list of testcases between the workers, at least one size *)
(* and one iteration.                                                      *)
Case == [src : Workers, dst : Workers, kind : STRING]
IsBenchmark ==
    /\ Cases \in Seq(Case)
    /\ Sizes \in Nat \ {0} /\ Iterations \in Nat \ {0} /\ MaxCrashes \in Nat

ASSUME BenchmarkAssumption == IsBenchmark

JobNumbers == 1 .. Len(Cases)
FirstSize(n) == IF Cases[n].kind = "udp" THEN Sizes
                ELSE IF Cases[n].kind = "netperf" THEN 0 ELSE 1
SizesOf(n) == FirstSize(n) .. (IF Cases[n].kind = "netperf" THEN 0 ELSE Sizes)

VARIABLES
    launcher,   \* "cleanup", "services", "rcs", "results", "done"
    iteration,
    objects,    \* "services" and "rcs" that exist in the namespace
    results,    \* CSV files written: [generation, points, ...]
    writable,   \* the CSV can be written (external: the disk of the launcher)
    generation, \* of the orchestrator pod: the iteration that created it, 0 if none
    known,      \* workerStateMap: worker -> "idle" or "busy", for those registered
    testcases,  \* n -> [size, finished]
    currentJobIndex,
    dataPoints, \* bag of points: <<n, size>> -> how many
    flushed,    \* datapointsFlushed
    worker,     \* worker -> "down", "up", "client" (running its item), "sent"
                \* (its output is on the way) or "cooldown"
    late,       \* bag of items whose output is on its way, of restarted workers
    conn,       \* workers whose connection is to this orchestrator process
    item,       \* history: worker -> the <<n, size>> it was given last
    lost,       \* history: items whose worker died before it could report
    survived,   \* history: the orchestrator is one that cleanup did not delete
    overtaken,  \* history: a job was handed out, or the CSV printed, before a late output
    crashes     \* history

orchestrator == <<generation, known, testcases, currentJobIndex, dataPoints, flushed>>
launch == <<launcher, iteration, objects, results, writable, survived>>
outputs == <<late, overtaken>>
netPerfVars == <<launch, orchestrator, outputs, worker, conn, item, lost, crashes>>

(* -1: the size that an output of another type books on a netperf job.     *)
SizeRange == -1 .. Sizes
Points == { <<n, s>> : n \in JobNumbers, s \in SizeRange }
NoWorkers == [w \in {} |-> "idle"]
Fresh == [n \in JobNumbers |-> [size |-> FirstSize(n), finished |-> FALSE]]
NoPoints == [p \in Points |-> 0]

NetPerfInit ==
    /\ launcher = "cleanup" /\ iteration = 1 /\ objects = {} /\ results = << >>
    /\ writable = TRUE /\ survived = FALSE /\ late = NoPoints /\ overtaken = FALSE
    /\ generation = 0 /\ known = NoWorkers /\ testcases = Fresh
    /\ currentJobIndex = 1 /\ dataPoints = NoPoints /\ flushed = FALSE
    /\ worker = [w \in Workers |-> "down"] /\ conn = {}
    /\ item = [w \in Workers |-> <<0, 0>>] /\ lost = {} /\ crashes = 0

-----------------------------------------------------------------------------
(* launch.go.  cleanup deletes the controllers, the pods and the services  *)
(* of the last iteration; main calls it once more at the end.  Errors are  *)
(* only printed: a failed LIST keeps all that is not deleted yet, a failed *)
(* delete the one object.  Pods outlive their controller.                  *)
Cleanup ==
    /\ launcher = "cleanup"
    /\ \E keptObjects \in SUBSET objects, keptOrchestrator \in BOOLEAN,
          keptWorkers \in SUBSET { w \in Workers : worker[w] # "down" } :
          /\ keptOrchestrator => generation # 0
          /\ IF keptOrchestrator \/ keptObjects # {} \/ keptWorkers # {}
             THEN crashes < MaxCrashes /\ crashes' = crashes + 1
             ELSE UNCHANGED crashes
          /\ objects' = keptObjects
          /\ survived' = keptOrchestrator
          /\ worker' = [w \in Workers |-> IF w \in keptWorkers THEN worker[w] ELSE "down"]
          /\ IF keptOrchestrator
             THEN conn' = conn \cap keptWorkers /\ UNCHANGED <<generation, outputs>>
             ELSE conn' = {} /\ generation' = 0 /\ late' = NoPoints /\ overtaken' = FALSE
    /\ launcher' = IF iteration > Iterations THEN "done" ELSE "services"
    /\ UNCHANGED <<iteration, results, writable, known, testcases, currentJobIndex,
                   dataPoints, flushed, item, lost>>

CreateServices ==
    /\ launcher = "services" /\ "services" \notin objects
    /\ objects' = objects \cup {"services"} /\ launcher' = "rcs"
    /\ UNCHANGED <<iteration, results, writable, survived, orchestrator, outputs, worker,
                   conn, item, lost, crashes>>

(* createRCs: the controllers adopt the pods with their labels that are    *)
(* left, and start the others.                                             *)
CreateRCs ==
    /\ launcher = "rcs" /\ "rcs" \notin objects
    /\ objects' = objects \cup {"rcs"} /\ launcher' = "results"
    /\ IF survived THEN UNCHANGED <<orchestrator, outputs, lost>>
       ELSE /\ generation' = iteration
            /\ known' = NoWorkers /\ testcases' = Fresh /\ currentJobIndex' = 1
            /\ dataPoints' = NoPoints /\ flushed' = FALSE
            /\ late' = NoPoints /\ overtaken' = FALSE /\ lost' = {}
    /\ worker' = [w \in Workers |-> IF worker[w] = "down" THEN "up" ELSE worker[w]]
    /\ UNCHANGED <<iteration, results, writable, survived, conn, item, crashes>>

(* A create call fails, as it does if the object is still there:           *)
(* executeTests returns, main cleans up.                                   *)
CreateFails ==
    /\ launcher \in {"services", "rcs"}
    /\ \/ launcher \in objects /\ UNCHANGED <<objects, crashes>>
       \/ /\ crashes < MaxCrashes /\ crashes' = crashes + 1
          /\ objects' \in {objects, objects \cup {launcher}}
    /\ launcher' = "cleanup" /\ iteration' = Iterations + 1
    /\ UNCHANGED <<results, writable, survived, orchestrator, outputs, worker, conn, item, lost>>

(* getCsvResultsFromPod, processCsvData: both markers are in the log.  As  *)
(* long as the directory or the file cannot be written the loop repeats.   *)
FetchResults ==
    /\ launcher = "results" /\ flushed /\ writable
    /\ results' = Append(results, [generation |-> generation, points |-> dataPoints,
                                   lost |-> lost, survived |-> survived,
                                   overtaken |-> overtaken])
    /\ iteration' = iteration + 1 /\ launcher' = "cleanup"
    /\ UNCHANGED <<objects, writable, survived, orchestrator, outputs, worker, conn, item,
                   lost, crashes>>

DiskChanges ==
    /\ launcher = "results"
    /\ writable' = ~writable
    /\ UNCHANGED <<launcher, iteration, objects, results, survived, orchestrator, outputs,
                   worker, conn, item, lost, crashes>>

-----------------------------------------------------------------------------
(* Mutant: a job is handed out while another one runs.                     *)
SomeWorkersBusy(k) == TRUE

(* The orchestrator.  allWorkersIdle and allocateWorkToClient: the first   *)
(* unfinished testcase, if this worker is its source and its destination   *)
(* has registered.                                                         *)
AllWorkersIdle(k) == \A v \in DOMAIN k : k[v] = "idle"

Unfinished == { n \in JobNumbers : ~testcases[n].finished }

CanAllocate(w, k) ==
    /\ AllWorkersIdle(k) /\ Unfinished # {}
    /\ LET n == CHOOSE m \in Unfinished : \A l \in Unfinished : m <= l
       IN Cases[n].src = w /\ Cases[n].dst \in DOMAIN k

Allocate(w, k) ==
    LET n == CHOOSE m \in Unfinished : \A l \in Unfinished : m <= l
        size == testcases[n].size
    IN /\ currentJobIndex' = n
       /\ known' = [k EXCEPT ![w] = "busy"]
       /\ testcases' = IF Cases[n].kind = "netperf" THEN testcases
                       ELSE [testcases EXCEPT ![n] = [size |-> size + 1,
                                                      finished |-> size + 1 > Sizes]]
       /\ worker' = [worker EXCEPT ![w] = "client"]
       /\ item' = [item EXCEPT ![w] = <<n, size>>]


(* RegisterClient, called by a worker's loop (startWork) after it has      *)
(* connected: a new worker starts its servers, a known one counts as idle  *)
(* and gets the next job or nothing.  With every testcase finished and     *)
(* everyone idle the CSV is printed.                                       *)
Register(w) ==
    /\ worker[w] \in {"up", "cooldown"} /\ generation # 0
    /\ conn' = conn \cup {w}
    /\ IF w \notin DOMAIN known
       THEN /\ known' = [v \in DOMAIN known \cup {w} |-> IF v = w THEN "idle" ELSE known[v]]
            /\ worker' = [worker EXCEPT ![w] = "up"]
            /\ UNCHANGED <<testcases, currentJobIndex, flushed, item, overtaken>>
       ELSE LET k == [known EXCEPT ![w] = "idle"]
            IN IF CanAllocate(w, k)
               THEN /\ Allocate(w, k) /\ UNCHANGED flushed
                    /\ overtaken' = (overtaken \/ late # NoPoints)
               ELSE /\ known' = k
                    /\ worker' = [worker EXCEPT ![w] = "up"]
                    /\ flushed' = (flushed \/ (AllWorkersIdle(k) /\ Unfinished = {}))
                    /\ overtaken' = (overtaken \/ (flushed' /\ late # NoPoints))
                    /\ UNCHANGED <<testcases, currentJobIndex, item>>
    /\ UNCHANGED <<launch, generation, dataPoints, late, lost, crashes>>

(* What ReceiveOutput does with an output of a type: the point is that of  *)
(* the current job and of the size before the next one; netperf jobs are   *)
(* finished only now.  After the CSV is printed the points are not used.   *)
Book(kind) ==
    LET n == currentJobIndex
        p == <<n, IF kind = "netperf" THEN 0 ELSE testcases[n].size - 1>>
    IN /\ dataPoints' = IF flushed THEN dataPoints ELSE [dataPoints EXCEPT ![p] = @ + 1]
       /\ testcases' = IF kind = "netperf" THEN [testcases EXCEPT ![n].finished = TRUE]
                       ELSE testcases

SendOutput(w) ==
    /\ worker[w] = "client" /\ w \in conn
    /\ worker' = [worker EXCEPT ![w] = "sent"]
    /\ UNCHANGED <<launch, orchestrator, outputs, conn, item, lost, crashes>>

ReceiveOutput(w) ==
    /\ worker[w] = "sent" /\ w \in conn
    /\ Book(Cases[item[w][1]].kind)
    /\ worker' = [worker EXCEPT ![w] = "cooldown"]
    /\ UNCHANGED <<launch, generation, known, currentJobIndex, flushed, outputs, conn, item,
                   lost, crashes>>

ReceiveLate(p) ==
    /\ late[p] > 0
    /\ Book(Cases[p[1]].kind)
    /\ late' = [late EXCEPT ![p] = @ - 1]
    /\ UNCHANGED <<launch, generation, known, currentJobIndex, flushed, overtaken, worker,
                   conn, item, lost, crashes>>

(* A worker with an output for an orchestrator that is gone: log.Fatal,    *)
(* and the container starts again.                                         *)
ReportFails(w) ==
    /\ worker[w] \in {"client", "sent"} /\ w \notin conn /\ generation # 0
    /\ worker' = [worker EXCEPT ![w] = "up"]
    /\ UNCHANGED <<launch, orchestrator, outputs, conn, item, lost, crashes>>

-----------------------------------------------------------------------------
(* Containers restart (external): a worker loses its job, or leaves its    *)
(* output on the way; the orchestrator loses everything it knew.           *)
WorkerRestarts(w) ==
    /\ worker[w] # "down" /\ crashes < MaxCrashes
    /\ crashes' = crashes + 1
    /\ worker' = [worker EXCEPT ![w] = "up"] /\ conn' = conn \ {w}
    /\ \/ /\ w \in conn /\ worker[w] = "sent"
          /\ late' = [late EXCEPT ![item[w]] = @ + 1] /\ UNCHANGED lost
       \/ /\ lost' = IF w \in conn /\ worker[w] \in {"client", "sent"}
                     THEN lost \cup {item[w]} ELSE lost
          /\ UNCHANGED late
    /\ UNCHANGED <<launch, orchestrator, overtaken, item>>

OrchestratorRestarts ==
    /\ generation # 0 /\ crashes < MaxCrashes
    /\ crashes' = crashes + 1
    /\ known' = NoWorkers /\ testcases' = Fresh /\ currentJobIndex' = 1
    /\ dataPoints' = NoPoints /\ flushed' = FALSE
    /\ conn' = {} /\ lost' = {} /\ late' = NoPoints /\ overtaken' = FALSE
    /\ UNCHANGED <<launch, generation, worker, item>>

LaunchStep == Cleanup \/ CreateServices \/ CreateRCs \/ CreateFails \/ FetchResults
WorkerStep(w) == Register(w) \/ SendOutput(w) \/ ReceiveOutput(w) \/ ReportFails(w)

NetPerfNext ==
    \/ LaunchStep \/ DiskChanges \/ OrchestratorRestarts
    \/ \E p \in Points : ReceiveLate(p)
    \/ \E w \in Workers : WorkerStep(w) \/ WorkerRestarts(w)

NetPerfSpec == NetPerfInit /\ [][NetPerfNext]_netPerfVars

-----------------------------------------------------------------------------
NetPerfTypeOK ==
    /\ launcher \in {"cleanup", "services", "rcs", "results", "done"}
    /\ iteration \in 1 .. Iterations + 1
    /\ generation \in 0 .. Iterations /\ objects \subseteq {"services", "rcs"}
    /\ DOMAIN known \subseteq Workers /\ conn \subseteq Workers
    /\ currentJobIndex \in JobNumbers \cup {1} /\ flushed \in BOOLEAN

(* A CSV holds one point for every size of every testcase, booked on the   *)
(* testcase it was measured for; a point is missing only if the worker     *)
(* that measured it was restarted, and a netperf testcase is then measured *)
(* again.  Outputs name no job, so this rests on allWorkersIdle, and it    *)
(* fails if an output is overtaken by the next job of its restarted        *)
(* worker.  Each CSV is that of its own iteration, unless cleanup could    *)
(* not delete the orchestrator.                                            *)
ResultsComplete ==
    \A i \in 1 .. Len(results) : ~results[i].survived =>
       /\ results[i].generation = i
       /\ ~results[i].overtaken => \A n \in JobNumbers : \A s \in SizeRange :
             results[i].points[<<n, s>>] =
                IF s \notin SizesOf(n) \/ (<<n, s>> \in results[i].lost
                                             /\ Cases[n].kind # "netperf")
                THEN 0 ELSE 1

(* Where the launcher must get to although containers restart.             *)
Launched == launcher = "done"
=============================================================================
