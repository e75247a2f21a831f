---------------------------- MODULE ClusterRun ------------------------------
(***************************************************************************)
(* One run of the clusterloader binary, from its flags to its exit code,   *)
(* and what it leaves in the cluster for the next run.                     *)
(*                                                                         *)
(*   cmd/clusterloader.go               main, completeConfig, runSingleTest*)
(*   pkg/prometheus/prometheus.go       set-up and tear-down of the stack  *)
(*   pkg/prometheus/experimental.go     snapshot and deletion of its disk  *)
(*   pkg/prometheus/util.go             readiness of the targets           *)
(*   pkg/execservice/exec_service.go    the exec service                   *)
(*   pkg/imagepreload/imagepreload.go   the namespace of the preload; its  *)
(*                                      wait for the nodes is the module   *)
(*                                      ImagePreload                       *)
(*                                                                         *)
(* main is sequential; beside it runs the SIGINT handler, which shares the *)
(* snapshot lock with main.  Every klog.Exitf ends the process at once:    *)
(* its cluster-side effects stay.                                          *)
(***************************************************************************)
EXTENDS Integers, FiniteSets

CONSTANTS
    Scenarios,  \* number of test scenarios
    MaxRuns     \* bound: runs of the binary on the same cluster

ASSUME RunAssumption ==
    /\ Scenarios \in Nat
    /\ MaxRuns \in Nat \ {0}

(* The flags that decide what main does.  disk: isEnabled() of             *)
(* experimental.go; report: a Prometheus snapshot into the report dir.     *)
Flags   == {"dry", "server", "tearDown", "disk", "report", "exec", "preload"}
Options == [Flags -> BOOLEAN]

(* Flags that another one makes irrelevant are taken as FALSE.             *)
Relevant(o) ==
    /\ o["dry"] => \A f \in Flags \ {"dry"} : ~o[f]
    /\ IF o["server"] THEN ~o["report"] ELSE ~o["tearDown"] /\ ~o["disk"]

VARIABLES
    opts, pc, todo, failed, exit,       \* main
    fresh,                              \* createToken made the account itself
    meta,                               \* diskMetadata is known
    snapshotted, snapError, lock,       \* protected by snapshotLock; its holder
    intr,                               \* the SIGINT handler
    tearErr,                            \* history: a tear-down call failed
    run,                                \* history: number of this run
    ns, sa, secret,                     \* cluster: namespaces, account, secret
    disk, snap,                         \* the Prometheus disk, its snapshot
    retain                              \* the disk's reclaim policy is Retain

mainVars  == <<opts, pc, todo, failed, exit, fresh>>
snapVars  == <<snapshotted, snapError, lock, snap>>
diskVars  == <<disk, retain>>
tokenVars == <<sa, secret>>
vars == <<mainVars, meta, snapVars, intr, tearErr, run, ns, tokenVars, diskVars>>

NoOpts == [f \in Flags |-> FALSE]

Init ==
    /\ opts = NoOpts /\ pc = "flags" /\ todo = Scenarios /\ failed = FALSE
    /\ exit = "none" /\ fresh = FALSE /\ meta = FALSE
    /\ snapshotted = FALSE /\ snapError = FALSE /\ lock = "free"
    /\ intr = "off" /\ tearErr = FALSE
    /\ run = 1 /\ ns = {} /\ sa = FALSE /\ secret = FALSE
    /\ disk = "none" /\ snap = FALSE /\ retain = FALSE

Go(l) == pc' = l /\ UNCHANGED <<opts, todo, failed, exit, fresh>>

(* klog.Exitf, os.Exit or the end of main.                                 *)
Exit(code) ==
    /\ exit' = code
    /\ pc' = "exited"
    /\ UNCHANGED <<opts, todo, failed, fresh>>

-----------------------------------------------------------------------------
(* Flags, provider, completeConfig, report directory, verification of the  *)
(* cluster, framework: nothing is written to the cluster.                  *)
ParseFlags ==
    /\ pc = "flags"
    /\ \E o \in { p \in Options : Relevant(p) } :
          /\ opts' = o
          /\ pc' = IF o.dry THEN "compile"
                   ELSE IF o.server THEN "namespace" ELSE "exec"
    /\ UNCHANGED <<todo, failed, exit, fresh, meta, snapVars, intr, tearErr,
                   run, ns, tokenVars, diskVars>>

(* SetUpPrometheusStack, call by call.  CreateNamespace allows             *)
(* AlreadyExists.                                                          *)
CreateNamespace ==
    /\ pc = "namespace"
    /\ ns' = ns \cup {"monitoring"}
    /\ Go("account")
    /\ UNCHANGED <<meta, snapVars, intr, tearErr, run, tokenVars, diskVars>>

CreateAccount ==
    /\ pc = "account"
    /\ fresh' = ~sa
    /\ sa' = TRUE
    /\ pc' = "secret"
    /\ UNCHANGED <<opts, todo, failed, exit, meta, snapVars, intr, tearErr,
                   run, ns, secret, diskVars>>

(* With an account that was already there the secret is updated or         *)
(* created; beside a new account it is only created, and AlreadyExists is  *)
(* an error.                                                               *)
CreateSecret ==
    /\ pc = "secret"
    /\ IF fresh /\ secret
       THEN Exit("failure") /\ UNCHANGED secret
       ELSE Go("manifests") /\ secret' = TRUE
    /\ UNCHANGED <<meta, snapVars, intr, tearErr, run, ns, sa, diskVars>>

(* The manifests bring up Prometheus with a claim for its disk: a no-op if *)
(* the stack is up.  The reclaim policy of the disk is that of the storage *)
(* class when it was made.                                                 *)
ApplyManifests ==
    /\ pc = "manifests"
    /\ IF disk = "bound"
       THEN UNCHANGED <<diskVars, snap>>
       ELSE disk' = "bound" /\ retain' = opts.disk /\ snap' = FALSE
    /\ Go("healthy")
    /\ UNCHANGED <<meta, snapshotted, snapError, lock, intr, tearErr,
                   run, ns, tokenVars>>

(* CheckTargetsReady on counts; allTargets is -1.                          *)
TargetsReady(total, up, minActive, minReady) ==
    /\ total >= minActive
    /\ up >= (IF minReady = -1 THEN total ELSE minReady)

PrometheusReady(t, scrapeEtcd) ==
    IF scrapeEtcd THEN /\ TargetsReady(t.total, t.up, 4, -1)
                       /\ TargetsReady(t.etcd, t.etcdUp, 2, 1)
    ELSE TargetsReady(t.total + t.etcd, t.up + t.etcdUp, 4, -1)

Targets == { t \in [total : 3 .. 5, up : 3 .. 5, etcd : {0, 2}, etcdUp : 0 .. 2] :
                t.up <= t.total /\ t.etcdUp <= t.etcd }

WaitHealthy ==
    /\ pc = "healthy"
    /\ \E t \in Targets, etcd \in BOOLEAN : PrometheusReady(t, etcd)
    /\ Go("cache")
    /\ UNCHANGED <<meta, snapVars, intr, tearErr, run, ns, tokenVars, diskVars>>

(* cachePrometheusDiskMetadataIfEnabled: an error is only logged, and a    *)
(* list without the bound volume keeps what was known.                     *)
CacheDisk == meta' \in {meta, meta \/ (opts.disk /\ disk = "bound")}

StackIsUp ==
    /\ pc = "cache"
    /\ CacheDisk
    /\ intr' = IF opts.tearDown THEN "armed" ELSE intr
    /\ Go("exec")
    /\ UNCHANGED <<snapVars, tearErr, run, ns, tokenVars, diskVars>>

SetUpExecService ==
    /\ pc = "exec"
    /\ ns' = IF opts.exec THEN ns \cup {"cluster-loader"} ELSE ns
    /\ Go("preload")
    /\ UNCHANGED <<meta, snapVars, intr, tearErr, run, tokenVars, diskVars>>

(* Mutant: the preload has no timeout.                                     *)
SetUpFailsButPreload ==
    /\ pc \in {"flags", "namespace", "account", "secret", "manifests",
               "healthy", "exec", "preload", "compile"}
    /\ ns' \in {ns, ns \cup (CASE pc = "namespace" -> {"monitoring"}
                               [] pc = "exec" /\ opts.exec -> {"cluster-loader"}
                               [] pc = "preload" /\ opts.preload -> {"preload"}
                               [] OTHER -> {})}
    /\ Exit("failure")
    /\ UNCHANGED <<meta, snapVars, intr, tearErr, run, tokenVars, diskVars>>

(* A set-up call fails, or its wait times out, after it may have had its   *)
(* effect: the process exits and cleans up nothing.                        *)
SetUpFails ==
    /\ pc \in {"flags", "namespace", "account", "secret", "manifests",
               "healthy", "exec", "preload", "preloading", "compile"}
    /\ ns' \in {ns, ns \cup (CASE pc = "namespace" -> {"monitoring"}
                               [] pc = "exec" /\ opts.exec -> {"cluster-loader"}
                               [] pc = "preload" /\ opts.preload -> {"preload"}
                               [] OTHER -> {})}
    /\ Exit("failure")
    /\ UNCHANGED <<meta, snapVars, intr, tearErr, run, tokenVars, diskVars>>

-----------------------------------------------------------------------------
(* PreloadImages: the namespace of the DaemonSet stays until the nodes are *)
(* counted (ImagePreload), and if the wait for them times out.             *)
StartPreload ==
    /\ pc = "preload"
    /\ IF opts.preload
       THEN ns' = ns \cup {"preload"} /\ Go("preloading")
       ELSE Go("compile") /\ UNCHANGED ns
    /\ UNCHANGED <<meta, snapVars, intr, tearErr, run, tokenVars, diskVars>>

PreloadDone ==
    /\ pc = "preloading"
    /\ ns' = ns \ {"preload"}
    /\ Go("compile")
    /\ UNCHANGED <<meta, snapVars, intr, tearErr, run, tokenVars, diskVars>>

-----------------------------------------------------------------------------
(* The scenarios are all compiled before the first runs; a dry run ends    *)
(* here, with an error.                                                    *)
Compile ==
    /\ pc = "compile"
    /\ IF opts.dry THEN Exit("failure") ELSE Go("tests")
    /\ UNCHANGED <<meta, snapVars, intr, tearErr, run, ns, tokenVars, diskVars>>

RunSingleTest ==
    /\ pc = "tests" /\ todo > 0
    /\ todo' = todo - 1
    /\ failed' \in {failed, TRUE}
    /\ UNCHANGED <<opts, pc, exit, fresh, meta, snapVars, intr, tearErr,
                   run, ns, tokenVars, diskVars>>

(* MakePrometheusSnapshotIfEnabled is called on a nil controller if the    *)
(* server is not enabled: with the flag set the process panics.            *)
EndTestSuite ==
    /\ pc = "tests" /\ todo = 0
    /\ IF opts.report /\ ~opts.server THEN Exit("panic")
       ELSE Go(IF opts.server /\ opts.tearDown THEN "teardown" ELSE "stopExec")
    /\ UNCHANGED <<meta, snapVars, intr, tearErr, run, ns, tokenVars, diskVars>>

(* Mutant: the service account goes even if the namespace stays.           *)
DeleteStackAndAccount(ok) ==
    /\ pc = "teardown"
    /\ CacheDisk
    /\ IF ok
       THEN /\ ns' = ns \ {"monitoring"}
            /\ secret' = FALSE
            /\ disk' = IF retain THEN "released" ELSE "deleted"
       ELSE UNCHANGED <<ns, secret, disk>>
    /\ sa' = FALSE
    /\ tearErr' = (tearErr \/ ~ok)
    /\ Go("snapshot")
    /\ UNCHANGED <<snapVars, intr, run, retain>>

(* TearDownPrometheusStack: the disk outlives the namespace if the run     *)
(* that made it asked for that (RetainPD).                                 *)
DeleteStack(ok) ==
    /\ pc = "teardown"
    /\ CacheDisk
    /\ IF ok
       THEN /\ ns' = ns \ {"monitoring"}
            /\ secret' = FALSE
            /\ disk' = IF retain THEN "released" ELSE "deleted"
       ELSE UNCHANGED <<ns, secret, disk>>
    /\ tearErr' = (tearErr \/ ~ok)
    /\ Go("snapshot")
    /\ UNCHANGED <<snapVars, intr, run, sa, retain>>

(* snapshotPrometheusDiskIfEnabledSynchronized, by main and by the handler *)
(* of SIGINT: one of them makes the attempt, the other waits for the lock  *)
(* and takes over its result.                                              *)
Acquire(who) ==
    /\ lock = "free" /\ ~snapshotted
    /\ lock' = who
    /\ snapshotted' = TRUE
    /\ UNCHANGED <<snapError, snap>>

(* Mutant: the flag is looked at without the lock.                         *)
TakeResultUnlocked ==
    /\ snapshotted
    /\ UNCHANGED snapVars

TakeResult ==
    /\ lock = "free" /\ snapshotted
    /\ UNCHANGED snapVars

Snapshot(who) ==
    /\ lock = who
    /\ \/ ~opts.disk /\ UNCHANGED <<snap, snapError>>
       \/ opts.disk /\ meta /\ disk # "deleted" /\ snap' = TRUE /\ UNCHANGED snapError
       \/ opts.disk /\ snapError' = TRUE /\ UNCHANGED snap
    /\ lock' = "free"
    /\ UNCHANGED snapshotted

MainSnapshots ==
    /\ pc = "snapshot"
    /\ \/ Acquire("main") /\ UNCHANGED mainVars
       \/ Snapshot("main") /\ Go("deleteDisk")
       \/ TakeResult /\ Go("deleteDisk")
    /\ UNCHANGED <<meta, intr, tearErr, run, ns, tokenVars, diskVars>>

(* The disk goes whether or not the snapshot succeeded.                    *)
DeleteDisk ==
    /\ pc = "deleteDisk"
    /\ disk' \in {disk, IF opts.disk /\ meta THEN "deleted" ELSE disk}
    /\ Go("stopExec")
    /\ UNCHANGED <<meta, snapVars, intr, tearErr, run, ns, tokenVars, retain>>

(* Mutant: the exec service is only torn down with Prometheus.             *)
TearDownExecServiceToo(ok) ==
    /\ pc = "stopExec"
    /\ ns' = IF opts.exec /\ opts.tearDown /\ ok THEN ns \ {"cluster-loader"} ELSE ns
    /\ tearErr' = (tearErr \/ ~ok)
    /\ Go("report")
    /\ UNCHANGED <<meta, snapVars, intr, run, tokenVars, diskVars>>

TearDownExecService(ok) ==
    /\ pc = "stopExec"
    /\ ns' = IF opts.exec /\ ok THEN ns \ {"cluster-loader"} ELSE ns
    /\ tearErr' = (tearErr \/ ~ok)
    /\ Go("report")
    /\ UNCHANGED <<meta, snapVars, intr, run, tokenVars, diskVars>>

(* Mutant: the exit code is decided, and main goes on.                     *)
ReportWithoutReturn ==
    /\ pc = "report" /\ exit' = (IF failed THEN "failure" ELSE "success")
    /\ UNCHANGED <<opts, pc, todo, failed, fresh>>
    /\ UNCHANGED <<meta, snapVars, intr, tearErr, run, ns, tokenVars, diskVars>>

Report ==
    /\ pc = "report"
    /\ Exit(IF failed THEN "failure" ELSE "success")
    /\ UNCHANGED <<meta, snapVars, intr, tearErr, run, ns, tokenVars, diskVars>>

-----------------------------------------------------------------------------
(* The SIGINT handler only snapshots the disk, then exits.                 *)
Signal ==
    /\ intr = "armed" /\ exit = "none"
    /\ intr' = "signalled"
    /\ UNCHANGED <<mainVars, meta, snapVars, tearErr, run, ns, tokenVars, diskVars>>

HandlerSnapshots ==
    /\ intr = "signalled" /\ exit = "none"
    /\ \/ Acquire("handler") /\ UNCHANGED intr
       \/ (Snapshot("handler") \/ TakeResult) /\ intr' = "exiting"
    /\ UNCHANGED <<mainVars, meta, tearErr, run, ns, tokenVars, diskVars>>

HandlerExits ==
    /\ intr = "exiting" /\ exit = "none"
    /\ Exit("failure")
    /\ UNCHANGED <<meta, snapVars, intr, tearErr, run, ns, tokenVars, diskVars>>

HandleSignal == HandlerSnapshots \/ HandlerExits

(* The process is killed, by SIGKILL or by SIGINT before the handler is    *)
(* installed.                                                              *)
Kill ==
    /\ exit = "none" /\ pc # "flags"
    /\ Exit("killed")
    /\ UNCHANGED <<meta, snapVars, intr, tearErr, run, ns, tokenVars, diskVars>>

(* The binary is run again on what is left of the cluster.                 *)
Rerun ==
    /\ exit # "none" /\ run < MaxRuns
    /\ run' = run + 1
    /\ opts' = NoOpts /\ pc' = "flags" /\ todo' = Scenarios /\ failed' = FALSE
    /\ exit' = "none" /\ fresh' = FALSE /\ meta' = FALSE
    /\ snapshotted' = FALSE /\ snapError' = FALSE /\ lock' = "free"
    /\ intr' = "off" /\ tearErr' = FALSE
    /\ UNCHANGED <<ns, tokenVars, diskVars, snap>>

(* What main does by itself, a failure or a timeout of its set-up included;*)
(* the other steps need the cluster or a test to come to an end.           *)
Bounded ==
    \/ ParseFlags \/ CreateNamespace \/ CreateAccount \/ CreateSecret
    \/ ApplyManifests \/ StackIsUp \/ SetUpExecService
    \/ SetUpFails \/ StartPreload \/ Compile
    \/ EndTestSuite \/ MainSnapshots \/ DeleteDisk \/ Report
    \/ \E ok \in BOOLEAN : DeleteStack(ok) \/ TearDownExecService(ok)

MainStep == exit = "none" /\ (Bounded \/ WaitHealthy \/ PreloadDone \/ RunSingleTest)

Next == MainStep \/ HandleSignal \/ Signal \/ Kill \/ Rerun

Spec == Init /\ [][Next]_vars

(* main and the handler of SIGINT are goroutines the Go scheduler runs.    *)
(* The waits for Prometheus and for the preload have timeouts, and calls   *)
(* of the API server and of gcloud return; nothing is assumed of a test,   *)
(* which may hang (pod_command.go:561, dependency/manager.go:171).         *)
Fairness == WF_vars(exit = "none" /\ Bounded) /\ WF_vars(HandleSignal)

FairSpec == Spec /\ Fairness

-----------------------------------------------------------------------------
FlagsTyped ==
    /\ failed \in BOOLEAN /\ fresh \in BOOLEAN /\ meta \in BOOLEAN
    /\ snapshotted \in BOOLEAN /\ snapError \in BOOLEAN /\ snap \in BOOLEAN
    /\ tearErr \in BOOLEAN /\ retain \in BOOLEAN
    /\ sa \in BOOLEAN /\ secret \in BOOLEAN

(* The variables keep their types: main is at one of its calls, and it is  *)
(* at none exactly when the process has an exit code.                      *)
TypeOK ==
    /\ opts \in Options
    /\ pc \in {"flags", "namespace", "account", "secret", "manifests", "healthy",
              "cache", "exec", "preload", "preloading", "compile", "tests",
              "teardown", "snapshot", "deleteDisk", "stopExec", "report", "exited"}
    /\ todo \in 0 .. Scenarios
    /\ FlagsTyped
    /\ exit \in {"none", "success", "failure", "panic", "killed"}
    /\ exit = "none" <=> pc # "exited"
    /\ lock \in {"free", "main", "handler"}
    /\ intr \in {"off", "armed", "signalled", "exiting"}
    /\ ns \subseteq {"monitoring", "cluster-loader", "preload"}
    /\ disk \in {"none", "bound", "released", "deleted"}
    /\ run \in 1 .. MaxRuns

(* Main deletes the retained Prometheus disk only when the one attempt to  *)
(* snapshot it is over: with a snapshot, or with an error that was logged; *)
(* never while the handler of SIGINT still copies the disk.                *)
SnapshotBeforeDeletion ==
    [][disk = "released" /\ disk' = "deleted" =>
          lock = "free" /\ (snap \/ snapError)]_vars

(* Exit code 0: every scenario ran and none failed, and unless a tear-down *)
(* call failed nothing the flags ask to remove is left, whatever earlier   *)
(* runs left behind.                                                       *)
CleanExit ==
    exit = "success" =>
       /\ todo = 0 /\ ~failed /\ ~opts.dry
       /\ ~tearErr => /\ opts.server /\ opts.tearDown => "monitoring" \notin ns
                      /\ opts.exec => "cluster-loader" \notin ns
                      /\ opts.preload => "preload" \notin ns

(* A set-up may be repeated after any end of the run before: the secret of *)
(* Prometheus never outlives the service account, so createToken's branch  *)
(* for a new account never meets an existing secret.                       *)
SetUpRepeatable == pc = "secret" => ~(fresh /\ secret)

(* The process ends unless a test hangs for ever; and after a SIGINT it    *)
(* ends whatever the test does, for no wait of the handler, which may be   *)
(* for main's snapshot, is for ever.                                       *)
InTest == pc = "tests" /\ todo > 0

RunEnds ==
    /\ <>[]InTest \/ (pc # "flags" ~> pc = "exited")
    /\ intr = "signalled" ~> pc = "exited"
=============================================================================
