------------------------------- MODULE Probes -------------------------------
(***************************************************************************)
(* The probe measurements (probes/probes.go): network latency, DNS lookup, *)
(* DNS propagation and API server latency each run their pods in the one   *)
(* namespace "probes".  Measurements of a step start in parallel; at the   *)
(* end of a test each is disposed in turn, and each deletes the namespace. *)
(* The next test has new measurements and the cluster as it was left.      *)
(***************************************************************************)
EXTENDS Integers

CONSTANTS
    Probers,    \* the probe measurements of a test
    Manifests,  \* objects of a probe
    Replicas,   \* targets of a probe
    MaxTests    \* bound: tests run one after the other

VARIABLES
    test,
    mode,       \* of the test: "steps", "dispose", "over"
    pc,         \* prober -> "idle", "initialize", "namespace", "objects",
                \* "ready"; while disposing "delete", "wait", "disposed"
    framework,  \* probers whose framework is set
    startTime,  \* probers whose startTime is set
    applied,    \* prober -> objects its start has applied so far
    ns,         \* the namespace: "absent", "active", "terminating"
    objs,       \* prober -> its objects in the namespace
    targets,    \* prober -> targets Prometheus believes to be up
    logged      \* history: disposal logged an error, in this test or in the
                \* one that left the namespace

vars == <<test, mode, pc, framework, startTime, applied, ns, objs, targets, logged>>

callVars    == <<framework, startTime, applied>>
clusterVars == <<ns, objs, targets>>

Idle == [p \in Probers |-> "idle"]
None == [p \in Probers |-> 0]

Init ==
    /\ test = 1 /\ mode = "steps"
    /\ pc = Idle
    /\ framework = {} /\ startTime = {} /\ applied = None
    /\ ns = "absent" /\ objs = None /\ targets = None
    /\ logged = FALSE

GoTo(p, l) == pc' = [pc EXCEPT ![p] = l]

-----------------------------------------------------------------------------
(* Execute(start): a probe that has started is refused.                    *)
Start(p) ==
    /\ mode = "steps" /\ pc[p] = "idle" /\ p \notin startTime
    /\ GoTo(p, "initialize")
    /\ applied' = [applied EXCEPT ![p] = 0]
    /\ UNCHANGED <<test, mode, framework, startTime, clusterVars, logged>>

(* initialize fails on a parameter before the framework is set, or on one *)
(* of the DNS propagation probe after it.                                  *)
Initialize(p) ==
    /\ pc[p] = "initialize"
    /\ \/ GoTo(p, "idle") /\ UNCHANGED framework
       \/ (GoTo(p, "idle") \/ GoTo(p, "namespace")) /\ framework' = framework \cup {p}
    /\ UNCHANGED <<test, mode, startTime, applied, clusterVars, logged>>

(* CreateNamespace allows that the namespace exists, terminating or not.   *)
(* A call that fails may have been served.                                 *)
CreateNamespace(p) ==
    /\ pc[p] = "namespace"
    /\ \/ GoTo(p, "idle") /\ UNCHANGED ns
       \/ /\ GoTo(p, "idle") \/ GoTo(p, "objects")
          /\ ns' = IF ns = "absent" THEN "active" ELSE ns
    /\ UNCHANGED <<test, mode, callVars, objs, targets, logged>>

(* ApplyTemplatedManifests creates object after object; one that exists is *)
(* kept.  The API server takes objects of an active namespace only.        *)
CreateProbesObject(p) ==
    /\ pc[p] = "objects" /\ applied[p] < Manifests
    /\ \/ GoTo(p, "idle") /\ UNCHANGED <<applied, objs>>
       \/ /\ ns = "active"
          /\ applied' = [applied EXCEPT ![p] = @ + 1]
          /\ objs' = [objs EXCEPT ![p] = IF @ < applied[p] + 1 THEN applied[p] + 1 ELSE @]
          /\ GoTo(p, IF applied[p] + 1 = Manifests THEN "ready" ELSE "objects")
    /\ UNCHANGED <<test, mode, framework, startTime, ns, targets, logged>>

(* waitForProbesReady: all targets of the probe are up, or the time is     *)
(* over, or the answer of Prometheus cannot be parsed.                     *)
WaitForProbesReady(p) ==
    /\ pc[p] = "ready"
    /\ GoTo(p, "idle")
    /\ \/ UNCHANGED startTime
       \/ targets[p] >= Replicas /\ startTime' = startTime \cup {p}
    /\ UNCHANGED <<test, mode, framework, applied, clusterVars, logged>>

-----------------------------------------------------------------------------
(* The steps are over: the manager disposes one measurement after another. *)
StartDispose ==
    /\ mode = "steps" /\ pc = Idle
    /\ mode' = "dispose"
    /\ UNCHANGED <<test, pc, callVars, clusterVars, logged>>

Waiting == \E p \in Probers : pc[p] \in {"delete", "wait"}

Dispose(p) ==
    /\ mode = "dispose" /\ pc[p] = "idle" /\ ~Waiting
    /\ GoTo(p, IF p \in framework THEN "delete" ELSE "disposed")
    /\ UNCHANGED <<test, mode, callVars, clusterVars, logged>>

(* DeleteNamespace allows that there is none; an error is only logged, and *)
(* the call may have been served.                                          *)
DeleteNamespace(p) ==
    /\ pc[p] = "delete"
    /\ GoTo(p, "wait")
    /\ \/ /\ ns' = IF ns = "absent" THEN "absent" ELSE "terminating"
          /\ logged' \in {logged, TRUE}
       \/ logged' = TRUE /\ UNCHANGED ns
    /\ UNCHANGED <<test, mode, callVars, objs, targets>>

(* WaitForDeleteNamespace; when it gives up this is only logged.           *)
WaitForDeleteNamespace(p) ==
    /\ pc[p] = "wait"
    /\ GoTo(p, "disposed")
    /\ \/ ns = "absent" /\ UNCHANGED logged
       \/ logged' = TRUE
    /\ UNCHANGED <<test, mode, callVars, clusterVars>>

Disposed ==
    /\ mode = "dispose" /\ \A p \in Probers : pc[p] = "disposed"
    /\ mode' = "over"
    /\ UNCHANGED <<test, pc, callVars, clusterVars, logged>>

(* The next test: measurements are made anew, the cluster is not.          *)
NextTest ==
    /\ mode = "over" /\ test < MaxTests
    /\ test' = test + 1 /\ mode' = "steps" /\ pc' = Idle
    /\ framework' = {} /\ startTime' = {} /\ applied' = None
    /\ logged' = (logged /\ ns # "absent")
    /\ UNCHANGED clusterVars

-----------------------------------------------------------------------------
(* The cluster: the namespace controller, and the targets as Prometheus    *)
(* sees them, which may be late.                                           *)
NamespaceGone ==
    /\ ns = "terminating"
    /\ ns' = "absent" /\ objs' = None
    /\ UNCHANGED <<test, mode, pc, callVars, targets, logged>>

TargetsChange(p) ==
    /\ targets' = [targets EXCEPT ![p] = IF objs[p] = Manifests THEN Replicas ELSE 0]
    /\ targets' # targets
    /\ UNCHANGED <<test, mode, pc, callVars, ns, objs, logged>>

Next ==
    \/ \E p \in Probers :
          \/ Start(p) \/ Initialize(p) \/ CreateNamespace(p) \/ CreateProbesObject(p)
          \/ WaitForProbesReady(p) \/ Dispose(p) \/ DeleteNamespace(p)
          \/ WaitForDeleteNamespace(p) \/ TargetsChange(p)
    \/ StartDispose \/ Disposed \/ NextTest \/ NamespaceGone

Spec == Init /\ [][Next]_vars

-----------------------------------------------------------------------------
TypeOK ==
    /\ test \in 1 .. MaxTests /\ mode \in {"steps", "dispose", "over"}
    /\ pc \in [Probers -> {"idle", "initialize", "namespace", "objects", "ready",
                           "delete", "wait", "disposed"}]
    /\ startTime \subseteq framework /\ framework \subseteq Probers
    /\ applied \in [Probers -> 0 .. Manifests]
    /\ ns \in {"absent", "active", "terminating"}
    /\ objs \in [Probers -> 0 .. Manifests]
    /\ targets \in [Probers -> 0 .. Replicas]
    /\ logged \in BOOLEAN

(* As long as the steps run, a probe that has a start time has all its     *)
(* objects in the namespace, although the probes share it, start in        *)
(* parallel and the previous test may have left it terminating or full.    *)
StartedProbesRun ==
    mode = "steps" =>
       \A p \in startTime : ns = "active" /\ objs[p] = Manifests

(* Whichever step of a start failed, nothing is left of the probes at the  *)
(* end of the test, or the disposal logged an error.                       *)
NoProbesLeft == mode = "over" => ns = "absent" \/ logged
=============================================================================
