--------------------------- MODULE PhaseExecution ---------------------------
(***************************************************************************)
(* The reconciliation core of ClusterLoader2: how the phases of a test     *)
(* step turn declared replica counts into API calls, and how the recorded  *)
(* NamespacesState follows them.                                           *)
(*                                                                         *)
(*   pkg/test/simple_test_executor.go   ExecuteStep, ExecutePhase,         *)
(*                                      ExecuteObject, ...                 *)
(*   pkg/state/namespaces_state.go      Get, Set                           *)
(*   pkg/tuningset/*.go                 Execute (start order, waiting)     *)
(*   pkg/framework/client/objects.go    Create/Patch/DeleteObject and      *)
(*                                      RetryWithExponentialBackOff        *)
(*                                                                         *)
(* A step starts a set of phases; every phase is a goroutine.  It plans    *)
(* one namespace after the other, hands the planned units of work to its   *)
(* tuning set, waits for all of them, and its deferred functions copy      *)
(* DesiredReplicaCount to CurrentReplicaCount when it returns.             *)
(*                                                                         *)
(* A unit of work (a task) is one (namespace, replica index) pair: it      *)
(* walks the object bundle and makes one retried API call per object.      *)
(***************************************************************************)
EXTENDS Integers, Sequences, FiniteSets

CONSTANTS
    Namespaces,      \* namespaces the test uses
    Objects,         \* replicated object sets: (basename, kind, API group)
    MaxReplicas,     \* bound: largest replica count of a phase
    Phases,          \* the phases of the test config
    ListUnknown,     \* objects with ListUnknownObjectOptions set
    BadTemplate,     \* objects whose template cannot be read as an object
    BadSelector,     \* objects whose ListUnknown label selector is invalid
    EmptyTemplate,   \* <<object, replica>> whose template renders to nothing
    Parallelism,     \* most tasks a phase's tuning set runs at once
    RetrySteps,      \* retryBackoffSteps: tries per API call
    MaxSteps         \* bound: steps of the test

Replicas == 0 .. (MaxReplicas - 1)
Keys     == Namespaces \X Objects
Ops      == {"create", "patch", "delete"}

PhaseType == [name       : STRING,
              namespaces : Seq(Namespaces),
              bundle     : Seq(Objects),
              replicas   : 0 .. MaxReplicas,
              tuned      : BOOLEAN]    \* its TuningSet is defined and valid

IsDuplicateFree(s) == \A i, j \in DOMAIN s : s[i] = s[j] => i = j

ASSUME ConstantsAssumption ==
    /\ MaxReplicas \in Nat \ {0}
    /\ Parallelism \in Nat \ {0}
    /\ RetrySteps \in Nat \ {0}
    /\ MaxSteps \in Nat
    /\ ListUnknown \subseteq Objects
    /\ BadTemplate \subseteq Objects
    /\ BadSelector \subseteq ListUnknown
    /\ EmptyTemplate \subseteq Objects \X Replicas

(* Namespaces of a range, and objects of a bundle, are listed once each.   *)
ASSUME PhasesAssumption ==
    /\ Phases \subseteq PhaseType
    /\ \A p \in Phases : /\ IsDuplicateFree(p.namespaces)
                         /\ IsDuplicateFree(p.bundle)

Touched(s)  == { s[i] : i \in DOMAIN s }
KeysOf(p)   == Touched(p.namespaces) \X Touched(p.bundle)

(* Phases of one step that share no object set: the ones a config may run  *)
(* in parallel, because (namespace, type, basename) names one object set.  *)
Independent(ps) == \A p, q \in ps : p # q => KeysOf(p) \cap KeysOf(q) = {}

VARIABLES
    stepNo,     \* steps started so far
    pc,         \* where ExecutePhase is, per phase
    planned,    \* namespaces of the phase planned (their defer registered)
    known,      \* keys with an entry in NamespacesState
    desired,    \* InstancesState.DesiredReplicaCount
    current,    \* InstancesState.CurrentReplicaCount
    cluster,    \* replica indices that exist in the API server, per key
    tasks,      \* units of work not finished yet
    planErrs,   \* phases whose planning failed (error list of the test)
    unitErrs,   \* [phase, ns, r] units that reported an error
    unlisted    \* history: keys whose LIST of unknown objects failed

recVars == <<known, desired, current>>
errVars == <<planErrs, unitErrs>>
vars    == <<stepNo, pc, planned, recVars, cluster, tasks, errVars, unlisted>>

PhaseStates == {"idle", "planning", "executing", "returning", "done"}
Unit        == [phase : Phases, ns : Namespaces, r : Replicas]
Task        == [phase : Phases, ns : Namespaces, r : Replicas, op : Ops,
                st : {"todo", "busy"}, pos : Nat, tries : Nat]

(* Mutant: deletions walk the bundle from its first object.                *)
KeyAtForward(t) ==
    <<t.ns, t.phase.bundle[IF t.op = "delete" THEN Len(t.phase.bundle) + 1 - t.pos ELSE t.pos]>>

TasksOf(p)   == { t \in tasks : t.phase = p }
BusyOf(p)    == { t \in tasks : t.phase = p /\ t.st = "busy" }
UnitOf(t)    == [phase |-> t.phase, ns |-> t.ns, r |-> t.r]
KeyAt(t)     == <<t.ns, t.phase.bundle[t.pos]>>
PlannedNs(p) == { p.namespaces[i] : i \in 1 .. planned[p] }

-----------------------------------------------------------------------------
(* Unknown objects are named like the ones a phase creates: basename-0,    *)
(* basename-1, ...  Other objects do not exist when the test starts.       *)
Init ==
    /\ stepNo = 0
    /\ pc = [p \in Phases |-> "idle"]
    /\ planned = [p \in Phases |-> 0]
    /\ known = {}
    /\ desired = [k \in Keys |-> 0]
    /\ current = [k \in Keys |-> 0]
    /\ \E n \in [Keys -> 0 .. MaxReplicas] :
          /\ \A k \in Keys : k[2] \notin ListUnknown => n[k] = 0
          /\ cluster = [k \in Keys |-> 0 .. (n[k] - 1)]
    /\ tasks = {}
    /\ planErrs = {}
    /\ unitErrs = {}
    /\ unlisted = {}

-----------------------------------------------------------------------------
(* ExecuteStep: all phases of the step start together.  A phase with an    *)
(* unknown tuning set fails before it touches any state.                   *)
StartStep(ps) ==
    /\ stepNo < MaxSteps
    /\ \A p \in Phases : pc[p] = "idle"
    /\ Independent(ps)
    /\ stepNo' = stepNo + 1
    /\ pc' = [p \in Phases |-> IF p \notin ps THEN "idle"
                               ELSE IF p.tuned THEN "planning" ELSE "done"]
    /\ planErrs' = planErrs \cup { p \in ps : ~p.tuned }
    /\ planned' = [p \in Phases |-> 0]
    /\ UNCHANGED <<recVars, cluster, tasks, unitErrs, unlisted>>

(* wg.Wait() of ExecuteStep has returned: the step is over.                *)
EndStep ==
    /\ \A p \in Phases : pc[p] \in {"idle", "done"}
    /\ \E p \in Phases : pc[p] = "done"
    /\ pc' = [p \in Phases |-> "idle"]
    /\ UNCHANGED <<stepNo, planned, recVars, cluster, tasks, errVars, unlisted>>

(* The namespace ExecutePhase plans next, and the keys of its bundle up to *)
(* position n.                                                             *)
NextNs(p)     == p.namespaces[planned[p] + 1]
KeysUpTo(p, n) == { <<NextNs(p), p.bundle[j]>> : j \in 1 .. n }

(* Mutant: unknown objects are not counted.                                *)
NewCountZero(k, failed) == 0

(* getReplicaCountOfNewObject: objects of a new key are listed; a failed   *)
(* LIST counts as no object and is not reported.                           *)
NewCount(k, failed) ==
    IF k[2] \in ListUnknown /\ k \notin failed THEN Cardinality(cluster[k]) ELSE 0

(* The bookkeeping loop over the bundle of one namespace, up to position   *)
(* n: every key gets an entry, and the phase's count as its desired count. *)
Record(p, n, failed) ==
    LET ks == KeysUpTo(p, n)
    IN  /\ failed \subseteq { k \in ks \ known : k[2] \in ListUnknown }
        /\ known' = known \cup ks
        /\ desired' = [k \in Keys |-> IF k \in ks THEN p.replicas ELSE desired[k]]
        /\ current' = [k \in Keys |-> IF k \in ks \ known THEN NewCount(k, failed)
                                                          ELSE current[k]]
        /\ unlisted' = unlisted \cup failed

(* getIdentifier or the label selector fails at this key.                  *)
Unplannable(k) == \/ k[2] \in BadTemplate
                  \/ k[2] \in BadSelector /\ k \notin known

(* verifyBundleCorrectness on the counts just recorded.                    *)
BundleCorrect(ks, count) == \A k, l \in ks : count[k] = count[l]

NewTask(p, r, op) ==
    [phase |-> p, ns |-> NextNs(p), r |-> r, op |-> op, st |-> "todo",
     pos |-> IF op = "delete" THEN Len(p.bundle) ELSE 1, tries |-> 0]

(* The units of work of one namespace whose objects have count c: delete   *)
(* the surplus, patch all replicas if the count stays, create the missing. *)
Planned(p, c) ==
    { NewTask(p, r, "delete") : r \in { x \in Replicas : p.replicas <= x /\ x < c } }
    \cup { NewTask(p, r, "patch") : r \in { x \in Replicas : c = p.replicas /\ x < c } }
    \cup { NewTask(p, r, "create") : r \in { x \in Replicas : c <= x /\ x < p.replicas } }

(* One iteration of the namespace loop of ExecutePhase, up to its defer.   *)
PlanNamespace(p) ==
    /\ pc[p] = "planning"
    /\ planned[p] < Len(p.namespaces)
    /\ p.bundle # << >>
    /\ LET n  == Len(p.bundle)
           ks == KeysUpTo(p, n)
       IN  /\ \A k \in ks : ~Unplannable(k)
           /\ \E failed \in SUBSET ks : Record(p, n, failed)
           /\ BundleCorrect(ks, current')
           /\ tasks' = tasks \cup Planned(p, current'[<<NextNs(p), p.bundle[1]>>])
    /\ planned' = [planned EXCEPT ![p] = @ + 1]
    /\ UNCHANGED <<stepNo, pc, cluster, errVars>>

(* An early return of the namespace loop with an error: the units planned  *)
(* for earlier namespaces are dropped, not executed, but the functions     *)
(* deferred for them still run.                                            *)
AbandonPlan(p) ==
    /\ tasks' = tasks \ TasksOf(p)
    /\ planErrs' = planErrs \cup {p}
    /\ pc' = [pc EXCEPT ![p] = "returning"]
    /\ UNCHANGED <<stepNo, planned, cluster, unitErrs>>

(* getIdentifier or getReplicaCountOfNewObject fails at bundle position j: *)
(* the objects before it have been recorded already.                       *)
PlanFailsAtObject(p) ==
    /\ pc[p] = "planning"
    /\ planned[p] < Len(p.namespaces)
    /\ \E j \in 1 .. Len(p.bundle) :
          /\ Unplannable(<<NextNs(p), p.bundle[j]>>)
          /\ \A i \in 1 .. (j - 1) : ~Unplannable(<<NextNs(p), p.bundle[i]>>)
          /\ \E failed \in SUBSET KeysUpTo(p, j - 1) : Record(p, j - 1, failed)
    /\ AbandonPlan(p)

(* verifyBundleCorrectness rejects the bundle in this namespace.           *)
PlanFailsAtBundle(p) ==
    /\ pc[p] = "planning"
    /\ planned[p] < Len(p.namespaces)
    /\ LET n  == Len(p.bundle)
           ks == KeysUpTo(p, n)
       IN  /\ \A k \in ks : ~Unplannable(k)
           /\ \E failed \in SUBSET ks : Record(p, n, failed)
           /\ ~BundleCorrect(ks, current')
    /\ AbandonPlan(p)

(* "len(instancesStates) == 0": a phase without objects returns nil.       *)
EmptyBundle(p) ==
    /\ pc[p] = "planning"
    /\ p.bundle = << >>
    /\ planned[p] < Len(p.namespaces)
    /\ pc' = [pc EXCEPT ![p] = "returning"]
    /\ UNCHANGED <<stepNo, planned, recVars, cluster, tasks, errVars, unlisted>>

(* All namespaces are planned: tuningSet.Execute(actions) is called.       *)
ExecuteActions(p) ==
    /\ pc[p] = "planning"
    /\ planned[p] = Len(p.namespaces)
    /\ pc' = [pc EXCEPT ![p] = "executing"]
    /\ UNCHANGED <<stepNo, planned, recVars, cluster, tasks, errVars, unlisted>>

(* The tuning set starts a unit of work.  The sets differ in when they     *)
(* start which unit; randomized ones start them in any order.              *)
StartTask(t) ==
    /\ pc[t.phase] = "executing"
    /\ t.st = "todo"
    /\ Cardinality(BusyOf(t.phase)) < Parallelism
    /\ tasks' = (tasks \ {t}) \cup {[t EXCEPT !.st = "busy"]}
    /\ UNCHANGED <<stepNo, pc, planned, recVars, cluster, errVars, unlisted>>

-----------------------------------------------------------------------------
(* ExecuteObject, one API call at a time.                                  *)

Exists(t) == t.r \in cluster[KeyAt(t)]

(* What a call does in the API server once it is served.                   *)
Served(t) ==
    cluster' = [cluster EXCEPT ![KeyAt(t)] =
                    IF t.op = "create" THEN @ \cup {t.r}
                    ELSE IF t.op = "delete" THEN @ \ {t.r}
                    ELSE @]

(* Mutant: deletions walk the bundle forward from its end.                 *)
NextPosForward(t) == t.pos + 1

LastObject(t) == IF t.op = "delete" THEN t.pos = 1 ELSE t.pos = Len(t.phase.bundle)
NextPos(t)    == IF t.op = "delete" THEN t.pos - 1 ELSE t.pos + 1

(* The unit goes on with the next object of the bundle, or is finished.    *)
NextObject(t) ==
    tasks' = IF LastObject(t) THEN tasks \ {t}
             ELSE (tasks \ {t}) \cup {[t EXCEPT !.pos = NextPos(t), !.tries = 0]}

(* Mutant: an error does not end the loop over the bundle.                 *)
AfterErrorGoOn(t) == NextObject(t)

(* After an error a deletion goes on with the next object; creating and    *)
(* patching skip the rest of the bundle.                                   *)
AfterError(t) ==
    IF t.op = "delete" THEN NextObject(t) ELSE tasks' = tasks \ {t}

(* ErrorEmptyFile: the template renders to nothing and no call is made.    *)
Skips(t) == t.op # "delete" /\ <<t.phase.bundle[t.pos], t.r>> \in EmptyTemplate

SkipEmpty(t) ==
    /\ t.st = "busy"
    /\ Skips(t)
    /\ NextObject(t)
    /\ UNCHANGED <<stepNo, pc, planned, recVars, cluster, errVars, unlisted>>

(* The call is served and answered.  AlreadyExists of a create and         *)
(* NotFound of a delete are allowed errors; NotFound of a patch is not.    *)
CallSucceeds(t) ==
    /\ t.st = "busy"
    /\ ~Skips(t)
    /\ t.op = "patch" => Exists(t)
    /\ Served(t)
    /\ NextObject(t)
    /\ UNCHANGED <<stepNo, pc, planned, recVars, errVars, unlisted>>

(* Mutant: the back-off starts again instead of giving up.                 *)
CallRetriedForever(t) ==
    /\ t.st = "busy"
    /\ ~Skips(t)
    /\ Served(t) \/ UNCHANGED cluster
    /\ tasks' = (tasks \ {t}) \cup {[t EXCEPT !.tries = (@ + 1) % RetrySteps]}
    /\ UNCHANGED <<stepNo, pc, planned, recVars, errVars, unlisted>>

(* A retryable error with tries left.  A lost answer (time-out, EOF,       *)
(* connection reset) may hide a call that was served.                      *)
CallRetried(t) ==
    /\ t.st = "busy"
    /\ ~Skips(t)
    /\ t.tries + 1 < RetrySteps
    /\ Served(t) \/ UNCHANGED cluster
    /\ tasks' = (tasks \ {t}) \cup {[t EXCEPT !.tries = @ + 1]}
    /\ UNCHANGED <<stepNo, pc, planned, recVars, errVars, unlisted>>

(* Mutant: the error of a call is logged and not returned.                 *)
CallFailsSilently(t) ==
    /\ t.st = "busy"
    /\ ~Skips(t)
    /\ \/ UNCHANGED cluster
       \/ t.tries + 1 = RetrySteps /\ Served(t)
    /\ AfterError(t)
    /\ UNCHANGED <<stepNo, pc, planned, recVars, errVars, unlisted>>

(* A final error: not retryable, or retryable on the last try (then the    *)
(* call may have been served).                                             *)
CallFails(t) ==
    /\ t.st = "busy"
    /\ ~Skips(t)
    /\ \/ UNCHANGED cluster
       \/ t.tries + 1 = RetrySteps /\ Served(t)
    /\ unitErrs' = unitErrs \cup {UnitOf(t)}
    /\ AfterError(t)
    /\ UNCHANGED <<stepNo, pc, planned, recVars, planErrs, unlisted>>

-----------------------------------------------------------------------------
(* Mutant: the tuning set waits until every unit was started.              *)
AllStarted(p) ==
    /\ pc[p] = "executing"
    /\ TasksOf(p) = BusyOf(p)
    /\ pc' = [pc EXCEPT ![p] = "returning"]
    /\ UNCHANGED <<stepNo, planned, recVars, cluster, tasks, errVars, unlisted>>

(* wg.Wait() of the tuning set: every unit of the phase is finished.       *)
AllDone(p) ==
    /\ pc[p] = "executing"
    /\ TasksOf(p) = {}
    /\ pc' = [pc EXCEPT ![p] = "returning"]
    /\ UNCHANGED <<stepNo, planned, recVars, cluster, tasks, errVars, unlisted>>

(* The deferred functions: one per planned namespace.                      *)
Return(p) ==
    /\ pc[p] = "returning"
    /\ LET ks == PlannedNs(p) \X Touched(p.bundle)
       IN  /\ current' = [k \in Keys |-> IF k \in ks THEN desired[k] ELSE current[k]]
           /\ known' = known \cup ks
    /\ pc' = [pc EXCEPT ![p] = "done"]
    /\ UNCHANGED <<stepNo, planned, desired, cluster, tasks, errVars, unlisted>>

PhaseStep(p) == \/ PlanNamespace(p) \/ PlanFailsAtObject(p) \/ PlanFailsAtBundle(p)
                \/ EmptyBundle(p) \/ ExecuteActions(p) \/ AllDone(p) \/ Return(p)

TaskStep(t) == \/ StartTask(t) \/ SkipEmpty(t)
               \/ CallSucceeds(t) \/ CallRetried(t) \/ CallFails(t)

Progress == \/ EndStep
            \/ \E p \in Phases : PhaseStep(p)
            \/ \E t \in tasks : TaskStep(t)

(* The test has run all its steps.                                         *)
Finished == /\ stepNo = MaxSteps
            /\ \A p \in Phases : pc[p] = "idle"
            /\ UNCHANGED vars

Next == \/ \E ps \in SUBSET Phases : ps # {} /\ StartStep(ps)
        \/ Progress
        \/ Finished

Spec     == Init /\ [][Next]_vars
FairSpec == Spec /\ WF_vars(Progress)

-----------------------------------------------------------------------------
(* Properties.                                                             *)

(* The variables keep their types; a unit of work stays inside its bundle  *)
(* and its retries inside retryBackoffSteps, recorded counts inside the    *)
(* replica counts of the phases.                                           *)
TypeOK ==
    /\ stepNo \in 0 .. MaxSteps
    /\ pc \in [Phases -> PhaseStates]
    /\ planned \in [Phases -> Nat]
    /\ \A p \in Phases : planned[p] <= Len(p.namespaces)
    /\ known \subseteq Keys
    /\ desired \in [Keys -> 0 .. MaxReplicas]
    /\ current \in [Keys -> 0 .. MaxReplicas]
    /\ cluster \in [Keys -> SUBSET Replicas]
    /\ tasks \subseteq Task
    /\ \A t \in tasks : t.pos \in 1 .. Len(t.phase.bundle) /\ t.tries < RetrySteps
    /\ planErrs \subseteq Phases
    /\ unitErrs \subseteq Unit
    /\ unlisted \subseteq Keys

Active(p)  == pc[p] \in {"planning", "executing", "returning"}
Settled(k) == \A p \in Phases : Active(p) => k \notin KeysOf(p)

(* An error in the test's error list that concerns replica r of key k.     *)
Blamed(k, r) ==
    \/ \E p \in planErrs : k \in KeysOf(p)
    \/ \E u \in unitErrs : /\ u.ns = k[1] /\ u.r = r
                          /\ k[2] \in Touched(u.phase.bundle)

(* The recorded count and the cluster disagree on replica r of key k.      *)
Diverges(k, r) ==
    /\ <<k[2], r>> \notin EmptyTemplate
    /\ (r \in cluster[k]) # (r < current[k])

(* NamespacesState is the only memory a later phase plans from, and it is  *)
(* advanced even if calls fail or never run.  Whenever it disagrees with   *)
(* the cluster about a replica, an error about that unit was reported, or  *)
(* the LIST of unknown objects of that key failed.                         *)
NoSilentDivergence ==
    \A k \in known, r \in Replicas :
        Settled(k) /\ Diverges(k, r) => Blamed(k, r) \/ k \in unlisted

(* Position of key k in the bundle of phase p, and the keys of the bundle  *)
(* before and after it.                                                    *)
Before(p, k) == { <<k[1], p.bundle[i]>> : i \in
                    { j \in DOMAIN p.bundle :
                        \E l \in DOMAIN p.bundle : j < l /\ p.bundle[l] = k[2] } }
After(p, k)  == { <<k[1], p.bundle[i]>> : i \in
                    { j \in DOMAIN p.bundle :
                        \E l \in DOMAIN p.bundle : l < j /\ p.bundle[l] = k[2] } }

(* design.md: objects of a bundle are processed serially, so that a        *)
(* service exists before its deployment.  An object of a replica appears   *)
(* only when all objects before it in the bundle exist, also when some     *)
(* call fails or is retried, and while other units run in parallel.        *)
CreationOrder ==
    [][\A p \in Phases : \A k \in KeysOf(p) : \A r \in cluster'[k] \ cluster[k] :
          Active(p) => \A l \in Before(p, k) :
                          r \in cluster[l] \/ <<l[2], r>> \in EmptyTemplate]_vars

(* "Objects will be deleted in reversed order": an object goes away only   *)
(* when the objects after it in the bundle are gone, or their deletion was *)
(* reported as failed (or an earlier error left the replica incomplete).   *)
DeletionOrder ==
    [][\A p \in Phases : \A k \in KeysOf(p) : \A r \in cluster[k] \ cluster'[k] :
          Active(p) => \A l \in After(p, k) : r \notin cluster[l] \/ Blamed(l, r)]_vars

(* Every step ends: retries are bounded and every tuning set waits only    *)
(* for calls that return.                                                  *)
StepEnds == (\E p \in Phases : pc[p] # "idle") ~> (\A p \in Phases : pc[p] = "idle")

(* A phase runs from the start of its goroutine until it has returned.     *)
Progression(p) == IF Active(p) THEN "running" ELSE pc[p]
ReplicasOf(p)   == p.replicas

Step == INSTANCE ForkJoin WITH
           Target <- ReplicasOf,
           state <- [p \in Phases |-> Progression(p)],
           objects <- cluster

(* ExecuteStep implements fork and join: whatever its phases plan, retry   *)
(* or give up, objects change only while a phase they belong to runs, in   *)
(* the direction of its replica count; no call outlives its phase.         *)
ImplementsForkJoin == Step!Spec

=============================================================================
