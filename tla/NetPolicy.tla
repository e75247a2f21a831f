------------------------------ MODULE NetPolicy ------------------------------
(***************************************************************************)
(* The NetworkPolicyEnforcement measurement                                *)
(* (measurement/common/network-policy/network-policy-enforcement-latency.  *)
(* go): setup, run and complete of the policy creation and the pod         *)
(* creation test, and the clean-up in Dispose.  An object of the cluster   *)
(* is a tuple; every API call may fail.                                    *)
(***************************************************************************)
EXTENDS Integers, Sequences, FiniteSets

CONSTANTS
    Targets,    \* number of namespaces with the automanaged prefix
    LoadCount,  \* policyLoadCount
    MaxRuns     \* bound: runs of a test

TestTypes == {"policy-creation", "pod-creation"}
LoadOff   == -2
LoadDone  == -1

VARIABLES
    baseline,   \* parameter of setup
    isSet,      \* nps.framework and nps.k8sClient are set
    targets,    \* len(nps.targetNamespaces)
    objects,    \* objects in the cluster
    call,       \* the action of Execute under way, or "none"
    i,          \* objects of the call handled so far
    load,       \* createLoadPolicies: LoadOff, LoadDone, or policies handled
    errors,     \* history: actions that returned an error
    denied,     \* history: clients that ran before their allow policy
    runs        \* history: tests run, in order

vars == <<baseline, isSet, targets, objects, call, i, load, errors, denied, runs>>

Init ==
    /\ baseline \in BOOLEAN
    /\ isSet = FALSE /\ targets = 0 /\ objects = {} /\ call = "none" /\ i = 0
    /\ load = LoadOff /\ errors = {} /\ denied = {} /\ runs = << >>

-----------------------------------------------------------------------------
(* The objects of each action, in the order they are created.              *)
Policies    == <<<<"policy", "apiserver">>, <<"policy", "pod-creation allow">>,
                 <<"policy", "policy-creation deny">>>>
Permissions == <<<<"serviceaccount">>, <<"clusterrole">>, <<"clusterrolebinding">>>>
SetupObjects == <<<<"namespace">>>> \o (IF baseline THEN << >> ELSE Policies) \o Permissions
Clients(t)  == [n \in 1 .. targets |-> <<"client", t, n>>]
Allows      == [n \in 1 .. targets |-> <<"allow", n>>]
LoadPolicies == [n \in 1 .. targets * (LoadCount \div targets) |-> <<"load", n>>]

Plan(c) == CASE c = "setup"        -> SetupObjects
             [] c \in TestTypes    -> Clients(c)
             [] c = "allow"        -> Allows

Active     == call \notin {"none", "disposed", "panicked"}
Begin(c)   == call' = c /\ i' = 0
Finish     == call' = "none" /\ i' = 0
Fail(what) == errors' = errors \cup {what} /\ Finish

(* initializeMeasurement: the framework is kept whatever fails after it,   *)
(* so that a setup cannot be repeated.                                     *)
Setup ==
    /\ call = "none"
    /\ \/ /\ ~isSet
          /\ isSet' = TRUE /\ targets' = Targets /\ Begin("setup")
          /\ UNCHANGED errors
       \/ /\ Fail("setup")              \* parameters, or already started
          /\ UNCHANGED <<isSet, targets>>
       \/ /\ ~isSet                     \* the LIST fails or finds none
          /\ isSet' = TRUE /\ Fail("setup")
          /\ UNCHANGED targets
    /\ UNCHANGED <<baseline, objects, load, denied, runs>>

(* run: nothing to do for the policy creation test of a baseline.          *)
Run(t) ==
    /\ call = "none" /\ Len(runs) < MaxRuns
    /\ IF ~isSet THEN Fail("run")
       ELSE /\ IF t = "policy-creation" /\ baseline THEN Finish ELSE Begin(t)
            /\ UNCHANGED errors
    /\ runs' = Append(runs, t)
    /\ UNCHANGED <<baseline, isSet, targets, objects, load, denied>>

(* A call to create the next object of the action.  Only the errors of     *)
(* setup and of the deployments end their action.                          *)
Creates(ok) ==
    /\ Active /\ i < Len(Plan(call))
    /\ IF ok THEN objects' = objects \cup {Plan(call)[i + 1]} ELSE UNCHANGED objects
    /\ IF ok \/ call = "allow"
       THEN i' = i + 1 /\ UNCHANGED <<call, errors>>
       ELSE Fail(IF call = "setup" THEN "setup" ELSE "run")
    /\ denied' = IF call = "allow" /\ <<"client", "policy-creation", i + 1>> \in objects
                    /\ <<"policy", "policy-creation deny">> \in objects
                 THEN denied \cup {i + 1} ELSE denied
    /\ UNCHANGED <<baseline, isSet, targets, load, runs>>

(* The wait for the clients only warns; then load policies are created     *)
(* beside the allow policies, a division by zero without namespaces.       *)
CallEnds ==
    /\ Active /\ i = Len(Plan(call))
    /\ CASE call = "policy-creation" /\ targets = 0 ->
                call' = "panicked" /\ UNCHANGED <<i, load>>
         [] call = "policy-creation" /\ targets # 0 ->
                Begin("allow") /\ load' = 0
         [] call = "allow" ->
                load = LoadDone /\ Finish /\ load' = LoadOff
         [] OTHER -> Finish /\ UNCHANGED load
    /\ UNCHANGED <<baseline, isSet, targets, objects, errors, denied, runs>>

(* The clients are deployed, but their pods cannot be watched: the test    *)
(* ends without allow policies.                                            *)
WatchFails ==
    /\ call = "policy-creation" /\ i = Len(Plan(call))
    /\ Fail("run")
    /\ UNCHANGED <<baseline, isSet, targets, objects, load, denied, runs>>

LoadStep(ok) ==
    /\ load >= 0
    /\ IF load = Len(LoadPolicies)
       THEN load' = LoadDone /\ UNCHANGED objects
       ELSE /\ load' = load + 1
            /\ objects' = IF ok THEN objects \cup {LoadPolicies[load + 1]} ELSE objects
    /\ UNCHANGED <<baseline, isSet, targets, call, i, errors, denied, runs>>

(* complete: the deployments of the test, and nothing else.                *)
Complete(t, ok) ==
    /\ call = "none" /\ isSet
    /\ IF ok THEN objects' = objects \ {<<"client", t, n>> : n \in 1 .. targets}
                  /\ UNCHANGED errors
             ELSE errors' = errors \cup {"complete"} /\ UNCHANGED objects
    /\ UNCHANGED <<baseline, isSet, targets, call, i, load, denied, runs>>

(* Dispose: cleanUp returns at the first error, that of deleting an object *)
(* which does not exist included.  The namespace takes what is in it.      *)
InNamespace == { o \in objects : o[1] \in {"namespace", "serviceaccount", "policy",
                                           "client", "allow"} }
Dispose ==
    /\ call = "none"
    /\ call' = "disposed"
    /\ \/ objects' = objects /\ errors' = errors \cup {"dispose"}
       \/ /\ isSet /\ <<"clusterrole">> \in objects
          /\ objects' = objects \ {<<"clusterrole">>}
          /\ errors' = errors \cup {"dispose"}
       \/ /\ isSet /\ {<<"clusterrole">>, <<"clusterrolebinding">>} \subseteq objects
          /\ objects' = objects \ {<<"clusterrole">>, <<"clusterrolebinding">>}
          /\ errors' = errors \cup {"dispose"}
       \/ /\ isSet /\ {<<"clusterrole">>, <<"clusterrolebinding">>} \subseteq objects
          /\ objects' = objects \ (InNamespace \cup { Permissions[n] : n \in 1 .. 3 })
          /\ UNCHANGED errors
    /\ UNCHANGED <<baseline, isSet, targets, i, load, denied, runs>>

Next ==
    \/ Setup \/ CallEnds \/ WatchFails \/ Dispose
    \/ \E t \in TestTypes : Run(t)
    \/ \E ok \in BOOLEAN : Creates(ok) \/ LoadStep(ok)
    \/ \E t \in TestTypes, ok \in BOOLEAN : Complete(t, ok)

-----------------------------------------------------------------------------
TypeOK ==
    /\ call \in TestTypes \cup {"none", "setup", "allow", "disposed", "panicked"}
    /\ Active => i \in 0 .. Len(Plan(call))
    /\ load \in LoadOff .. LoadCount
    /\ errors \subseteq {"setup", "run", "complete", "dispose"}

(* The policy creation latency is measured from denied to allowed: in the  *)
(* first such test, an allow policy is only created for a client that was  *)
(* deployed under the deny policy before, if no action returned an error.  *)
ClientsStartDenied ==
    errors = {} /\ Cardinality({ n \in 1 .. Len(runs) : runs[n] = "policy-creation" }) <= 1
      => \A n \in 1 .. Targets : <<"allow", n>> \in objects => n \in denied
=============================================================================
