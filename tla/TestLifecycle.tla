--------------------------- MODULE TestLifecycle ----------------------------
(***************************************************************************)
(* The life of the tests of one ClusterLoader2 run: what ExecuteTest sets  *)
(* up around the steps and what it takes down again.                       *)
(*                                                                         *)
(*   pkg/test/simple_test_executor.go  ExecuteTest, prepareTestNamespaces, *)
(*                    ExecuteTestSteps, cleanupTestResourcesAndDependencies*)
(*   pkg/framework/framework.go        automanaged namespaces              *)
(*   pkg/dependency/manager.go         SetupDependencies, Teardown...      *)
(*   pkg/chaos/monkey.go, nodes.go     the NodeKiller                      *)
(*                                                                         *)
(* The tests run one after the other with one Framework, whose map of      *)
(* automanaged namespaces outlives a test.  Every test has its own chaos   *)
(* monkey, a goroutine that runs until the stop channel of its test is     *)
(* closed, and its own dependency manager; a dependency whose setup times  *)
(* out goes on in a goroutine that nobody waits for.                       *)
(***************************************************************************)
EXTENDS Integers, Sequences, FiniteSets

CONSTANTS
    Tests,          \* sequence of test configs
    Prefixes,       \* namespace prefixes
    MaxNs,          \* bound: namespaces of a test
    Nodes,          \* schedulable nodes
    PromNodes,      \* nodes that run a Prometheus pod
    Dependencies    \* names of dependencies

TestType == [prefix : Prefixes, number : 0 .. MaxNs,
             existing : BOOLEAN,       \* EnableExistingNamespaces
             delete : BOOLEAN,         \* DeleteAutomanagedNamespaces
             stale : BOOLEAN,          \* DeleteStaleNamespaces
             chaos : BOOLEAN,          \* ChaosMonkey.NodeFailure is set
             half : BOOLEAN,           \* FailureRate: 1/2, else 1
             excluded : SUBSET Nodes,  \* ChaosMonkey.ExcludedNodes
             deps : Seq(Dependencies),
             bounded : BOOLEAN,        \* the dependencies have a timeout
             steps : Nat]

ASSUME ConstantsAssumption ==
    /\ Tests \in Seq(TestType)
    /\ Tests # << >>
    /\ MaxNs \in Nat
    /\ PromNodes \subseteq Nodes
    /\ IsFiniteSet(Nodes)

TestNo == 1 .. Len(Tests)
Names  == Prefixes \X (1 .. MaxNs)

VARIABLES
    test,       \* number of the current test
    pc,         \* where ExecuteTest is
    stepNo,     \* steps done
    outcome,    \* how the test ended, per test
    ns,         \* state of the namespaces in the API server
    automanaged,\* Framework.automanagedNamespaces: names in the map
    toDelete,   \* those of them with value TRUE
    depNo,      \* position in the list of dependencies
    setup,      \* setupDependencies of the current test
    installed,  \* dependencies present in the cluster
    late,       \* setups that timed out and still run
    stopClosed, \* stop channel of the test's monkey is closed
    monkey,     \* the goroutine of NodeKiller.Run, per test: between two
                \* rounds or waiting for kill ("running"), in pickNodes
                \* ("picking")
    killed,     \* killedNodes, per test
    victims,    \* goroutines of kill: [test, node, st]
    up,         \* nodes whose services run
    sshErrs,    \* history: nodes for which an ssh command failed
    excused     \* history: dependencies whose setup or teardown failed

nsVars   == <<ns, automanaged, toDelete>>
depVars  == <<depNo, setup, installed, late, excused>>
killVars == <<monkey, killed, victims, up, sshErrs>>
vars     == <<test, pc, stepNo, outcome, nsVars, depVars, stopClosed, killVars>>

Conf       == Tests[test]
NamesOf(t) == { <<Tests[t].prefix, i>> : i \in 1 .. Tests[t].number }
Present    == { n \in Names : ns[n] # "absent" }

Init ==
    /\ test = 1
    /\ pc = "start"
    /\ stepNo = 0
    /\ outcome = [t \in TestNo |-> "none"]
    /\ ns \in [Names -> {"absent", "active"}]        \* leftovers of another run
    /\ automanaged = {}
    /\ toDelete = {}
    /\ depNo = 0
    /\ setup = << >>
    /\ installed = {}
    /\ late = {}
    /\ stopClosed = [t \in TestNo |-> FALSE]
    /\ monkey = [t \in TestNo |-> "none"]
    /\ killed = [t \in TestNo |-> Tests[t].excluded]
    /\ victims = {}
    /\ up = Nodes
    /\ sshErrs = {}
    /\ excused = {}

-----------------------------------------------------------------------------
(* ExecuteTest.  The cleanup is deferred first: every return leads there.  *)

Fail(why) ==
    /\ outcome' = [outcome EXCEPT ![test] = why]
    /\ pc' = "cleanup"

Close == stopClosed' = [stopClosed EXCEPT ![test] = TRUE]

(* ChaosMonkey().Init.                                                     *)
InitMonkey ==
    /\ pc = "start"
    /\ IF Conf.chaos THEN monkey' = [monkey EXCEPT ![test] = "running"]
                     ELSE UNCHANGED monkey
    /\ pc' = "prepare"
    /\ UNCHANGED <<test, stepNo, outcome, nsVars, depVars, stopClosed,
                   killed, victims, up, sshErrs>>

(* The provider does not support the NodeKiller.                           *)
InitMonkeyFails ==
    /\ pc = "start"
    /\ Conf.chaos
    /\ Close
    /\ Fail("monkeyError")
    /\ UNCHANGED <<test, stepNo, nsVars, depVars, killVars>>

(* Mutant: a namespace is forgotten before its deletion was awaited.       *)
DeleteAllForget(S, ok) ==
    \E ending \in SUBSET (S \ ok) :
        /\ ns' = [n \in Names |-> IF n \in ok THEN "absent"
                                  ELSE IF n \in ending /\ ns[n] = "active" THEN "terminating"
                                  ELSE ns[n]]
        /\ automanaged' = automanaged \ (ok \cup ending)
        /\ toDelete' = toDelete \ (ok \cup ending)

(* deleteNamespace for all of S in parallel: those in ok are gone and      *)
(* forgotten; the others could not be deleted or are still terminating     *)
(* when the wait times out.                                                *)
DeleteAll(S, ok) ==
    \E ending \in SUBSET (S \ ok) :
        /\ ns' = [n \in Names |-> IF n \in ok THEN "absent"
                                  ELSE IF n \in ending /\ ns[n] = "active" THEN "terminating"
                                  ELSE ns[n]]
        /\ automanaged' = automanaged \ ok
        /\ toDelete' = toDelete \ ok

(* A namespace whose deletion was not awaited long enough goes away.       *)
NamespaceGone(n) ==
    /\ ns[n] = "terminating"
    /\ ns' = [ns EXCEPT ![n] = "absent"]
    /\ UNCHANGED <<test, pc, stepNo, outcome, automanaged, toDelete, depVars, stopClosed, killVars>>

(* ListAutomanagedNamespaces: namespaces of the current prefix, and those  *)
(* that look automanaged but are not from this run.                        *)
CurrentPrefix == { n \in Present : n[1] = Conf.prefix }
Stale         == { n \in Present : n[1] # Conf.prefix /\ n \notin automanaged }

(* prepareTestNamespaces, up to the creation: an error of the listing, or  *)
(* pre-existing namespaces that the config does not allow.                 *)
PrepareFails ==
    /\ pc = "prepare"
    /\ Fail("prepareError")
    /\ UNCHANGED <<test, stepNo, nsVars, depVars, stopClosed, killVars>>

(* Stale namespaces are deleted; errors of that are only logged.           *)
DeleteStale ==
    /\ pc = "prepare"
    /\ Conf.existing \/ CurrentPrefix = {}
    /\ IF Conf.stale THEN \E ok \in SUBSET Stale : DeleteAll(Stale, ok) ELSE UNCHANGED nsVars
    /\ pc' = "create"
    /\ UNCHANGED <<test, stepNo, outcome, depVars, stopClosed, killVars>>

FirstN(n)  == { <<Conf.prefix, i>> : i \in 1 .. n }

(* Mutant: a namespace in the framework's map is taken to exist.           *)
CreateUnlessInMap(n, extra) ==
    /\ Conf.existing \/ \A x \in FirstN(n) : ns[x] = "absent"
    /\ ns' = [x \in Names |-> IF x \in FirstN(n + extra) \ automanaged /\ ns[x] = "absent"
                               THEN "active" ELSE ns[x]]
    /\ automanaged' = automanaged \cup FirstN(n)
    /\ toDelete' = IF Conf.delete THEN toDelete \cup FirstN(n) ELSE toDelete \ FirstN(n)

(* CreateAutomanagedNamespaces, one namespace after the other; existing    *)
(* ones are taken over, terminating ones too.                              *)
Create(n, extra) ==
    /\ Conf.existing \/ \A x \in FirstN(n) : ns[x] = "absent"
    /\ ns' = [x \in Names |-> IF x \in FirstN(n + extra) /\ ns[x] = "absent"
                               THEN "active" ELSE ns[x]]
    /\ automanaged' = automanaged \cup FirstN(n)
    /\ toDelete' = IF Conf.delete THEN toDelete \cup FirstN(n) ELSE toDelete \ FirstN(n)

CreateNamespaces ==
    /\ pc = "create"
    /\ Create(Conf.number, 0)
    /\ pc' = "dependencies"
    /\ UNCHANGED <<test, stepNo, outcome, depVars, stopClosed, killVars>>

(* The namespaces cannot be listed, the creation fails after n of them, or *)
(* one turns out to exist.  The one that failed may exist all the same:    *)
(* its answer was lost.                                                    *)
CreateFails ==
    /\ pc = "create"
    /\ \/ UNCHANGED nsVars
       \/ \E n \in 0 .. (Conf.number - 1), extra \in {0, 1} : Create(n, extra)
    /\ Fail("prepareError")
    /\ UNCHANGED <<test, stepNo, depVars, stopClosed, killVars>>

-----------------------------------------------------------------------------
(* SetupDependencies: all are tried, in order, even after an error.        *)

NextDep == Conf.deps[depNo + 1]

SetupReturns ==
    /\ pc = "dependencies"
    /\ depNo < Len(Conf.deps)
    /\ depNo' = depNo + 1
    /\ \/ /\ setup' = Append(setup, NextDep)
          /\ installed' = installed \cup {NextDep}
          /\ excused' = IF NextDep \in late THEN excused ELSE excused \ {NextDep}
       \/ /\ excused' = excused \cup {NextDep}      \* an error; it may be half done
          /\ installed' \in {installed, installed \cup {NextDep}}
          /\ UNCHANGED setup
    /\ UNCHANGED <<test, pc, stepNo, outcome, nsVars, late, stopClosed, killVars>>

SetupTimesOut ==
    /\ pc = "dependencies"
    /\ depNo < Len(Conf.deps)
    /\ Conf.bounded
    /\ depNo' = depNo + 1
    /\ late' = late \cup {NextDep}
    /\ excused' = excused \cup {NextDep}
    /\ UNCHANGED <<test, pc, stepNo, outcome, nsVars, setup, installed, stopClosed, killVars>>

(* The goroutine of a setup that timed out ends, whenever that may be.     *)
LateSetup(d) ==
    /\ late' = late \ {d}
    /\ \/ installed' = installed \cup {d}
       \/ UNCHANGED installed
    /\ UNCHANGED <<test, pc, stepNo, outcome, nsVars, depNo, setup, excused, stopClosed, killVars>>

DependenciesReady ==
    /\ pc = "dependencies"
    /\ depNo = Len(Conf.deps)
    /\ Len(setup) = depNo
    /\ pc' = "steps"
    /\ stepNo' = 0
    /\ UNCHANGED <<test, outcome, nsVars, depVars, stopClosed, killVars>>

DependenciesFailed ==
    /\ pc = "dependencies"
    /\ depNo = Len(Conf.deps)
    /\ Len(setup) < depNo
    /\ Close
    /\ Fail("dependencyError")
    /\ UNCHANGED <<test, stepNo, nsVars, depVars, killVars>>

-----------------------------------------------------------------------------
(* ExecuteTestSteps.  A critical error skips the steps left.               *)

ExecuteStep ==
    /\ pc = "steps"
    /\ stepNo < Conf.steps
    /\ \E critical \in BOOLEAN : stepNo' = IF critical THEN Conf.steps ELSE stepNo + 1
    /\ UNCHANGED <<test, pc, outcome, nsVars, depVars, stopClosed, killVars>>

StepsDone ==
    /\ pc = "steps"
    /\ stepNo = Conf.steps
    /\ Close
    /\ pc' = "waitMonkey"
    /\ UNCHANGED <<test, stepNo, outcome, nsVars, depVars, killVars>>

(* Mutant: nobody waits for the chaos monkey.                              *)
DoNotWaitMonkey ==
    /\ pc = "waitMonkey"
    /\ Fail("ran")
    /\ UNCHANGED <<test, stepNo, nsVars, depVars, stopClosed, killVars>>

(* chaosMonkeyWaitGroup.Wait(), then the summaries are written.            *)
WaitMonkey ==
    /\ pc = "waitMonkey"
    /\ monkey[test] \notin {"running", "picking"}
    /\ Fail("ran")
    /\ UNCHANGED <<test, stepNo, nsVars, depVars, stopClosed, killVars>>

-----------------------------------------------------------------------------
(* cleanupTestResourcesAndDependencies: measurements are disposed, then    *)
(* namespaces deleted; the dependencies are left alone if that fails.      *)
CleanupNamespaces ==
    /\ pc = "cleanup"
    /\ \E ok \in SUBSET toDelete :
          LET S == IF Conf.delete THEN toDelete ELSE {}
          IN  /\ ok \subseteq S
              /\ DeleteAll(S, ok)
              /\ pc' = IF ok = S THEN "teardown" ELSE "over"
              /\ excused' = IF ok = S THEN excused ELSE excused \cup installed
    /\ depNo' = Len(setup)
    /\ UNCHANGED <<test, stepNo, outcome, setup, installed, late, stopClosed, killVars>>

(* Mutant: the loop of the teardown ends one too early.                    *)
TeardownMissesFirst ==
    /\ pc = "teardown"
    /\ depNo > 0
    /\ depNo' = depNo - 1
    /\ \/ installed' = (IF depNo = 1 THEN installed ELSE installed \ {setup[depNo]})
          /\ UNCHANGED excused
       \/ excused' = excused \cup {setup[depNo]} /\ UNCHANGED installed
    /\ UNCHANGED <<test, pc, stepNo, outcome, nsVars, setup, late, stopClosed, killVars>>

(* TeardownDependencies: in reverse order, without a timeout; all are      *)
(* tried.                                                                  *)
TeardownReturns ==
    /\ pc = "teardown"
    /\ depNo > 0
    /\ depNo' = depNo - 1
    /\ \/ installed' = installed \ {setup[depNo]} /\ UNCHANGED excused
       \/ excused' = excused \cup {setup[depNo]} /\ UNCHANGED installed
    /\ UNCHANGED <<test, pc, stepNo, outcome, nsVars, setup, late, stopClosed, killVars>>

TeardownDone ==
    /\ pc = "teardown"
    /\ depNo = 0
    /\ pc' = "over"
    /\ UNCHANGED <<test, stepNo, outcome, nsVars, depVars, stopClosed, killVars>>

(* main's loop over the tests.                                             *)
NextTest ==
    /\ pc = "over"
    /\ test < Len(Tests)
    /\ test' = test + 1
    /\ pc' = "start"
    /\ depNo' = 0
    /\ setup' = << >>
    /\ UNCHANGED <<stepNo, outcome, nsVars, installed, late, excused, stopClosed, killVars>>

-----------------------------------------------------------------------------
(* NodeKiller.Run: rounds of kill until the stop channel is closed.        *)

VictimsOf(t) == { v \in victims : v.test = t }

(* ceil(FailureRate * available)                                           *)
KillCount(t, n) == IF Tests[t].half THEN (n + 1) \div 2 ELSE n

(* JitterUntil looks at the channel, then starts a round.                  *)
StartRound(t) ==
    /\ monkey[t] = "running"
    /\ ~stopClosed[t]
    /\ VictimsOf(t) = {}
    /\ monkey' = [monkey EXCEPT ![t] = "picking"]
    /\ UNCHANGED <<test, pc, stepNo, outcome, nsVars, depVars, stopClosed,
                   killed, victims, up, sshErrs>>

(* Mutant: nodes with a Prometheus pod are not left out.                   *)
PickAnyNode(t) ==
    /\ monkey[t] = "picking"
    /\ monkey' = [monkey EXCEPT ![t] = "running"]
    /\ \E all \in SUBSET Nodes :
          LET available == all \ killed[t]
          IN  \E S \in SUBSET available :
                 /\ Cardinality(S) = KillCount(t, Cardinality(available))
                 /\ killed' = [killed EXCEPT ![t] = @ \cup S]
                 /\ victims' = victims \cup { [test |-> t, node |-> n, st |-> "stop"] : n \in S }
    /\ UNCHANGED <<test, pc, stepNo, outcome, nsVars, depVars, stopClosed, up, sshErrs>>

(* pickNodes, and the start of kill; the channel may be closed meanwhile.  *)
(* Any nodes may be listed as schedulable, also one that is down.  When    *)
(* the nodes or the Prometheus pods cannot be listed the round is over.    *)
Pick(t) ==
    /\ monkey[t] = "picking"
    /\ monkey' = [monkey EXCEPT ![t] = "running"]
    /\ \/ UNCHANGED <<killed, victims>>
       \/ \E all \in SUBSET Nodes :
             LET available == (all \ PromNodes) \ killed[t]
             IN  \E S \in SUBSET available :
                    /\ Cardinality(S) = KillCount(t, Cardinality(available))
                    /\ killed' = [killed EXCEPT ![t] = @ \cup S]
                    /\ victims' = victims \cup { [test |-> t, node |-> n, st |-> "stop"] : n \in S }
    /\ UNCHANGED <<test, pc, stepNo, outcome, nsVars, depVars, stopClosed, up, sshErrs>>

(* ssh "systemctl stop docker kubelet".  After an error the node is not    *)
(* rebooted, even if the command did run.                                  *)
StopServices(v) ==
    /\ v.st = "stop"
    /\ \/ /\ up' = up \ {v.node}
          /\ victims' = (victims \ {v}) \cup {[v EXCEPT !.st = "down"]}
          /\ UNCHANGED sshErrs
       \/ /\ up' \in {up, up \ {v.node}}
          /\ victims' = victims \ {v}
          /\ sshErrs' = sshErrs \cup {v.node}
    /\ UNCHANGED <<test, pc, stepNo, outcome, nsVars, depVars, stopClosed, monkey, killed>>

(* Mutants: a closed channel ends the goroutine during the downtime; the   *)
(* channel is not listened to and the downtime has no end.                 *)
RebootUnlessClosed(v) ==
    /\ v.st = "down"
    /\ victims' = victims \ {v}
    /\ \/ ~stopClosed[v.test] /\ up' = up \cup {v.node} /\ UNCHANGED sshErrs
       \/ stopClosed[v.test] /\ UNCHANGED <<up, sshErrs>>
       \/ up' \in {up, up \cup {v.node}} /\ sshErrs' = sshErrs \cup {v.node}
    /\ UNCHANGED <<test, pc, stepNo, outcome, nsVars, depVars, stopClosed, monkey, killed>>

RebootOnTime(v) ==
    /\ v.st = "down"
    /\ ~stopClosed[v.test]
    /\ victims' = victims \ {v}
    /\ \/ up' = up \cup {v.node} /\ UNCHANGED sshErrs
       \/ up' \in {up, up \cup {v.node}} /\ sshErrs' = sshErrs \cup {v.node}
    /\ UNCHANGED <<test, pc, stepNo, outcome, nsVars, depVars, stopClosed, monkey, killed>>

(* After SimulatedDowntime, or once the channel is closed: ssh "reboot".   *)
Reboot(v) ==
    /\ v.st = "down"
    /\ victims' = victims \ {v}
    /\ \/ up' = up \cup {v.node} /\ UNCHANGED sshErrs
       \/ up' \in {up, up \cup {v.node}} /\ sshErrs' = sshErrs \cup {v.node}
    /\ UNCHANGED <<test, pc, stepNo, outcome, nsVars, depVars, stopClosed, monkey, killed>>

(* Mutant: the loop does not look at the channel.                          *)
MonkeyNeverEnds(t) ==
    /\ FALSE
    /\ monkey' = [monkey EXCEPT ![t] = "ended"]
    /\ UNCHANGED <<test, pc, stepNo, outcome, nsVars, depVars, stopClosed, killed, victims, up, sshErrs>>

(* JitterUntil sees the closed channel between two rounds.                 *)
MonkeyEnds(t) ==
    /\ monkey[t] = "running"
    /\ stopClosed[t]
    /\ VictimsOf(t) = {}
    /\ monkey' = [monkey EXCEPT ![t] = "ended"]
    /\ UNCHANGED <<test, pc, stepNo, outcome, nsVars, depVars, stopClosed, killed, victims, up, sshErrs>>

-----------------------------------------------------------------------------
Executor == \/ InitMonkey \/ InitMonkeyFails \/ PrepareFails \/ DeleteStale
            \/ CreateNamespaces \/ CreateFails \/ SetupTimesOut
            \/ DependenciesReady \/ DependenciesFailed \/ ExecuteStep \/ StepsDone
            \/ WaitMonkey \/ CleanupNamespaces \/ TeardownDone \/ NextTest

(* A goroutine of the monkey of test t goes on.                            *)
Killer(t) == \/ \E v \in VictimsOf(t) : StopServices(v) \/ Reboot(v)
             \/ Pick(t) \/ MonkeyEnds(t)

Finished == pc = "over" /\ test = Len(Tests) /\ UNCHANGED vars

Next == \/ Executor \/ SetupReturns \/ TeardownReturns
        \/ \E t \in TestNo : StartRound(t) \/ Killer(t)
        \/ \E n \in Names : NamespaceGone(n)
        \/ \E d \in late : LateSetup(d)
        \/ Finished

(* A dependency's own code may take forever; ssh commands, API calls and   *)
(* steps return, and every goroutine is scheduled.                         *)
Spec     == Init /\ [][Next]_vars
FairSpec == Spec /\ WF_vars(Executor) /\ \A t \in TestNo : WF_vars(Killer(t))

-----------------------------------------------------------------------------
(* Properties.                                                             *)

(* The variables keep their types; namespaces to delete are in the         *)
(* framework's map, and no node that runs Prometheus or is excluded by its *)
(* test is among the nodes being killed.                                   *)
TypeOK ==
    /\ test \in TestNo
    /\ pc \in {"start", "prepare", "create", "dependencies", "steps", "waitMonkey",
              "cleanup", "teardown", "over"}
    /\ stepNo \in Nat
    /\ outcome \in [TestNo -> {"none", "monkeyError", "prepareError", "dependencyError", "ran"}]
    /\ ns \in [Names -> {"absent", "active", "terminating"}]
    /\ automanaged \subseteq Names
    /\ toDelete \subseteq automanaged
    /\ depNo \in 0 .. Len(Conf.deps)
    /\ setup \in Seq(Dependencies)
    /\ installed \subseteq Dependencies
    /\ late \subseteq Dependencies
    /\ excused \subseteq Dependencies
    /\ stopClosed \in [TestNo -> BOOLEAN]
    /\ monkey \in [TestNo -> {"none", "running", "picking", "ended"}]
    /\ killed \in [TestNo -> SUBSET Nodes]
    /\ victims \subseteq [test : TestNo, node : Nodes, st : {"stop", "down"}]
    /\ \A v \in victims : v.node \notin PromNodes \cup Tests[v.test].excluded
    /\ up \subseteq Nodes
    /\ sshErrs \subseteq Nodes

(* Once a test that ran its steps is over, its chaos monkey has stopped    *)
(* and no goroutine of it still stops or reboots nodes under the next      *)
(* test.  (After a failed preparation it goes on: the channel is not       *)
(* closed.)                                                                *)
KillerEndsWithTest ==
    \A t \in TestNo : outcome[t] = "ran" => /\ monkey[t] \notin {"running", "picking"}
                                           /\ VictimsOf(t) = {}

(* A node whose services were stopped has a goroutine that will reboot it, *)
(* whatever ends the downtime and however many monkeys hit the node,       *)
(* unless an ssh command to it failed.                                     *)
NoNodeLeftDown ==
    \A n \in Nodes \ up : \/ n \in sshErrs
                          \/ \E v \in victims : v.node = n /\ v.st = "down"

(* Steps run in namespaces that exist and are not being deleted, also when *)
(* an earlier test with the same prefix could not delete its namespaces in *)
(* time.  (A config that allows existing namespaces gives this up.)        *)
StepsHaveNamespaces ==
    pc = "steps" /\ ~Conf.existing => \A n \in NamesOf(test) : ns[n] = "active"

(* No dependency survives its test unless its setup or teardown failed or  *)
(* timed out, or the namespaces could not be cleaned up before.            *)
DependenciesTornDown == pc = "over" => installed \subseteq excused

(* A namespace of a test stays in the framework's map as long as it        *)
(* exists, so that the cleanup of a later test tries again, unless its     *)
(* creation was reported as failed.                                        *)
NoForgottenNamespace ==
    \A t \in 1 .. test : \A n \in NamesOf(t) :
        outcome[t] = "ran" /\ ns[n] # "absent" =>
            n \in automanaged \/ \E u \in t .. test : outcome[u] = "prepareError"

(* README of the dependency system: "Dependencies are torn down after all  *)
(* test resources are cleaned up".                                         *)
TeardownAfterCleanup ==
    [][\A d \in installed \ installed' :
          Conf.delete => \A n \in NamesOf(test) : ns[n] = "absent"]_vars

(* A node that was stopped is up again eventually, unless ssh failed.      *)
NodesRecover ==
    \A n \in Nodes : n \notin up ~> (n \in up \/ n \in sshErrs)

(* Every test gets to its end, or into the teardown of its dependencies:   *)
(* setups are bounded by their timeouts and the monkey ends once told to.  *)
TestEnds == pc # "over" ~> pc \in {"over", "teardown"}
=============================================================================
