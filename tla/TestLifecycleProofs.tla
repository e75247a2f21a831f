------------------------ MODULE TestLifecycleProofs -------------------------
(***************************************************************************)
(* Proofs about TestLifecycle for every list of tests, every number of     *)
(* namespaces, nodes and dependencies: its safety invariants, and that     *)
(* dependencies are torn down after the cleanup.                           *)
(***************************************************************************)
EXTENDS TestLifecycle, FiniteSetTheorems, TLAPS

Running == {"dependencies", "steps", "waitMonkey"}

(* How far the dependency manager is: it has set up at most what it tried, *)
(* and at the end tears down from the last one.                            *)
SetupInv ==
    /\ pc \in {"start", "prepare", "create"} => setup = << >> /\ depNo = 0
    /\ pc = "dependencies" => Len(setup) <= depNo
    /\ Len(setup) <= Len(Conf.deps)
    /\ pc = "teardown" => depNo <= Len(setup)

TypeInv == TypeOK /\ SetupInv

-----------------------------------------------------------------------------
(* Facts about the constants.                                              *)

(* The config of a test has well-formed fields.                            *)
LEMMA ConfFacts ==
    ASSUME NEW t \in TestNo
    PROVE  /\ Tests[t] \in TestType
           /\ Tests[t].prefix \in Prefixes
           /\ Tests[t].number \in 0 .. MaxNs
           /\ Tests[t].deps \in Seq(Dependencies)
           /\ Len(Tests[t].deps) \in Nat
           /\ Tests[t].steps \in Nat
           /\ Tests[t].excluded \subseteq Nodes
           /\ NamesOf(t) \subseteq Names
<1>1. Tests[t] \in TestType
  BY ConstantsAssumption DEF TestNo
<1>2. /\ Tests[t].prefix \in Prefixes
      /\ Tests[t].number \in 0 .. MaxNs
      /\ Tests[t].deps \in Seq(Dependencies)
      /\ Tests[t].steps \in Nat
      /\ Tests[t].excluded \subseteq Nodes
  BY <1>1 DEF TestType
<1>3. NamesOf(t) \subseteq Names
  BY <1>2, ConstantsAssumption DEF NamesOf, Names
<1> QED
  BY <1>1, <1>2, <1>3

(* There is a first test.                                                  *)
LEMMA FirstTest == 1 \in TestNo
  BY ConstantsAssumption DEF TestNo

-----------------------------------------------------------------------------
(* Types.                                                                  *)

(* The initial states have the right types.                                *)
LEMMA TypeInit == Init => TypeInv
<1> SUFFICES ASSUME Init PROVE TypeInv
  OBVIOUS
<1>1. 1 \in TestNo /\ Conf = Tests[1]
  BY FirstTest DEF Init, Conf
<1>2. Len(Conf.deps) \in Nat
  BY <1>1, ConfFacts
<1>3. \A t \in TestNo : Tests[t].excluded \subseteq Nodes
  BY ConfFacts
<1>4. setup = << >> /\ setup \in Seq(Dependencies) /\ Len(setup) = 0
  BY DEF Init
<1>5. TypeOK
  BY <1>1, <1>2, <1>3, <1>4 DEF Init, TypeOK
<1>6. SetupInv
  BY <1>2, <1>4 DEF Init, SetupInv
<1> QED
  BY <1>5, <1>6 DEF TypeInv

(* Deleting namespaces keeps the types.                                    *)
LEMMA DeleteAllType ==
    ASSUME TypeInv, NEW S, NEW ok, DeleteAll(S, ok)
    PROVE  /\ ns' \in [Names -> {"absent", "active", "terminating"}]
           /\ automanaged' \subseteq Names
           /\ toDelete' \subseteq automanaged'
  BY DEF TypeInv, TypeOK, DeleteAll

(* Creating namespaces keeps the types.                                    *)
LEMMA CreateType ==
    ASSUME TypeInv, NEW n \in 0 .. Conf.number, NEW extra, Create(n, extra)
    PROVE  /\ ns' \in [Names -> {"absent", "active", "terminating"}]
           /\ automanaged' \subseteq Names
           /\ toDelete' \subseteq automanaged'
<1>1. test \in TestNo
  BY DEF TypeInv, TypeOK
<1>2. FirstN(n) \subseteq Names
  BY <1>1, ConfFacts, ConstantsAssumption DEF FirstN, Names, Conf
<1>3. ns' \in [Names -> {"absent", "active", "terminating"}]
  BY DEF TypeInv, TypeOK, Create
<1>4. automanaged' \subseteq Names /\ toDelete' \subseteq automanaged'
  BY <1>2 DEF TypeInv, TypeOK, Create
<1> QED
  BY <1>3, <1>4

(* Every step of the executor keeps the types.                             *)
LEMMA TypeExecutor ==
    ASSUME TypeInv, Executor \/ SetupReturns \/ TeardownReturns
    PROVE  TypeInv'
<1> USE DEF nsVars, depVars, killVars
<1>1. test \in TestNo
  BY DEF TypeInv, TypeOK
<1>2. /\ Conf.deps \in Seq(Dependencies) /\ Len(Conf.deps) \in Nat
      /\ Conf.steps \in Nat /\ Conf.number \in 0 .. MaxNs
  BY <1>1, ConfFacts DEF Conf
<1>3. Len(setup) \in Nat /\ depNo \in Nat
  BY DEF TypeInv, TypeOK
<1>4. CASE InitMonkey
  BY <1>4 DEF InitMonkey, TypeInv, TypeOK, SetupInv, Conf
<1>5. CASE InitMonkeyFails
  BY <1>5 DEF InitMonkeyFails, Fail, Close, TypeInv, TypeOK, SetupInv, Conf
<1>6. CASE PrepareFails
  BY <1>6 DEF PrepareFails, Fail, TypeInv, TypeOK, SetupInv, Conf
<1>7. CASE DeleteStale
  <2>1. /\ ns' \in [Names -> {"absent", "active", "terminating"}]
        /\ automanaged' \subseteq Names
        /\ toDelete' \subseteq automanaged'
    <3>1. CASE UNCHANGED nsVars
      BY <3>1 DEF TypeInv, TypeOK
    <3>2. CASE \E ok \in SUBSET Stale : DeleteAll(Stale, ok)
      BY <3>2, DeleteAllType
    <3> QED
      BY <1>7, <3>1, <3>2 DEF DeleteStale
  <2> QED
    BY <1>7, <2>1 DEF DeleteStale, TypeInv, TypeOK, SetupInv, Conf
<1>8. CASE CreateNamespaces
  <2>1. Conf.number \in 0 .. Conf.number
    BY <1>2, ConstantsAssumption
  <2>2. /\ ns' \in [Names -> {"absent", "active", "terminating"}]
        /\ automanaged' \subseteq Names
        /\ toDelete' \subseteq automanaged'
    BY <1>8, <2>1, CreateType DEF CreateNamespaces
  <2> QED
    BY <1>8, <2>2 DEF CreateNamespaces, TypeInv, TypeOK, SetupInv, Conf
<1>9. CASE CreateFails
  <2>1. /\ ns' \in [Names -> {"absent", "active", "terminating"}]
        /\ automanaged' \subseteq Names
        /\ toDelete' \subseteq automanaged'
    <3>1. CASE UNCHANGED nsVars
      BY <3>1 DEF TypeInv, TypeOK
    <3>2. CASE \E n \in 0 .. (Conf.number - 1), extra \in {0, 1} : Create(n, extra)
      <4>1. 0 .. (Conf.number - 1) \subseteq 0 .. Conf.number
        BY <1>2, ConstantsAssumption
      <4> QED
        BY <3>2, <4>1, CreateType
    <3> QED
      BY <1>9, <3>1, <3>2 DEF CreateFails
  <2> QED
    BY <1>9, <2>1 DEF CreateFails, Fail, TypeInv, TypeOK, SetupInv, Conf
<1>10. CASE SetupReturns
  <2>1. NextDep \in Dependencies /\ depNo' \in 0 .. Len(Conf.deps)
    BY <1>2, <1>3, <1>10 DEF SetupReturns, NextDep
  <2>2. setup' \in Seq(Dependencies) /\ Len(setup') <= depNo'
    <3>1. setup \in Seq(Dependencies) /\ Len(setup) <= depNo /\ depNo' = depNo + 1
      BY <1>10 DEF SetupReturns, TypeInv, TypeOK, SetupInv
    <3>2. CASE setup' = Append(setup, NextDep)
      <4>1. setup' \in Seq(Dependencies) /\ Len(setup') = Len(setup) + 1
        BY <2>1, <3>1, <3>2
      <4> QED
        BY <1>3, <3>1, <4>1
    <3>3. CASE setup' = setup
      BY <1>3, <3>1, <3>3
    <3> QED
      BY <1>10, <3>2, <3>3 DEF SetupReturns
  <2>3. installed' \subseteq Dependencies /\ excused' \subseteq Dependencies
    BY <1>10, <2>1 DEF SetupReturns, TypeInv, TypeOK
  <2>4. Len(setup') <= Len(Conf.deps)
    BY <1>2, <2>1, <2>2
  <2> QED
    BY <1>10, <2>1, <2>2, <2>3, <2>4 DEF SetupReturns, TypeInv, TypeOK, SetupInv, Conf
<1>11. CASE SetupTimesOut
  <2>1. NextDep \in Dependencies /\ depNo' \in 0 .. Len(Conf.deps) /\ Len(setup) <= depNo'
    BY <1>2, <1>3, <1>11 DEF SetupTimesOut, NextDep, TypeInv, SetupInv
  <2> QED
    BY <1>11, <2>1 DEF SetupTimesOut, TypeInv, TypeOK, SetupInv, Conf
<1>12. CASE DependenciesReady
  BY <1>12 DEF DependenciesReady, TypeInv, TypeOK, SetupInv, Conf
<1>13. CASE DependenciesFailed
  BY <1>13 DEF DependenciesFailed, Fail, Close, TypeInv, TypeOK, SetupInv, Conf
<1>14. CASE ExecuteStep
  BY <1>2, <1>14 DEF ExecuteStep, TypeInv, TypeOK, SetupInv, Conf
<1>15. CASE StepsDone
  BY <1>15 DEF StepsDone, Close, TypeInv, TypeOK, SetupInv, Conf
<1>16. CASE WaitMonkey
  BY <1>16 DEF WaitMonkey, Fail, TypeInv, TypeOK, SetupInv, Conf
<1>17. CASE CleanupNamespaces
  <2>1. /\ ns' \in [Names -> {"absent", "active", "terminating"}]
        /\ automanaged' \subseteq Names
        /\ toDelete' \subseteq automanaged'
    BY <1>17, DeleteAllType DEF CleanupNamespaces
  <2>2. depNo' \in 0 .. Len(Conf.deps) /\ depNo' = Len(setup)
    BY <1>2, <1>3, <1>17 DEF CleanupNamespaces, TypeInv, SetupInv
  <2>3. pc' \in {"teardown", "over"} /\ excused' \subseteq Dependencies
    BY <1>17 DEF CleanupNamespaces, TypeInv, TypeOK
  <2> QED
    BY <1>3, <1>17, <2>1, <2>2, <2>3 DEF CleanupNamespaces, TypeInv, TypeOK, SetupInv, Conf
<1>18. CASE TeardownReturns
  <2>1. setup[depNo] \in Dependencies /\ depNo' \in 0 .. Len(Conf.deps) /\ depNo' <= Len(setup)
    BY <1>2, <1>3, <1>18 DEF TeardownReturns, TypeInv, TypeOK, SetupInv
  <2> QED
    BY <1>18, <2>1 DEF TeardownReturns, TypeInv, TypeOK, SetupInv, Conf
<1>19. CASE TeardownDone
  BY <1>19 DEF TeardownDone, TypeInv, TypeOK, SetupInv, Conf
<1>20. CASE NextTest
  <2>1. test' \in TestNo
    BY <1>1, <1>20, ConstantsAssumption DEF NextTest, TestNo
  <2>2. Len(Conf'.deps) \in Nat
    BY <2>1, ConfFacts DEF Conf
  <2>3. setup' \in Seq(Dependencies) /\ Len(setup') = 0 /\ depNo' = 0
    BY <1>20 DEF NextTest
  <2> QED
    BY <1>20, <2>1, <2>2, <2>3 DEF NextTest, TypeInv, TypeOK, SetupInv
<1> QED
  BY <1>4, <1>5, <1>6, <1>7, <1>8, <1>9, <1>10, <1>11, <1>12, <1>13, <1>14, <1>15,
     <1>16, <1>17, <1>18, <1>19, <1>20 DEF Executor

(* The nodes a test excludes count as killed from the start.               *)
ExcludedInv == \A t \in TestNo : Tests[t].excluded \subseteq killed[t]

VictimType == [test : TestNo, node : Nodes, st : {"stop", "down"}]

Spared(v) == v.node \notin PromNodes \cup Tests[v.test].excluded

(* The goroutines of a chaos monkey keep the types.                        *)
LEMMA TypeKiller ==
    ASSUME TypeInv, ExcludedInv, NEW t \in TestNo, StartRound(t) \/ Killer(t)
    PROVE  TypeInv' /\ ExcludedInv'
<1> USE DEF nsVars, depVars, killVars
<1>1. SetupInv' /\ UNCHANGED <<test, pc, stepNo, outcome, nsVars, depVars, stopClosed>>
  BY DEF StartRound, Killer, StopServices, Reboot, Pick, MonkeyEnds, TypeInv, SetupInv, Conf
<1>2. SUFFICES /\ monkey' \in [TestNo -> {"none", "running", "picking", "ended"}]
               /\ killed' \in [TestNo -> SUBSET Nodes]
               /\ victims' \subseteq VictimType
               /\ \A v \in victims' : Spared(v)
               /\ up' \subseteq Nodes
               /\ sshErrs' \subseteq Nodes
               /\ ExcludedInv'
  BY <1>1 DEF TypeInv, TypeOK, VictimType, Spared, Conf
<1>3. /\ monkey \in [TestNo -> {"none", "running", "picking", "ended"}]
      /\ killed \in [TestNo -> SUBSET Nodes]
      /\ victims \subseteq VictimType
      /\ \A v \in victims : Spared(v)
      /\ up \subseteq Nodes
      /\ sshErrs \subseteq Nodes
  BY DEF TypeInv, TypeOK, VictimType, Spared
<1>4. CASE StartRound(t) \/ MonkeyEnds(t)
  BY <1>3, <1>4 DEF StartRound, MonkeyEnds, ExcludedInv
<1>5. CASE Pick(t)
  <2>1. UNCHANGED <<up, sshErrs>> /\ monkey' = [monkey EXCEPT ![t] = "running"]
    BY <1>5 DEF Pick
  <2>2. CASE UNCHANGED <<killed, victims>>
    BY <1>3, <2>1, <2>2 DEF ExcludedInv
  <2>3. ASSUME NEW S \in SUBSET ((Nodes \ PromNodes) \ killed[t]),
               killed' = [killed EXCEPT ![t] = @ \cup S],
               victims' = victims \cup { [test |-> t, node |-> n, st |-> "stop"] : n \in S }
        PROVE  /\ killed' \in [TestNo -> SUBSET Nodes]
               /\ victims' \subseteq VictimType
               /\ \A v \in victims' : Spared(v)
               /\ ExcludedInv'
    <3>1. killed' \in [TestNo -> SUBSET Nodes] /\ ExcludedInv'
      BY <1>3, <2>3 DEF ExcludedInv
    <3>2. \A n \in S : /\ [test |-> t, node |-> n, st |-> "stop"] \in VictimType
                       /\ Spared([test |-> t, node |-> n, st |-> "stop"])
      BY <2>3 DEF VictimType, Spared, ExcludedInv
    <3> QED
      BY <1>3, <2>3, <3>1, <3>2
  <2>4. CASE ~UNCHANGED <<killed, victims>>
    <3>1. PICK all \in SUBSET Nodes : \E S \in SUBSET ((all \ PromNodes) \ killed[t]) :
             /\ killed' = [killed EXCEPT ![t] = @ \cup S]
             /\ victims' = victims \cup { [test |-> t, node |-> n, st |-> "stop"] : n \in S }
      BY <1>5, <2>4 DEF Pick
    <3> QED
      BY <1>3, <2>1, <2>3, <3>1
  <2> QED
    BY <2>2, <2>4
<1>6. ASSUME NEW v \in victims, StopServices(v) \/ Reboot(v)
      PROVE  /\ UNCHANGED <<monkey, killed>>
             /\ victims' \subseteq VictimType
             /\ \A w \in victims' : Spared(w)
             /\ up' \subseteq Nodes
             /\ sshErrs' \subseteq Nodes
  <2>1. v \in VictimType /\ v.node \in Nodes
    BY <1>3 DEF VictimType
  <2>2. [v EXCEPT !.st = "down"] \in VictimType /\ Spared([v EXCEPT !.st = "down"])
    BY <1>3, <2>1 DEF VictimType, Spared
  <2> QED
    BY <1>3, <1>6, <2>1, <2>2 DEF StopServices, Reboot
<1> QED
  BY <1>3, <1>4, <1>5, <1>6 DEF Killer, VictimsOf, ExcludedInv

(* Every step keeps the types.                                             *)
LEMMA TypeStep == TypeInv /\ ExcludedInv /\ [Next]_vars => TypeInv' /\ ExcludedInv'
<1> SUFFICES ASSUME TypeInv, ExcludedInv, [Next]_vars
             PROVE  TypeInv' /\ ExcludedInv'
  OBVIOUS
<1> USE DEF nsVars, depVars, killVars
<1>1. CASE Executor \/ SetupReturns \/ TeardownReturns
  <2>1. UNCHANGED killed
    BY <1>1 DEF Executor, InitMonkey, InitMonkeyFails, PrepareFails, DeleteStale,
                CreateNamespaces, CreateFails, SetupTimesOut, DependenciesReady,
                DependenciesFailed, ExecuteStep, StepsDone, WaitMonkey,
                CleanupNamespaces, TeardownDone, NextTest, SetupReturns, TeardownReturns
  <2> QED
    BY <1>1, <2>1, TypeExecutor DEF ExcludedInv
<1>2. CASE \E t \in TestNo : StartRound(t) \/ Killer(t)
  BY <1>2, TypeKiller
<1>3. CASE \E n \in Names : NamespaceGone(n)
  BY <1>3 DEF NamespaceGone, TypeInv, TypeOK, SetupInv, ExcludedInv, Conf
<1>4. CASE \E d \in late : LateSetup(d)
  BY <1>4 DEF LateSetup, TypeInv, TypeOK, SetupInv, ExcludedInv, Conf
<1>5. CASE UNCHANGED vars
  BY <1>5 DEF vars, TypeInv, TypeOK, SetupInv, ExcludedInv, Conf
<1> QED
  BY <1>1, <1>2, <1>3, <1>4, <1>5 DEF Next, Finished

-----------------------------------------------------------------------------
(* The chaos monkeys.                                                      *)

(* A test has no outcome before its cleanup.                               *)
OutcomeInv ==
    \A t \in TestNo : (t > test \/ (t = test /\ pc \notin {"cleanup", "teardown", "over"}))
                      => outcome[t] = "none"

(* Goroutines of kill belong to a monkey that waits for them.              *)
MonkeyInv == \A v \in victims : monkey[v.test] = "running"

(* Failing the current test keeps the other outcomes.                      *)
LEMMA FailOutcome ==
    ASSUME TypeInv, OutcomeInv, NEW why, Fail(why), UNCHANGED test
    PROVE  /\ OutcomeInv'
           /\ \A t \in TestNo : outcome'[t] = IF t = test THEN why ELSE outcome[t]
<1>1. \A t \in TestNo : outcome'[t] = IF t = test THEN why ELSE outcome[t]
  BY DEF Fail, TypeInv, TypeOK
<1>2. test \in Int /\ TestNo \subseteq Int
  BY DEF TypeInv, TypeOK, TestNo
<1> QED
  BY <1>1, <1>2 DEF Fail, OutcomeInv

(* OutcomeInv is preserved.                                                *)
LEMMA OutcomeStep ==
    ASSUME TypeInv, OutcomeInv, [Next]_vars
    PROVE  OutcomeInv'
<1> USE DEF nsVars, depVars, killVars
<1>1. CASE InitMonkeyFails \/ PrepareFails \/ CreateFails \/ DependenciesFailed \/ WaitMonkey
  BY <1>1, FailOutcome
     DEF InitMonkeyFails, PrepareFails, CreateFails, DependenciesFailed, WaitMonkey
<1>2. CASE NextTest
  <2>1. test \in Int /\ TestNo \subseteq Int
    BY DEF TypeInv, TypeOK, TestNo
  <2> QED
    BY <1>2, <2>1 DEF NextTest, OutcomeInv
<1>3. CASE \/ InitMonkey \/ DeleteStale \/ CreateNamespaces \/ DependenciesReady \/ StepsDone
  BY <1>3 DEF InitMonkey, DeleteStale, CreateNamespaces, DependenciesReady, StepsDone, OutcomeInv
<1>4. CASE CleanupNamespaces \/ TeardownDone
  BY <1>4 DEF CleanupNamespaces, TeardownDone, OutcomeInv
<1>5. CASE UNCHANGED <<test, pc, outcome>>
  BY <1>5 DEF OutcomeInv
<1>6. UNCHANGED <<test, pc, outcome>> \/ Executor
  BY DEF Next, SetupReturns, TeardownReturns, StartRound, Killer, StopServices, Reboot,
         Pick, MonkeyEnds, NamespaceGone, LateSetup, Finished, vars
<1>7. CASE SetupTimesOut \/ ExecuteStep
  BY <1>5, <1>7 DEF SetupTimesOut, ExecuteStep
<1> QED
  BY <1>1, <1>2, <1>3, <1>4, <1>5, <1>6, <1>7 DEF Executor

(* Of the executor's steps only InitMonkey touches the monkeys, and only   *)
(* WaitMonkey lets a test have run.                                        *)
LEMMA ExecutorMonkeys ==
    ASSUME TypeInv, OutcomeInv, Executor \/ SetupReturns \/ TeardownReturns
    PROVE  /\ UNCHANGED <<killed, victims, up, sshErrs>>
           /\ ~InitMonkey => UNCHANGED monkey
           /\ ~WaitMonkey => \A t \in TestNo : outcome'[t] = "ran" => outcome[t] = "ran"
<1> USE DEF nsVars, depVars, killVars
<1>1. CASE InitMonkeyFails \/ PrepareFails \/ CreateFails \/ DependenciesFailed \/ WaitMonkey
  BY <1>1, FailOutcome
     DEF InitMonkeyFails, PrepareFails, CreateFails, DependenciesFailed, WaitMonkey
<1>2. CASE \/ InitMonkey \/ DeleteStale \/ CreateNamespaces \/ SetupTimesOut
           \/ DependenciesReady \/ ExecuteStep \/ StepsDone \/ CleanupNamespaces
           \/ TeardownDone \/ NextTest \/ SetupReturns \/ TeardownReturns
  BY <1>2 DEF InitMonkey, DeleteStale, CreateNamespaces, SetupTimesOut, DependenciesReady,
              ExecuteStep, StepsDone, CleanupNamespaces, TeardownDone, NextTest,
              SetupReturns, TeardownReturns
<1> QED
  BY <1>1, <1>2 DEF Executor

(* MonkeyInv and KillerEndsWithTest are preserved together.                *)
LEMMA KillerStep ==
    ASSUME TypeInv, OutcomeInv, MonkeyInv, KillerEndsWithTest, [Next]_vars
    PROVE  MonkeyInv' /\ KillerEndsWithTest'
<1> USE DEF nsVars, depVars, killVars
<1>1. /\ test \in TestNo
      /\ monkey \in [TestNo -> {"none", "running", "picking", "ended"}]
      /\ victims \subseteq VictimType
  BY DEF TypeInv, TypeOK, VictimType
<1>2. CASE InitMonkey
  <2>1. outcome[test] # "ran"
    BY <1>1, <1>2 DEF InitMonkey, OutcomeInv
  <2>2. /\ UNCHANGED <<victims, outcome>>
        /\ \A t \in TestNo : monkey'[t] = monkey[t] \/ (t = test /\ monkey'[t] = "running")
    BY <1>1, <1>2 DEF InitMonkey
  <2>3. \A v \in victims : v.test \in TestNo
    BY <1>1 DEF VictimType
  <2> QED
    BY <2>1, <2>2, <2>3 DEF MonkeyInv, KillerEndsWithTest, VictimsOf
<1>3. CASE WaitMonkey
  <2>1. UNCHANGED <<monkey, victims>> /\ monkey[test] \notin {"running", "picking"}
    BY <1>3 DEF WaitMonkey
  <2>2. VictimsOf(test) = {}
    BY <2>1 DEF MonkeyInv, VictimsOf
  <2>3. \A t \in TestNo : t # test => outcome'[t] = outcome[t]
    BY <1>3, FailOutcome DEF WaitMonkey
  <2> QED
    BY <2>1, <2>2, <2>3 DEF MonkeyInv, KillerEndsWithTest, VictimsOf
<1>4. CASE (Executor \/ SetupReturns \/ TeardownReturns) /\ ~InitMonkey /\ ~WaitMonkey
  BY <1>4, ExecutorMonkeys DEF MonkeyInv, KillerEndsWithTest, VictimsOf
<1>5. ASSUME NEW t \in TestNo, StartRound(t) \/ MonkeyEnds(t)
      PROVE  MonkeyInv' /\ KillerEndsWithTest'
  <2>1. /\ UNCHANGED <<victims, outcome>> /\ VictimsOf(t) = {} /\ monkey[t] = "running"
        /\ \A u \in TestNo : u # t => monkey'[u] = monkey[u]
    BY <1>1, <1>5 DEF StartRound, MonkeyEnds
  <2>2. outcome[t] # "ran"
    BY <2>1 DEF KillerEndsWithTest
  <2>3. \A v \in victims : v.test \in TestNo /\ v.test # t
    BY <1>1, <2>1 DEF VictimType, VictimsOf
  <2> QED
    BY <2>1, <2>2, <2>3 DEF MonkeyInv, KillerEndsWithTest, VictimsOf
<1>6. ASSUME NEW t \in TestNo, Pick(t)
      PROVE  MonkeyInv' /\ KillerEndsWithTest'
  <2>1. /\ UNCHANGED outcome /\ monkey[t] = "picking" /\ monkey'[t] = "running"
        /\ \A u \in TestNo : u # t => monkey'[u] = monkey[u]
    BY <1>1, <1>6 DEF Pick
  <2>2. outcome[t] # "ran"
    BY <2>1 DEF KillerEndsWithTest
  <2>3. \A v \in victims' : v \in victims \/ v.test = t
    <3>1. \/ victims' = victims
          \/ \E S \in SUBSET Nodes :
                victims' = victims \cup { [test |-> t, node |-> n, st |-> "stop"] : n \in S }
      BY <1>6 DEF Pick
    <3> QED
      BY <3>1
  <2>4. \A v \in victims : v.test \in TestNo
    BY <1>1 DEF VictimType
  <2>5. MonkeyInv'
    BY <2>1, <2>3, <2>4 DEF MonkeyInv
  <2>6. \A u \in TestNo : u # t => (VictimsOf(u) = {} => VictimsOf(u)' = {})
    BY <2>3 DEF VictimsOf
  <2> QED
    BY <2>1, <2>2, <2>5, <2>6 DEF KillerEndsWithTest
<1>7. ASSUME NEW v \in victims, StopServices(v) \/ Reboot(v)
      PROVE  MonkeyInv' /\ KillerEndsWithTest'
  <2>1. UNCHANGED <<monkey, outcome>>
    BY <1>7 DEF StopServices, Reboot
  <2>2. v \in VictimType /\ [v EXCEPT !.st = "down"].test = v.test
    BY <1>1 DEF VictimType
  <2>3. \A w \in victims' : w \in victims \/ w.test = v.test
    BY <1>7, <2>2 DEF StopServices, Reboot
  <2> QED
    BY <2>1, <2>3 DEF MonkeyInv, KillerEndsWithTest, VictimsOf
<1>8. CASE UNCHANGED <<monkey, victims, outcome>>
  BY <1>8 DEF MonkeyInv, KillerEndsWithTest, VictimsOf
<1>9. CASE \/ \E n \in Names : NamespaceGone(n)
           \/ \E d \in late : LateSetup(d)
           \/ Finished \/ UNCHANGED vars
  BY <1>8, <1>9 DEF NamespaceGone, LateSetup, Finished, vars
<1>10. CASE \E t \in TestNo : StartRound(t) \/ Killer(t)
  BY <1>5, <1>6, <1>7, <1>10 DEF Killer, VictimsOf
<1> QED
  BY <1>2, <1>3, <1>4, <1>9, <1>10 DEF Next, Executor

(* NoNodeLeftDown is preserved.                                            *)
LEMMA NodesStep ==
    ASSUME TypeInv, OutcomeInv, NoNodeLeftDown, [Next]_vars
    PROVE  NoNodeLeftDown'
<1> USE DEF nsVars, depVars, killVars
<1>1. victims \subseteq VictimType
  BY DEF TypeInv, TypeOK, VictimType
<1>2. CASE UNCHANGED <<victims, up, sshErrs>>
  BY <1>2 DEF NoNodeLeftDown
<1>3. CASE Executor \/ SetupReturns \/ TeardownReturns
  BY <1>2, <1>3, ExecutorMonkeys
<1>4. ASSUME NEW v \in victims, StopServices(v)
      PROVE  NoNodeLeftDown'
  <2>1. v \in VictimType /\ v.st = "stop"
    BY <1>1, <1>4 DEF StopServices
  <2>2. [v EXCEPT !.st = "down"].node = v.node /\ [v EXCEPT !.st = "down"].st = "down"
    BY <2>1 DEF VictimType
  <2>3. \A w \in victims : w.st = "down" => w \in victims'
    BY <1>4, <2>1 DEF StopServices
  <2>4. \/ v.node \in sshErrs'
        \/ [v EXCEPT !.st = "down"] \in victims'
    BY <1>4 DEF StopServices
  <2>5. Nodes \ up' \subseteq (Nodes \ up) \cup {v.node} /\ sshErrs \subseteq sshErrs'
    BY <1>4 DEF StopServices
  <2> QED
    BY <2>2, <2>3, <2>4, <2>5 DEF NoNodeLeftDown
<1>5. ASSUME NEW v \in victims, Reboot(v)
      PROVE  NoNodeLeftDown'
  <2>1. \A w \in victims : w.node # v.node => w \in victims'
    BY <1>5 DEF Reboot
  <2>2. v.node \in up' \/ v.node \in sshErrs'
    BY <1>5 DEF Reboot
  <2>3. Nodes \ up' \subseteq Nodes \ up /\ sshErrs \subseteq sshErrs'
    BY <1>5 DEF Reboot
  <2> QED
    BY <2>1, <2>2, <2>3 DEF NoNodeLeftDown
<1>6. ASSUME NEW t \in TestNo, Pick(t)
      PROVE  NoNodeLeftDown'
  <2>1. victims \subseteq victims' /\ UNCHANGED <<up, sshErrs>>
    BY <1>6 DEF Pick
  <2> QED
    BY <2>1 DEF NoNodeLeftDown
<1>7. CASE \/ \E t \in TestNo : StartRound(t) \/ MonkeyEnds(t)
           \/ \E n \in Names : NamespaceGone(n)
           \/ \E d \in late : LateSetup(d)
           \/ Finished \/ UNCHANGED vars
  BY <1>2, <1>7 DEF StartRound, MonkeyEnds, NamespaceGone, LateSetup, Finished, vars
<1>8. CASE \E t \in TestNo : StartRound(t) \/ Killer(t)
  BY <1>4, <1>5, <1>6, <1>7, <1>8 DEF Killer, VictimsOf
<1> QED
  BY <1>3, <1>7, <1>8 DEF Next

-----------------------------------------------------------------------------
(* The dependencies.                                                       *)

(* The positions of setup that are still to be torn down.                  *)
Undone == CASE pc = "teardown" -> 1 .. depNo
            [] pc = "over"     -> {}
            [] OTHER           -> 1 .. Len(setup)

(* Every dependency in the cluster has an excuse or will be torn down; a   *)
(* setup that still runs after its timeout has one.                        *)
DepsInv ==
    /\ late \subseteq excused
    /\ installed \subseteq excused \cup { setup[i] : i \in Undone }

(* DepsInv is preserved.                                                   *)
LEMMA DepsStep ==
    ASSUME TypeInv, DepsInv, [Next]_vars
    PROVE  DepsInv'
<1> USE DEF nsVars, killVars
<1>1. setup \in Seq(Dependencies) /\ Len(setup) \in Nat /\ depNo \in Nat
  BY DEF TypeInv, TypeOK
<1>2. CASE /\ UNCHANGED depVars
           /\ \/ pc' = pc
              \/ pc \notin {"teardown", "over"} /\ pc' \notin {"teardown", "over"}
  BY <1>2 DEF DepsInv, Undone, depVars
<1>3. CASE \/ InitMonkey \/ InitMonkeyFails \/ PrepareFails \/ DeleteStale \/ CreateNamespaces
           \/ CreateFails \/ DependenciesReady \/ DependenciesFailed \/ ExecuteStep
           \/ StepsDone \/ WaitMonkey
  BY <1>2, <1>3 DEF InitMonkey, InitMonkeyFails, PrepareFails, DeleteStale, CreateNamespaces,
                    CreateFails, DependenciesReady, DependenciesFailed, ExecuteStep,
                    StepsDone, WaitMonkey, Fail
<1>4. CASE SetupReturns
  <2>1. pc = "dependencies" /\ pc' = "dependencies" /\ UNCHANGED late
    BY <1>4 DEF SetupReturns
  <2>2. installed \subseteq excused \cup { setup[i] : i \in 1 .. Len(setup) }
    BY <2>1 DEF DepsInv, Undone
  <2>3. CASE /\ setup' = Append(setup, NextDep)
             /\ installed' = installed \cup {NextDep}
             /\ excused' = IF NextDep \in late THEN excused ELSE excused \ {NextDep}
    <3>1. /\ Len(setup') = Len(setup) + 1
          /\ setup'[Len(setup) + 1] = NextDep
          /\ \A i \in 1 .. Len(setup) : setup'[i] = setup[i]
      BY <1>1, <2>3
    <3>2. /\ 1 .. Len(setup) \subseteq 1 .. Len(setup')
          /\ Len(setup) + 1 \in 1 .. Len(setup')
      BY <1>1, <3>1
    <3>3. /\ { setup[i] : i \in 1 .. Len(setup) } \subseteq { setup'[i] : i \in 1 .. Len(setup') }
          /\ NextDep \in { setup'[i] : i \in 1 .. Len(setup') }
      BY <3>1, <3>2
    <3>4. installed' \subseteq excused' \cup { setup'[i] : i \in 1 .. Len(setup') }
      BY <2>2, <2>3, <3>3
    <3>5. late' \subseteq excused'
      BY <2>1, <2>3 DEF DepsInv
    <3> QED
      BY <2>1, <3>4, <3>5 DEF DepsInv, Undone
  <2>4. CASE /\ excused' = excused \cup {NextDep}
             /\ installed' \in {installed, installed \cup {NextDep}}
             /\ UNCHANGED setup
    <3>1. late' \subseteq excused'
      BY <2>1, <2>4 DEF DepsInv
    <3> QED
      BY <2>1, <2>2, <2>4, <3>1 DEF DepsInv, Undone
  <2> QED
    BY <1>4, <2>3, <2>4 DEF SetupReturns
<1>5. CASE SetupTimesOut
  BY <1>5 DEF SetupTimesOut, DepsInv, Undone
<1>6. CASE \E d \in late : LateSetup(d)
  BY <1>6 DEF LateSetup, DepsInv, Undone
<1>7. CASE CleanupNamespaces
  <2>1. /\ pc = "cleanup" /\ UNCHANGED <<setup, installed, late>> /\ depNo' = Len(setup)
        /\ \/ pc' = "teardown" /\ excused' = excused
           \/ pc' = "over" /\ excused' = excused \cup installed
    BY <1>7 DEF CleanupNamespaces
  <2> QED
    BY <2>1 DEF DepsInv, Undone
<1>8. CASE TeardownReturns
  <2>1. pc = "teardown" /\ pc' = "teardown" /\ UNCHANGED <<setup, late>> /\ depNo' = depNo - 1
    BY <1>8 DEF TeardownReturns
  <2>2. 1 .. depNo = (1 .. depNo') \cup {depNo}
    BY <1>1, <1>8, <2>1 DEF TeardownReturns
  <2>3. { setup[i] : i \in 1 .. depNo } = { setup[i] : i \in 1 .. depNo' } \cup {setup[depNo]}
    BY <2>2
  <2>4. installed \subseteq excused \cup { setup[i] : i \in 1 .. depNo }
    BY <2>1 DEF DepsInv, Undone
  <2>5. installed' \subseteq excused' \cup { setup[i] : i \in 1 .. depNo' }
    BY <1>8, <2>3, <2>4 DEF TeardownReturns
  <2>6. late' \subseteq excused'
    BY <1>8, <2>1 DEF DepsInv, TeardownReturns
  <2> QED
    BY <2>1, <2>5, <2>6 DEF DepsInv, Undone
<1>9. CASE TeardownDone
  BY <1>9 DEF TeardownDone, DepsInv, Undone, depVars
<1>10. CASE NextTest
  BY <1>10 DEF NextTest, DepsInv, Undone
<1>11. CASE \/ \E t \in TestNo : StartRound(t) \/ Killer(t)
            \/ \E n \in Names : NamespaceGone(n)
            \/ Finished \/ UNCHANGED vars
  BY <1>2, <1>11 DEF StartRound, Killer, StopServices, Reboot, Pick, MonkeyEnds,
                     NamespaceGone, Finished, vars
<1> QED
  BY <1>3, <1>4, <1>5, <1>6, <1>7, <1>8, <1>9, <1>10, <1>11 DEF Next, Executor

-----------------------------------------------------------------------------
(* The namespaces.                                                         *)

(* The namespaces of the current test, from their creation to the end of   *)
(* its teardown.                                                           *)
NamespacesInv ==
    /\ pc \in Running => NamesOf(test) \subseteq automanaged
    /\ pc \in {"dependencies", "steps"} /\ ~Conf.existing =>
          \A n \in NamesOf(test) : ns[n] = "active"
    /\ Conf.delete /\ (pc \in Running \/ (pc = "cleanup" /\ setup # << >>)) =>
          NamesOf(test) \subseteq toDelete
    /\ Conf.delete /\ pc = "teardown" /\ setup # << >> =>
          \A n \in NamesOf(test) : ns[n] = "absent"

(* NamespacesInv is preserved.                                             *)
LEMMA NamespacesStep ==
    ASSUME TypeInv, NamespacesInv, [Next]_vars
    PROVE  NamespacesInv'
<1> USE DEF nsVars, depVars, killVars
<1>1. /\ test \in TestNo /\ NamesOf(test) \subseteq Names
      /\ ns \in [Names -> {"absent", "active", "terminating"}]
  BY ConfFacts DEF TypeInv, TypeOK
<1>2. CASE test' = test /\ UNCHANGED <<pc, nsVars, setup>>
  BY <1>2 DEF NamespacesInv, Conf, NamesOf
<1>3. CASE InitMonkey \/ DeleteStale \/ InitMonkeyFails \/ PrepareFails \/ CreateFails
  <2>1. test' = test /\ setup' = << >> /\ pc' \in {"prepare", "create", "cleanup"}
    BY <1>3 DEF InitMonkey, DeleteStale, InitMonkeyFails, PrepareFails, CreateFails, Fail,
                TypeInv, SetupInv
  <2> QED
    BY <2>1 DEF NamespacesInv, Running
<1>4. CASE CreateNamespaces
  <2>1. /\ UNCHANGED test /\ pc' = "dependencies"
        /\ Create(Conf.number, 0)
    BY <1>4 DEF CreateNamespaces
  <2>2. FirstN(Conf.number) = NamesOf(test) /\ FirstN(Conf.number + 0) = NamesOf(test)
    BY <1>1, ConfFacts, ConstantsAssumption DEF FirstN, NamesOf, Conf
  <2>3. NamesOf(test) \subseteq automanaged' /\ (Conf.delete => NamesOf(test) \subseteq toDelete')
    BY <2>1, <2>2 DEF Create
  <2>4. ~Conf.existing => \A n \in NamesOf(test) : ns'[n] = "active"
    BY <1>1, <2>1, <2>2 DEF Create
  <2> QED
    BY <2>1, <2>3, <2>4 DEF NamespacesInv, Running, Conf, NamesOf
<1>5. CASE SetupReturns \/ SetupTimesOut
  <2>1. /\ UNCHANGED <<test, pc, nsVars>> /\ pc = "dependencies"
    BY <1>5 DEF SetupReturns, SetupTimesOut
  <2> QED
    BY <2>1 DEF NamespacesInv, Running, Conf, NamesOf
<1>6. CASE DependenciesReady \/ DependenciesFailed \/ StepsDone \/ WaitMonkey
  <2>1. /\ UNCHANGED <<test, nsVars, setup>>
        /\ \/ pc = "dependencies" /\ pc' \in {"steps", "cleanup"}
           \/ pc = "steps" /\ pc' = "waitMonkey"
           \/ pc = "waitMonkey" /\ pc' = "cleanup"
    BY <1>6 DEF DependenciesReady, DependenciesFailed, StepsDone, WaitMonkey, Fail
  <2> QED
    BY <2>1 DEF NamespacesInv, Running, Conf, NamesOf
<1>7. CASE CleanupNamespaces
  <2>1. UNCHANGED <<test, setup>> /\ pc = "cleanup" /\ pc' \in {"teardown", "over"}
    BY <1>7 DEF CleanupNamespaces
  <2>2. pc' = "teardown" /\ Conf.delete => \A n \in toDelete : ns'[n] = "absent"
    <3>1. SUFFICES ASSUME pc' = "teardown", Conf.delete
                   PROVE  \A n \in toDelete : ns'[n] = "absent"
      OBVIOUS
    <3>2. DeleteAll(toDelete, toDelete)
      BY <1>7, <3>1 DEF CleanupNamespaces
    <3>3. toDelete \subseteq Names
      BY DEF TypeInv, TypeOK
    <3> QED
      BY <3>2, <3>3 DEF DeleteAll
  <2> QED
    BY <2>1, <2>2 DEF NamespacesInv, Running, Conf, NamesOf
<1>8. CASE TeardownReturns \/ ExecuteStep
  BY <1>2, <1>8 DEF TeardownReturns, ExecuteStep
<1>9. CASE TeardownDone \/ NextTest
  <2>1. pc' \in {"over", "start"}
    BY <1>9 DEF TeardownDone, NextTest
  <2> QED
    BY <2>1 DEF NamespacesInv, Running
<1>10. ASSUME NEW x \in Names, NamespaceGone(x)
       PROVE  NamespacesInv'
  <2>1. /\ UNCHANGED <<test, pc, automanaged, toDelete, setup>>
        /\ \A n \in Names : ns'[n] = ns[n] \/ (ns[n] = "terminating" /\ ns'[n] = "absent")
    BY <1>1, <1>10 DEF NamespaceGone
  <2> QED
    BY <1>1, <2>1 DEF NamespacesInv, Conf, NamesOf
<1>11. CASE \/ \E t \in TestNo : StartRound(t) \/ Killer(t)
            \/ \E d \in late : LateSetup(d)
            \/ Finished \/ UNCHANGED vars
  BY <1>2, <1>11 DEF StartRound, Killer, StopServices, Reboot, Pick, MonkeyEnds,
                     LateSetup, Finished, vars
<1> QED
  BY <1>3, <1>4, <1>5, <1>6, <1>7, <1>8, <1>9, <1>10, <1>11 DEF Next, Executor

(* A preparation that fails excuses the namespaces of all earlier tests.   *)
LEMMA PrepareErrorExcuses ==
    ASSUME TypeInv, OutcomeInv, Fail("prepareError"), UNCHANGED test
    PROVE  NoForgottenNamespace'
<1>1. test \in 1 .. Len(Tests) /\ Len(Tests) \in Nat
  BY ConstantsAssumption DEF TypeInv, TypeOK, TestNo
<1>2. outcome'[test] = "prepareError"
  BY <1>1, FailOutcome DEF TestNo
<1>3. \A t \in 1 .. test : test \in t .. test
  BY <1>1
<1> QED
  BY <1>2, <1>3 DEF NoForgottenNamespace

(* What keeps NoForgottenNamespace: the outcomes are only added to, and    *)
(* what exists and is not in the map did so before.                        *)
LEMMA ForgottenKept ==
    ASSUME TypeInv, NoForgottenNamespace, UNCHANGED test,
           \A t \in TestNo : outcome'[t] = "ran" => outcome[t] = "ran",
           \A t \in TestNo : outcome[t] = "prepareError" => outcome'[t] = "prepareError",
           \A n \in Names : ns'[n] # "absent" /\ n \notin automanaged' =>
                               ns[n] # "absent" /\ n \notin automanaged
    PROVE  NoForgottenNamespace'
<1>1. test \in 1 .. Len(Tests) /\ Len(Tests) \in Nat
  BY ConstantsAssumption DEF TypeInv, TypeOK, TestNo
<1>2. \A t \in 1 .. test : t \in TestNo /\ t .. test \subseteq TestNo
  BY <1>1 DEF TestNo
<1>3. \A t \in 1 .. test : NamesOf(t) \subseteq Names
  BY <1>2, ConfFacts
<1> QED
  BY <1>2, <1>3 DEF NoForgottenNamespace, NamesOf

(* NoForgottenNamespace is preserved.                                      *)
LEMMA ForgottenStep ==
    ASSUME TypeInv, OutcomeInv, NamespacesInv, NoForgottenNamespace, [Next]_vars
    PROVE  NoForgottenNamespace'
<1> USE DEF nsVars, depVars, killVars
<1>1. /\ test \in TestNo /\ NamesOf(test) \subseteq Names
      /\ test \in 1 .. Len(Tests) /\ Len(Tests) \in Nat
      /\ ns \in [Names -> {"absent", "active", "terminating"}]
  BY ConfFacts, ConstantsAssumption DEF TypeInv, TypeOK, TestNo
<1>2. CASE UNCHANGED <<test, outcome, nsVars>>
  BY <1>2, ForgottenKept
<1>3. CASE PrepareFails \/ CreateFails
  BY <1>3, PrepareErrorExcuses DEF PrepareFails, CreateFails
<1>4. CASE InitMonkeyFails \/ DependenciesFailed
  <2>1. UNCHANGED <<test, nsVars>> /\ outcome[test] = "none"
    BY <1>1, <1>4 DEF InitMonkeyFails, DependenciesFailed, OutcomeInv
  <2>2. \A t \in TestNo : outcome'[t] = outcome[t] \/ (t = test /\ outcome'[t] # "ran")
    BY <1>4, FailOutcome DEF InitMonkeyFails, DependenciesFailed
  <2> QED
    BY <2>1, <2>2, ForgottenKept
<1>5. CASE WaitMonkey
  <2>1. UNCHANGED <<test, nsVars>> /\ outcome[test] = "none"
    BY <1>1, <1>5 DEF WaitMonkey, OutcomeInv
  <2>2. \A t \in TestNo : outcome'[t] = IF t = test THEN "ran" ELSE outcome[t]
    BY <1>5, FailOutcome DEF WaitMonkey
  <2>3. NamesOf(test) \subseteq automanaged
    BY <1>5 DEF WaitMonkey, NamespacesInv, Running
  <2>4. \A t \in 1 .. test : t .. test \subseteq TestNo /\ t \in TestNo
    BY <1>1 DEF TestNo
  <2> QED
    BY <2>1, <2>2, <2>3, <2>4 DEF NoForgottenNamespace, NamesOf
<1>6. ASSUME UNCHANGED <<test, outcome>>, NEW S, NEW ok, DeleteAll(S, ok)
      PROVE  NoForgottenNamespace'
  <2>1. \A n \in Names : ns'[n] # "absent" /\ n \notin automanaged' =>
                            ns[n] # "absent" /\ n \notin automanaged
    BY <1>1, <1>6 DEF DeleteAll
  <2> QED
    BY <1>6, <2>1, ForgottenKept
<1>7. CASE DeleteStale
  BY <1>2, <1>6, <1>7 DEF DeleteStale
<1>8. CASE CleanupNamespaces
  BY <1>6, <1>8 DEF CleanupNamespaces
<1>9. CASE CreateNamespaces
  <2>1. Conf.number \in Nat
    BY <1>1, ConfFacts DEF Conf
  <2>2. FirstN(Conf.number + 0) = FirstN(Conf.number)
    BY <2>1
  <2>3. \A n \in Names : ns'[n] # "absent" /\ n \notin automanaged' =>
                            ns[n] # "absent" /\ n \notin automanaged
    BY <1>1, <1>9, <2>2 DEF CreateNamespaces, Create
  <2> QED
    BY <1>9, <2>3, ForgottenKept DEF CreateNamespaces
<1>10. CASE NextTest
  <2>1. test' = test + 1 /\ test' \in TestNo /\ UNCHANGED <<outcome, nsVars>>
    BY <1>1, <1>10 DEF NextTest, TestNo
  <2>2. outcome[test'] = "none"
    BY <1>1, <2>1 DEF OutcomeInv
  <2>3. \A t \in 1 .. test' : t = test' \/ (t \in 1 .. test /\ t .. test \subseteq t .. test')
    BY <1>1, <2>1
  <2> QED
    BY <2>1, <2>2, <2>3 DEF NoForgottenNamespace, NamesOf
<1>11. ASSUME NEW x \in Names, NamespaceGone(x)
       PROVE  NoForgottenNamespace'
  <2>1. UNCHANGED <<test, outcome, automanaged>>
    BY <1>11 DEF NamespaceGone
  <2>2. \A n \in Names : ns'[n] # "absent" => ns[n] # "absent"
    BY <1>1, <1>11 DEF NamespaceGone
  <2> QED
    BY <2>1, <2>2, ForgottenKept
<1>12. CASE \/ InitMonkey \/ SetupTimesOut \/ DependenciesReady \/ ExecuteStep \/ StepsDone
            \/ TeardownDone \/ SetupReturns \/ TeardownReturns
            \/ \E t \in TestNo : StartRound(t) \/ Killer(t)
            \/ \E d \in late : LateSetup(d)
            \/ Finished \/ UNCHANGED vars
  BY <1>2, <1>12 DEF InitMonkey, SetupTimesOut, DependenciesReady, ExecuteStep, StepsDone,
                     TeardownDone, SetupReturns, TeardownReturns, StartRound, Killer,
                     StopServices, Reboot, Pick, MonkeyEnds, LateSetup, Finished, vars
<1> QED
  BY <1>3, <1>4, <1>5, <1>7, <1>8, <1>9, <1>10, <1>11, <1>12 DEF Next, Executor

-----------------------------------------------------------------------------
(* The inductive invariant, and what follows from it.                      *)

IndInv ==
    /\ TypeInv /\ ExcludedInv
    /\ OutcomeInv /\ MonkeyInv /\ KillerEndsWithTest /\ NoNodeLeftDown
    /\ DepsInv /\ NamespacesInv /\ NoForgottenNamespace

(* IndInv holds at the start.                                              *)
LEMMA IndInit == Init => IndInv
<1> SUFFICES ASSUME Init PROVE IndInv
  OBVIOUS
<1>1. TypeInv /\ ExcludedInv
  BY TypeInit DEF Init, ExcludedInv
<1>2. OutcomeInv /\ KillerEndsWithTest
  BY DEF Init, OutcomeInv, KillerEndsWithTest
<1>3. MonkeyInv /\ NoNodeLeftDown /\ DepsInv /\ NamespacesInv
  BY DEF Init, MonkeyInv, NoNodeLeftDown, DepsInv, NamespacesInv, Running
<1>4. NoForgottenNamespace
  <2>1. \A t \in 1 .. test : t \in TestNo
    BY FirstTest DEF Init
  <2> QED
    BY <2>1 DEF Init, NoForgottenNamespace
<1> QED
  BY <1>1, <1>2, <1>3, <1>4 DEF IndInv

(* IndInv is an invariant.                                                 *)
LEMMA IndInvariant == Spec => []IndInv
<1>1. IndInv /\ [Next]_vars => IndInv'
  BY TypeStep, OutcomeStep, KillerStep, NodesStep, DepsStep, NamespacesStep, ForgottenStep
     DEF IndInv
<1> QED
  BY <1>1, IndInit, PTL DEF Spec

(* TypeOK holds in every reachable state: in particular no node that runs  *)
(* Prometheus, or that its test excludes, is ever being killed.            *)
THEOREM TypeCorrect == Spec => []TypeOK
<1>1. IndInv => TypeOK
  BY DEF IndInv, TypeInv
<1> QED
  BY <1>1, IndInvariant, PTL

(* Whatever the number of tests and monkeys: once a test has run, its      *)
(* chaos monkey and all goroutines of kill have ended.                     *)
THEOREM KillersEnd == Spec => []KillerEndsWithTest
<1>1. IndInv => KillerEndsWithTest
  BY DEF IndInv
<1> QED
  BY <1>1, IndInvariant, PTL

(* A stopped node always has a goroutine of kill that will reboot it,      *)
(* unless ssh to it failed.                                                *)
THEOREM StoppedNodesHaveRebooter == Spec => []NoNodeLeftDown
<1>1. IndInv => NoNodeLeftDown
  BY DEF IndInv
<1> QED
  BY <1>1, IndInvariant, PTL

(* The steps of a test find all its namespaces active, unless the config   *)
(* takes over existing ones.                                               *)
THEOREM NamespacesReady == Spec => []StepsHaveNamespaces
<1>1. IndInv => StepsHaveNamespaces
  BY DEF IndInv, NamespacesInv, StepsHaveNamespaces
<1> QED
  BY <1>1, IndInvariant, PTL

(* No dependency outlives its test without an error to excuse it.          *)
THEOREM NoDependencyLeft == Spec => []DependenciesTornDown
<1>1. IndInv => DependenciesTornDown
  BY DEF IndInv, DepsInv, Undone, DependenciesTornDown
<1> QED
  BY <1>1, IndInvariant, PTL

(* The framework forgets no namespace of a test that ran while it exists,  *)
(* unless a later preparation failed.                                      *)
THEOREM NamespacesTracked == Spec => []NoForgottenNamespace
<1>1. IndInv => NoForgottenNamespace
  BY DEF IndInv
<1> QED
  BY <1>1, IndInvariant, PTL

(* A dependency is taken out of the cluster only when the namespaces of    *)
(* its test are gone.                                                      *)
THEOREM CleanupComesFirst == Spec => TeardownAfterCleanup
<1>1. ASSUME IndInv, [Next]_vars, NEW d \in installed \ installed', Conf.delete
      PROVE  \A n \in NamesOf(test) : ns[n] = "absent"
  <2>1. TeardownReturns
    BY <1>1 DEF Next, Executor, InitMonkey, InitMonkeyFails, PrepareFails, DeleteStale,
       CreateNamespaces, CreateFails, SetupReturns, SetupTimesOut, DependenciesReady,
       DependenciesFailed, ExecuteStep, StepsDone, WaitMonkey, CleanupNamespaces,
       TeardownDone, NextTest, StartRound, Killer, StopServices, Reboot, Pick, MonkeyEnds,
       NamespaceGone, LateSetup, Finished, vars, depVars
  <2>2. pc = "teardown" /\ depNo > 0 /\ depNo <= Len(setup) /\ depNo \in Nat
    BY <1>1, <2>1 DEF TeardownReturns, IndInv, TypeInv, TypeOK, SetupInv
  <2>3. setup # << >>
    BY <2>2
  <2> QED
    BY <1>1, <2>2, <2>3 DEF IndInv, NamespacesInv
<1>2. IndInv /\ [Next]_vars =>
        [\A d \in installed \ installed' :
            Conf.delete => \A n \in NamesOf(test) : ns[n] = "absent"]_vars
  BY <1>1
<1> QED
  BY <1>2, IndInvariant, PTL DEF Spec, TeardownAfterCleanup
=============================================================================
