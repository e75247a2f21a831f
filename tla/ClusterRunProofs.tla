-------------------------- MODULE ClusterRunProofs --------------------------
(***************************************************************************)
(* Proofs about ClusterRun, for any number of scenarios and of runs of the *)
(* binary on the same cluster, and about ImagePreload, for any number of   *)
(* nodes.                                                                  *)
(***************************************************************************)
EXTENDS ClusterRun, ImagePreload, FiniteSetTheorems, TLAPS

-----------------------------------------------------------------------------
(* The invariant.                                                          *)

(* Main up to the installation of the handler of SIGINT; with the stack    *)
(* up; after the preload; after the tests.                                 *)
Early   == {"flags", "namespace", "account", "secret", "manifests", "healthy", "cache"}
StackUp == {"healthy", "cache", "exec", "preload", "preloading", "compile", "tests", "teardown"}
Late    == {"teardown", "snapshot", "deleteDisk", "stopExec", "report"}
Loaded  == {"compile", "tests"} \cup Late

(* Which options lead where, and what the tests have done.                 *)
SuiteInv ==
    /\ opts.dry => pc \in {"compile", "exited"} /\ exit # "success" /\ ~opts.preload
    /\ pc \in Late \/ exit = "success" => todo = 0
    /\ exit = "success" => ~failed

(* The namespace of the preload is gone once the tests start.              *)
PreloadInv ==
    /\ pc = "preloading" => opts.preload
    /\ (pc \in Loaded \/ exit = "success") /\ opts.preload => "preload" \notin ns

(* What the tear-down has removed so far.                                  *)
TearDownInv ==
    /\ (pc \in Late \ {"teardown"} \/ exit = "success") /\ ~tearErr /\ opts.server /\ opts.tearDown
          => "monitoring" \notin ns
    /\ (pc = "report" \/ exit = "success") /\ ~tearErr /\ opts.exec => "cluster-loader" \notin ns

(* A secret has an account.                                                *)
TokenInv == /\ secret => sa
            /\ pc = "secret" => sa
            /\ pc = "secret" /\ fresh => ~secret

(* The attempt to snapshot the disk: who makes it, and what it leaves.     *)
SnapshotInv ==
    /\ pc \in Early => intr = "off" /\ ~snapshotted /\ lock = "free"
    /\ lock = "main" => pc \in {"snapshot", "exited"}
    /\ lock # "free" => snapshotted
    /\ pc = "deleteDisk" => snapshotted /\ lock = "free"
    /\ snapshotted /\ lock = "free" /\ opts.disk => snap \/ snapError
    /\ opts.server /\ pc \in StackUp => disk = "bound"
    /\ pc = "teardown" => opts.server

-----------------------------------------------------------------------------
(* The Boolean variables stay Boolean.                                     *)
LEMMA FlagsStep == TypeOK /\ [Next]_vars => FlagsTyped'
<1> SUFFICES ASSUME TypeOK, [Next]_vars PROVE FlagsTyped'
  OBVIOUS
<1>0. FlagsTyped
  BY DEF TypeOK
<1> USE DEF mainVars, snapVars, diskVars, tokenVars, Go, Exit, Next, MainStep, Bounded, HandleSignal,
       ParseFlags, CreateNamespace, CreateAccount, CreateSecret, ApplyManifests, WaitHealthy,
       StackIsUp, SetUpExecService, SetUpFails, StartPreload, PreloadDone, Compile,
       RunSingleTest, EndTestSuite, MainSnapshots, DeleteDisk, Report, DeleteStack,
       TearDownExecService, HandlerSnapshots, HandlerExits, Signal, Kill, Rerun, vars,
       CacheDisk, Acquire, TakeResult, Snapshot
<1>1. failed' \in BOOLEAN
  BY <1>0 DEF FlagsTyped
<1>2. fresh' \in BOOLEAN
  BY <1>0 DEF FlagsTyped
<1>3. meta' \in BOOLEAN
  BY <1>0 DEF FlagsTyped
<1>4. snapshotted' \in BOOLEAN
  BY <1>0 DEF FlagsTyped
<1>5. snapError' \in BOOLEAN
  BY <1>0 DEF FlagsTyped
<1>6. snap' \in BOOLEAN
  BY <1>0 DEF FlagsTyped
<1>7. tearErr' \in BOOLEAN
  BY <1>0 DEF FlagsTyped
<1>8. retain' \in BOOLEAN
  <2>1. opts.disk \in BOOLEAN
    BY DEF TypeOK, Options, Flags
  <2> QED
    BY <1>0, <2>1 DEF FlagsTyped
<1>9. sa' \in BOOLEAN
  BY <1>0 DEF FlagsTyped
<1>10. secret' \in BOOLEAN
  BY <1>0 DEF FlagsTyped
<1> QED
  BY <1>1, <1>2, <1>3, <1>4, <1>5, <1>6, <1>7, <1>8, <1>9, <1>10 DEF FlagsTyped

(* TypeOK is inductive.                                                    *)
LEMMA TypeStep == TypeOK /\ [Next]_vars => TypeOK'
<1> SUFFICES ASSUME TypeOK, [Next]_vars PROVE TypeOK'
  OBVIOUS
<1>0. FlagsTyped'
  BY FlagsStep
<1> USE <1>0, RunAssumption DEF TypeOK, mainVars, snapVars, diskVars, tokenVars, Go, Exit
<1>1. CASE ParseFlags
  BY <1>1 DEF ParseFlags, Options
<1>2. CASE CreateNamespace
  BY <1>2 DEF CreateNamespace
<1>3. CASE CreateAccount
  BY <1>3 DEF CreateAccount
<1>4. CASE CreateSecret
  BY <1>4 DEF CreateSecret
<1>5. CASE ApplyManifests
  BY <1>5 DEF ApplyManifests
<1>6. CASE WaitHealthy
  BY <1>6 DEF WaitHealthy
<1>7. CASE StackIsUp
  BY <1>7 DEF StackIsUp, CacheDisk
<1>8. CASE SetUpExecService
  BY <1>8 DEF SetUpExecService
<1>9. CASE SetUpFails
  BY <1>9 DEF SetUpFails
<1>10. CASE StartPreload
  BY <1>10 DEF StartPreload
<1>11. CASE PreloadDone
  BY <1>11 DEF PreloadDone
<1>12. CASE Compile
  BY <1>12 DEF Compile
<1>13. CASE RunSingleTest
  BY <1>13 DEF RunSingleTest
<1>14. CASE EndTestSuite
  BY <1>14 DEF EndTestSuite
<1>15. CASE MainSnapshots
  BY <1>15 DEF MainSnapshots, Acquire, TakeResult, Snapshot
<1>16. CASE DeleteDisk
  BY <1>16 DEF DeleteDisk
<1>17. CASE Report
  BY <1>17 DEF Report
<1>18. CASE HandlerSnapshots
  BY <1>18 DEF HandlerSnapshots, Acquire, TakeResult, Snapshot
<1>19. CASE HandlerExits
  BY <1>19 DEF HandlerExits
<1>20. CASE Signal
  BY <1>20 DEF Signal
<1>21. CASE Kill
  BY <1>21 DEF Kill
<1>22. CASE Rerun
  BY <1>22 DEF Rerun, NoOpts, Options
<1>23. CASE UNCHANGED vars
  BY <1>23 DEF vars
<1>24. ASSUME NEW ok \in BOOLEAN, DeleteStack(ok) PROVE TypeOK'
  BY <1>24 DEF DeleteStack, CacheDisk
<1>25. ASSUME NEW ok \in BOOLEAN, TearDownExecService(ok) PROVE TypeOK'
  BY <1>25 DEF TearDownExecService
<1> QED
  BY <1>1, <1>2, <1>3, <1>4, <1>5, <1>6, <1>7, <1>8, <1>9, <1>10, <1>11, <1>12, <1>13, <1>14, <1>15, <1>16, <1>17, <1>18, <1>19, <1>20, <1>21, <1>22, <1>23, <1>24, <1>25
     DEF Next, MainStep, Bounded, HandleSignal

-----------------------------------------------------------------------------
(* The other parts of the invariant: one case per action, or per group of  *)
(* actions that do alike.                                                  *)
USE DEF mainVars, snapVars, diskVars, tokenVars, Go, Exit

(* SuiteInv is inductive.                                                  *)
LEMMA SuiteStep == TypeOK /\ SuiteInv /\ [Next]_vars => SuiteInv'
<1> SUFFICES ASSUME TypeOK, SuiteInv, [Next]_vars PROVE SuiteInv'
  OBVIOUS
<1> USE DEF TypeOK, FlagsTyped, SuiteInv, Late
<1>1. CASE ParseFlags
  BY <1>1 DEF ParseFlags, Relevant, Flags, Options
<1>2. CASE CreateNamespace \/ CreateAccount
  BY <1>2 DEF CreateNamespace, CreateAccount
<1>3. CASE CreateSecret
  BY <1>3 DEF CreateSecret
<1>4. CASE ApplyManifests \/ WaitHealthy \/ StackIsUp
  BY <1>4 DEF ApplyManifests, WaitHealthy, StackIsUp
<1>5. CASE SetUpExecService \/ SetUpFails
  BY <1>5 DEF SetUpExecService, SetUpFails
<1>6. CASE StartPreload
  BY <1>6 DEF StartPreload
<1>7. CASE PreloadDone
  BY <1>7 DEF PreloadDone
<1>8. CASE Compile
  BY <1>8 DEF Compile
<1>9. CASE RunSingleTest
  BY <1>9 DEF RunSingleTest
<1>10. CASE EndTestSuite
  BY <1>10 DEF EndTestSuite
<1>11. CASE MainSnapshots \/ HandlerSnapshots
  BY <1>11 DEF MainSnapshots, HandlerSnapshots, Acquire, TakeResult, Snapshot
<1>12. CASE DeleteDisk \/ Report
  BY <1>12 DEF DeleteDisk, Report
<1>13. CASE HandlerExits \/ Signal \/ Kill
  BY <1>13 DEF HandlerExits, Signal, Kill
<1>14. CASE Rerun
  BY <1>14 DEF Rerun, NoOpts, Flags
<1>15. CASE UNCHANGED vars
  BY <1>15 DEF vars
<1>16. ASSUME NEW ok \in BOOLEAN, DeleteStack(ok) PROVE SuiteInv'
  BY <1>16 DEF DeleteStack
<1>17. ASSUME NEW ok \in BOOLEAN, TearDownExecService(ok) PROVE SuiteInv'
  BY <1>17 DEF TearDownExecService
<1> QED
  BY <1>1, <1>2, <1>3, <1>4, <1>5, <1>6, <1>7, <1>8, <1>9, <1>10, <1>11, <1>12, <1>13, <1>14, <1>15, <1>16, <1>17
     DEF Next, MainStep, Bounded, HandleSignal

(* TearDownInv is inductive.                                               *)
LEMMA TearDownStep == TypeOK /\ TearDownInv /\ [Next]_vars => TearDownInv'
<1> SUFFICES ASSUME TypeOK, TearDownInv, [Next]_vars PROVE TearDownInv'
  OBVIOUS
<1> USE DEF TypeOK, FlagsTyped, TearDownInv, Late
<1>1. CASE ParseFlags
  BY <1>1 DEF ParseFlags, Relevant, Flags, Options
<1>2. CASE CreateNamespace \/ CreateAccount
  BY <1>2 DEF CreateNamespace, CreateAccount
<1>3. CASE CreateSecret
  BY <1>3 DEF CreateSecret
<1>4. CASE ApplyManifests \/ WaitHealthy \/ StackIsUp
  BY <1>4 DEF ApplyManifests, WaitHealthy, StackIsUp
<1>5. CASE SetUpExecService \/ SetUpFails
  BY <1>5 DEF SetUpExecService, SetUpFails
<1>6. CASE StartPreload
  BY <1>6 DEF StartPreload
<1>7. CASE PreloadDone
  BY <1>7 DEF PreloadDone
<1>8. CASE Compile
  BY <1>8 DEF Compile
<1>9. CASE RunSingleTest
  BY <1>9 DEF RunSingleTest
<1>10. CASE EndTestSuite
  BY <1>10 DEF EndTestSuite
<1>11. CASE MainSnapshots \/ HandlerSnapshots
  BY <1>11 DEF MainSnapshots, HandlerSnapshots, Acquire, TakeResult, Snapshot
<1>12. CASE DeleteDisk \/ Report
  BY <1>12 DEF DeleteDisk, Report
<1>13. CASE HandlerExits \/ Signal \/ Kill
  BY <1>13 DEF HandlerExits, Signal, Kill
<1>14. CASE Rerun
  BY <1>14 DEF Rerun, NoOpts, Flags
<1>15. CASE UNCHANGED vars
  BY <1>15 DEF vars
<1>16. ASSUME NEW ok \in BOOLEAN, DeleteStack(ok) PROVE TearDownInv'
  BY <1>16 DEF DeleteStack
<1>17. ASSUME NEW ok \in BOOLEAN, TearDownExecService(ok) PROVE TearDownInv'
  BY <1>17 DEF TearDownExecService
<1> QED
  BY <1>1, <1>2, <1>3, <1>4, <1>5, <1>6, <1>7, <1>8, <1>9, <1>10, <1>11, <1>12, <1>13, <1>14, <1>15, <1>16, <1>17
     DEF Next, MainStep, Bounded, HandleSignal

(* TokenInv is inductive.                                                  *)
LEMMA TokenStep == TypeOK /\ TokenInv /\ [Next]_vars => TokenInv'
<1> SUFFICES ASSUME TypeOK, TokenInv, [Next]_vars PROVE TokenInv'
  OBVIOUS
<1> USE DEF TypeOK, FlagsTyped, TokenInv
<1>1. CASE ParseFlags
  BY <1>1 DEF ParseFlags, Relevant, Flags, Options
<1>2. CASE CreateNamespace \/ CreateAccount
  <2>1. CASE CreateNamespace
    BY <2>1 DEF CreateNamespace
  <2>2. CASE CreateAccount
    <3>1. sa' = TRUE /\ fresh' = ~sa /\ secret' = secret
      BY <2>2 DEF CreateAccount
    <3>2. sa' /\ (fresh' => ~secret')
      BY <3>1, Zenon
    <3> QED
      BY <3>1, <3>2
  <2> QED
    BY <1>2, <2>1, <2>2
<1>3. CASE CreateSecret
  <2>1. sa /\ sa' = sa /\ pc' # "secret"
    BY <1>3 DEF CreateSecret
  <2>2. CASE fresh /\ secret
    BY <1>3, <2>1, <2>2 DEF CreateSecret
  <2>3. CASE ~(fresh /\ secret)
    BY <1>3, <2>1, <2>3 DEF CreateSecret
  <2> QED
    BY <2>2, <2>3
<1>4. CASE ApplyManifests \/ WaitHealthy \/ StackIsUp
  BY <1>4 DEF ApplyManifests, WaitHealthy, StackIsUp
<1>5. CASE SetUpExecService \/ SetUpFails
  BY <1>5 DEF SetUpExecService, SetUpFails
<1>6. CASE StartPreload
  BY <1>6 DEF StartPreload
<1>7. CASE PreloadDone
  BY <1>7 DEF PreloadDone
<1>8. CASE Compile
  BY <1>8 DEF Compile
<1>9. CASE RunSingleTest
  BY <1>9 DEF RunSingleTest
<1>10. CASE EndTestSuite
  BY <1>10 DEF EndTestSuite
<1>11. CASE MainSnapshots \/ HandlerSnapshots
  BY <1>11 DEF MainSnapshots, HandlerSnapshots, Acquire, TakeResult, Snapshot
<1>12. CASE DeleteDisk \/ Report
  BY <1>12 DEF DeleteDisk, Report
<1>13. CASE HandlerExits \/ Signal \/ Kill
  BY <1>13 DEF HandlerExits, Signal, Kill
<1>14. CASE Rerun
  BY <1>14 DEF Rerun, NoOpts, Flags
<1>15. CASE UNCHANGED vars
  BY <1>15 DEF vars
<1>16. ASSUME NEW ok \in BOOLEAN, DeleteStack(ok) PROVE TokenInv'
  BY <1>16 DEF DeleteStack
<1>17. ASSUME NEW ok \in BOOLEAN, TearDownExecService(ok) PROVE TokenInv'
  BY <1>17 DEF TearDownExecService
<1> QED
  BY <1>1, <1>2, <1>3, <1>4, <1>5, <1>6, <1>7, <1>8, <1>9, <1>10, <1>11, <1>12, <1>13, <1>14, <1>15, <1>16, <1>17
     DEF Next, MainStep, Bounded, HandleSignal

(* SnapshotInv is inductive.                                               *)
LEMMA SnapshotStep == TypeOK /\ SnapshotInv /\ [Next]_vars => SnapshotInv'
<1> SUFFICES ASSUME TypeOK, SnapshotInv, [Next]_vars PROVE SnapshotInv'
  OBVIOUS
<1> USE DEF TypeOK, FlagsTyped, SnapshotInv, Early, StackUp
<1>1. CASE ParseFlags
  BY <1>1 DEF ParseFlags, Relevant, Flags, Options
<1>2. CASE CreateNamespace \/ CreateAccount
  BY <1>2 DEF CreateNamespace, CreateAccount
<1>3. CASE CreateSecret
  BY <1>3 DEF CreateSecret
<1>4. CASE ApplyManifests \/ WaitHealthy \/ StackIsUp
  BY <1>4 DEF ApplyManifests, WaitHealthy, StackIsUp
<1>5. CASE SetUpExecService \/ SetUpFails
  BY <1>5 DEF SetUpExecService, SetUpFails
<1>6. CASE StartPreload
  BY <1>6 DEF StartPreload
<1>7. CASE PreloadDone
  BY <1>7 DEF PreloadDone
<1>8. CASE Compile
  BY <1>8 DEF Compile
<1>9. CASE RunSingleTest
  BY <1>9 DEF RunSingleTest
<1>10. CASE EndTestSuite
  BY <1>10 DEF EndTestSuite
<1>11. CASE MainSnapshots \/ HandlerSnapshots
  BY <1>11 DEF MainSnapshots, HandlerSnapshots, Acquire, TakeResult, Snapshot
<1>12. CASE DeleteDisk \/ Report
  BY <1>12 DEF DeleteDisk, Report
<1>13. CASE HandlerExits \/ Signal \/ Kill
  BY <1>13 DEF HandlerExits, Signal, Kill
<1>14. CASE Rerun
  BY <1>14 DEF Rerun, NoOpts, Flags
<1>15. CASE UNCHANGED vars
  BY <1>15 DEF vars
<1>16. ASSUME NEW ok \in BOOLEAN, DeleteStack(ok) PROVE SnapshotInv'
  BY <1>16 DEF DeleteStack
<1>17. ASSUME NEW ok \in BOOLEAN, TearDownExecService(ok) PROVE SnapshotInv'
  BY <1>17 DEF TearDownExecService
<1> QED
  BY <1>1, <1>2, <1>3, <1>4, <1>5, <1>6, <1>7, <1>8, <1>9, <1>10, <1>11, <1>12, <1>13, <1>14, <1>15, <1>16, <1>17
     DEF Next, MainStep, Bounded, HandleSignal

(* PreloadInv is inductive.                                                *)
LEMMA PreloadStep == TypeOK /\ SuiteInv /\ PreloadInv /\ [Next]_vars => PreloadInv'
<1> SUFFICES ASSUME TypeOK, SuiteInv, PreloadInv, [Next]_vars PROVE PreloadInv'
  OBVIOUS
<1> USE DEF TypeOK, FlagsTyped, PreloadInv, Late, Loaded
<1>1. CASE ParseFlags
  BY <1>1 DEF ParseFlags, Relevant, Flags, Options
<1>2. CASE CreateNamespace \/ CreateAccount
  BY <1>2 DEF CreateNamespace, CreateAccount
<1>3. CASE CreateSecret
  BY <1>3 DEF CreateSecret
<1>4. CASE ApplyManifests \/ WaitHealthy \/ StackIsUp
  BY <1>4 DEF ApplyManifests, WaitHealthy, StackIsUp
<1>5. CASE SetUpExecService \/ SetUpFails
  BY <1>5 DEF SetUpExecService, SetUpFails
<1>6. CASE StartPreload
  BY <1>6 DEF StartPreload
<1>7. CASE PreloadDone
  BY <1>7 DEF PreloadDone
<1>8. CASE Compile
  BY <1>8 DEF Compile
<1>9. CASE RunSingleTest
  BY <1>9 DEF RunSingleTest
<1>10. CASE EndTestSuite
  BY <1>10 DEF EndTestSuite
<1>11. CASE MainSnapshots \/ HandlerSnapshots
  BY <1>11 DEF MainSnapshots, HandlerSnapshots, Acquire, TakeResult, Snapshot
<1>12. CASE DeleteDisk \/ Report
  BY <1>12 DEF DeleteDisk, Report
<1>13. CASE HandlerExits \/ Signal \/ Kill
  BY <1>13 DEF HandlerExits, Signal, Kill
<1>14. CASE Rerun
  BY <1>14 DEF Rerun, NoOpts, Flags
<1>15. CASE UNCHANGED vars
  BY <1>15 DEF vars
<1>16. ASSUME NEW ok \in BOOLEAN, DeleteStack(ok) PROVE PreloadInv'
  BY <1>16 DEF DeleteStack
<1>17. ASSUME NEW ok \in BOOLEAN, TearDownExecService(ok) PROVE PreloadInv'
  BY <1>17 DEF TearDownExecService
<1> QED
  BY <1>1, <1>2, <1>3, <1>4, <1>5, <1>6, <1>7, <1>8, <1>9, <1>10, <1>11, <1>12, <1>13, <1>14, <1>15, <1>16, <1>17
     DEF Next, MainStep, Bounded, HandleSignal

-----------------------------------------------------------------------------
(* ImagePreload: what the two handlers maintain.                           *)

(* The set and the number follow the stores of the two informers; while a  *)
(* poll is steady the stores lack nothing but news of images, and         *)
(* clusterSize is the number of nodes the DaemonSet should run on.         *)
StoresInv ==
    /\ Waiting => doneNodes = { n \in Nodes : listed[n].images }
    /\ step \in {"polling", "counting"} => replicas = Cardinality(Expected(watched))

SteadyInv ==
    step = "counting" /\ steady =>
        /\ UpToDate(listed)
        /\ size = Cardinality(Expected(node))
        /\ \A n \in Nodes : ~(node[n].tainted /\ node[n].images)

CountInv == PreloadTypeOK /\ StoresInv /\ SteadyInv /\ PreloadedNodes

(* The nodes that should run are finitely many, at most all.               *)
LEMMA ExpectedFinite ==
    ASSUME NEW f \in [Nodes -> NodeStates]
    PROVE  /\ IsFiniteSet(Expected(f))
           /\ Cardinality(Expected(f)) \in 0 .. Cardinality(Nodes)
<1>1. Expected(f) \subseteq Nodes
  BY DEF Expected
<1>2. IsFiniteSet(Expected(f)) /\ Cardinality(Expected(f)) <= Cardinality(Nodes)
  BY <1>1, PreloadAssumption, FS_Subset
<1> QED
  BY <1>2, PreloadAssumption, FS_CardinalityType

(* handleObject's comparison keeps the number in step with the store.      *)
LEMMA CountFollows ==
    ASSUME NEW f \in [Nodes -> NodeStates], NEW n \in Nodes, NEW o \in NodeStates
    PROVE  Cardinality(Expected([f EXCEPT ![n] = o])) =
              IF ShouldRun(o) = ShouldRun(f[n]) THEN Cardinality(Expected(f))
              ELSE IF ShouldRun(o) THEN Cardinality(Expected(f)) + 1
                                   ELSE Cardinality(Expected(f)) - 1
<1> DEFINE g == [f EXCEPT ![n] = o]
<1>0. IsFiniteSet(Expected(f)) /\ Cardinality(Expected(f)) \in Nat
  BY ExpectedFinite, FS_CardinalityType
<1>1. ShouldRun(o) \in BOOLEAN /\ ShouldRun(f[n]) \in BOOLEAN
  BY DEF ShouldRun
<1>2. CASE ShouldRun(o) /\ ~ShouldRun(f[n])
  <2>1. Expected(g) = Expected(f) \cup {n} /\ n \notin Expected(f)
    BY <1>2 DEF Expected
  <2>2. Cardinality(Expected(f) \cup {n}) = Cardinality(Expected(f)) + 1
    BY <1>0, <2>1, FS_AddElement
  <2> QED
    BY <1>2, <2>1, <2>2
<1>3. CASE ~ShouldRun(o) /\ ShouldRun(f[n])
  <2>1. Expected(g) = Expected(f) \ {n} /\ n \in Expected(f)
    BY <1>3 DEF Expected
  <2>2. Cardinality(Expected(f) \ {n}) = Cardinality(Expected(f)) - 1
    BY <1>0, <2>1, FS_RemoveElement
  <2> QED
    BY <1>3, <2>1, <2>2
<1>4. CASE ShouldRun(o) = ShouldRun(f[n])
  <2>1. Expected(g) = Expected(f)
    BY <1>4 DEF Expected
  <2> QED
    BY <1>4, <2>1
<1> QED
  BY <1>1, <1>2, <1>3, <1>4

(* PreloadTypeOK is inductive, beside StoresInv.                           *)
LEMMA PreloadTypeStep ==
    PreloadTypeOK /\ StoresInv /\ [PreloadNext]_preloadVars => PreloadTypeOK'
<1> SUFFICES ASSUME PreloadTypeOK, StoresInv, [PreloadNext]_preloadVars PROVE PreloadTypeOK'
  OBVIOUS
<1> USE DEF PreloadTypeOK
<1>1. CASE StartInformer
  BY <1>1 DEF StartInformer
<1>2. CASE StartCounter
  BY <1>2, ExpectedFinite DEF StartCounter
<1>3. CASE PreloadFails
  BY <1>3 DEF PreloadFails
<1>4. CASE ReadSize
  <2>1. steady' \in BOOLEAN
    BY <1>4 DEF ReadSize, UpToDate
  <2> QED
    BY <1>4, <2>1 DEF ReadSize
<1>5. CASE ReadDone
  BY <1>5 DEF ReadDone
<1>6. ASSUME NEW n \in Nodes, CheckNode(n) PROVE PreloadTypeOK'
  BY <1>6 DEF CheckNode
<1>7. ASSUME NEW n \in Nodes, HandleObject(n) PROVE PreloadTypeOK'
  <2>1. watched' = [watched EXCEPT ![n] = node[n]] /\ watched' \in [Nodes -> NodeStates]
    BY <1>7 DEF HandleObject
  <2>2. replicas = Cardinality(Expected(watched))
    BY <1>7 DEF HandleObject, Waiting, StoresInv
  <2>3. replicas' = Cardinality(Expected(watched'))
    <3>1. Cardinality(Expected([watched EXCEPT ![n] = node[n]])) =
             IF ShouldRun(node[n]) = ShouldRun(watched[n]) THEN Cardinality(Expected(watched))
             ELSE IF ShouldRun(node[n]) THEN Cardinality(Expected(watched)) + 1
                                        ELSE Cardinality(Expected(watched)) - 1
      BY CountFollows DEF PreloadTypeOK
    <3> QED
      BY <1>7, <2>1, <2>2, <3>1 DEF HandleObject
  <2>4. replicas' \in 0 .. Cardinality(Nodes)
    BY <2>1, <2>3, ExpectedFinite
  <2> QED
    BY <1>7, <2>1, <2>4 DEF HandleObject
<1>8. ASSUME NEW n \in Nodes, NodeChanges(n) PROVE PreloadTypeOK'
  <2>1. PICK o \in NodeStates :
           /\ node' = [node EXCEPT ![n] = o]
           /\ steady' = (steady /\ o = [node[n] EXCEPT !.images = TRUE] /\ ~o.tainted)
    BY <1>8 DEF NodeChanges
  <2>2. steady' \in BOOLEAN
    BY <2>1
  <2> QED
    BY <1>8, <2>1, <2>2 DEF NodeChanges
<1>9. CASE UNCHANGED preloadVars
  BY <1>9 DEF preloadVars
<1> QED
  BY <1>1, <1>2, <1>3, <1>4, <1>5, <1>6, <1>7, <1>8, <1>9 DEF PreloadNext

(* The set and the number keep in step with the stores.                    *)
LEMMA StoresStep ==
    PreloadTypeOK /\ StoresInv /\ [PreloadNext]_preloadVars => StoresInv'
<1> SUFFICES ASSUME PreloadTypeOK, StoresInv, [PreloadNext]_preloadVars PROVE StoresInv'
  OBVIOUS
<1> USE DEF StoresInv, Waiting
<1>1. CASE StartInformer
  BY <1>1 DEF StartInformer
<1>2. CASE StartCounter
  BY <1>2 DEF StartCounter, Expected
<1>3. CASE PreloadFails
  BY <1>3 DEF PreloadFails
<1>4. CASE ReadSize
  BY <1>4 DEF ReadSize, Expected
<1>5. CASE ReadDone
  BY <1>5 DEF ReadDone, Expected
<1>6. ASSUME NEW n \in Nodes, CheckNode(n) PROVE StoresInv'
  <2>1. doneNodes' = { m \in Nodes : listed'[m].images }
    BY <1>6 DEF CheckNode, PreloadTypeOK
  <2> QED
    BY <1>6, <2>1 DEF CheckNode, Expected
<1>7. ASSUME NEW n \in Nodes, HandleObject(n) PROVE StoresInv'
  <2>1. node[n] \in NodeStates /\ watched' = [watched EXCEPT ![n] = node[n]]
    BY <1>7 DEF HandleObject, PreloadTypeOK
  <2>2. replicas = Cardinality(Expected(watched))
    BY <1>7 DEF HandleObject
  <2>3. replicas' = Cardinality(Expected(watched'))
    <3>1. Cardinality(Expected([watched EXCEPT ![n] = node[n]])) =
             IF ShouldRun(node[n]) = ShouldRun(watched[n]) THEN Cardinality(Expected(watched))
             ELSE IF ShouldRun(node[n]) THEN Cardinality(Expected(watched)) + 1
                                        ELSE Cardinality(Expected(watched)) - 1
      BY CountFollows DEF PreloadTypeOK
    <3> QED
      BY <1>7, <2>1, <2>2, <3>1 DEF HandleObject
  <2>4. Expected(watched)' = Expected(watched')
    BY DEF Expected
  <2> QED
    BY <1>7, <2>3, <2>4 DEF HandleObject
<1>8. ASSUME NEW n \in Nodes, NodeChanges(n) PROVE StoresInv'
  BY <1>8 DEF NodeChanges, Expected
<1>9. CASE UNCHANGED preloadVars
  BY <1>9 DEF preloadVars, Expected
<1> QED
  BY <1>1, <1>2, <1>3, <1>4, <1>5, <1>6, <1>7, <1>8, <1>9 DEF PreloadNext

(* A steady poll stays steady only through news of images.                 *)
LEMMA SteadyStep ==
    CountInv /\ [PreloadNext]_preloadVars => SteadyInv'
<1> SUFFICES ASSUME CountInv, [PreloadNext]_preloadVars, step' = "counting", steady'
             PROVE  /\ UpToDate(listed)'
                    /\ size' = Cardinality(Expected(node))'
                    /\ \A m \in Nodes : ~(node'[m].tainted /\ node'[m].images)
  BY DEF SteadyInv
<1> USE DEF CountInv, PreloadTypeOK
<1>1. CASE StartInformer \/ StartCounter \/ PreloadFails
  BY <1>1 DEF StartInformer, StartCounter, PreloadFails
<1>2. CASE ReadSize
  <2>1. /\ UpToDate(listed) /\ UpToDate(watched)
        /\ \A m \in Nodes : ~(node[m].tainted /\ node[m].images)
    BY <1>2 DEF ReadSize
  <2>2. Expected(watched) = Expected(node)
    <3> SUFFICES ASSUME NEW m \in Nodes PROVE ShouldRun(watched[m]) <=> ShouldRun(node[m])
      BY DEF Expected
    <3>1. watched[m] \in NodeStates
      OBVIOUS
    <3>2. node[m] = watched[m] \/ node[m] = [watched[m] EXCEPT !.images = TRUE]
      BY <2>1 DEF UpToDate
    <3> QED
      BY <3>1, <3>2 DEF ShouldRun, NodeStates
  <2>3. size' = Cardinality(Expected(node))
    BY <1>2, <2>2 DEF ReadSize, StoresInv
  <2> QED
    BY <1>2, <2>1, <2>3 DEF ReadSize, UpToDate, Expected
<1>3. CASE ReadDone
  BY <1>3 DEF ReadDone
<1>4. ASSUME NEW n \in Nodes, CheckNode(n)
      PROVE  /\ UpToDate(listed)' /\ size' = Cardinality(Expected(node))'
             /\ \A m \in Nodes : ~(node'[m].tainted /\ node'[m].images)
  <2>1. SteadyInv /\ step = "counting" /\ steady
    BY <1>4 DEF CheckNode
  <2>2. UpToDate(listed)'
    BY <1>4, <2>1 DEF CheckNode, SteadyInv, UpToDate
  <2> QED
    BY <1>4, <2>1, <2>2 DEF CheckNode, SteadyInv, Expected
<1>5. ASSUME NEW n \in Nodes, HandleObject(n)
      PROVE  /\ UpToDate(listed)' /\ size' = Cardinality(Expected(node))'
             /\ \A m \in Nodes : ~(node'[m].tainted /\ node'[m].images)
  BY <1>5 DEF HandleObject, SteadyInv, UpToDate, Expected
<1>6. ASSUME NEW n \in Nodes, NodeChanges(n)
      PROVE  /\ UpToDate(listed)' /\ size' = Cardinality(Expected(node))'
             /\ \A m \in Nodes : ~(node'[m].tainted /\ node'[m].images)
  <2>1. PICK o \in NodeStates :
           /\ node' = [node EXCEPT ![n] = o]
           /\ steady' = (steady /\ o = [node[n] EXCEPT !.images = TRUE] /\ ~o.tainted)
    BY <1>6 DEF NodeChanges
  <2>2. steady /\ o = [node[n] EXCEPT !.images = TRUE] /\ ~o.tainted
    BY <2>1
  <2>3. SteadyInv /\ step = "counting" /\ size' = size /\ listed' = listed
    BY <1>6 DEF NodeChanges
  <2>4. Expected(node') = Expected(node)
    <3> SUFFICES ASSUME NEW m \in Nodes PROVE ShouldRun(node'[m]) <=> ShouldRun(node[m])
      BY DEF Expected
    <3>1. node[m] \in NodeStates
      OBVIOUS
    <3>2. node'[m] = node[m] \/ node'[m] = [node[m] EXCEPT !.images = TRUE]
      BY <2>1, <2>2
    <3> QED
      BY <3>1, <3>2 DEF ShouldRun, NodeStates
  <2>5. UpToDate(listed)'
    <3> SUFFICES ASSUME NEW m \in Nodes
                 PROVE  node'[m] \in {listed[m], [listed[m] EXCEPT !.images = TRUE]}
      BY <2>3 DEF UpToDate
    <3>1. node[m] \in {listed[m], [listed[m] EXCEPT !.images = TRUE]}
      BY <2>2, <2>3 DEF SteadyInv, UpToDate
    <3>2. node'[m] = node[m] \/ node'[m] = [node[m] EXCEPT !.images = TRUE]
      BY <2>1, <2>2
    <3>3. listed[m] \in NodeStates
      OBVIOUS
    <3> QED
      BY <3>1, <3>2, <3>3 DEF NodeStates
  <2>6. \A m \in Nodes : ~(node'[m].tainted /\ node'[m].images)
    BY <2>1, <2>2, <2>3 DEF SteadyInv
  <2>7. Expected(node)' = Expected(node')
    BY DEF Expected
  <2> QED
    BY <2>2, <2>3, <2>4, <2>5, <2>6, <2>7 DEF SteadyInv
<1>7. CASE UNCHANGED preloadVars
  BY <1>7 DEF preloadVars, SteadyInv, UpToDate, Expected
<1> QED
  BY <1>1, <1>2, <1>3, <1>4, <1>5, <1>6, <1>7 DEF PreloadNext

(* A steady poll that finds the counts equal has found every expected node *)
(* in the set.                                                             *)
LEMMA CountedStep == CountInv /\ [PreloadNext]_preloadVars => PreloadedNodes'
<1> SUFFICES ASSUME CountInv, [PreloadNext]_preloadVars, step' = "loaded", steady'
             PROVE  \A n \in Expected(node') : node'[n].images
  BY DEF PreloadedNodes, Expected
<1> USE DEF CountInv, PreloadTypeOK
<1>1. CASE ReadDone
  <2>1. /\ step = "counting" /\ steady /\ node' = node
        /\ Cardinality(doneNodes) = size
    BY <1>1 DEF ReadDone
  <2>2. /\ doneNodes = { n \in Nodes : listed[n].images }
        /\ UpToDate(listed) /\ size = Cardinality(Expected(node))
        /\ \A n \in Nodes : ~(node[n].tainted /\ node[n].images)
    BY <2>1 DEF StoresInv, SteadyInv, Waiting
  <2>3. \A n \in doneNodes : n \in Expected(node) /\ node[n].images
    <3> SUFFICES ASSUME NEW n \in Nodes, listed[n].images
                 PROVE  node[n].images /\ ShouldRun(node[n])
      BY <2>2 DEF Expected
    <3>1. listed[n] \in NodeStates /\ node[n] \in NodeStates
      OBVIOUS
    <3>2. node[n] = listed[n] \/ node[n] = [listed[n] EXCEPT !.images = TRUE]
      BY <2>2 DEF UpToDate
    <3>3. node[n].images
      BY <3>1, <3>2 DEF NodeStates
    <3> QED
      BY <2>2, <3>1, <3>3 DEF NodeStates, ShouldRun
  <2>4. IsFiniteSet(Expected(node))
    BY ExpectedFinite
  <2>5. doneNodes = Expected(node)
    BY <2>1, <2>2, <2>3, <2>4, FS_Subset
  <2> QED
    BY <2>1, <2>3, <2>5
<1>2. CASE UNCHANGED preloadVars
  BY <1>2 DEF preloadVars, PreloadedNodes
<1> QED
  BY <1>1, <1>2 DEF PreloadNext, StartInformer, StartCounter, PreloadFails, ReadSize, CheckNode,
                    HandleObject, NodeChanges, Waiting

(* The invariant of the preload.                                           *)
LEMMA CountInvariant == PreloadSpec => []CountInv
<1>1. PreloadInit => CountInv
  <2> SUFFICES ASSUME PreloadInit PROVE CountInv
    OBVIOUS
  <2>1. 0 \in 0 .. Cardinality(Nodes)
    BY PreloadAssumption, FS_CardinalityType
  <2> QED
    BY <2>1 DEF PreloadInit, CountInv, PreloadTypeOK, StoresInv, SteadyInv, PreloadedNodes, Waiting
<1>2. CountInv /\ [PreloadNext]_preloadVars => CountInv'
  BY PreloadTypeStep, StoresStep, SteadyStep, CountedStep DEF CountInv
<1> QED
  BY <1>1, <1>2, PTL DEF PreloadSpec

-----------------------------------------------------------------------------
(* The theorems.                                                           *)

RunInv == /\ TypeOK /\ SuiteInv /\ PreloadInv /\ TearDownInv /\ TokenInv
          /\ SnapshotInv

(* The conjunction of the invariants above holds in every state.           *)
LEMMA RunInvariant == Spec => []RunInv
<1>1. Init => RunInv
  <2> SUFFICES ASSUME Init PROVE RunInv
    OBVIOUS
  <2>1. TypeOK
    <3>1. opts \in Options
      BY DEF Init, NoOpts, Options
    <3>2. FlagsTyped
      BY DEF Init, FlagsTyped
    <3>3. todo \in 0 .. Scenarios /\ run \in 1 .. MaxRuns
      BY RunAssumption DEF Init
    <3> QED
      BY <3>1, <3>2, <3>3 DEF Init, TypeOK
  <2>2. SuiteInv /\ PreloadInv /\ TearDownInv /\ TokenInv
    BY DEF Init, NoOpts, Flags, SuiteInv, PreloadInv, TearDownInv, TokenInv, Late, Loaded
  <2>3. SnapshotInv
    BY DEF Init, NoOpts, Flags, SnapshotInv, Early, StackUp
  <2> QED
    BY <2>1, <2>2, <2>3 DEF RunInv
<1>2. RunInv /\ [Next]_vars => RunInv'
  BY TypeStep, SuiteStep, PreloadStep, TearDownStep, TokenStep, SnapshotStep DEF RunInv
<1> QED
  BY <1>1, <1>2, PTL DEF Spec

(* TypeOK, for any number of nodes, scenarios and runs.                    *)
THEOREM RunTypeCorrect == Spec => []TypeOK
<1>1. RunInv => TypeOK
  BY DEF RunInv
<1> QED
  BY <1>1, RunInvariant, PTL

(* CleanExit: exit code 0 means that all scenarios passed and that what    *)
(* the flags ask to remove is gone, whatever earlier runs of the binary    *)
(* left and whenever they were killed.                                     *)
THEOREM SuccessIsClean == Spec => []CleanExit
<1>1. RunInv => CleanExit
  BY DEF RunInv, SuiteInv, PreloadInv, TearDownInv, CleanExit
<1> QED
  BY <1>1, RunInvariant, PTL

(* PreloadedNodes, for any number of nodes, changes and polls: a steady    *)
(* poll ends the preload only with the images on every node the DaemonSet  *)
(* should run on.                                                          *)
THEOREM PreloadIsCounted == PreloadSpec => []PreloadedNodes
<1>1. CountInv => PreloadedNodes
  BY DEF CountInv
<1> QED
  BY <1>1, CountInvariant, PTL

(* SetUpRepeatable: createToken never meets a secret without an account,   *)
(* after any number of runs that ended anywhere.                           *)
THEOREM SetUpIsRepeatable == Spec => []SetUpRepeatable
<1>1. RunInv => SetUpRepeatable
  BY DEF RunInv, TokenInv, SetUpRepeatable
<1> QED
  BY <1>1, RunInvariant, PTL

(* SnapshotBeforeDeletion: main and the handler of SIGINT share one        *)
(* attempt to snapshot the disk, and the disk outlives it.                 *)
THEOREM SnapshotIsBeforeDeletion == Spec => SnapshotBeforeDeletion
<1> DEFINE A == disk = "released" /\ disk' = "deleted" => lock = "free" /\ (snap \/ snapError)
<1>1. RunInv /\ [Next]_vars => A
  <2> SUFFICES ASSUME RunInv, [Next]_vars, disk = "released", disk' = "deleted"
               PROVE  lock = "free" /\ (snap \/ snapError)
    OBVIOUS
  <2>1. DeleteDisk \/ \E ok \in BOOLEAN : DeleteStack(ok)
    BY DEF Next, MainStep, Bounded, HandleSignal, ParseFlags, CreateNamespace, CreateAccount,
           CreateSecret, ApplyManifests, WaitHealthy, StackIsUp, SetUpExecService, SetUpFails,
           StartPreload, PreloadDone, Compile, RunSingleTest, EndTestSuite, MainSnapshots,
           Report, TearDownExecService, HandlerSnapshots, HandlerExits, Signal, Kill,
           Rerun, vars
  <2>2. CASE DeleteDisk
    BY <2>2 DEF DeleteDisk, RunInv, SnapshotInv
  <2>3. ASSUME NEW ok \in BOOLEAN, DeleteStack(ok) PROVE FALSE
    <3>1. pc = "teardown"
      BY <2>3 DEF DeleteStack
    <3>2. disk = "bound"
      BY <3>1 DEF RunInv, SnapshotInv, StackUp
    <3> QED
      BY <3>2
  <2> QED
    BY <2>1, <2>2, <2>3
<1> QED
  BY <1>1, RunInvariant, PTL DEF Spec, SnapshotBeforeDeletion

=============================================================================
