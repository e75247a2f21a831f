--------------------------- MODULE NetPerfProofs ----------------------------
(***************************************************************************)
(* Proofs about NetPerf, for any workers, list of testcases, number of     *)
(* sizes and of iterations, and any number of restarts.                    *)
(***************************************************************************)
EXTENDS NetPerf, NaturalsInduction, WellFoundedInduction, TLAPS

-----------------------------------------------------------------------------
(* The invariant.                                                          *)

Netperf(n) == Cases[n].kind = "netperf"

Csv == [generation : Nat, points : [Points -> Nat], lost : SUBSET (Nat \X Nat),
        survived : BOOLEAN, overtaken : BOOLEAN]

(* The launcher: an iteration that is under way has the results of those   *)
(* before it, and its own orchestrator or one that survived.               *)
LaunchInv ==
    /\ launcher \in {"cleanup", "services", "rcs", "results", "done"}
    /\ iteration \in 1 .. Iterations + 1
    /\ generation \in 0 .. Iterations
    /\ launcher \in {"services", "rcs", "results"} => iteration <= Iterations
    /\ launcher \in {"services", "rcs", "results"} \/ iteration <= Iterations =>
          Len(results) = iteration - 1
    /\ launcher = "results" => generation # 0 /\ (survived \/ generation = iteration)
    /\ launcher \in {"services", "rcs"} => (survived <=> generation # 0)
    /\ generation = 0 => conn = {}
    /\ results \in Seq(Csv)

(* A worker that runs an item of this orchestrator process, or has sent    *)
(* its output.                                                             *)
Client(w) == worker[w] \in {"client", "sent"} /\ w \in conn

WorkerStates == {"down", "up", "client", "sent", "cooldown"}

(* The tables of the orchestrator and the workers, whatever happens.       *)
TypesInv ==
    /\ known \in [DOMAIN known -> {"idle", "busy"}] /\ DOMAIN known \subseteq Workers
    /\ testcases \in [JobNumbers -> [size : Nat, finished : BOOLEAN]]
    /\ currentJobIndex \in JobNumbers \cup {1}
    /\ dataPoints \in [Points -> Nat] /\ late \in [Points -> Nat]
    /\ worker \in [Workers -> WorkerStates]
    /\ conn \subseteq Workers
    /\ item \in [Workers -> Nat \X Nat] /\ lost \subseteq Nat \X Nat
    /\ flushed \in BOOLEAN /\ survived \in BOOLEAN /\ overtaken \in BOOLEAN
    /\ \A w \in Workers : Client(w) => item[w] \in Points

(* The next size of a testcase.                                            *)
SizesInv ==
    \A n \in JobNumbers :
       IF Netperf(n) THEN testcases[n].size = 0
       ELSE /\ testcases[n].size \in FirstSize(n) .. Sizes + 1
            /\ testcases[n].size = Sizes + 1 => testcases[n].finished

(* The item handed out last; the items whose output is still to come.      *)
Current == <<currentJobIndex,
             IF Netperf(currentJobIndex) THEN 0 ELSE testcases[currentJobIndex].size - 1>>
Measured(p) == late[p] > 0 \/ \E w \in Workers : Client(w) /\ item[w] = p
Pending == \E p \in Points : Measured(p)

(* A testcase of several sizes is finished when the last was handed out.   *)
TablesInv ==
    \A n \in JobNumbers : ~Netperf(n) => (testcases[n].finished => testcases[n].size = Sizes + 1)

(* A client is busy, and the only one; its item is the current one.        *)
ClientInv ==
    /\ conn \subseteq DOMAIN known
    /\ \A v, w \in DOMAIN known : known[v] = "busy" /\ known[w] = "busy" => v = w
    /\ \A w \in Workers : Client(w) =>
          /\ known[w] = "busy" /\ item[w] = Current
          /\ \A p \in Points : late[p] = 0

(* So is the item of a late output, which is one at most.                  *)
LateInv == \A p \in Points : late[p] > 0 => late[p] = 1 /\ p = Current

(* The current item, while its output is still to come.                    *)
CurrentInv ==
    Pending => /\ currentJobIndex \in JobNumbers
               /\ Netperf(currentJobIndex) => ~testcases[currentJobIndex].finished
               /\ ~Netperf(currentJobIndex) =>
                     /\ testcases[currentJobIndex].size > FirstSize(currentJobIndex)
                     /\ Current \notin lost

(* The sizes of a testcase that were handed out.                           *)
HandedOut(n) == FirstSize(n) .. testcases[n].size - 1

(* Each point that was handed out is there, is being measured or is lost.  *)
PointsInv ==
    \A n \in JobNumbers : \A s \in SizeRange :
       IF Netperf(n)
       THEN dataPoints[<<n, s>>] = IF s = 0 /\ testcases[n].finished THEN 1 ELSE 0
       ELSE /\ <<n, s>> \in lost => s \in HandedOut(n)
            /\ dataPoints[<<n, s>>] =
                  IF s \in HandedOut(n) /\ <<n, s>> \notin lost /\ ~Measured(<<n, s>>)
                  THEN 1 ELSE 0

(* The CSV is printed when all testcases are finished and no one works.    *)
FlushInv == flushed => Unfinished = {} /\ ~Pending

(* All this while the orchestrator is one of this iteration and no output  *)
(* of a restarted worker was overtaken.                                    *)
Live    == generation # 0 /\ ~survived /\ ~overtaken
WorkInv == TablesInv /\ ClientInv /\ LateInv /\ CurrentInv /\ PointsInv /\ FlushInv
IndInv  == LaunchInv /\ TypesInv /\ SizesInv /\ (Live => WorkInv) /\ ResultsComplete

-----------------------------------------------------------------------------
(* The elements of a sequence.                                             *)
LEMMA SeqElements ==
    ASSUME NEW S, NEW w \in Seq(S)
    PROVE  Len(w) \in Nat /\ \A i \in 1 .. Len(w) : w[i] \in S
OBVIOUS

(* What the assumptions say of the testcases.                              *)
LEMMA Testcases ==
    ASSUME IsBenchmark
    PROVE  /\ Len(Cases) \in Nat /\ JobNumbers \subseteq Nat
           /\ \A n \in JobNumbers : Cases[n] \in Case
           /\ \A n \in JobNumbers : Netperf(n) => FirstSize(n) = 0 /\ SizesOf(n) = {0}
           /\ \A n \in JobNumbers : ~Netperf(n) => /\ FirstSize(n) \in 1 .. Sizes
                                             /\ SizesOf(n) = FirstSize(n) .. Sizes
<1>1. Len(Cases) \in Nat /\ \A n \in JobNumbers : Cases[n] \in Case
  BY SeqElements DEF IsBenchmark, JobNumbers
<1>2. JobNumbers \subseteq Nat
  BY <1>1 DEF JobNumbers
<1>3. \A n \in JobNumbers : Netperf(n) => FirstSize(n) = 0 /\ SizesOf(n) = {0}
  BY DEF Netperf, FirstSize, SizesOf
<1>4. \A n \in JobNumbers : ~Netperf(n) => /\ FirstSize(n) \in 1 .. Sizes
                                     /\ SizesOf(n) = FirstSize(n) .. Sizes
  BY DEF Netperf, FirstSize, SizesOf, IsBenchmark
<1> QED
  BY <1>1, <1>2, <1>3, <1>4

(* The first unfinished testcase.                                          *)
First == CHOOSE m \in Unfinished : \A l \in Unfinished : m <= l

LEMMA FirstIsUnfinished ==
    ASSUME IsBenchmark, Unfinished # {}
    PROVE  First \in Unfinished
<1>1. Unfinished \subseteq Nat
  BY Testcases DEF Unfinished
<1>2. PICK m \in Unfinished : \A n \in Unfinished : <<n, m>> \notin OpToRel(<, Nat)
  BY <1>1, WFMin, NatLessThanWellFounded, Zenon
<1>3. \A n \in Unfinished : ~(n < m)
  BY <1>1, <1>2, Zenon DEF OpToRel
<1>4. \A n \in Unfinished : m <= n
  BY <1>1, <1>3
<1> QED
  BY <1>4 DEF First

(* A new orchestrator has nothing yet.                                     *)
FreshState ==
    /\ testcases = Fresh /\ dataPoints = NoPoints /\ known = NoWorkers
    /\ currentJobIndex = 1 /\ late = NoPoints /\ overtaken = FALSE
    /\ flushed = FALSE /\ lost = {} /\ conn = {}
    /\ worker \in [Workers -> WorkerStates]
    /\ item \in [Workers -> Nat \X Nat] /\ survived \in BOOLEAN

LEMMA FreshTables ==
    ASSUME IsBenchmark
    PROVE  FreshState => TypesInv /\ SizesInv /\ WorkInv
<1> SUFFICES ASSUME FreshState PROVE TypesInv /\ SizesInv /\ WorkInv
  OBVIOUS
<1> USE DEF FreshState
<1>1. \A w \in Workers : ~Client(w)
  BY DEF Client
<1>2. ASSUME NEW n \in JobNumbers
      PROVE  testcases[n].size = FirstSize(n) /\ testcases[n].finished = FALSE
  BY <1>2 DEF Fresh
<1>3. TypesInv
  <2>1. testcases \in [JobNumbers -> [size : Nat, finished : BOOLEAN]]
    BY Testcases DEF Fresh, IsBenchmark, FirstSize
  <2>2. dataPoints \in [Points -> Nat] /\ late \in [Points -> Nat]
    BY DEF NoPoints
  <2>3. known \in [DOMAIN known -> {"idle", "busy"}] /\ DOMAIN known \subseteq Workers
    BY DEF NoWorkers
  <2> QED
    BY <1>1, <2>1, <2>2, <2>3 DEF TypesInv
<1>4. SizesInv
  <2> SUFFICES ASSUME NEW n \in JobNumbers
               PROVE  IF Netperf(n) THEN testcases[n].size = 0
                      ELSE /\ testcases[n].size \in FirstSize(n) .. Sizes + 1
                           /\ testcases[n].size # Sizes + 1
    BY DEF SizesInv
  <2>1. CASE Netperf(n)
    BY <1>2, <2>1, Testcases
  <2>2. CASE ~Netperf(n)
    <3>1. testcases[n].size = FirstSize(n) /\ FirstSize(n) \in 1 .. Sizes
      BY <1>2, <2>2, Testcases
    <3> QED
      BY <2>2, <3>1 DEF IsBenchmark
  <2> QED
    BY <2>1, <2>2
<1>5. TablesInv
  BY <1>2 DEF TablesInv
<1>6. \A p \in Points : late[p] = 0 /\ ~Measured(p)
  BY <1>1 DEF Measured, NoPoints
<1>7. ClientInv /\ LateInv /\ CurrentInv /\ FlushInv
  BY <1>1, <1>6 DEF ClientInv, LateInv, CurrentInv, FlushInv, Pending, NoWorkers
<1>8. PointsInv
  <2> SUFFICES ASSUME NEW n \in JobNumbers, NEW s \in SizeRange
               PROVE  /\ dataPoints[<<n, s>>] = 0 /\ <<n, s>> \notin lost
                      /\ testcases[n].finished = FALSE
                      /\ ~Netperf(n) => s \notin HandedOut(n)
    BY DEF PointsInv
  <2>1. <<n, s>> \in Points
    BY DEF Points
  <2>2. ~Netperf(n) => s \notin HandedOut(n)
    <3> SUFFICES ASSUME ~Netperf(n), s \in HandedOut(n) PROVE FALSE
      OBVIOUS
    <3>1. testcases[n].size = FirstSize(n) /\ FirstSize(n) \in 1 .. Sizes
      BY <1>2, Testcases
    <3>2. s \in FirstSize(n) .. FirstSize(n) - 1
      BY <3>1 DEF HandedOut
    <3> QED
      BY <3>1, <3>2 DEF IsBenchmark
  <2> QED
    BY <1>2, <2>1, <2>2 DEF NoPoints
<1> QED
  BY <1>3, <1>4, <1>5, <1>7, <1>8 DEF WorkInv

LEMMA FreshTablesNext ==
    ASSUME IsBenchmark
    PROVE  FreshState' => TypesInv' /\ SizesInv' /\ WorkInv'
  BY FreshTables, PTL

-----------------------------------------------------------------------------
(* The types.                                                              *)

(* Booking an output of any type, expected or not.                         *)
LEMMA BookTypes ==
    ASSUME IsBenchmark, TypesInv, SizesInv, NEW kind, Book(kind), JobNumbers # {}
    PROVE  /\ dataPoints' \in [Points -> Nat]
           /\ testcases' \in [JobNumbers -> [size : Nat, finished : BOOLEAN]]
           /\ SizesInv'
<1> DEFINE n == currentJobIndex
           p == <<n, IF kind = "netperf" THEN 0 ELSE testcases[n].size - 1>>
<1>1. n \in JobNumbers
  BY Testcases DEF TypesInv, JobNumbers
<1>2. testcases \in [JobNumbers -> [size : Nat, finished : BOOLEAN]] /\ testcases[n].size \in 0 .. Sizes + 1
  <2>1. Netperf(n) => testcases[n].size = 0
    BY <1>1 DEF SizesInv
  <2>2. ~Netperf(n) => testcases[n].size \in FirstSize(n) .. Sizes + 1 /\ FirstSize(n) \in 1 .. Sizes
    BY <1>1, Testcases DEF SizesInv
  <2> QED
    BY <2>1, <2>2 DEF TypesInv, IsBenchmark
<1>3. p \in Points
  <2>1. (IF kind = "netperf" THEN 0 ELSE testcases[n].size - 1) \in SizeRange
    BY <1>2 DEF SizeRange, IsBenchmark
  <2> QED
    BY <1>1, <2>1 DEF Points
<1>4. dataPoints' = IF flushed THEN dataPoints ELSE [dataPoints EXCEPT ![p] = @ + 1]
  BY DEF Book
<1>5. testcases' = IF kind = "netperf" THEN [testcases EXCEPT ![n].finished = TRUE] ELSE testcases
  BY DEF Book
<1> HIDE DEF n, p
<1>6. dataPoints' \in [Points -> Nat]
  BY <1>3, <1>4 DEF TypesInv
<1>7. testcases' \in [JobNumbers -> [size : Nat, finished : BOOLEAN]]
  <2>1. [testcases[n] EXCEPT !.finished = TRUE] \in [size : Nat, finished : BOOLEAN]
    BY <1>1, <1>2
  <2> QED
    BY <1>1, <1>2, <1>5, <2>1
<1>8. \A m \in JobNumbers : /\ testcases'[m].size = testcases[m].size
                            /\ testcases[m].finished => testcases'[m].finished
  BY <1>1, <1>2, <1>5
<1>9. SizesInv'
  BY <1>8 DEF SizesInv
<1> QED
  BY <1>6, <1>7, <1>9

(* What allocateWorkToClient changes.                                      *)
LEMMA AllocateTypes ==
    ASSUME IsBenchmark, TypesInv, SizesInv, NEW w \in Workers, w \in DOMAIN known,
           Unfinished # {}, Allocate(w, [known EXCEPT ![w] = "idle"])
    PROVE  /\ First \in JobNumbers /\ ~testcases[First].finished
           /\ currentJobIndex' = First
           /\ worker' = [worker EXCEPT ![w] = "client"]
           /\ item' = [item EXCEPT ![w] = <<First, testcases[First].size>>]
           /\ item' \in [Workers -> Nat \X Nat] /\ <<First, testcases[First].size>> \in Points
           /\ testcases[First].size \in 0 .. Sizes
           /\ Netperf(First) => testcases[First].size = 0 /\ testcases' = testcases
           /\ ~Netperf(First) =>
                 /\ testcases[First].size \in FirstSize(First) .. Sizes
                 /\ testcases'[First] = [size |-> testcases[First].size + 1,
                                         finished |-> testcases[First].size + 1 > Sizes]
           /\ \A m \in JobNumbers : m # First => testcases'[m] = testcases[m]
           /\ known' = [known EXCEPT ![w] = "busy"] /\ DOMAIN known' = DOMAIN known
           /\ known' \in [DOMAIN known' -> {"idle", "busy"}]
           /\ testcases' \in [JobNumbers -> [size : Nat, finished : BOOLEAN]]
           /\ SizesInv'
<1>a. PICK n : n = First
  OBVIOUS
<1>b. PICK size : size = testcases[n].size
  OBVIOUS
<1>1. n \in JobNumbers /\ ~testcases[n].finished
  BY <1>a, FirstIsUnfinished DEF Unfinished
<1>2. /\ currentJobIndex' = n /\ known' = [[known EXCEPT ![w] = "idle"] EXCEPT ![w] = "busy"]
      /\ testcases' = IF Netperf(n) THEN testcases
                      ELSE [testcases EXCEPT ![n] = [size |-> size + 1,
                                                     finished |-> size + 1 > Sizes]]
      /\ worker' = [worker EXCEPT ![w] = "client"]
      /\ item' = [item EXCEPT ![w] = <<n, size>>]
  BY <1>a, <1>b DEF Allocate, First, Netperf
<1>3. /\ size \in Nat /\ n \in Nat /\ size \in 0 .. Sizes
      /\ Netperf(n) => size = 0
      /\ ~Netperf(n) => size \in FirstSize(n) .. Sizes /\ FirstSize(n) \in 1 .. Sizes
  <2>1. size \in Nat /\ n \in Nat /\ (Netperf(n) => size = 0)
    BY <1>b, <1>1, Testcases DEF TypesInv, SizesInv
  <2>2. ~Netperf(n) => /\ size \in FirstSize(n) .. Sizes + 1 /\ size # Sizes + 1
                       /\ FirstSize(n) \in 1 .. Sizes
    BY <1>b, <1>1, Testcases DEF SizesInv
  <2> QED
    BY <2>1, <2>2 DEF IsBenchmark
<1>4. item' \in [Workers -> Nat \X Nat] /\ <<n, size>> \in Points
  <2>1. size \in SizeRange
    BY <1>3 DEF SizeRange, IsBenchmark
  <2> QED
    BY <1>1, <1>2, <1>3, <2>1 DEF TypesInv, Points
<1>5. known' = [known EXCEPT ![w] = "busy"] /\ DOMAIN known' = DOMAIN known
      /\ known' \in [DOMAIN known' -> {"idle", "busy"}]
  BY <1>2 DEF TypesInv
<1>6. /\ \A m \in JobNumbers : m # n \/ Netperf(m) => testcases'[m] = testcases[m]
      /\ ~Netperf(n) => testcases'[n] = [size |-> size + 1, finished |-> size + 1 > Sizes]
      /\ testcases' \in [JobNumbers -> [size : Nat, finished : BOOLEAN]]
  <2>0. testcases \in [JobNumbers -> [size : Nat, finished : BOOLEAN]]
    BY DEF TypesInv
  <2>1. CASE Netperf(n)
    BY <1>2, <2>0, <2>1
  <2>2. CASE ~Netperf(n)
    <3>1. testcases' = [testcases EXCEPT ![n] = [size |-> size + 1, finished |-> size + 1 > Sizes]]
      BY <1>2, <2>2
    <3>2. [size |-> size + 1, finished |-> size + 1 > Sizes] \in [size : Nat, finished : BOOLEAN]
      BY <1>3
    <3>3. \A m \in JobNumbers : Netperf(m) => m # n
      BY <2>2
    <3> QED
      BY <1>1, <2>0, <2>2, <3>1, <3>2, <3>3
  <2> QED
    BY <2>1, <2>2
<1>7. SizesInv'
  <2> SUFFICES ASSUME NEW m \in JobNumbers
               PROVE  IF Netperf(m) THEN testcases'[m].size = 0
                      ELSE /\ testcases'[m].size \in FirstSize(m) .. Sizes + 1
                           /\ testcases'[m].size = Sizes + 1 => testcases'[m].finished
    BY DEF SizesInv
  <2>1. CASE m # n \/ Netperf(m)
    BY <1>6, <2>1 DEF SizesInv
  <2>2. CASE m = n /\ ~Netperf(m)
    <3>1. testcases'[m].size = size + 1 /\ testcases'[m].finished = (size + 1 > Sizes)
      BY <1>6, <2>2
    <3>2. size \in FirstSize(m) .. Sizes /\ FirstSize(m) \in 1 .. Sizes
      BY <1>3, <2>2
    <3>3. size + 1 \in FirstSize(m) .. Sizes + 1 /\ (size + 1 = Sizes + 1 => size + 1 > Sizes)
      BY <3>2 DEF IsBenchmark
    <3> QED
      BY <2>2, <3>1, <3>3
  <2> QED
    BY <2>1, <2>2
<1>8. Netperf(n) => testcases' = testcases
  BY <1>2
<1> QED
  BY <1>a, <1>b, <1>1, <1>2, <1>3, <1>4, <1>5, <1>6, <1>7, <1>8

(* TypesInv and SizesInv are inductive.                                    *)
LEMMA TypesStep ==
    ASSUME IsBenchmark, TypesInv, SizesInv, [NetPerfNext]_netPerfVars
    PROVE  TypesInv' /\ SizesInv'
<1> USE DEF launch, orchestrator, outputs
<1>1. CASE Cleanup
  <2>1. PICK keptOrchestrator \in BOOLEAN, keptWorkers \in SUBSET Workers :
          /\ survived' = keptOrchestrator
          /\ worker' = [w \in Workers |-> IF w \in keptWorkers THEN worker[w] ELSE "down"]
          /\ IF keptOrchestrator
             THEN conn' = conn \cap keptWorkers /\ UNCHANGED <<generation, outputs>>
             ELSE conn' = {} /\ generation' = 0 /\ late' = NoPoints /\ overtaken' = FALSE
    BY <1>1 DEF Cleanup
  <2>2. UNCHANGED <<known, testcases, currentJobIndex, dataPoints, flushed, item, lost>>
    BY <1>1 DEF Cleanup
  <2>3. late' \in [Points -> Nat] /\ overtaken' \in BOOLEAN /\ conn' \subseteq conn
    <3>1. CASE keptOrchestrator
      BY <2>1, <3>1 DEF TypesInv
    <3>2. CASE ~keptOrchestrator
      <4>1. conn' = {} /\ late' = NoPoints /\ overtaken' = FALSE
        BY <2>1, <3>2
      <4> QED
        BY <4>1 DEF NoPoints
    <3> QED
      BY <3>1, <3>2
  <2>4. worker' \in [Workers -> WorkerStates]
    BY <2>1 DEF TypesInv, WorkerStates
  <2>5. \A w \in Workers : Client(w)' => Client(w)
    BY <2>1, <2>3 DEF Client
  <2>6. TypesInv'
    BY <2>1, <2>2, <2>3, <2>4, <2>5 DEF TypesInv
  <2> QED
    BY <2>2, <2>6 DEF SizesInv
<1>2. CASE CreateServices \/ CreateFails \/ FetchResults \/ DiskChanges
  BY <1>2 DEF CreateServices, CreateFails, FetchResults, DiskChanges, TypesInv, SizesInv, Client
<1>3. CASE CreateRCs
  <2>1. /\ worker' = [w \in Workers |-> IF worker[w] = "down" THEN "up" ELSE worker[w]]
        /\ UNCHANGED <<survived, conn, item>>
    BY <1>3 DEF CreateRCs
  <2>2. worker' \in [Workers -> WorkerStates]
    BY <2>1 DEF TypesInv, WorkerStates
  <2>3. \A w \in Workers : Client(w)' => Client(w)
    BY <2>1 DEF Client
  <2>4. CASE survived
    BY <1>3, <2>1, <2>2, <2>3, <2>4 DEF CreateRCs, TypesInv, SizesInv
  <2>5. CASE ~survived
    <3>1. /\ known' = NoWorkers /\ testcases' = Fresh /\ currentJobIndex' = 1
          /\ dataPoints' = NoPoints /\ flushed' = FALSE
          /\ late' = NoPoints /\ overtaken' = FALSE /\ lost' = {}
      BY <1>3, <2>5 DEF CreateRCs
    <3>2. testcases' \in [JobNumbers -> [size : Nat, finished : BOOLEAN]]
      BY <3>1, Testcases DEF Fresh, IsBenchmark, FirstSize
    <3>3. dataPoints' \in [Points -> Nat] /\ late' \in [Points -> Nat]
      BY <3>1 DEF NoPoints
    <3>4. known' \in [DOMAIN known' -> {"idle", "busy"}] /\ DOMAIN known' \subseteq Workers
      BY <3>1 DEF NoWorkers
    <3>5. SizesInv'
      <4> SUFFICES ASSUME NEW n \in JobNumbers
                   PROVE  IF Netperf(n) THEN testcases'[n].size = 0
                          ELSE /\ testcases'[n].size \in FirstSize(n) .. Sizes + 1
                               /\ testcases'[n].size # Sizes + 1
        BY DEF SizesInv
      <4>1. testcases'[n].size = FirstSize(n)
        BY <3>1 DEF Fresh
      <4> QED
        BY <4>1, Testcases DEF IsBenchmark
    <3> QED
      BY <2>1, <2>2, <2>3, <3>1, <3>2, <3>3, <3>4, <3>5 DEF TypesInv
  <2> QED
    BY <2>4, <2>5
<1>4. CASE OrchestratorRestarts
  <2>1. FreshState'
    BY <1>4 DEF OrchestratorRestarts, FreshState, TypesInv
  <2> QED
    BY <2>1, FreshTablesNext
<1>5. ASSUME NEW p \in Points, ReceiveLate(p) PROVE TypesInv' /\ SizesInv'
  <2>1. JobNumbers # {} /\ Book(Cases[p[1]].kind)
    BY <1>5 DEF ReceiveLate, Points
  <2>2. /\ dataPoints' \in [Points -> Nat]
        /\ testcases' \in [JobNumbers -> [size : Nat, finished : BOOLEAN]] /\ SizesInv'
    BY <2>1, BookTypes
  <2>3. late' \in [Points -> Nat]
    BY <1>5 DEF ReceiveLate, TypesInv
  <2> QED
    BY <1>5, <2>2, <2>3 DEF ReceiveLate, TypesInv, Client
<1>6. ASSUME NEW w \in Workers, Register(w) PROVE TypesInv' /\ SizesInv'
  <2>0. /\ worker[w] \in {"up", "cooldown"} /\ conn' = conn \cup {w}
        /\ UNCHANGED <<launch, generation, dataPoints, late, lost>>
    BY <1>6 DEF Register
  <2>1. CASE w \notin DOMAIN known
    <3>1. /\ known' = [v \in DOMAIN known \cup {w} |-> IF v = w THEN "idle" ELSE known[v]]
          /\ worker' = [worker EXCEPT ![w] = "up"]
          /\ UNCHANGED <<testcases, currentJobIndex, flushed, item, overtaken>>
      BY <1>6, <2>1 DEF Register
    <3>2. \A v \in Workers : Client(v)' => Client(v)
      BY <2>0, <3>1 DEF Client, TypesInv
    <3>3. worker' \in [Workers -> WorkerStates]
      BY <3>1 DEF TypesInv, WorkerStates
    <3>4. known' \in [DOMAIN known' -> {"idle", "busy"}] /\ DOMAIN known' \subseteq Workers
      BY <3>1 DEF TypesInv
    <3> QED
      BY <2>0, <3>1, <3>2, <3>3, <3>4 DEF TypesInv, SizesInv
  <2>2. CASE w \in DOMAIN known /\ CanAllocate(w, [known EXCEPT ![w] = "idle"])
    <3>1. /\ Allocate(w, [known EXCEPT ![w] = "idle"]) /\ UNCHANGED flushed
          /\ overtaken' = (overtaken \/ late # NoPoints) /\ Unfinished # {}
      BY <1>6, <2>2 DEF Register, CanAllocate
    <3>2. /\ First \in JobNumbers /\ currentJobIndex' = First
          /\ worker' = [worker EXCEPT ![w] = "client"]
          /\ item' = [item EXCEPT ![w] = <<First, testcases[First].size>>]
          /\ item' \in [Workers -> Nat \X Nat] /\ <<First, testcases[First].size>> \in Points
          /\ DOMAIN known' = DOMAIN known /\ known' \in [DOMAIN known' -> {"idle", "busy"}]
          /\ testcases' \in [JobNumbers -> [size : Nat, finished : BOOLEAN]]
          /\ SizesInv'
      BY <2>2, <3>1, AllocateTypes
    <3>3. worker' \in [Workers -> WorkerStates]
      BY <3>2 DEF TypesInv, WorkerStates
    <3>4. \A v \in Workers : Client(v)' => item'[v] \in Points
      BY <2>0, <3>2 DEF Client, TypesInv
    <3>5. overtaken' \in BOOLEAN
      BY <3>1
    <3> QED
      BY <2>0, <3>1, <3>2, <3>3, <3>4, <3>5 DEF TypesInv
  <2>3. CASE w \in DOMAIN known /\ ~CanAllocate(w, [known EXCEPT ![w] = "idle"])
    <3>1. /\ known' = [known EXCEPT ![w] = "idle"] /\ worker' = [worker EXCEPT ![w] = "up"]
          /\ flushed' \in BOOLEAN /\ overtaken' \in BOOLEAN
          /\ UNCHANGED <<testcases, currentJobIndex, item>>
      BY <1>6, <2>3 DEF Register
    <3>2. \A v \in Workers : Client(v)' => Client(v)
      BY <2>0, <3>1 DEF Client, TypesInv
    <3>3. worker' \in [Workers -> WorkerStates]
      BY <3>1 DEF TypesInv, WorkerStates
    <3>4. known' \in [DOMAIN known' -> {"idle", "busy"}] /\ DOMAIN known' \subseteq Workers
      BY <3>1 DEF TypesInv
    <3> QED
      BY <2>0, <3>1, <3>2, <3>3, <3>4 DEF TypesInv, SizesInv
  <2> QED
    BY <2>1, <2>2, <2>3
<1>7. ASSUME NEW w \in Workers, SendOutput(w) \/ ReportFails(w) PROVE TypesInv' /\ SizesInv'
  <2>1. \A v \in Workers : Client(v)' => Client(v)
    BY <1>7 DEF SendOutput, ReportFails, Client, TypesInv
  <2>2. worker' \in [Workers -> WorkerStates]
    BY <1>7 DEF SendOutput, ReportFails, TypesInv, WorkerStates
  <2> QED
    BY <1>7, <2>1, <2>2 DEF SendOutput, ReportFails, TypesInv, SizesInv
<1>8. ASSUME NEW w \in Workers, ReceiveOutput(w) PROVE TypesInv' /\ SizesInv'
  <2>0. Client(w)
    BY <1>8 DEF ReceiveOutput, Client
  <2>1. JobNumbers # {} /\ Book(Cases[item[w][1]].kind)
    BY <1>8, <2>0 DEF ReceiveOutput, TypesInv, Points
  <2>2. /\ dataPoints' \in [Points -> Nat]
        /\ testcases' \in [JobNumbers -> [size : Nat, finished : BOOLEAN]] /\ SizesInv'
    BY <2>1, BookTypes
  <2>3. \A v \in Workers : Client(v)' => Client(v)
    BY <1>8 DEF ReceiveOutput, Client, TypesInv
  <2>4. worker' \in [Workers -> WorkerStates]
    BY <1>8 DEF ReceiveOutput, TypesInv, WorkerStates
  <2> QED
    BY <1>8, <2>2, <2>3, <2>4 DEF ReceiveOutput, TypesInv
<1>9. ASSUME NEW w \in Workers, WorkerRestarts(w) PROVE TypesInv' /\ SizesInv'
  <2>1. \A v \in Workers : Client(v)' => Client(v)
    BY <1>9 DEF WorkerRestarts, Client, TypesInv
  <2>2. worker' \in [Workers -> WorkerStates] /\ conn' \subseteq Workers
    BY <1>9 DEF WorkerRestarts, TypesInv, WorkerStates
  <2>3. late' \in [Points -> Nat] /\ lost' \subseteq Nat \X Nat
    BY <1>9 DEF WorkerRestarts, TypesInv, Client
  <2> QED
    BY <1>9, <2>1, <2>2, <2>3 DEF WorkerRestarts, TypesInv, SizesInv
<1>10. CASE UNCHANGED netPerfVars
  BY <1>10 DEF netPerfVars, TypesInv, SizesInv, Client
<1> QED
  BY <1>1, <1>2, <1>3, <1>4, <1>5, <1>6, <1>7, <1>8, <1>9, <1>10
     DEF NetPerfNext, LaunchStep, WorkerStep

-----------------------------------------------------------------------------
(* The work of a live orchestrator.                                        *)

(* Steps in which no item is handed out, booked or lost.                   *)
LEMMA QuietStep ==
    ASSUME WorkInv, UNCHANGED <<testcases, dataPoints, lost, currentJobIndex>>,
           \A p \in Points : Measured(p)' <=> Measured(p)
    PROVE  /\ TablesInv' /\ CurrentInv' /\ PointsInv'
           /\ Current' = Current /\ Unfinished' = Unfinished /\ (Pending' <=> Pending)
<1>1. \A n \in JobNumbers : HandedOut(n)' = HandedOut(n)
  BY DEF HandedOut
<1>2. Current' = Current /\ Unfinished' = Unfinished /\ (Pending' <=> Pending)
  BY DEF Current, Unfinished, Pending
<1>3. TablesInv'
  BY DEF WorkInv, TablesInv
<1>4. CurrentInv'
  BY <1>2 DEF WorkInv, CurrentInv
<1>5. PointsInv'
  <2> SUFFICES ASSUME NEW n \in JobNumbers, NEW s \in SizeRange
               PROVE  IF Netperf(n)
                      THEN dataPoints[<<n, s>>] = IF s = 0 /\ testcases[n].finished THEN 1 ELSE 0
                      ELSE /\ <<n, s>> \in lost => s \in HandedOut(n)
                           /\ dataPoints[<<n, s>>] =
                                 IF s \in HandedOut(n) /\ <<n, s>> \notin lost
                                      /\ ~Measured(<<n, s>>)'
                                 THEN 1 ELSE 0
    BY <1>1 DEF PointsInv
  <2>1. Measured(<<n, s>>)' <=> Measured(<<n, s>>)
    BY DEF Points
  <2> QED
    BY <2>1 DEF WorkInv, PointsInv
<1> QED
  BY <1>2, <1>3, <1>4, <1>5

LEMMA SameMeasured ==
    ASSUME UNCHANGED <<late, item>>, \A w \in Workers : Client(w)' <=> Client(w)
    PROVE  \A p \in Points : Measured(p)' <=> Measured(p)
  BY DEF Measured

(* Steps of the launcher, a worker that sends, a restart of an idle one.   *)
LEMMA IdleStep ==
    ASSUME WorkInv, UNCHANGED <<known, testcases, currentJobIndex, dataPoints, flushed, item, lost, late>>,
           conn' \subseteq conn, \A w \in Workers : Client(w)' <=> Client(w)
    PROVE  WorkInv'
<1>1. /\ TablesInv' /\ CurrentInv' /\ PointsInv'
      /\ Current' = Current /\ Unfinished' = Unfinished /\ (Pending' <=> Pending)
  BY SameMeasured, QuietStep
<1>2. ClientInv' /\ LateInv' /\ FlushInv'
  BY <1>1 DEF WorkInv, ClientInv, LateInv, FlushInv
<1> QED
  BY <1>1, <1>2 DEF WorkInv

(* At most one worker has an item of this orchestrator.                    *)
LEMMA OneClient ==
    ASSUME WorkInv, NEW v \in Workers, NEW w \in Workers, Client(v), Client(w)
    PROVE  v = w
  BY DEF WorkInv, ClientInv, Client

(* The item whose output is still to come.                                 *)
LEMMA PendingItem ==
    ASSUME IsBenchmark, TypesInv, SizesInv, WorkInv, Pending
    PROVE  LET n == currentJobIndex
               s == IF Netperf(n) THEN 0 ELSE testcases[n].size - 1
           IN /\ n \in JobNumbers /\ s \in SizeRange /\ Current = <<n, s>> /\ <<n, s>> \in Points
              /\ Netperf(n) => ~testcases[n].finished
              /\ ~Netperf(n) => s \in HandedOut(n) /\ <<n, s>> \notin lost
              /\ \A p \in Points : Measured(p) <=> p = <<n, s>>
              /\ ~flushed
<1> DEFINE n == currentJobIndex
           s == IF Netperf(n) THEN 0 ELSE testcases[n].size - 1
<1>1. n \in JobNumbers /\ Current = <<n, s>>
  BY DEF WorkInv, CurrentInv, Current
<1>2. ASSUME ~Netperf(n) PROVE s \in 0 .. Sizes /\ s \in HandedOut(n) /\ <<n, s>> \notin lost
  <2>1. testcases[n].size > FirstSize(n) /\ <<n, s>> \notin lost
    BY <1>1, <1>2 DEF WorkInv, CurrentInv
  <2>2. testcases[n].size \in FirstSize(n) .. Sizes + 1 /\ FirstSize(n) \in 1 .. Sizes
    BY <1>1, <1>2, Testcases DEF SizesInv
  <2>3. s = testcases[n].size - 1
    BY <1>2
  <2> QED
    BY <2>1, <2>2, <2>3 DEF HandedOut, IsBenchmark
<1>3. s \in SizeRange
  BY <1>2 DEF SizeRange, IsBenchmark
<1>4. <<n, s>> \in Points
  BY <1>1, <1>3 DEF Points
<1>5. Netperf(n) => ~testcases[n].finished
  BY DEF WorkInv, CurrentInv
<1>6. \A p \in Points : Measured(p) => p = Current
  BY DEF WorkInv, ClientInv, LateInv, Measured
<1>7. \A p \in Points : Measured(p) <=> p = <<n, s>>
  BY <1>1, <1>6 DEF Pending
<1>8. ~flushed
  BY DEF WorkInv, FlushInv
<1> QED
  BY <1>1, <1>2, <1>3, <1>4, <1>5, <1>7, <1>8

(* The item of a client.                                                   *)
LEMMA ClientItem ==
    ASSUME TypesInv, WorkInv, NEW w \in Workers, Client(w)
    PROVE  /\ Pending /\ item[w] = Current /\ item[w] \in Points
           /\ \A p \in Points : late[p] = 0
<1>1. item[w] \in Points
  BY DEF TypesInv
<1>2. Measured(item[w])
  BY DEF Measured
<1> QED
  BY <1>1, <1>2 DEF Pending, WorkInv, ClientInv

(* The only output that is to come is booked on the item it was measured   *)
(* for.                                                                    *)
LEMMA Booked ==
    ASSUME IsBenchmark, TypesInv, SizesInv, WorkInv, Pending, Book(Cases[currentJobIndex].kind),
           UNCHANGED <<known, currentJobIndex, flushed, item, lost, conn>>,
           \A v \in Workers : ~Client(v)', \A p \in Points : late'[p] = 0
    PROVE  WorkInv'
<1> DEFINE n == currentJobIndex
           s == IF Netperf(n) THEN 0 ELSE testcases[n].size - 1
<1>1. /\ n \in JobNumbers /\ s \in SizeRange /\ <<n, s>> \in Points
      /\ Netperf(n) => ~testcases[n].finished
      /\ ~Netperf(n) => s \in HandedOut(n) /\ <<n, s>> \notin lost
      /\ \A p \in Points : Measured(p) <=> p = <<n, s>>
      /\ ~flushed
  BY PendingItem
<1>2. /\ dataPoints' = [dataPoints EXCEPT ![<<n, s>>] = @ + 1]
      /\ testcases' = IF Netperf(n) THEN [testcases EXCEPT ![n].finished = TRUE] ELSE testcases
  BY <1>1 DEF Book, Netperf
<1> HIDE DEF n, s
<1>3. \A p \in Points : ~Measured(p)'
  BY DEF Measured
<1>4. ASSUME NEW m \in JobNumbers
      PROVE  /\ testcases'[m].size = testcases[m].size
             /\ ~Netperf(m) \/ m # n => testcases'[m] = testcases[m]
             /\ Netperf(m) /\ m = n => testcases'[m].finished
  BY <1>1, <1>2 DEF TypesInv
<1>5. TablesInv'
  BY <1>4 DEF WorkInv, TablesInv
<1>6. ClientInv' /\ LateInv' /\ CurrentInv' /\ FlushInv'
  BY <1>1, <1>3 DEF WorkInv, ClientInv, LateInv, CurrentInv, FlushInv, Pending
<1>7. PointsInv'
  <2> SUFFICES ASSUME NEW m \in JobNumbers, NEW t \in SizeRange
               PROVE  IF Netperf(m)
                      THEN dataPoints'[<<m, t>>] = IF t = 0 /\ testcases'[m].finished THEN 1 ELSE 0
                      ELSE /\ <<m, t>> \in lost => t \in HandedOut(m)'
                           /\ dataPoints'[<<m, t>>] =
                                 IF t \in HandedOut(m)' /\ <<m, t>> \notin lost
                                      /\ ~Measured(<<m, t>>)'
                                 THEN 1 ELSE 0
    BY DEF PointsInv
  <2>1. <<m, t>> \in Points /\ ~Measured(<<m, t>>)'
    BY <1>3 DEF Points
  <2>2. HandedOut(m)' = HandedOut(m)
    BY <1>4 DEF HandedOut
  <2>3. IF Netperf(m)
        THEN dataPoints[<<m, t>>] = IF t = 0 /\ testcases[m].finished THEN 1 ELSE 0
        ELSE /\ <<m, t>> \in lost => t \in HandedOut(m)
             /\ dataPoints[<<m, t>>] =
                   IF t \in HandedOut(m) /\ <<m, t>> \notin lost /\ ~Measured(<<m, t>>)
                   THEN 1 ELSE 0
    BY DEF WorkInv, PointsInv
  <2>4. CASE m = n /\ t = s
    <3>1. dataPoints'[<<m, t>>] = dataPoints[<<m, t>>] + 1
      BY <1>2, <2>1, <2>4 DEF TypesInv
    <3>2. CASE Netperf(m)
      <4>1. t = 0
        BY <2>4, <3>2 DEF s
      <4> QED
        BY <1>1, <1>4, <2>3, <2>4, <3>1, <3>2, <4>1
    <3>3. CASE ~Netperf(m)
      BY <1>1, <2>1, <2>2, <2>3, <2>4, <3>1, <3>3
    <3> QED
      BY <3>2, <3>3
  <2>5. CASE ~(m = n /\ t = s)
    <3>1. dataPoints'[<<m, t>>] = dataPoints[<<m, t>>] /\ ~Measured(<<m, t>>)
      BY <1>1, <1>2, <2>1, <2>5 DEF TypesInv
    <3>2. CASE Netperf(m)
      <4>1. m = n => t # 0
        BY <2>5, <3>2 DEF s
      <4> QED
        BY <1>4, <2>3, <3>1, <3>2, <4>1
    <3>3. CASE ~Netperf(m)
      BY <2>1, <2>2, <2>3, <3>1, <3>3
    <3> QED
      BY <3>2, <3>3
  <2> QED
    BY <2>4, <2>5
<1> QED
  BY <1>5, <1>6, <1>7 DEF WorkInv

(* A worker dies with its item, or leaves its output on the way.           *)
LEMMA LoseStep ==
    ASSUME IsBenchmark, TypesInv, SizesInv, WorkInv, NEW w \in Workers, Client(w),
           worker' = [worker EXCEPT ![w] = "up"], conn' = conn \ {w},
           \/ lost' = lost \cup {item[w]} /\ UNCHANGED late
           \/ late' = [late EXCEPT ![item[w]] = @ + 1] /\ UNCHANGED lost,
           UNCHANGED <<known, testcases, currentJobIndex, dataPoints, flushed, item>>
    PROVE  WorkInv'
<1> DEFINE n == currentJobIndex
           s == IF Netperf(n) THEN 0 ELSE testcases[n].size - 1
<1>0. Pending /\ item[w] = Current /\ item[w] \in Points /\ \A p \in Points : late[p] = 0
  BY ClientItem
<1>1. /\ n \in JobNumbers /\ s \in SizeRange /\ Current = <<n, s>> /\ <<n, s>> \in Points
      /\ ~Netperf(n) => s \in HandedOut(n)
      /\ \A p \in Points : Measured(p) <=> p = <<n, s>>
      /\ ~flushed
  BY <1>0, PendingItem
<1> HIDE DEF n, s
<1>2. \A v \in Workers : ~Client(v)'
  <2> SUFFICES ASSUME NEW v \in Workers, Client(v)' PROVE FALSE
    OBVIOUS
  <2>1. v # w /\ Client(v)
    BY DEF Client, TypesInv
  <2> QED
    BY <2>1, OneClient
<1>3. ClientInv'
  BY <1>2 DEF WorkInv, ClientInv
<1>4. FlushInv'
  BY <1>1 DEF FlushInv
<1>5. CASE lost' = lost \cup {item[w]} /\ UNCHANGED late
  <2>1. \A m \in JobNumbers : HandedOut(m)' = HandedOut(m)
    BY DEF HandedOut
  <2>2. \A p \in Points : ~Measured(p)'
    BY <1>0, <1>2, <1>5 DEF Measured
  <2>3. \A p : p \in lost' <=> p \in lost \/ p = <<n, s>>
    BY <1>0, <1>1, <1>5
  <2>4. PointsInv'
    <3> SUFFICES ASSUME NEW m \in JobNumbers, NEW t \in SizeRange
                 PROVE  IF Netperf(m)
                        THEN dataPoints[<<m, t>>] = IF t = 0 /\ testcases[m].finished THEN 1 ELSE 0
                        ELSE /\ <<m, t>> \in lost' => t \in HandedOut(m)
                             /\ dataPoints[<<m, t>>] =
                                   IF t \in HandedOut(m) /\ <<m, t>> \notin lost'
                                        /\ ~Measured(<<m, t>>)'
                                   THEN 1 ELSE 0
      BY <2>1 DEF PointsInv
    <3>1. <<m, t>> \in Points
      BY DEF Points
    <3> QED
      BY <1>1, <2>2, <2>3, <3>1 DEF WorkInv, PointsInv
  <2>5. TablesInv' /\ LateInv' /\ CurrentInv'
    BY <1>0, <1>5, <2>2 DEF WorkInv, TablesInv, LateInv, CurrentInv, Pending
  <2> QED
    BY <1>3, <1>4, <2>4, <2>5 DEF WorkInv
<1>6. CASE late' = [late EXCEPT ![item[w]] = @ + 1] /\ UNCHANGED lost
  <2>1. \A p \in Points : late'[p] = IF p = <<n, s>> THEN 1 ELSE 0
    BY <1>0, <1>1, <1>6 DEF TypesInv
  <2>2. \A p \in Points : Measured(p)' <=> Measured(p)
    BY <1>1, <1>2, <2>1 DEF Measured
  <2>3. TablesInv' /\ CurrentInv' /\ PointsInv' /\ Current' = Current
    BY <1>6, <2>2, QuietStep
  <2>4. LateInv'
    BY <1>1, <2>1, <2>3 DEF LateInv
  <2> QED
    BY <1>3, <1>4, <2>3, <2>4 DEF WorkInv
<1> QED
  BY <1>5, <1>6

(* A worker the orchestrator has not met registers.                        *)
LEMMA NewWorkerStep ==
    ASSUME TypesInv, WorkInv, NEW w \in Workers, worker[w] \in {"up", "cooldown"}, w \notin DOMAIN known,
           known' = [v \in DOMAIN known \cup {w} |-> IF v = w THEN "idle" ELSE known[v]],
           conn' = conn \cup {w}, worker' = [worker EXCEPT ![w] = "up"],
           UNCHANGED <<testcases, currentJobIndex, flushed, item, dataPoints, lost, late>>
    PROVE  WorkInv'
<1>1. \A v \in Workers : Client(v)' <=> Client(v)
  BY DEF Client, TypesInv
<1>2. /\ TablesInv' /\ CurrentInv' /\ PointsInv'
      /\ Current' = Current /\ Unfinished' = Unfinished /\ (Pending' <=> Pending)
  BY <1>1, SameMeasured, QuietStep
<1>3. ClientInv'
  <2>1. \A v \in DOMAIN known' : known'[v] = "busy" => v \in DOMAIN known /\ known[v] = "busy"
    OBVIOUS
  <2>2. \A v \in DOMAIN known : known'[v] = known[v]
    OBVIOUS
  <2>3. \A v \in Workers : Client(v)' => known'[v] = "busy"
    BY <1>1, <2>2 DEF WorkInv, ClientInv, Client
  <2>4. conn' \subseteq DOMAIN known'
    BY DEF WorkInv, ClientInv
  <2>5. \A u, v \in DOMAIN known' : known'[u] = "busy" /\ known'[v] = "busy" => u = v
    BY <2>1 DEF WorkInv, ClientInv
  <2> QED
    BY <1>1, <1>2, <2>3, <2>4, <2>5 DEF WorkInv, ClientInv
<1>4. LateInv' /\ FlushInv'
  BY <1>2 DEF WorkInv, LateInv, FlushInv
<1> QED
  BY <1>2, <1>3, <1>4 DEF WorkInv

(* A known worker registers and gets nothing to do.                        *)
LEMMA NoWorkStep ==
    ASSUME TypesInv, WorkInv, NEW w \in Workers, worker[w] \in {"up", "cooldown"}, w \in DOMAIN known,
           known' = [known EXCEPT ![w] = "idle"],
           conn' = conn \cup {w}, worker' = [worker EXCEPT ![w] = "up"],
           flushed' = (flushed \/ (AllWorkersIdle([known EXCEPT ![w] = "idle"]) /\ Unfinished = {})),
           flushed' => late = NoPoints,
           UNCHANGED <<testcases, currentJobIndex, item, dataPoints, lost, late>>
    PROVE  WorkInv'
<1>1. \A v \in Workers : Client(v)' <=> Client(v)
  BY DEF Client, TypesInv
<1>2. /\ TablesInv' /\ CurrentInv' /\ PointsInv'
      /\ Current' = Current /\ Unfinished' = Unfinished /\ (Pending' <=> Pending)
  BY <1>1, SameMeasured, QuietStep
<1>3. ~Client(w)
  BY DEF Client
<1>4. ClientInv'
  <2>1. \A v \in DOMAIN known' : known'[v] = "busy" => v \in DOMAIN known /\ known[v] = "busy"
    OBVIOUS
  <2>2. \A v \in DOMAIN known : v # w => known'[v] = known[v]
    OBVIOUS
  <2>3. \A v \in Workers : Client(v)' => known'[v] = "busy"
    BY <1>1, <1>3, <2>2 DEF WorkInv, ClientInv, Client
  <2>4. conn' \subseteq DOMAIN known'
    BY DEF WorkInv, ClientInv
  <2>5. \A u, v \in DOMAIN known' : known'[u] = "busy" /\ known'[v] = "busy" => u = v
    BY <2>1 DEF WorkInv, ClientInv
  <2> QED
    BY <1>1, <1>2, <2>3, <2>4, <2>5 DEF WorkInv, ClientInv
<1>5. LateInv'
  BY <1>2 DEF WorkInv, LateInv
<1>6. FlushInv'
  <2> SUFFICES ASSUME flushed' PROVE Unfinished = {} /\ ~Pending
    BY <1>2 DEF FlushInv
  <2>1. CASE flushed
    BY <2>1 DEF WorkInv, FlushInv
  <2>2. CASE AllWorkersIdle([known EXCEPT ![w] = "idle"]) /\ Unfinished = {}
    <3>1. \A v \in DOMAIN known : v # w => known[v] = "idle"
      BY <2>2 DEF AllWorkersIdle
    <3>2. \A v \in Workers : ~Client(v)
      BY <1>3, <3>1 DEF Client, WorkInv, ClientInv
    <3>3. \A p \in Points : late[p] = 0
      BY DEF NoPoints
    <3> QED
      BY <2>2, <3>2, <3>3 DEF Pending, Measured
  <2> QED
    BY <2>1, <2>2
<1> QED
  BY <1>2, <1>4, <1>5, <1>6 DEF WorkInv

(* A worker gets the next size of the first unfinished testcase: nobody    *)
(* else has an item, and no output is on its way.                          *)
LEMMA AllocateStep ==
    ASSUME IsBenchmark, TypesInv, SizesInv, WorkInv, NEW w \in Workers, worker[w] \in {"up", "cooldown"},
           w \in DOMAIN known, CanAllocate(w, [known EXCEPT ![w] = "idle"]),
           Allocate(w, [known EXCEPT ![w] = "idle"]), conn' = conn \cup {w}, late = NoPoints,
           UNCHANGED <<flushed, dataPoints, lost, late>>
    PROVE  WorkInv'
<1>a. PICK n : n = First
  OBVIOUS
<1>b. PICK size : size = testcases[n].size
  OBVIOUS
<1>0. Unfinished # {}
  BY DEF CanAllocate
<1>1. /\ n \in JobNumbers /\ ~testcases[n].finished /\ currentJobIndex' = n
      /\ worker' = [worker EXCEPT ![w] = "client"] /\ item' = [item EXCEPT ![w] = <<n, size>>]
      /\ <<n, size>> \in Points /\ size \in 0 .. Sizes
      /\ Netperf(n) => size = 0 /\ testcases' = testcases
      /\ ~Netperf(n) =>
            /\ size \in FirstSize(n) .. Sizes
            /\ testcases'[n] = [size |-> size + 1, finished |-> size + 1 > Sizes]
      /\ \A m \in JobNumbers : m # n => testcases'[m] = testcases[m]
      /\ known' = [known EXCEPT ![w] = "busy"] /\ DOMAIN known' = DOMAIN known
  BY <1>a, <1>b, <1>0, AllocateTypes
<1>2. ASSUME ~Netperf(n)
      PROVE  /\ size \in FirstSize(n) .. Sizes /\ FirstSize(n) \in 1 .. Sizes
             /\ testcases'[n].size = size + 1 /\ testcases'[n].finished = (size + 1 > Sizes)
  BY <1>1, <1>2, Testcases
<1>3. \A v \in DOMAIN known : v # w => known[v] = "idle"
  BY DEF CanAllocate, AllWorkersIdle
<1>4. \A v \in Workers : ~Client(v)
  BY <1>3 DEF Client, WorkInv, ClientInv
<1>5. Client(w)' /\ \A v \in Workers : Client(v)' => v = w
  <2>1. worker'[w] = "client" /\ \A v \in Workers : v # w => worker'[v] = worker[v]
    BY <1>1 DEF TypesInv
  <2> QED
    BY <1>4, <2>1 DEF Client
<1>6. item'[w] = <<n, size>>
  BY <1>1 DEF TypesInv
<1>7. \A p \in Points : late[p] = 0 /\ ~Measured(p)
  BY <1>4 DEF NoPoints, Measured
<1>8. \A p \in Points : Measured(p)' <=> p = <<n, size>>
  BY <1>5, <1>6, <1>7 DEF Measured
<1>9. TablesInv'
  <2> SUFFICES ASSUME NEW m \in JobNumbers, ~Netperf(m), testcases'[m].finished
               PROVE  testcases'[m].size = Sizes + 1
    BY DEF TablesInv
  <2>1. CASE m # n
    BY <1>1, <2>1 DEF WorkInv, TablesInv
  <2>2. CASE m = n
    <3>1. size \in FirstSize(n) .. Sizes /\ FirstSize(n) \in 1 .. Sizes
          /\ testcases'[m].size = size + 1 /\ size + 1 > Sizes
      BY <1>2, <2>2
    <3> QED
      BY <3>1 DEF IsBenchmark
  <2> QED
    BY <2>1, <2>2
<1>10. ~Netperf(n) => <<n, size>> \notin lost
  <2> SUFFICES ASSUME ~Netperf(n), <<n, size>> \in lost PROVE FALSE
    OBVIOUS
  <2>1. size \in SizeRange
    BY <1>1 DEF SizeRange, IsBenchmark
  <2>2. size \in HandedOut(n)
    BY <1>1, <2>1 DEF WorkInv, PointsInv
  <2> QED
    BY <1>b, <1>2, <2>2 DEF HandedOut
<1>11. Current' = <<n, size>>
  <2>1. CASE Netperf(n)
    BY <1>1, <2>1 DEF Current
  <2>2. CASE ~Netperf(n)
    <3>1. size \in FirstSize(n) .. Sizes /\ FirstSize(n) \in 1 .. Sizes /\ testcases'[n].size = size + 1
      BY <1>2, <2>2
    <3>2. (size + 1) - 1 = size
      BY <3>1 DEF IsBenchmark
    <3> QED
      BY <1>1, <2>2, <3>1, <3>2 DEF Current
  <2> QED
    BY <2>1, <2>2
<1>12. ClientInv'
  <2>1. conn' \subseteq DOMAIN known'
    BY <1>1 DEF WorkInv, ClientInv
  <2>2. known'[w] = "busy" /\ \A v \in DOMAIN known : v # w => known'[v] = "idle"
    BY <1>1, <1>3 DEF TypesInv
  <2>3. \A u, v \in DOMAIN known' : known'[u] = "busy" /\ known'[v] = "busy" => u = v
    BY <1>1, <2>2
  <2> QED
    BY <1>5, <1>6, <1>7, <1>11, <2>1, <2>2, <2>3 DEF ClientInv
<1>13. CurrentInv'
  <2>1. Netperf(n) => ~testcases'[n].finished
    BY <1>1
  <2>2. ~Netperf(n) => testcases'[n].size > FirstSize(n)
    BY <1>2
  <2> QED
    BY <1>1, <1>10, <1>11, <2>1, <2>2 DEF CurrentInv
<1>14. LateInv' /\ FlushInv'
  BY <1>0, <1>7 DEF WorkInv, LateInv, FlushInv
<1>15. PointsInv'
  <2> SUFFICES ASSUME NEW m \in JobNumbers, NEW t \in SizeRange
               PROVE  IF Netperf(m)
                      THEN dataPoints[<<m, t>>] = IF t = 0 /\ testcases'[m].finished THEN 1 ELSE 0
                      ELSE /\ <<m, t>> \in lost => t \in HandedOut(m)'
                           /\ dataPoints[<<m, t>>] =
                                 IF t \in HandedOut(m)' /\ <<m, t>> \notin lost
                                      /\ ~Measured(<<m, t>>)'
                                 THEN 1 ELSE 0
    BY DEF PointsInv
  <2>0. <<m, t>> \in Points
    BY DEF Points
  <2>a. Measured(<<m, t>>)' <=> m = n /\ t = size
    BY <1>8, <2>0
  <2>1. IF Netperf(m)
        THEN dataPoints[<<m, t>>] = IF t = 0 /\ testcases[m].finished THEN 1 ELSE 0
        ELSE /\ <<m, t>> \in lost => t \in HandedOut(m)
             /\ dataPoints[<<m, t>>] =
                   IF t \in HandedOut(m) /\ <<m, t>> \notin lost THEN 1 ELSE 0
    BY <1>7, <2>0 DEF WorkInv, PointsInv
  <2>2. CASE Netperf(m)
    BY <1>1, <2>1, <2>2
  <2>3. CASE m # n /\ ~Netperf(m)
    <3>1. HandedOut(m)' = HandedOut(m)
      BY <1>1, <2>3 DEF HandedOut
    <3> QED
      BY <2>a, <2>1, <2>3, <3>1
  <2>4. CASE m = n /\ ~Netperf(m)
    <3>0. t \in Int
      BY DEF SizeRange, IsBenchmark
    <3>1. /\ t \in HandedOut(m) <=> t \in FirstSize(n) .. size - 1
          /\ t \in HandedOut(m)' <=> t \in FirstSize(n) .. (size + 1) - 1
      BY <1>b, <1>2, <2>4 DEF HandedOut
    <3>2. t \in HandedOut(m)' <=> t \in HandedOut(m) \/ t = size
      BY <1>2, <2>4, <3>0, <3>1 DEF IsBenchmark
    <3>3. size \notin HandedOut(m)
      BY <1>b, <1>2, <2>4 DEF HandedOut
    <3>4. CASE t = size
      BY <1>10, <2>a, <2>1, <2>4, <3>2, <3>3, <3>4
    <3>5. CASE t # size
      BY <2>a, <2>1, <2>4, <3>2, <3>5
    <3> QED
      BY <3>4, <3>5
  <2> QED
    BY <2>2, <2>3, <2>4
<1> QED
  BY <1>9, <1>12, <1>13, <1>14, <1>15 DEF WorkInv

(* Every step of a worker, of a late output, and every restart.            *)
LEMMA WorkerSteps ==
    ASSUME IsBenchmark, TypesInv, SizesInv, Live => WorkInv, NEW w \in Workers,
           WorkerStep(w) \/ WorkerRestarts(w), Live'
    PROVE  WorkInv'
<1>0. UNCHANGED <<generation, survived>> /\ (overtaken => overtaken')
  <2>1. CASE Register(w)
    <3>1. UNCHANGED <<generation, survived>>
      BY <2>1 DEF Register, launch
    <3>2. overtaken => overtaken'
      BY <2>1 DEF Register
    <3> QED
      BY <3>1, <3>2
  <2>2. CASE SendOutput(w) \/ ReceiveOutput(w) \/ ReportFails(w) \/ WorkerRestarts(w)
    BY <2>2 DEF SendOutput, ReceiveOutput, ReportFails, WorkerRestarts, launch, orchestrator, outputs
  <2> QED
    BY <2>1, <2>2 DEF WorkerStep
<1>a. WorkInv
  BY <1>0 DEF Live
<1> USE <1>a
<1>1. CASE Register(w)
  <2>1. CASE w \notin DOMAIN known
    BY <1>1, <2>1, NewWorkerStep DEF Register
  <2>2. CASE w \in DOMAIN known /\ CanAllocate(w, [known EXCEPT ![w] = "idle"])
    <3>1. late = NoPoints
      BY <1>1, <2>2 DEF Register, Live
    <3> QED
      BY <1>1, <2>2, <3>1, AllocateStep DEF Register
  <2>3. CASE w \in DOMAIN known /\ ~CanAllocate(w, [known EXCEPT ![w] = "idle"])
    <3>1. flushed' => late = NoPoints
      BY <1>1, <2>3 DEF Register, Live
    <3> QED
      BY <1>1, <2>3, <3>1, NoWorkStep DEF Register
  <2> QED
    BY <2>1, <2>2, <2>3
<1>2. CASE SendOutput(w) \/ ReportFails(w)
  <2>1. \A v \in Workers : Client(v)' <=> Client(v)
    BY <1>2 DEF SendOutput, ReportFails, Client, TypesInv
  <2> QED
    BY <1>2, <2>1, IdleStep DEF SendOutput, ReportFails, orchestrator, outputs
<1>3. CASE ReceiveOutput(w)
  <2>1. Client(w)
    BY <1>3 DEF ReceiveOutput, Client
  <2>2. Pending /\ item[w] = Current /\ \A p \in Points : late[p] = 0
    BY <2>1, ClientItem
  <2>3. Book(Cases[currentJobIndex].kind)
    BY <1>3, <2>2 DEF ReceiveOutput, Current
  <2>4. \A v \in Workers : ~Client(v)'
    <3> SUFFICES ASSUME NEW v \in Workers, Client(v)' PROVE FALSE
      OBVIOUS
    <3>1. v # w /\ Client(v)
      BY <1>3 DEF ReceiveOutput, Client, TypesInv
    <3> QED
      BY <2>1, <3>1, OneClient
  <2> QED
    BY <1>3, <2>2, <2>3, <2>4, Booked DEF ReceiveOutput, outputs
<1>4. CASE WorkerRestarts(w) /\ Client(w)
  <2>1. \/ lost' = lost \cup {item[w]} /\ UNCHANGED late
        \/ late' = [late EXCEPT ![item[w]] = @ + 1] /\ UNCHANGED lost
    BY <1>4 DEF WorkerRestarts, Client
  <2> QED
    BY <1>4, <2>1, LoseStep DEF WorkerRestarts, orchestrator
<1>5. CASE WorkerRestarts(w) /\ ~Client(w)
  <2>1. /\ worker' = [worker EXCEPT ![w] = "up"] /\ conn' = conn \ {w}
        /\ UNCHANGED <<orchestrator, item, lost, late>>
    BY <1>5 DEF WorkerRestarts, Client
  <2>2. \A v \in Workers : Client(v)' <=> Client(v)
    BY <1>5, <2>1 DEF Client, TypesInv
  <2> QED
    BY <2>1, <2>2, IdleStep DEF orchestrator
<1> QED
  BY <1>1, <1>2, <1>3, <1>4, <1>5 DEF WorkerStep

LEMMA LateOutputStep ==
    ASSUME IsBenchmark, TypesInv, SizesInv, WorkInv, NEW p \in Points, ReceiveLate(p)
    PROVE  WorkInv'
<1>1. p = Current /\ late[p] = 1 /\ Pending
  BY DEF ReceiveLate, WorkInv, LateInv, Pending, Measured, TypesInv
<1>2. \A v \in Workers : ~Client(v)
  BY <1>1 DEF WorkInv, ClientInv
<1>3. \A v \in Workers : ~Client(v)'
  BY <1>2 DEF ReceiveLate, Client
<1>4. \A q \in Points : late'[q] = 0
  <2>1. \A q \in Points : q # p => late[q] = 0
    BY <1>1 DEF WorkInv, LateInv, TypesInv
  <2> QED
    BY <1>1, <2>1 DEF ReceiveLate, TypesInv
<1>5. Book(Cases[currentJobIndex].kind)
  BY <1>1 DEF ReceiveLate, Current
<1> QED
  BY <1>1, <1>3, <1>4, <1>5, Booked DEF ReceiveLate

-----------------------------------------------------------------------------
(* The CSV of a flushed orchestrator is complete.                          *)
LEMMA FlushedIsComplete ==
    ASSUME IsBenchmark, WorkInv, flushed, NEW n \in JobNumbers, NEW s \in SizeRange
    PROVE  dataPoints[<<n, s>>] =
              IF s \notin SizesOf(n) \/ (<<n, s>> \in lost /\ Cases[n].kind # "netperf")
              THEN 0 ELSE 1
<1>1. testcases[n].finished /\ ~Measured(<<n, s>>)
  BY DEF WorkInv, FlushInv, Unfinished, Pending, Points
<1>2. CASE Netperf(n)
  BY <1>1, <1>2, Testcases DEF WorkInv, PointsInv, Netperf
<1>3. CASE ~Netperf(n)
  <2>1. testcases[n].size = Sizes + 1
    BY <1>1, <1>3 DEF WorkInv, TablesInv
  <2>2. HandedOut(n) = SizesOf(n)
    <3>1. (Sizes + 1) - 1 = Sizes
      BY DEF IsBenchmark
    <3> QED
      BY <1>3, <2>1, <3>1, Testcases DEF HandedOut
  <2> QED
    BY <1>1, <1>3, <2>2 DEF WorkInv, PointsInv, Netperf
<1> QED
  BY <1>2, <1>3

(* Steps that are not the launcher's.                                      *)
LEMMA LaunchFrame ==
    ASSUME LaunchInv, ResultsComplete,
           UNCHANGED <<launcher, iteration, results, survived, generation>>,
           generation = 0 => conn' = {}
    PROVE  LaunchInv' /\ ResultsComplete'
<1>1. LaunchInv'
  BY DEF LaunchInv
<1>2. ResultsComplete'
  BY DEF ResultsComplete
<1> QED
  BY <1>1, <1>2

(* The launcher reads the CSV of its own iteration, or of an orchestrator  *)
(* that survived.                                                          *)
LEMMA FetchStep ==
    ASSUME IsBenchmark, IndInv, FetchResults
    PROVE  LaunchInv' /\ ResultsComplete'
<1> DEFINE r == [generation |-> generation, points |-> dataPoints, lost |-> lost,
                 survived |-> survived, overtaken |-> overtaken]
<1>1. /\ iteration \in 1 .. Iterations /\ Len(results) = iteration - 1
      /\ generation # 0 /\ (survived \/ generation = iteration) /\ results \in Seq(Csv)
      /\ generation \in 0 .. Iterations
  BY DEF IndInv, LaunchInv, FetchResults, IsBenchmark
<1>2. r \in Csv
  BY <1>1 DEF IndInv, TypesInv, Csv, IsBenchmark
<1>3. results' = Append(results, r) /\ iteration' = iteration + 1 /\ launcher' = "cleanup"
      /\ UNCHANGED <<generation, conn, survived>>
  BY DEF FetchResults, orchestrator
<1>4. /\ r.generation = generation /\ r.points = dataPoints /\ r.lost = lost
      /\ r.survived = survived /\ r.overtaken = overtaken
  OBVIOUS
<1> HIDE DEF r
<1>5. /\ results' \in Seq(Csv) /\ Len(results') = Len(results) + 1 /\ Len(results) \in Nat
      /\ \A i \in 1 .. Len(results) : results'[i] = results[i]
      /\ results'[Len(results) + 1] = r
  BY <1>1, <1>2, <1>3
<1>6. LaunchInv'
  BY <1>1, <1>3, <1>5 DEF IndInv, LaunchInv, IsBenchmark
<1>7. ResultsComplete'
  <2> SUFFICES ASSUME NEW i \in 1 .. Len(results'), ~results'[i].survived
               PROVE  /\ results'[i].generation = i
                      /\ ~results'[i].overtaken =>
                            \A n \in JobNumbers : \A s \in SizeRange :
                               results'[i].points[<<n, s>>] =
                                  IF s \notin SizesOf(n) \/ (<<n, s>> \in results'[i].lost
                                                               /\ Cases[n].kind # "netperf")
                                  THEN 0 ELSE 1
    BY DEF ResultsComplete
  <2>1. CASE i \in 1 .. Len(results)
    BY <1>5, <2>1 DEF IndInv, ResultsComplete
  <2>2. CASE i = Len(results) + 1
    <3>1. results'[i] = r /\ i = iteration /\ flushed
      BY <1>1, <1>5, <2>2 DEF FetchResults
    <3>2. ~survived /\ r.generation = i
      BY <1>1, <1>4, <3>1
    <3>3. ASSUME ~overtaken PROVE WorkInv
      BY <1>1, <3>2, <3>3 DEF IndInv, Live
    <3> QED
      BY <1>4, <3>1, <3>2, <3>3, FlushedIsComplete
  <2> QED
    BY <1>5, <2>1, <2>2
<1> QED
  BY <1>6, <1>7

(* cleanup leaves no live orchestrator: it is deleted, or survives.        *)
LEMMA CleanupStep ==
    ASSUME IsBenchmark, LaunchInv, ResultsComplete, Cleanup
    PROVE  LaunchInv' /\ ResultsComplete' /\ ~Live'
<1>1. PICK keptOrchestrator \in BOOLEAN, keptWorkers \in SUBSET Workers :
          /\ keptOrchestrator => generation # 0
          /\ survived' = keptOrchestrator
          /\ IF keptOrchestrator
             THEN conn' = conn \cap keptWorkers /\ UNCHANGED <<generation, outputs>>
             ELSE conn' = {} /\ generation' = 0 /\ late' = NoPoints /\ overtaken' = FALSE
  BY DEF Cleanup
<1>2. /\ launcher = "cleanup" /\ UNCHANGED <<iteration, results>>
      /\ launcher' = IF iteration > Iterations THEN "done" ELSE "services"
  BY DEF Cleanup
<1>3. ResultsComplete'
  BY <1>2 DEF ResultsComplete
<1>4. /\ survived' <=> generation' # 0
      /\ generation' \in 0 .. Iterations /\ (generation' = 0 => conn' = {})
  <2>1. CASE keptOrchestrator
    BY <1>1, <2>1 DEF LaunchInv
  <2>2. CASE ~keptOrchestrator
    BY <1>1, <2>2 DEF IsBenchmark
  <2> QED
    BY <2>1, <2>2
<1>5. LaunchInv'
  BY <1>2, <1>4 DEF LaunchInv, IsBenchmark
<1> QED
  BY <1>3, <1>4, <1>5 DEF Live

(* The orchestrator of a new iteration is new, or survived.                *)
LEMMA CreateStep ==
    ASSUME IsBenchmark, LaunchInv, TypesInv, ResultsComplete, CreateRCs
    PROVE  LaunchInv' /\ ResultsComplete' /\ (Live' => FreshState')
<1>1. /\ launcher = "rcs" /\ launcher' = "results" /\ UNCHANGED <<iteration, results, survived, conn, item>>
      /\ worker' = [w \in Workers |-> IF worker[w] = "down" THEN "up" ELSE worker[w]]
  BY DEF CreateRCs
<1>2. iteration \in 1 .. Iterations /\ (survived <=> generation # 0) /\ (~survived => conn = {})
  BY <1>1 DEF LaunchInv, IsBenchmark
<1>3. ResultsComplete'
  BY <1>1 DEF ResultsComplete
<1>4. CASE survived
  <2>1. UNCHANGED generation
    BY <1>4 DEF CreateRCs, orchestrator
  <2> QED
    BY <1>1, <1>2, <1>3, <1>4, <2>1 DEF LaunchInv, IsBenchmark, Live
<1>5. CASE ~survived
  <2>1. generation' = iteration
    BY <1>5 DEF CreateRCs
  <2>2. worker' \in [Workers -> WorkerStates]
    BY <1>1 DEF TypesInv, WorkerStates
  <2>3. FreshState'
    BY <1>1, <1>2, <1>5, <2>2 DEF CreateRCs, FreshState, TypesInv
  <2> QED
    BY <1>1, <1>2, <1>3, <1>5, <2>1, <2>3 DEF LaunchInv, IsBenchmark
<1> QED
  BY <1>4, <1>5

(* Steps that leave the pods alone.                                        *)
LEMMA PodsFrame ==
    ASSUME Live => WorkInv, UNCHANGED <<orchestrator, outputs, survived, worker, conn, item, lost>>
    PROVE  Live' => WorkInv'
<1>1. \A w \in Workers : Client(w)' <=> Client(w)
  BY DEF Client
<1> QED
  BY <1>1, IdleStep DEF Live, orchestrator, outputs

(* The invariant holds in every state.                                     *)
LEMMA NetPerfInvariant ==
    ASSUME IsBenchmark
    PROVE  NetPerfSpec => []IndInv
<1>1. NetPerfInit => IndInv
  <2> SUFFICES ASSUME NetPerfInit PROVE IndInv
    OBVIOUS
  <2>1. FreshState
    BY DEF NetPerfInit, FreshState, WorkerStates
  <2>2. TypesInv /\ SizesInv /\ WorkInv
    BY <2>1, FreshTables
  <2>3. LaunchInv
    BY DEF NetPerfInit, LaunchInv, IsBenchmark
  <2>4. ResultsComplete
    BY DEF NetPerfInit, ResultsComplete
  <2> QED
    BY <2>2, <2>3, <2>4 DEF IndInv
<1>2. IndInv /\ [NetPerfNext]_netPerfVars => IndInv'
  <2> SUFFICES ASSUME IndInv, [NetPerfNext]_netPerfVars PROVE IndInv'
    OBVIOUS
  <2>0. LaunchInv /\ TypesInv /\ SizesInv /\ (Live => WorkInv) /\ ResultsComplete
    BY DEF IndInv
  <2>t. TypesInv' /\ SizesInv'
    BY <2>0, TypesStep
  <2> SUFFICES LaunchInv' /\ (Live' => WorkInv') /\ ResultsComplete'
    BY <2>t DEF IndInv
  <2>1. CASE Cleanup
    BY <2>0, <2>1, CleanupStep
  <2>2. CASE CreateServices \/ CreateFails
    <3>1. Live' => WorkInv'
      BY <2>0, <2>2, PodsFrame DEF CreateServices, CreateFails
    <3>2. LaunchInv' /\ ResultsComplete'
      BY <2>0, <2>2 DEF CreateServices, CreateFails, orchestrator, LaunchInv, ResultsComplete, IsBenchmark
    <3> QED
      BY <3>1, <3>2
  <2>3. CASE CreateRCs
    BY <2>0, <2>3, CreateStep, FreshTablesNext
  <2>4. CASE FetchResults
    <3>1. Live' => WorkInv'
      BY <2>0, <2>4, PodsFrame DEF FetchResults
    <3> QED
      BY <2>4, <3>1, FetchStep
  <2>5. CASE DiskChanges \/ UNCHANGED netPerfVars
    <3>0. UNCHANGED <<launcher, iteration, results, survived, orchestrator, outputs, worker, conn, item, lost>>
      BY <2>5 DEF DiskChanges, netPerfVars, launch
    <3>1. Live' => WorkInv'
      BY <2>0, <3>0, PodsFrame
    <3>2. generation' = generation /\ (generation = 0 => conn' = {})
      BY <2>0, <3>0 DEF LaunchInv, orchestrator
    <3>3. LaunchInv' /\ ResultsComplete'
      BY <2>0, <3>0, <3>2, LaunchFrame
    <3> QED
      BY <3>1, <3>3
  <2>6. CASE OrchestratorRestarts
    <3>1. FreshState'
      BY <2>0, <2>6 DEF OrchestratorRestarts, FreshState, TypesInv, launch
    <3>2. WorkInv'
      BY <3>1, FreshTablesNext
    <3>3. LaunchInv' /\ ResultsComplete'
      BY <2>0, <2>6, LaunchFrame DEF OrchestratorRestarts, launch
    <3> QED
      BY <3>2, <3>3
  <2>7. ASSUME NEW p \in Points, ReceiveLate(p)
        PROVE  LaunchInv' /\ (Live' => WorkInv') /\ ResultsComplete'
    <3>0. UNCHANGED <<launcher, iteration, results, survived, generation, overtaken, conn>>
      BY <2>7 DEF ReceiveLate, launch
    <3>1. Live' => WorkInv'
      BY <2>0, <2>7, <3>0, LateOutputStep DEF Live
    <3>2. LaunchInv' /\ ResultsComplete'
      BY <2>0, <3>0, LaunchFrame DEF LaunchInv
    <3> QED
      BY <3>1, <3>2
  <2>8. ASSUME NEW w \in Workers, WorkerStep(w) \/ WorkerRestarts(w)
        PROVE  LaunchInv' /\ (Live' => WorkInv') /\ ResultsComplete'
    <3>1. Live' => WorkInv'
      BY <2>0, <2>8, WorkerSteps
    <3>2. /\ UNCHANGED <<launcher, iteration, results, survived, generation>>
          /\ generation = 0 => conn' \subseteq conn
      BY <2>8 DEF WorkerStep, Register, SendOutput, ReceiveOutput, ReportFails, WorkerRestarts,
                  launch, orchestrator
    <3>3. generation = 0 => conn' = {}
      BY <2>0, <3>2 DEF LaunchInv
    <3>4. LaunchInv' /\ ResultsComplete'
      BY <2>0, <3>2, <3>3, LaunchFrame
    <3> QED
      BY <3>1, <3>4
  <2> QED
    BY <2>1, <2>2, <2>3, <2>4, <2>5, <2>6, <2>7, <2>8 DEF NetPerfNext, LaunchStep
<1> QED
  BY <1>1, <1>2, PTL DEF NetPerfSpec

(* ResultsComplete, for every list of testcases, any number of workers,    *)
(* sizes and iterations, and any number of restarts and failed deletions:  *)
(* the CSV of an orchestrator of its own iteration has every point once,   *)
(* booked on its own testcase although outputs name no job, unless an      *)
(* output of a restarted worker was overtaken; only points of restarted    *)
(* workers may be missing.                                                 *)
THEOREM ResultsAreComplete == NetPerfSpec => []ResultsComplete
<1>1. IndInv => ResultsComplete
  BY DEF IndInv
<1> QED
  BY <1>1, BenchmarkAssumption, NetPerfInvariant, PTL

(* NetPerfTypeOK: the launcher stays within its iterations, and the        *)
(* orchestrator knows only workers and jobs of the benchmark, whatever     *)
(* restarts and whatever cleanup leaves behind.                            *)
THEOREM NetPerfTypeCorrect == NetPerfSpec => []NetPerfTypeOK
<1> DEFINE More == objects \subseteq {"services", "rcs"}
<1>1. NetPerfInit => More
  BY DEF NetPerfInit
<1>2. More /\ [NetPerfNext]_netPerfVars => More'
  <2> SUFFICES ASSUME More, [NetPerfNext]_netPerfVars PROVE More'
    OBVIOUS
  <2>1. CASE LaunchStep \/ DiskChanges \/ OrchestratorRestarts
    BY <2>1 DEF LaunchStep, Cleanup, CreateServices, CreateRCs, FetchResults, CreateFails,
                DiskChanges, OrchestratorRestarts, launch
  <2>2. ASSUME NEW w \in Workers, WorkerStep(w) \/ WorkerRestarts(w) PROVE More'
    BY <2>2 DEF WorkerStep, Register, SendOutput, ReceiveOutput, ReportFails, WorkerRestarts, launch
  <2>3. ASSUME NEW p \in Points, ReceiveLate(p) PROVE More'
    BY <2>3 DEF ReceiveLate, launch
  <2>4. CASE UNCHANGED netPerfVars
    BY <2>4 DEF netPerfVars, launch
  <2> QED
    BY <2>1, <2>2, <2>3, <2>4 DEF NetPerfNext
<1>3. IndInv /\ More => NetPerfTypeOK
  BY DEF IndInv, LaunchInv, TypesInv, NetPerfTypeOK
<1> QED
  BY <1>1, <1>2, <1>3, BenchmarkAssumption, NetPerfInvariant, PTL DEF NetPerfSpec
=============================================================================
