------------------------- MODULE StepReportsProofs --------------------------
(***************************************************************************)
(* Proofs about StepReports, for any list of steps with any number of      *)
(* measurements, instances and phases.                                     *)
(***************************************************************************)
EXTENDS StepReports, FiniteSetTheorems, TLAPS

CallNos == 1 .. Len(Steps[step].calls)

-----------------------------------------------------------------------------
(* The invariant.                                                          *)

FlagsTyped == stepErr \in BOOLEAN /\ testErr \in BOOLEAN /\ errors \in BOOLEAN

(* The goroutines are those of the current step.                           *)
StateInv ==
    /\ step \in 1 .. Len(Steps) + 2
    /\ DOMAIN read = DOMAIN state
    /\ step <= Len(Steps) => DOMAIN state = Goroutines(step)
    /\ \A g \in DOMAIN state :
          /\ state[g] \in {"start", "execute", "append", "done"}
          /\ read[g] \subseteq gathered
          /\ step <= Len(Steps) /\ state[g] = "append" => <<step, g>> \in gathered
    /\ summaries \subseteq gathered
    /\ failedItems \in Nat

(* Only measurements of the current step have errors or results.           *)
ErrsInv ==
    IF step <= Len(Steps) THEN callErrs \subseteq CallNos /\ results \subseteq CallNos
    ELSE callErrs = {} /\ results = {} /\ ~stepErr

(* An error that was returned is in a list of the current step, or in that *)
(* of the test; items of the report fail only if the test does.            *)
ReportInv ==
    /\ errors <=> testErr \/ stepErr \/ callErrs # {}
    /\ failedItems > 0 => testErr
    /\ step = Len(Steps) + 2 => /\ testErr => failedItems > 0
                                /\ disposed = instances

IndInv == FlagsTyped /\ StateInv /\ ErrsInv /\ ReportInv

-----------------------------------------------------------------------------
(* The Boolean variables stay Boolean.                                     *)
LEMMA FlagsStep == FlagsTyped /\ [ReportNext]_reportVars => FlagsTyped'
  BY Zenon DEF FlagsTyped, ReportNext, reportVars, CallStep, GetInstance, CallFails, ExecuteCall,
       StoreSummaries, AddSubStepResult, ExecutePhase, AllErrors, EndStep, FinishTest

(* A goroutine of a measurement belongs to one of the step.                *)
LEMMA CallOfStep ==
    ASSUME NEW s, NEW g \in Goroutines(s), g[1] = "call"
    PROVE  g[2] \in 1 .. Len(Steps[s].calls)
  BY DEF Goroutines, Calls

(* The elements of a sequence.                                             *)
LEMMA SeqElements ==
    ASSUME NEW S, NEW w \in Seq(S)
    PROVE  Len(w) \in Nat /\ \A i \in 1 .. Len(w) : w[i] \in S
OBVIOUS

(* The numbers of a step's measurements.                                   *)
LEMMA CallNosFinite ==
    ASSUME IsTest, step \in 1 .. Len(Steps)
    PROVE  Len(Steps[step].calls) \in Nat /\ IsFiniteSet(CallNos)
<1>1. Steps[step] \in [calls : Seq(SUBSET STRING), phases : Nat]
  BY SeqElements DEF IsTest
<1>2. Len(Steps[step].calls) \in Nat
  BY <1>1
<1>3. \A n \in Nat : IsFiniteSet(1 .. n)
  BY FS_Interval
<1> QED
  BY <1>2, <1>3 DEF CallNos

(* The failed items of a step: some only if it has an error.               *)
LEMMA ItemsNeedErrors ==
    ASSUME IsTest, step \in 1 .. Len(Steps), FlagsTyped, ErrsInv
    PROVE  FailedItems \in Nat /\ (FailedItems > 0 => AllErrors)
<1>1. IsFiniteSet(callErrs \cap results)
  <2>1. callErrs \cap results \subseteq CallNos
    BY DEF ErrsInv
  <2> QED
    BY <2>1, CallNosFinite, FS_Subset
<1>2. Cardinality(callErrs \cap results) \in Nat
  BY <1>1, FS_CardinalityType
<1>3. callErrs \cap results = {} => Cardinality(callErrs \cap results) = 0
  BY <1>1, FS_EmptySet
<1>4. CASE results = {}
  BY <1>4 DEF FailedItems
<1>5. CASE results # {} /\ callErrs \cap results = {}
  BY <1>3, <1>5 DEF FailedItems
<1>6. CASE results # {} /\ callErrs \cap results # {}
  BY <1>2, <1>6 DEF FailedItems, AllErrors
<1> QED
  BY <1>4, <1>5, <1>6

-----------------------------------------------------------------------------
(* A step of a goroutine of the current step.                              *)
LEMMA CallStepInv ==
    ASSUME IsTest, IndInv, step <= Len(Steps), NEW g \in DOMAIN state, CallStep(g)
    PROVE  StateInv' /\ ErrsInv' /\ ReportInv'
<1> USE DEF IndInv
<1>0. /\ g \in Goroutines(step) /\ step \in 1 .. Len(Steps) /\ step' = step
      /\ UNCHANGED <<failedItems, disposed, testErr, results>>
  BY DEF StateInv, CallStep, GetInstance, CallFails, ExecuteCall, StoreSummaries, ExecutePhase
<1>1. Len(Steps) \in Nat
  BY SeqElements DEF IsTest
<1>2. g[1] = "call" => g[2] \in CallNos
  BY <1>0, CallOfStep DEF CallNos
<1>3. StateInv'
  <2>1. CASE GetInstance(g)
    BY <1>0, <2>1 DEF StateInv, GetInstance, Go
  <2>2. CASE CallFails(g)
    BY <1>0, <2>2 DEF StateInv, CallFails, Go
  <2>3. ASSUME NEW ok \in BOOLEAN, ExecuteCall(g, ok) PROVE StateInv'
    <3>1. /\ gathered' = gathered \cup {<<step, g>>} /\ summaries' = summaries
          /\ read' = [read EXCEPT ![g] = summaries]
          /\ state' = [state EXCEPT ![g] = "append"]
      BY <2>3 DEF ExecuteCall, Go
    <3>2. DOMAIN read' = DOMAIN state' /\ DOMAIN state' = DOMAIN state
      BY <3>1 DEF StateInv
    <3>3. ASSUME NEW h \in DOMAIN state
          PROVE  /\ state'[h] \in {"start", "execute", "append", "done"}
                 /\ read'[h] \subseteq gathered'
                 /\ state'[h] = "append" => <<step, h>> \in gathered'
      <4>1. CASE h = g
        BY <3>1, <4>1 DEF StateInv
      <4>2. CASE h # g
        BY <1>0, <3>1, <4>2 DEF StateInv
      <4> QED
        BY <4>1, <4>2
    <3> QED
      BY <1>0, <3>1, <3>2, <3>3 DEF StateInv
  <2>4. CASE StoreSummaries(g)
    BY <1>0, <2>4 DEF StateInv, StoreSummaries, Go
  <2>5. ASSUME NEW ok \in BOOLEAN, ExecutePhase(g, ok) PROVE StateInv'
    BY <1>0, <2>5 DEF StateInv, ExecutePhase, Go
  <2> QED
    BY <2>1, <2>2, <2>3, <2>4, <2>5 DEF CallStep
<1>4. ErrsInv'
  BY <1>0, <1>2 DEF ErrsInv, CallNos, CallStep, GetInstance, CallFails, ExecuteCall,
       StoreSummaries, ExecutePhase
<1>5. \/ UNCHANGED <<errors, stepErr, callErrs>>
      \/ errors' = TRUE /\ callErrs' # {} /\ UNCHANGED stepErr
      \/ errors' = TRUE /\ stepErr' = TRUE /\ UNCHANGED callErrs
  <2>1. CASE GetInstance(g) \/ StoreSummaries(g)
    BY <2>1, Zenon DEF GetInstance, StoreSummaries
  <2>2. CASE CallFails(g)
    BY <2>2 DEF CallFails
  <2>3. ASSUME NEW ok \in BOOLEAN, ExecuteCall(g, ok)
        PROVE  \/ UNCHANGED <<errors, stepErr, callErrs>>
               \/ errors' = TRUE /\ callErrs' # {} /\ UNCHANGED stepErr
    <3>1. errors \in BOOLEAN
      BY DEF FlagsTyped
    <3>2. CASE ok
      BY <2>3, <3>1, <3>2 DEF ExecuteCall
    <3>3. CASE ~ok
      BY <2>3, <3>1, <3>3 DEF ExecuteCall
    <3> QED
      BY <3>2, <3>3
  <2>4. ASSUME NEW ok \in BOOLEAN, ExecutePhase(g, ok)
        PROVE  \/ UNCHANGED <<errors, stepErr, callErrs>>
               \/ errors' = TRUE /\ stepErr' = TRUE /\ UNCHANGED callErrs
    <3>1. errors \in BOOLEAN /\ stepErr \in BOOLEAN
      BY DEF FlagsTyped
    <3>2. CASE ok
      BY <2>4, <3>1, <3>2 DEF ExecutePhase
    <3>3. CASE ~ok
      BY <2>4, <3>1, <3>3 DEF ExecutePhase
    <3> QED
      BY <3>2, <3>3
  <2> QED
    BY <2>1, <2>2, <2>3, <2>4 DEF CallStep
<1>6. ReportInv'
  BY <1>0, <1>1, <1>5 DEF ReportInv
<1> QED
  BY <1>3, <1>4, <1>6

(* The end of a step: every measurement has reported, so every error of    *)
(* the step is an error of the test.                                       *)
LEMMA EndStepInv ==
    ASSUME IsTest, IndInv, step <= Len(Steps), NEW critical \in BOOLEAN, EndStep(critical)
    PROVE  StateInv' /\ ErrsInv' /\ ReportInv'
<1> USE DEF IndInv
<1>0. Len(Steps) \in Nat /\ step \in 1 .. Len(Steps) /\ failedItems \in Nat
  BY SeqElements DEF IsTest, StateInv
<1>1. callErrs \cap results = callErrs
  BY <1>0 DEF ErrsInv, EndStep, CallNos
<1>2. FailedItems \in Nat /\ (FailedItems > 0 => AllErrors)
  BY <1>0, ItemsNeedErrors
<1>3. errors <=> testErr \/ AllErrors
  BY <1>1 DEF AllErrors, ReportInv
<1>4. callErrs' = {} /\ results' = {} /\ stepErr' = FALSE /\ errors' = errors
      /\ testErr' = (testErr \/ AllErrors) /\ failedItems' = failedItems + FailedItems
      /\ step' \in 1 .. Len(Steps) + 1
  BY <1>0 DEF EndStep
<1>5. StateInv'
  <2>1. step' \in 1 .. Len(Steps) + 2 /\ failedItems' \in Nat
    BY <1>0, <1>2, <1>4
  <2>2. CASE critical \/ step = Len(Steps)
    <3>1. ~(step' <= Len(Steps)) /\ UNCHANGED <<state, read, summaries, gathered>>
      BY <1>0, <2>2 DEF EndStep
    <3> QED
      BY <2>1, <3>1 DEF StateInv
  <2>3. CASE ~(critical \/ step = Len(Steps))
    <3>1. /\ step' = step + 1 /\ UNCHANGED <<summaries, gathered>>
          /\ state' = [g \in Goroutines(step + 1) |-> "start"]
          /\ read' = [g \in Goroutines(step + 1) |-> {}]
      BY <2>3 DEF EndStep
    <3> QED
      BY <2>1, <3>1 DEF StateInv
  <2> QED
    BY <2>2, <2>3
<1>6. ErrsInv'
  BY <1>4, Zenon DEF ErrsInv
<1>7. ReportInv'
  <2>1. errors' <=> testErr'
    BY <1>3, <1>4
  <2>2. failedItems' > 0 => testErr'
    <3> SUFFICES ASSUME failedItems + FailedItems > 0 PROVE testErr \/ AllErrors
      BY <1>4
    <3>1. failedItems > 0 \/ FailedItems > 0
      BY <1>0, <1>2
    <3> QED
      BY <1>2, <3>1 DEF ReportInv
  <2>3. step' # Len(Steps) + 2
    BY <1>0, <1>4
  <2> QED
    BY <1>4, <2>1, <2>2, <2>3 DEF ReportInv
<1> QED
  BY <1>5, <1>6, <1>7

(* The invariant holds in every state.                                     *)
LEMMA ReportsInvariant ==
    ASSUME IsTest
    PROVE  ReportSpec => []IndInv
<1>0. Len(Steps) \in Nat
  BY SeqElements DEF IsTest
<1>1. ReportInit => IndInv
  <2> SUFFICES ASSUME ReportInit PROVE IndInv
    OBVIOUS
  <2>1. FlagsTyped
    BY DEF ReportInit, FlagsTyped
  <2>2. StateInv
    BY <1>0 DEF ReportInit, StateInv
  <2>3. ErrsInv
    BY DEF ReportInit, ErrsInv
  <2>4. ReportInv
    BY <1>0 DEF ReportInit, ReportInv
  <2> QED
    BY <2>1, <2>2, <2>3, <2>4 DEF IndInv
<1>2. IndInv /\ [ReportNext]_reportVars => IndInv'
  <2> SUFFICES ASSUME IndInv, [ReportNext]_reportVars PROVE IndInv'
    OBVIOUS
  <2>1. FlagsTyped'
    BY FlagsStep DEF IndInv
  <2>2. StateInv' /\ ErrsInv' /\ ReportInv'
    <3>1. CASE step <= Len(Steps) /\ \E g \in DOMAIN state : CallStep(g)
      BY <3>1, CallStepInv
    <3>2. ASSUME step <= Len(Steps), NEW i \in 1 .. Len(Steps[step].calls),
                 AddSubStepResult(i)
          PROVE  StateInv' /\ ErrsInv' /\ ReportInv'
      BY <3>2 DEF IndInv, StateInv, ErrsInv, ReportInv, CallNos, AddSubStepResult
    <3>3. CASE step <= Len(Steps) /\ \E critical \in BOOLEAN : EndStep(critical)
      BY <3>3, EndStepInv
    <3>4. CASE FinishTest
      <4>1. failedItems' \in Nat /\ (testErr => failedItems' > 0)
            /\ (failedItems' > 0 => testErr)
        BY <3>4 DEF IndInv, StateInv, ReportInv, FinishTest
      <4>2. StateInv'
        <5>1. step' \in 1 .. Len(Steps) + 2 /\ ~(step' <= Len(Steps))
          BY <1>0, <3>4 DEF FinishTest
        <5> QED
          BY <3>4, <4>1, <5>1 DEF IndInv, StateInv, FinishTest
      <4>3. ErrsInv' /\ ReportInv'
        BY <1>0, <3>4, <4>1 DEF IndInv, ErrsInv, ReportInv, FinishTest
      <4> QED
        BY <4>2, <4>3
    <3>5. CASE UNCHANGED reportVars
      BY <3>5 DEF reportVars, IndInv, StateInv, ErrsInv, ReportInv, CallNos
    <3> QED
      BY <3>1, <3>2, <3>3, <3>4, <3>5 DEF ReportNext, Running
  <2> QED
    BY <2>1, <2>2 DEF IndInv
<1> QED
  BY <1>1, <1>2, PTL DEF ReportSpec

(* ReportTypeOK, for any list of steps: what a goroutine has read of the slice,  *)
(* and what it stores, was returned by measurements.                       *)
THEOREM ReportsTypeCorrect == ReportSpec => []ReportTypeOK
<1>1. IndInv => ReportTypeOK
  BY DEF IndInv, FlagsTyped, StateInv, ReportTypeOK
<1> QED
  BY <1>1, TestAssumption, ReportsInvariant, PTL

(* ErrorsFailTheSuite: whatever the steps of a test are and wherever an    *)
(* error was returned, the suite has a failed item when the test is over,  *)
(* none without an error, and every instance has been disposed.            *)
THEOREM ErrorsAreReported == ReportSpec => []ErrorsFailTheSuite
<1>0. Len(Steps) \in Nat
  BY TestAssumption, SeqElements DEF IsTest
<1>1. IndInv => ErrorsFailTheSuite
  BY <1>0 DEF IndInv, StateInv, ErrsInv, ReportInv, ErrorsFailTheSuite
<1> QED
  BY <1>1, TestAssumption, ReportsInvariant, PTL

-----------------------------------------------------------------------------
(* No two instances of measurements run in one step.                       *)
OneCallPerStep ==
    \A s \in 1 .. Len(Steps) : \A g, h \in Goroutines(s) :
       g[1] = "call" /\ h[1] = "call" => g = h

(* The slice lacks at most the summary that is about to be stored.         *)
AppendInv ==
    /\ \A g \in DOMAIN state : state[g] = "append" /\ step <= Len(Steps) =>
          g[1] = "call" /\ read[g] = summaries /\ gathered = summaries \cup {<<step, g>>}
    /\ (\A g \in DOMAIN state : state[g] # "append") \/ step > Len(Steps) => summaries = gathered

(* SummariesKept, where the code keeps its promise: GetSummaries returns   *)
(* every summary if no step runs two instances at once.  The unlocked      *)
(* append of manager.go can lose one only beside another.                  *)
THEOREM SummariesOfLoneCalls ==
    ASSUME OneCallPerStep
    PROVE  ReportSpec => []SummariesKept
<1>0. Len(Steps) \in Nat
  BY TestAssumption, SeqElements DEF IsTest
<1>1. ReportInit => AppendInv
  BY DEF ReportInit, AppendInv
<1>2. IndInv /\ AppendInv /\ [ReportNext]_reportVars => AppendInv'
  <2> SUFFICES ASSUME IndInv, AppendInv, [ReportNext]_reportVars PROVE AppendInv'
    OBVIOUS
  <2>0. StateInv
    BY DEF IndInv
  <2>1. ASSUME step <= Len(Steps), NEW g \in DOMAIN state, CallStep(g) PROVE AppendInv'
    <3>0. g \in Goroutines(step) /\ DOMAIN state = Goroutines(step) /\ step \in 1 .. Len(Steps)
      BY <1>0, <2>0, <2>1 DEF StateInv
    <3>1. ASSUME g[1] = "call", NEW h \in DOMAIN state, state[h] = "append" PROVE h = g
      BY <2>1, <3>0, <3>1 DEF AppendInv, OneCallPerStep
    <3>2. CASE GetInstance(g)
      BY <2>1, <3>1, <3>2 DEF AppendInv, GetInstance, Go
    <3>3. CASE CallFails(g)
      BY <2>1, <3>1, <3>3 DEF AppendInv, CallFails, Go
    <3>4. CASE StoreSummaries(g)
      <4>1. g[1] = "call" /\ gathered = summaries \cup {<<step, g>>} /\ read[g] = summaries
        BY <2>1, <3>4 DEF AppendInv, StoreSummaries
      <4>2. summaries' = gathered' /\ \A h \in DOMAIN state' : state'[h] # "append"
        BY <3>1, <3>4, <4>1 DEF StoreSummaries, Go
      <4> QED
        BY <4>2 DEF AppendInv
    <3>5. ASSUME NEW ok \in BOOLEAN, ExecuteCall(g, ok) PROVE AppendInv'
      <4>1. \A h \in DOMAIN state : state[h] # "append"
        BY <3>1, <3>5 DEF ExecuteCall
      <4>2. summaries = gathered
        BY <4>1 DEF AppendInv
      <4>3. /\ gathered' = gathered \cup {<<step, g>>} /\ summaries' = summaries
            /\ read' = [read EXCEPT ![g] = summaries] /\ step' = step
            /\ state' = [state EXCEPT ![g] = "append"] /\ g[1] = "call"
        BY <3>5 DEF ExecuteCall, Go
      <4>4. \A h \in DOMAIN state' : state'[h] = "append" => h = g
        BY <4>1, <4>3
      <4>5. read'[g] = summaries' /\ g \in DOMAIN state' /\ state'[g] = "append"
        BY <2>0, <2>1, <4>3 DEF StateInv
      <4> QED
        BY <1>0, <3>0, <4>2, <4>3, <4>4, <4>5 DEF AppendInv
    <3>6. ASSUME NEW ok \in BOOLEAN, ExecutePhase(g, ok) PROVE AppendInv'
      <4>1. /\ UNCHANGED <<gathered, summaries, read, step>>
            /\ state' = [state EXCEPT ![g] = "done"] /\ state[g] = "start"
        BY <3>6 DEF ExecutePhase, Go
      <4>2. \A h \in DOMAIN state : state'[h] = "append" <=> state[h] = "append"
        BY <4>1
      <4> QED
        BY <2>1, <4>1, <4>2 DEF AppendInv
    <3> QED
      BY <2>1, <3>2, <3>3, <3>4, <3>5, <3>6 DEF CallStep
  <2>2. ASSUME step <= Len(Steps), NEW critical \in BOOLEAN, EndStep(critical) PROVE AppendInv'
    <3>1. summaries = gathered /\ UNCHANGED <<summaries, gathered>>
      BY <2>2 DEF EndStep, AppendInv
    <3>2. step' = Len(Steps) + 1 \/ \A g \in DOMAIN state' : state'[g] = "start"
      BY <2>2 DEF EndStep
    <3> QED
      BY <1>0, <3>1, <3>2 DEF AppendInv
  <2>3. CASE FinishTest
    BY <1>0, <2>3 DEF FinishTest, AppendInv
  <2>4. CASE UNCHANGED reportVars \/ \E i \in 1 .. Len(Steps[step].calls) : AddSubStepResult(i)
    BY <2>4 DEF reportVars, AddSubStepResult, AppendInv
  <2> QED
    BY <2>1, <2>2, <2>3, <2>4 DEF ReportNext, Running
<1>3. AppendInv => SummariesKept
  BY DEF AppendInv, SummariesKept
<1> QED
  BY <1>1, <1>2, <1>3, TestAssumption, ReportsInvariant, PTL DEF ReportSpec
=============================================================================
