---------------------------- MODULE StepReports -----------------------------
(***************************************************************************)
(* The measurement calls of the steps of a test, their summaries, and how  *)
(* an error becomes a failed item of the report and a failed test.         *)
(*                                                                         *)
(*   pkg/test/simple_test_executor.go  ExecuteStep, ExecuteTestSteps       *)
(*   pkg/measurement/measurement_executor.go, manager.go, factory.go       *)
(*   pkg/test/step_summary.go, simple_reporter.go, pkg/errors/error_list.go*)
(*                                                                         *)
(* A step starts one goroutine per phase and per measurement; a wrapper    *)
(* measurement starts one more per instance.  The manager appends to its   *)
(* slice of summaries without its lock: two goroutines may both read the   *)
(* slice before either stores the longer one.                              *)
(***************************************************************************)
EXTENDS Integers, Sequences, FiniteSets

CONSTANTS
    Steps       \* sequence of [calls : sequence of sets of identifiers,
                \*              phases : Nat]

(* A test is a list of steps, each with its measurements (the identifiers  *)
(* of their instances) and its phases.                                     *)
IsTest == Steps \in Seq([calls : Seq(SUBSET STRING), phases : Nat])

ASSUME TestAssumption == IsTest

VARIABLES
    step,       \* number of the current step; Len(Steps) + 1 after the last
    state,      \* goroutines of the step: call or phase -> where it is
    read,       \* what a call read of mm.summaries before its append
    callErrs,   \* errList of Execute: failed instances, by measurement
    results,    \* StepResult.results: measurements that reported
    stepErr,    \* StepResult.err is not empty
    summaries,  \* mm.summaries
    instances,  \* mm.measurements
    disposed,   \* instances whose Dispose was called
    failedItems,\* NumberOfFailedSpecs
    testErr,    \* the errList of ExecuteTestSteps is not empty
    gathered,   \* history: summaries returned by measurements
    errors      \* history: an error was returned somewhere

reportVars == <<step, state, read, callErrs, results, stepErr, summaries, instances,
          disposed, failedItems, testErr, gathered, errors>>

Calls(s)  == { <<"call", i, id>> : i \in 1 .. Len(Steps[s].calls),
                                   id \in UNION { Steps[s].calls[j] : j \in 1 .. Len(Steps[s].calls) } }
Goroutines(s) == { c \in Calls(s) : c[3] \in Steps[s].calls[c[2]] }
                   \cup { <<"phase", p, 0>> : p \in 1 .. Steps[s].phases }
Running   == step <= Len(Steps)

ReportInit ==
    /\ step = 1
    /\ state = [g \in Goroutines(1) |-> "start"]
    /\ read = [g \in Goroutines(1) |-> {}]
    /\ callErrs = {} /\ results = {} /\ stepErr = FALSE
    /\ summaries = {} /\ instances = {} /\ disposed = {} /\ failedItems = 0
    /\ testErr = FALSE /\ gathered = {} /\ errors = FALSE

Go(g, l) == state' = [state EXCEPT ![g] = l]

-----------------------------------------------------------------------------
(* getMeasurementInstance, under the manager's lock.                       *)
GetInstance(g) ==
    /\ g[1] = "call" /\ state[g] = "start"
    /\ instances' = instances \cup {g[3]}
    /\ Go(g, "execute")
    /\ UNCHANGED <<step, read, callErrs, results, stepErr, summaries, disposed,
                   failedItems, testErr, gathered, errors>>

(* An unknown method or an unanswered version request: no summary.         *)
CallFails(g) ==
    /\ g[1] = "call" /\ state[g] \in {"start", "execute"}
    /\ callErrs' = callErrs \cup {g[2]}
    /\ errors' = TRUE
    /\ Go(g, "done")
    /\ UNCHANGED <<step, read, results, stepErr, summaries, instances, disposed,
                   failedItems, testErr, gathered>>

(* The measurement returns its summary, and perhaps an error with it; then *)
(* the slice is read.                                                      *)
ExecuteCall(g, ok) ==
    /\ g[1] = "call" /\ state[g] = "execute"
    /\ gathered' = gathered \cup {<<step, g>>}
    /\ read' = [read EXCEPT ![g] = summaries]
    /\ callErrs' = IF ok THEN callErrs ELSE callErrs \cup {g[2]}
    /\ errors' = (errors \/ ~ok)
    /\ Go(g, "append")
    /\ UNCHANGED <<step, results, stepErr, summaries, instances, disposed,
                   failedItems, testErr>>

StoreSummaries(g) ==
    /\ state[g] = "append"
    /\ summaries' = read[g] \cup {<<step, g>>}
    /\ Go(g, "done")
    /\ UNCHANGED <<step, read, callErrs, results, stepErr, instances, disposed,
                   failedItems, testErr, gathered, errors>>

(* The wrapper waits for its instances.                                    *)
AddSubStepResult(i) ==
    /\ i \in 1 .. Len(Steps[step].calls) \ results
    /\ \A g \in DOMAIN state : g[1] = "call" /\ g[2] = i => state[g] = "done"
    /\ results' = results \cup {i}
    /\ UNCHANGED <<step, state, read, callErrs, stepErr, summaries, instances,
                   disposed, failedItems, testErr, gathered, errors>>

ExecutePhase(g, ok) ==
    /\ g[1] = "phase" /\ state[g] = "start"
    /\ Go(g, "done")
    /\ stepErr' = (stepErr \/ ~ok)
    /\ errors' = (errors \/ ~ok)
    /\ UNCHANGED <<step, read, callErrs, results, summaries, instances, disposed,
                   failedItems, testErr, gathered>>

(* Mutant: the errors of the phases are forgotten.                         *)
AllErrorsOfMeasurements == callErrs \cap results # {}

(* GetAllErrors and getAllResults: the step's own errors make an item only *)
(* if no measurement reported.                                             *)
AllErrors   == stepErr \/ callErrs \cap results # {}
FailedItems == IF results = {} THEN (IF AllErrors THEN 1 ELSE 0)
                               ELSE Cardinality(callErrs \cap results)

(* After wg.Wait: report, then the next step, unless an error is critical. *)
EndStep(critical) ==
    /\ \A g \in DOMAIN state : state[g] = "done"
    /\ results = 1 .. Len(Steps[step].calls)
    /\ critical => AllErrors
    /\ failedItems' = failedItems + FailedItems
    /\ testErr' = (testErr \/ AllErrors)
    /\ IF critical \/ step = Len(Steps)
       THEN /\ step' = Len(Steps) + 1
            /\ UNCHANGED <<state, read>>
       ELSE /\ step' = step + 1
            /\ state' = [g \in Goroutines(step + 1) |-> "start"]
            /\ read' = [g \in Goroutines(step + 1) |-> {}]
    /\ callErrs' = {} /\ results' = {} /\ stepErr' = FALSE
    /\ UNCHANGED <<summaries, instances, disposed, gathered, errors>>

(* ReportTestFinish and the cleanup of the test: one overall item; every   *)
(* instance is disposed.                                                   *)
FinishTest ==
    /\ step = Len(Steps) + 1
    /\ failedItems' = failedItems + (IF testErr THEN 1 ELSE 0)
    /\ disposed' = instances
    /\ step' = step + 1
    /\ UNCHANGED <<state, read, callErrs, results, stepErr, summaries, instances,
                   testErr, gathered, errors>>

CallStep(g) ==
    \/ GetInstance(g)
    \/ CallFails(g)
    \/ StoreSummaries(g)
    \/ \E ok \in BOOLEAN : ExecuteCall(g, ok)
    \/ \E ok \in BOOLEAN : ExecutePhase(g, ok)

ReportNext ==
    \/ Running /\ \E g \in DOMAIN state : CallStep(g)
    \/ Running /\ \E i \in 1 .. Len(Steps[step].calls) : AddSubStepResult(i)
    \/ Running /\ \E critical \in BOOLEAN : EndStep(critical)
    \/ FinishTest

ReportSpec == ReportInit /\ [][ReportNext]_reportVars

-----------------------------------------------------------------------------
ReportTypeOK ==
    /\ step \in 1 .. Len(Steps) + 2
    /\ \A g \in DOMAIN state :
          /\ state[g] \in {"start", "execute", "append", "done"}
          /\ read[g] \subseteq gathered
    /\ summaries \subseteq gathered
    /\ failedItems \in Nat
    /\ {stepErr, testErr, errors} \subseteq BOOLEAN

(* Whatever fails, in whichever goroutine of whichever step, the suite has *)
(* a failed item when the test is over (main exits with an error then);    *)
(* and what ran is disposed.                                               *)
ErrorsFailTheSuite ==
    step = Len(Steps) + 2 => /\ errors <=> failedItems > 0
                             /\ disposed = instances

(* manager.go: "GetSummaries returns collected summaries": every summary   *)
(* a measurement returned is written to the report directory.              *)
SummariesKept == step > Len(Steps) => summaries = gathered
=============================================================================
