--------------------------- MODULE ApiAvailability ---------------------------
(***************************************************************************)
(* The APIAvailability measurement (measurement/common/                    *)
(* api_availability_measurement.go, api_availability_metrics.go): a        *)
(* goroutine polls the API server and its hosts until it is paused or      *)
(* stopped.  pause, unpause and stop reach it through unbuffered channels, *)
(* but isPaused is read by the caller without the goroutine's knowledge.   *)
(***************************************************************************)
EXTENDS Integers, Sequences, FiniteSets, FiniteSetsExt

CONSTANTS
    Hosts,
    MaxPolls,   \* bound: polls of one start
    MaxStarts   \* bound: calls of start

Targets == {"cluster"} \cup Hosts
NoPolls == [successes |-> 0, failures |-> 0, longest |-> 0, consecutive |-> 0]

VARIABLES
    isRunning, isPaused,
    stopCh,     \* "nil", "open" or "closed"
    caller,     \* Execute: "idle", "pausing" or "unpausing" (blocked on the
                \* channel), "gathering" (in wg.Wait), "panicked"
    loop,       \* the goroutine: "none", "top", "paused", "select", "gotPause",
                \* "gotUnpause", "polling", "exited"
    left,       \* targets left to poll in this round
    metrics,    \* target -> apiAvailabilityMetrics
    report,     \* metrics of the last summary
    outcomes,   \* history: target -> polls since start
    starts      \* history: calls of start

vars == <<isRunning, isPaused, stopCh, caller, loop, left, metrics, report,
          outcomes, starts>>

Init ==
    /\ isRunning = FALSE /\ isPaused = FALSE /\ stopCh = "nil"
    /\ caller = "idle" /\ loop = "none" /\ left = {}
    /\ metrics = [t \in {} |-> NoPolls] /\ report = metrics
    /\ outcomes = [t \in Targets |-> << >>] /\ starts = 0

-----------------------------------------------------------------------------
(* start: initFields sets isRunning before it can fail; isPaused keeps the *)
(* value of the last run.                                                  *)
Start(ok) ==
    /\ caller = "idle" /\ ~isRunning /\ starts < MaxStarts
    /\ isRunning' = TRUE /\ stopCh' = "open" /\ starts' = starts + 1
    /\ IF ok THEN /\ metrics' = [t \in Targets |-> NoPolls]
                  /\ loop' = "top"
                  /\ outcomes' = [t \in Targets |-> << >>]
             ELSE loop' = "none" /\ UNCHANGED <<metrics, outcomes>>
    /\ UNCHANGED <<isPaused, caller, left, report>>

(* pause and unpause; both return at once if isPaused has the value they   *)
(* want already.                                                           *)
Pause ==
    /\ caller = "idle" /\ isRunning /\ ~isPaused
    /\ caller' = "pausing"
    /\ UNCHANGED <<isRunning, isPaused, stopCh, loop, left, metrics, report,
                   outcomes, starts>>

Unpause ==
    /\ caller = "idle" /\ isRunning /\ isPaused
    /\ caller' = "unpausing"
    /\ UNCHANGED <<isRunning, isPaused, stopCh, loop, left, metrics, report,
                   outcomes, starts>>

(* The two sides of a channel meet.                                        *)
Receive(from, at, then) ==
    /\ caller = from /\ loop = at
    /\ caller' = "idle" /\ loop' = then
    /\ UNCHANGED <<isRunning, isPaused, stopCh, left, metrics, report, outcomes,
                   starts>>

(* The goroutine writes isPaused after the channel has let the caller go.  *)
SetPaused(at, value, then) ==
    /\ loop = at
    /\ isPaused' = value /\ loop' = then
    /\ UNCHANGED <<isRunning, stopCh, caller, left, metrics, report, outcomes,
                   starts>>

LoopTop ==
    /\ loop = "top"
    /\ loop' = IF isPaused THEN "paused" ELSE "select"
    /\ UNCHANGED <<isRunning, isPaused, stopCh, caller, left, metrics, report,
                   outcomes, starts>>

Timer ==
    /\ loop = "select" /\ Len(outcomes["cluster"]) < MaxPolls
    /\ loop' = "polling" /\ left' = Targets
    /\ UNCHANGED <<isRunning, isPaused, stopCh, caller, metrics, report, outcomes,
                   starts>>

Update(m, available) ==
    IF available
    THEN [m EXCEPT !.successes = @ + 1, !.consecutive = 0]
    ELSE [m EXCEPT !.failures = @ + 1, !.consecutive = @ + 1,
                   !.longest = IF m.consecutive + 1 > @ THEN m.consecutive + 1 ELSE @]

(* The cluster first, then the hosts in any order; no answer from the exec *)
(* service counts as unavailable.                                          *)
Poll(t, available) ==
    /\ loop = "polling" /\ t \in left
    /\ "cluster" \in left => t = "cluster"
    /\ metrics' = [metrics EXCEPT ![t] = Update(@, available)]
    /\ outcomes' = [outcomes EXCEPT ![t] = Append(@, available)]
    /\ left' = left \ {t}
    /\ loop' = IF left = {t} THEN "top" ELSE "polling"
    /\ UNCHANGED <<isRunning, isPaused, stopCh, caller, report, starts>>

LoopStops ==
    /\ loop \in {"paused", "select"} /\ stopCh = "closed"
    /\ loop' = "exited"
    /\ UNCHANGED <<isRunning, isPaused, stopCh, caller, left, metrics, report,
                   outcomes, starts>>

-----------------------------------------------------------------------------
Gather ==
    /\ caller = "idle" /\ isRunning
    /\ stopCh' = "closed" /\ caller' = "gathering"
    /\ UNCHANGED <<isRunning, isPaused, loop, left, metrics, report, outcomes, starts>>

(* After wg.Wait; without a successful start there are no metrics.         *)
Gathered ==
    /\ caller = "gathering" /\ loop \in {"none", "exited"}
    /\ isRunning' = FALSE
    /\ IF metrics = [t \in {} |-> NoPolls]
       THEN caller' = "panicked" /\ UNCHANGED report
       ELSE caller' = "idle" /\ report' = metrics
    /\ UNCHANGED <<isPaused, stopCh, loop, left, metrics, outcomes, starts>>

LoopStep ==
    \/ LoopTop \/ Timer \/ LoopStops
    \/ SetPaused("gotPause", TRUE, "top") \/ SetPaused("gotUnpause", FALSE, "select")
    \/ \E t \in Targets, available \in BOOLEAN : Poll(t, available)

Next ==
    \/ \E ok \in BOOLEAN : Start(ok)
    \/ Pause \/ Unpause \/ Gather \/ Gathered
    \/ Receive("pausing", "select", "gotPause")
    \/ Receive("unpausing", "paused", "gotUnpause")
    \/ LoopStep

-----------------------------------------------------------------------------
TypeOK ==
    /\ {isRunning, isPaused} \subseteq BOOLEAN
    /\ stopCh \in {"nil", "open", "closed"}
    /\ caller \in {"idle", "pausing", "unpausing", "gathering", "panicked"}
    /\ loop \in {"none", "top", "paused", "select", "gotPause", "gotUnpause",
                 "polling", "exited"}
    /\ left \subseteq Targets

LongestFailure(s) ==
    Max({0} \cup { n \in 1 .. Len(s) : \E i \in 1 .. Len(s) - n + 1 :
                      \A j \in i .. i + n - 1 : ~s[j] })

(* The summary is that of the polls since the last start, all of them and  *)
(* no others, through pauses, restarts and the stop that interrupts a      *)
(* round: successes, failures and the longest unavailable period.          *)
ReportIsExact ==
    ~isRunning /\ loop = "exited" =>
       \A t \in Targets :
          LET failed == { n \in 1 .. Len(outcomes[t]) : ~outcomes[t][n] }
          IN /\ report[t].failures = Cardinality(failed)
             /\ report[t].successes = Len(outcomes[t]) - Cardinality(failed)
             /\ report[t].longest = LongestFailure(outcomes[t])
=============================================================================
