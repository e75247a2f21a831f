-------------------------- MODULE PromMeasurement ---------------------------
(***************************************************************************)
(* A measurement that asks Prometheus when it is gathered, with two of its *)
(* gatherers.                                                              *)
(*                                                                         *)
(*   pkg/measurement/common/prometheus_measurement.go                      *)
(*   pkg/measurement/common/generic_query_measurement.go                   *)
(*   pkg/measurement/common/container_restarts.go                          *)
(*   pkg/measurement/util/prometheus.go  Query, ToPrometheusTime           *)
(*                                                                         *)
(* "start" only remembers the time; "gather" asks for what happened since, *)
(* one query after the other, each until it is answered or times out.      *)
(* Every start of an instance passes the same parameters.                  *)
(***************************************************************************)
EXTENDS Integers, Sequences, FiniteSets, FiniteSetsExt

CONSTANTS
    Setups,     \* the parameters: [kind, client : STRING, framework, valid,
                \*                  violations : BOOLEAN, allowed : Nat,
                \*                  overrides : set of Nat]
    Queries,    \* sequence of [threshold : Int, lowerBound, requireSamples : BOOLEAN]
    Answers,    \* what Prometheus may answer: sequences of [key, value]
    NoThreshold, NaN,   \* integers that stand for nil and for not-a-number
    Second,     \* ticks of the clock per second
    MaxPolls,   \* queryTimeout / queryInterval
    MaxTime     \* bound: ticks of the test

VARIABLES
    setup,      \* the parameters of this instance
    now,        \* the clock
    startTime,  \* zero before the first start
    configured, \* g.Queries
    pc,         \* "idle" or "query"
    endTime,    \* time of the gather
    q,          \* query of the gather
    polls,      \* failed tries of the query
    errs,       \* the gather has found a violation
    items,      \* data items: <<key, query>> -> value
    result,     \* of the last call: [error : STRING, summary : BOOLEAN]
    restarted,  \* times at which the container restarted
    counted,    \* restarts in the summary of ContainerRestarts
    answers     \* history: the answers of the gather

vars == <<setup, now, startTime, configured, pc, endTime, q, polls, errs, items,
          result, restarted, counted, answers>>

Nothing == [error |-> "", summary |-> FALSE]
NoItems == [k \in {} |-> 0]

Init ==
    /\ setup \in Setups
    /\ now = 1 /\ startTime = 0 /\ endTime = 0
    /\ configured = << >>
    /\ pc = "idle" /\ q = 1 /\ polls = 0 /\ errs = FALSE
    /\ items = NoItems /\ result = Nothing
    /\ restarted = {} /\ counted = {} /\ answers = << >>

-----------------------------------------------------------------------------
(* Execute of prometheusMeasurement.                                       *)

Skipped == setup.client = "inCluster" /\ ~setup.framework

(* An unknown client is an error; without Prometheus there is nothing to   *)
(* do.                                                                     *)
ExecuteRefused ==
    /\ pc = "idle"
    /\ \/ setup.client \notin {"inCluster", "managed"} /\ result' = [Nothing EXCEPT !.error = "other"]
       \/ Skipped /\ result' = Nothing
    /\ UNCHANGED <<setup, now, startTime, configured, pc, endTime, q, polls, errs,
                   items, restarted, counted, answers>>

Available == pc = "idle" /\ setup.client \in {"inCluster", "managed"} /\ ~Skipped

(* Configure of the gatherer: the parameters of a generic query are        *)
(* validated after they are stored.                                        *)
Start ==
    /\ Available
    /\ configured' = IF setup.kind = "generic" THEN Queries ELSE << >>
    /\ IF setup.kind = "generic" /\ ~setup.valid
       THEN result' = [Nothing EXCEPT !.error = "other"] /\ UNCHANGED startTime
       ELSE result' = Nothing /\ startTime' = now
    /\ UNCHANGED <<setup, now, pc, endTime, q, polls, errs, items, restarted,
                   counted, answers>>

(* The managed client cannot be made, or the overrides cannot be read.     *)
GatherRefused ==
    /\ Available
    /\ setup.client = "managed" \/ (setup.kind = "restarts" /\ ~setup.valid)
    /\ result' = [Nothing EXCEPT !.error = "other"]
    /\ UNCHANGED <<setup, now, startTime, configured, pc, endTime, q, polls, errs,
                   items, restarted, counted, answers>>

Gather ==
    /\ Available
    /\ setup.kind = "restarts" => setup.valid
    /\ pc' = "query" /\ endTime' = now /\ q' = 1 /\ polls' = 0
    /\ errs' = FALSE /\ answers' = << >> /\ items' = NoItems /\ counted' = {}
    /\ UNCHANGED <<setup, now, startTime, configured, result, restarted>>

(* What Gather of the gatherer returns, after the violations are sorted    *)
(* out: they are errors only if the config wants them to be.               *)
Returns(error, summary) ==
    /\ pc' = "idle"
    /\ result' = IF error = "other" THEN [error |-> "other", summary |-> FALSE]
                 ELSE [error |-> IF setup.violations THEN error ELSE "", summary |-> summary]

-----------------------------------------------------------------------------
(* Query of PrometheusQueryExecutor.                                       *)

(* ToPrometheusTime drops the fraction of a second.                        *)
ToPrometheusTime(d) == d \div Second

Window    == ToPrometheusTime(endTime - startTime)
(* "[0s]" is no range Prometheus accepts.                                  *)
Askable   == Window > 0
NumQueries == IF setup.kind = "generic" THEN Len(configured) ELSE 1
Asking    == pc = "query" /\ q <= NumQueries

PollFails ==
    /\ Asking
    /\ polls < MaxPolls
    /\ polls' = polls + 1
    /\ UNCHANGED <<setup, now, startTime, configured, pc, endTime, q, errs, items,
                   result, restarted, counted, answers>>

(* The polls time out, or the answer cannot be read.                       *)
QueryFails ==
    /\ Asking
    /\ polls = MaxPolls \/ Askable
    /\ Returns("other", FALSE)
    /\ UNCHANGED <<setup, now, startTime, configured, endTime, q, polls, errs,
                   items, restarted, counted, answers>>

Samples(answer) == SelectSeq(answer, LAMBDA s : s.value # NaN)

-----------------------------------------------------------------------------
(* genericQueryGatherer.                                                   *)

(* validateSample.                                                         *)
OutOfBounds(query, value) ==
    /\ query.threshold # NoThreshold
    /\ IF query.lowerBound THEN value < query.threshold ELSE value > query.threshold

(* One round of the loop over the queries.  The first sample of a key is   *)
(* kept; every sample is validated.                                        *)
GenericAnswer(answer) ==
    LET samples == Samples(answer)
        keys    == { samples[j].key : j \in DOMAIN samples }
        first(k) == Min({ j \in DOMAIN samples : samples[j].key = k })
        query   == configured[q]
    IN  /\ Asking /\ setup.kind = "generic" /\ Askable
        /\ items' = [x \in DOMAIN items \cup { <<k, q>> : k \in keys } |->
                        IF x \in DOMAIN items THEN items[x] ELSE samples[first(x[1])].value]
        /\ errs' = \/ errs
                   \/ samples = << >> /\ query.requireSamples
                   \/ Cardinality(keys) < Len(samples)
                   \/ \E j \in DOMAIN samples : OutOfBounds(query, samples[j].value)
        /\ answers' = Append(answers, samples)
        /\ q' = q + 1 /\ polls' = 0
        /\ UNCHANGED <<setup, now, startTime, configured, pc, endTime, result,
                       restarted, counted>>

GenericReturns ==
    /\ pc = "query" /\ setup.kind = "generic" /\ q = NumQueries + 1
    /\ Returns(IF errs THEN "violation" ELSE "", TRUE)
    /\ UNCHANGED <<setup, now, startTime, configured, endTime, q, polls, errs,
                   items, restarted, counted, answers>>

-----------------------------------------------------------------------------
(* containerRestartsGatherer: changes(container_start_time_seconds[...]).  *)
(* Idealised: every restart changes a sample and has its own scrape.       *)

InWindow == { t \in restarted : endTime - Window * Second < t /\ t <= endTime }

(* validateRestarts: the largest override whose pattern matches.           *)
AllowedRestarts == Max(setup.overrides \cup {setup.allowed})

RestartsAnswer ==
    /\ Asking /\ setup.kind = "restarts" /\ Askable
    /\ counted' = InWindow
    /\ Returns(IF Cardinality(InWindow) > AllowedRestarts THEN "violation" ELSE "", TRUE)
    /\ UNCHANGED <<setup, now, startTime, configured, endTime, q, polls, errs,
                   items, restarted, answers>>

-----------------------------------------------------------------------------
Tick ==
    /\ now < MaxTime
    /\ now' = now + 1
    /\ \E again \in {FALSE, setup.kind = "restarts"} :
          restarted' = IF again THEN restarted \cup {now + 1} ELSE restarted
    /\ UNCHANGED <<setup, startTime, configured, pc, endTime, q, polls, errs, items,
                   result, counted, answers>>

Next ==
    \/ ExecuteRefused \/ Start \/ GatherRefused \/ Gather
    \/ PollFails \/ QueryFails \/ GenericReturns \/ RestartsAnswer \/ Tick
    \/ \E answer \in Answers : GenericAnswer(answer)

Spec == Init /\ [][Next]_vars

-----------------------------------------------------------------------------
TypeOK ==
    /\ setup \in Setups
    /\ now \in 1 .. MaxTime /\ startTime \in 0 .. now /\ endTime \in 0 .. now
    /\ pc \in {"idle", "query"}
    /\ q \in 1 .. Len(Queries) + 1 /\ polls \in 0 .. MaxPolls
    /\ errs \in BOOLEAN /\ Len(answers) <= Len(Queries)
    /\ result \in [error : {"", "violation", "other"}, summary : BOOLEAN]
    /\ restarted \subseteq 1 .. MaxTime /\ counted \subseteq restarted

(* A summary of ContainerRestarts counts what happened during the test and *)
(* nothing before it, but for restarts within a second of its start; a     *)
(* gather sooner than that has no summary.                                 *)
RestartsOfTheTest ==
    setup.kind = "restarts" /\ pc = "idle" /\ result.summary /\ startTime \in 1 .. endTime - 1 =>
        /\ endTime - startTime >= Second
        /\ \A t \in counted : t > startTime
        /\ { t \in restarted : startTime + Second <= t /\ t <= endTime } \subseteq counted

(* An answer to query i that the config does not accept: none, two values  *)
(* for one key, or a value on the wrong side of the threshold.             *)
Unacceptable(i) ==
    LET bound   == Queries[i].threshold
        samples == answers[i]
    IN  \/ samples = << >> /\ Queries[i].requireSamples
        \/ \E j, l \in DOMAIN samples : j # l /\ samples[j].key = samples[l].key
        \/ /\ bound # NoThreshold
           /\ \E j \in DOMAIN samples :
                 /\ samples[j].value # bound
                 /\ (samples[j].value < bound) = Queries[i].lowerBound

TooManyRestarts == \A a \in {setup.allowed} \cup setup.overrides : Cardinality(counted) > a

(* A gather that made a summary has an error exactly if violations count   *)
(* and there is one; all its queries were asked.  An error that is no      *)
(* violation leaves no summary.                                            *)
ViolationsReported ==
    pc = "idle" /\ result.summary =>
        /\ result.error # "other"
        /\ setup.kind = "generic" => Len(answers) = Len(configured)
        /\ result.error = "violation" <=>
              /\ setup.violations
              /\ IF setup.kind = "generic" THEN \E i \in DOMAIN answers : Unacceptable(i)
                                           ELSE TooManyRestarts
=============================================================================
