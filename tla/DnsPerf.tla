------------------------------ MODULE DnsPerf -------------------------------
(***************************************************************************)
(* The DNS load generator (dns/dnsperfgo): a loop sends a query each       *)
(* 1/qps, for testDuration, then pauses for idleDuration, until SIGTERM.   *)
(* A query is a goroutine that waits for the lookup, made in another one,  *)
(* or for its time-out.  The metrics server is not modelled.               *)
(***************************************************************************)
EXTENDS Integers, Sequences, FiniteSets

CONSTANTS
    Clusters,       \* sets of services: [clusterIP, externalName, hostnames]
    QpsSleep,       \* qpsSleepDuration
    TestDuration, IdleDuration, QueryTimeout,
    MaxTime         \* bound: the clock

VARIABLES
    now,
    loop,           \* "start", "select", "query", "exited"
    due,            \* when a sleep of the loop is over
    ticker,         \* when it fires next, its period, and if it has fired
    stopChan,       \* SIGTERM was received
    started,        \* query -> when it was started
    waiting,        \* queries whose runQuery waits
    looking,        \* lookups under way
    sending,        \* lookups that are over and send their result
    result,         \* errorCount, timeoutCount, totalCount
    idles           \* history: times of the pauses

vars == <<now, loop, due, ticker, stopChan, started, waiting, looking, sending,
          result, idles>>

queryVars == <<started, waiting, looking, sending, result>>

Init ==
    /\ now = 0 /\ loop = "start" /\ due = 0
    /\ ticker = [next |-> 0, period |-> 0, fired |-> FALSE]
    /\ stopChan = FALSE
    /\ started = << >> /\ waiting = {} /\ looking = {} /\ sending = {}
    /\ result = [errors |-> 0, timeouts |-> 0, total |-> 0]
    /\ idles = << >>

-----------------------------------------------------------------------------
(* dnsNamesFromK8s: a headless service has the names of its endpoints and  *)
(* its own, or none if its endpoint slices cannot be listed.               *)
NamesOf(s, sliced) ==
    CASE s.clusterIP = "None" ->
           IF sliced THEN s.hostnames \cup {s.name} ELSE {}
      [] s.clusterIP # "None" /\ (s.clusterIP # "" \/ s.externalName # "") -> {s.name}
      [] OTHER -> {}

(* hostnamesFromConfig; without names the program ends.                    *)
Run ==
    /\ loop = "start"
    /\ \E cluster \in Clusters, listed, sliced \in BOOLEAN :
          LET hostnames == IF listed THEN UNION { NamesOf(s, sliced) : s \in cluster } ELSE {}
          IN  loop' = IF hostnames = {} THEN "exited" ELSE "select"
    /\ ticker' = [next |-> now + TestDuration, period |-> TestDuration, fired |-> FALSE]
    /\ UNCHANGED <<now, due, stopChan, queryVars, idles>>

(* The ticker fires; a tick nobody has taken is not repeated.              *)
TickerFires ==
    /\ loop \in {"select", "query"} /\ ticker.next <= now
    /\ ticker' = [ticker EXCEPT !.next = @ + ticker.period, !.fired = TRUE]
    /\ UNCHANGED <<now, loop, due, stopChan, queryVars, idles>>

Sigterm ==
    /\ ~stopChan /\ stopChan' = TRUE
    /\ UNCHANGED <<now, loop, due, ticker, queryVars, idles>>

(* select: the loop ends without the queries in flight, ...                *)
Exit ==
    /\ loop = "select" /\ due <= now /\ stopChan
    /\ loop' = "exited"
    /\ UNCHANGED <<now, due, ticker, stopChan, queryVars, idles>>

(* ... or pauses, with the ticker set anew, ...                            *)
Reset == [next |-> now + TestDuration + IdleDuration,
          period |-> TestDuration + IdleDuration, fired |-> FALSE]

Idle ==
    /\ loop = "select" /\ due <= now /\ ticker.fired
    /\ loop' = "query" /\ due' = now + IdleDuration
    /\ ticker' = Reset
    /\ idles' = Append(idles, now)
    /\ UNCHANGED <<now, stopChan, queryVars>>

(* ... or goes on.                                                         *)
Default ==
    /\ loop = "select" /\ due <= now /\ ~stopChan /\ ~ticker.fired
    /\ loop' = "query"
    /\ UNCHANGED <<now, due, ticker, stopChan, queryVars, idles>>

StartQuery ==
    LET q == Len(started) + 1
    IN  /\ loop = "query" /\ due <= now
        /\ loop' = "select" /\ due' = now + QpsSleep
        /\ started' = Append(started, now)
        /\ waiting' = waiting \cup {q} /\ looking' = looking \cup {q}
        /\ UNCHANGED <<now, ticker, stopChan, sending, result, idles>>

-----------------------------------------------------------------------------
(* The process ends with main, whatever its goroutines do.                 *)
Alive == loop # "exited"

LookupEnds(q) ==
    /\ Alive /\ q \in looking
    /\ looking' = looking \ {q} /\ sending' = sending \cup {q}
    /\ UNCHANGED <<now, loop, due, ticker, stopChan, started, waiting, result, idles>>

(* updateResults, under resultsLock; a time-out is an error as well.       *)
UpdateResults(timedOut, err) ==
    result' = [errors   |-> result.errors + (IF err THEN 1 ELSE 0),
               timeouts |-> result.timeouts + (IF timedOut THEN 1 ELSE 0),
               total    |-> result.total + 1]

(* resultChan has no buffer: the lookup hands its result to a query that   *)
(* waits.                                                                  *)
QueryEnds(q) ==
    /\ Alive /\ q \in waiting \cap sending
    /\ waiting' = waiting \ {q} /\ sending' = sending \ {q}
    /\ \E err \in BOOLEAN : UpdateResults(FALSE, err)
    /\ UNCHANGED <<now, loop, due, ticker, stopChan, started, looking, idles>>

QueryTimesOut(q) ==
    /\ Alive /\ q \in waiting /\ now >= started[q] + QueryTimeout
    /\ waiting' = waiting \ {q}
    /\ UpdateResults(TRUE, TRUE)
    /\ UNCHANGED <<now, loop, due, ticker, stopChan, started, looking, sending, idles>>

Tick ==
    /\ Alive /\ now < MaxTime
    /\ now' = now + 1
    /\ UNCHANGED <<loop, due, ticker, stopChan, queryVars, idles>>

Next ==
    \/ Run \/ TickerFires \/ Sigterm \/ Exit \/ Idle \/ Default \/ StartQuery
    \/ \E q \in DOMAIN started : LookupEnds(q) \/ QueryEnds(q) \/ QueryTimesOut(q)
    \/ Tick

Spec == Init /\ [][Next]_vars

-----------------------------------------------------------------------------
TypeOK ==
    /\ now \in 0 .. MaxTime /\ loop \in {"start", "select", "query", "exited"}
    /\ waiting \cup looking \cup sending \subseteq DOMAIN started
    /\ looking \cap sending = {}
    /\ stopChan \in BOOLEAN /\ ticker.fired \in BOOLEAN

(* "Wait for the test to run for testDuration seconds before firing"       *)
(* (dnsperfgo/main.go:197): between two pauses, and before the first one,  *)
(* there is the time for a whole test, although ticks are taken late and   *)
(* the ticker goes on during the pause.                                    *)
TestsRunInFull ==
    \A n \in 1 .. Len(idles) :
       IF n = 1 THEN idles[n] >= TestDuration
                ELSE idles[n] - idles[n - 1] >= IdleDuration + TestDuration

(* "Count of DNS resolution errors. Includes dns timeouts" (metrics.go:32):*)
(* each query that is over was counted once, and a lookup that outlives    *)
(* its query, to block in its send for ever, is one of the time-outs.      *)
QueriesCounted ==
    /\ result.total = Len(started) - Cardinality(waiting)
    /\ result.timeouts <= result.errors /\ result.errors <= result.total
    /\ Cardinality((looking \cup sending) \ waiting) <= result.timeouts
=============================================================================
