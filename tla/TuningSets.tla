----------------------------- MODULE TuningSets -----------------------------
(***************************************************************************)
(* The tuning sets (pkg/tuningset): a phase hands its actions to the set   *)
(* its config names, which starts them spread over time and returns when   *)
(* all have ended.  Phases of a step run in parallel, those of later steps *)
(* follow.  All phases of one globalQPSLoad share a rate limiter; every    *)
(* other set is made anew for each phase.  Sleeps and timers may end late. *)
(***************************************************************************)
EXTENDS Integers, Sequences, FiniteSets

CONSTANTS       \* positive, as validateTuningSet asks
    Loads,      \* what a test may consist of: functions from phases to
                \* records of the kind of set and the number of actions
    Period,     \* 1/QPS, StepDelay and the mean of the random sets
    Burst,      \* of the globalQPSLoad
    BurstSize,  \* of a steppedLoad
    TimeLimit,  \* of the time limited sets
    Limit,      \* ParallelismLimit
    MaxTime     \* bound: the clock

SetKinds == {"qps", "randomized", "stepped", "timeLimited", "poisson",
             "randomizedTimeLimited", "parallelism", "global"}

ASSUME TuningAssumption ==
    /\ {Period, Burst, BurstSize, TimeLimit, Limit} \subseteq Nat \ {0}
    /\ MaxTime \in Nat
    /\ \A l \in Loads : /\ l \in [DOMAIN l -> [kind : SetKinds, actions : Nat]]
                        /\ "none" \notin DOMAIN l

VARIABLES
    now,
    load,       \* phase -> its kind of tuning set and its actions
    pc,         \* phase -> "idle", "loop", "wait", "join", "returned"
    due,        \* phase -> when the loop may go on
    next,       \* phase -> actions started
    startedAt,  \* phase -> action -> when it was started
    delayed,    \* <<phase, action, time>> in goroutines that sleep first
    running,    \* <<phase, action>> being executed
    done,       \* <<phase, action>> that have ended
    existing,   \* globalQPSLoadFactory.existing: a limiter or "none"
    uses,       \* phase -> its limiter
    limiters,   \* limiter -> credit in time, and when it was computed
    granted     \* history: phase -> the times its limiter has granted

tuningVars == <<now, load, pc, due, next, startedAt, delayed, running, done,
          existing, uses, limiters, granted>>

limiterVars == <<existing, uses, limiters, granted>>

Phases == DOMAIN load

TuningInit ==
    /\ now = 0 /\ load \in Loads
    /\ pc = [p \in Phases |-> "idle"] /\ due = [p \in Phases |-> 0]
    /\ next = [p \in Phases |-> 0] /\ startedAt = [p \in Phases |-> << >>]
    /\ delayed = {} /\ running = {} /\ done = {}
    /\ existing = "none" /\ uses = [p \in Phases |-> "none"]
    /\ granted = [p \in Phases |-> << >>]
    /\ limiters = [p \in Phases |-> [credit |-> Burst * Period, last |-> 0]]

-----------------------------------------------------------------------------
(* Mutant: each phase gets a limiter of its own.                           *)
GetOrCreateAnew(p) ==
    /\ existing' = p
    /\ uses' = [uses EXCEPT ![p] = p]

(* GetOrCreate, under the factory's lock: a limiter is called after the    *)
(* phase that needed it first.                                             *)
GetOrCreate(p) ==
    /\ existing' = IF existing = "none" THEN p ELSE existing
    /\ uses' = [uses EXCEPT ![p] = existing']

(* CreateTuningSet and the call of Execute.                                *)
CreateTuningSet(p) ==
    /\ pc[p] = "idle"
    /\ pc' = [pc EXCEPT ![p] = IF load[p].actions = 0 THEN "join" ELSE "loop"]
    /\ due' = [due EXCEPT ![p] = now]
    /\ IF load[p].kind = "global" THEN GetOrCreate(p) ELSE UNCHANGED <<existing, uses>>
    /\ UNCHANGED <<now, load, next, startedAt, delayed, running, done, limiters, granted>>

(* limiter.Wait of x/time/rate: a token is taken at once, on credit if     *)
(* there is none, and the caller sleeps until the debt is paid.            *)
Credit(l) ==
    LET c == limiters[l].credit + now - limiters[l].last
    IN  IF c > Burst * Period THEN Burst * Period ELSE c

Reserve(p) ==
    LET left == Credit(uses[p]) - Period
    IN  /\ limiters' = [limiters EXCEPT ![uses[p]] = [credit |-> left, last |-> now]]
        /\ due' = [due EXCEPT ![p] = IF left < 0 THEN now - left ELSE now]
        /\ granted' = [granted EXCEPT ![p] = Append(@, due'[p])]

(* The sleep after the start of action i: the times the loop may go on at. *)
(* poissonLoad adds to the time of the last launch, not to the time it     *)
(* woke up; its gaps have no bound, those of the model are at most twice   *)
(* the mean.                                                               *)
QpsSleep            == { now + Period }
RandomizedSleep     == now .. now + 2 * Period - 1
SteppedSleep(i)     == { IF i % BurstSize = 0 THEN now + Period ELSE now }
TimeLimitedSleep(p) == { now + TimeLimit \div load[p].actions }
NextLaunch(p)       == due[p] .. due[p] + 2 * Period

Sleep(p, i) ==
    CASE load[p].kind = "qps"         -> QpsSleep
      [] load[p].kind = "randomized"  -> RandomizedSleep
      [] load[p].kind = "stepped"     -> SteppedSleep(i)
      [] load[p].kind = "timeLimited" -> TimeLimitedSleep(p)
      [] load[p].kind = "poisson"     -> NextLaunch(p)

Started(p, i) ==
    /\ next' = [next EXCEPT ![p] = i]
    /\ startedAt' = [startedAt EXCEPT ![p] = Append(@, now)]
    /\ pc' = [pc EXCEPT ![p] = IF i = load[p].actions THEN "join" ELSE "loop"]

(* wg.Start(actions[i]), then the sleep.                                   *)
StartAction(p) ==
    LET i == next[p] + 1
    IN  /\ pc[p] = "loop" /\ due[p] <= now
        /\ load[p].kind \in {"qps", "randomized", "stepped", "timeLimited", "poisson"}
        /\ Started(p, i)
        /\ running' = running \cup {<<p, i>>}
        /\ \E t \in Sleep(p, i) : due' = [due EXCEPT ![p] = t]
        /\ UNCHANGED <<now, load, delayed, done, limiterVars>>

(* randomizedTimeLimitedLoad: each goroutine sleeps before its action.     *)
StartDelayed(p) ==
    LET i == next[p] + 1
    IN  /\ pc[p] = "loop" /\ load[p].kind = "randomizedTimeLimited"
        /\ Started(p, i)
        /\ \E d \in 0 .. TimeLimit - 1 : delayed' = delayed \cup {<<p, i, now + d>>}
        /\ UNCHANGED <<now, load, due, running, done, limiterVars>>

WakeUp(d) ==
    /\ d[3] <= now
    /\ delayed' = delayed \ {d} /\ running' = running \cup {<<d[1], d[2]>>}
    /\ UNCHANGED <<now, load, pc, due, next, startedAt, done, limiterVars>>

(* parallelismLimitedLoad: ParallelizeUntil's workers take the next index. *)
StartByWorker(p) ==
    LET i == next[p] + 1
    IN  /\ pc[p] = "loop" /\ load[p].kind = "parallelism"
        /\ Cardinality({ r \in running : r[1] = p }) < Limit
        /\ Started(p, i)
        /\ running' = running \cup {<<p, i>>}
        /\ UNCHANGED <<now, load, due, delayed, done, limiterVars>>

(* globalQPSLoad: Wait, then wg.Start.  Wait fails for a burst below one,  *)
(* which validation excludes.                                              *)
WaitForLimiter(p) ==
    /\ pc[p] = "loop" /\ load[p].kind = "global"
    /\ pc' = [pc EXCEPT ![p] = "wait"]
    /\ Reserve(p)
    /\ UNCHANGED <<now, load, next, startedAt, delayed, running, done, existing, uses>>

StartLimited(p) ==
    LET i == next[p] + 1
    IN  /\ pc[p] = "wait" /\ due[p] <= now
        /\ Started(p, i)
        /\ running' = running \cup {<<p, i>>}
        /\ UNCHANGED <<now, load, due, delayed, done, limiterVars>>

ActionEnds(r) ==
    /\ running' = running \ {r} /\ done' = done \cup {r}
    /\ UNCHANGED <<now, load, pc, due, next, startedAt, delayed, limiterVars>>

(* wg.Wait: of the actions of this phase, after the last sleep, if any.    *)
Pending(p) == { r \in running : r[1] = p } \cup { d \in delayed : d[1] = p }

Return(p) ==
    /\ pc[p] = "join" /\ Pending(p) = {}
    /\ load[p].kind = "poisson" \/ due[p] <= now
    /\ pc' = [pc EXCEPT ![p] = "returned"]
    /\ UNCHANGED <<now, load, due, next, startedAt, delayed, running, done, limiterVars>>

Tick ==
    /\ now < MaxTime
    /\ now' = now + 1
    /\ UNCHANGED <<load, pc, due, next, startedAt, delayed, running, done, limiterVars>>

TuningNext ==
    \/ \E p \in Phases :
          \/ CreateTuningSet(p) \/ StartAction(p) \/ StartDelayed(p)
          \/ StartByWorker(p) \/ WaitForLimiter(p) \/ StartLimited(p) \/ Return(p)
    \/ \E d \in delayed : WakeUp(d)
    \/ \E r \in running : ActionEnds(r)
    \/ Tick

TuningSpec == TuningInit /\ [][TuningNext]_tuningVars

-----------------------------------------------------------------------------
TuningTypeOK ==
    /\ now \in 0 .. MaxTime /\ load \in Loads
    /\ pc \in [Phases -> {"idle", "loop", "wait", "join", "returned"}]
    /\ due \in [Phases -> Nat] /\ next \in [Phases -> Nat]
    /\ startedAt \in [Phases -> Seq(Nat)] /\ granted \in [Phases -> Seq(Nat)]
    /\ \A p \in Phases : next[p] <= load[p].actions /\ Len(startedAt[p]) = next[p]
    /\ delayed \subseteq Phases \X Nat \X Nat
    /\ running \subseteq Phases \X Nat /\ done \subseteq Phases \X Nat
    /\ existing \in Phases \cup {"none"} /\ uses \in [Phases -> Phases \cup {"none"}]
    /\ limiters \in [Phases -> [credit : Int, last : Nat]]

(* "The rate limiter is shared across all phases using this tuning set"    *)
(* (api/types.go:293): however many phases use it, and whenever they come, *)
(* they are granted no more than the burst and the rate over any span of   *)
(* time, and no action is started before its grant.                        *)
Grants(s, t) ==
    UNION { { <<p, i>> : i \in { j \in 1 .. Len(granted[p]) : granted[p][j] \in s .. t } } :
              p \in Phases }

GlobalRate ==
    /\ \A s \in 0 .. MaxTime : \A t \in s .. MaxTime :
          Cardinality(Grants(s, t)) <= Burst + (t - s) \div Period
    /\ \A p \in Phases : \A i \in 1 .. Len(granted[p]) :
          i <= next[p] => startedAt[p][i] >= granted[p][i]

(* A set of its own phase keeps its distance between actions, and runs no  *)
(* more than its limit at once.                                            *)
Distance(p, i) ==
    CASE load[p].kind = "qps"         -> Period
      [] load[p].kind = "stepped"     -> IF i % BurstSize = 0 THEN Period ELSE 0
      [] load[p].kind = "timeLimited" -> TimeLimit \div load[p].actions
      [] OTHER                   -> 0

PhaseRate ==
    \A p \in Phases :
       /\ \A i \in 1 .. next[p] - 1 : startedAt[p][i + 1] >= startedAt[p][i] + Distance(p, i)
       /\ load[p].kind = "parallelism" => Cardinality({ r \in running : r[1] = p }) <= Limit

(* Execute returns when each action has run to its end, and not before.    *)
ExecuteWaits ==
    \A p \in Phases : pc[p] = "returned" => {p} \X (1 .. load[p].actions) \subseteq done

LoadIsPaced == GlobalRate /\ PhaseRate /\ ExecuteWaits
=============================================================================
