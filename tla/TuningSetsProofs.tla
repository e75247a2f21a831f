-------------------------- MODULE TuningSetsProofs --------------------------
(***************************************************************************)
(* Proofs about TuningSets for every load, period, burst and limit, and    *)
(* any number of phases: type correctness and LoadIsPaced.  The heart is   *)
(* the token bucket that all phases of a globalQPSLoad share.              *)
(***************************************************************************)
EXTENDS TuningSets, FiniteSetTheorems, TLAPS

-----------------------------------------------------------------------------
(* The inductive invariant.                                                *)

(* Where a phase stands in its list of actions.                            *)
ProgressInv ==
    \A p \in Phases :
       /\ pc[p] = "idle" => next[p] = 0
       /\ pc[p] \in {"loop", "wait"} => next[p] < load[p].actions
       /\ pc[p] \in {"join", "returned"} => next[p] = load[p].actions
       /\ pc[p] = "wait" => load[p].kind = "global"

(* An action that was started sleeps, runs or has ended; when a phase has  *)
(* returned, all have ended.                                               *)
ActionsInv ==
    /\ \A p \in Phases : \A i \in 1 .. next[p] :
          \/ <<p, i>> \in running \cup done
          \/ \E d \in delayed : d[1] = p /\ d[2] = i
    /\ ExecuteWaits

(* Starts of a phase keep their distance, and the time its loop waits for  *)
(* keeps that of the next one.                                             *)
PaceInv ==
    \A p \in Phases :
       /\ \A i \in 1 .. next[p] - 1 : startedAt[p][i + 1] >= startedAt[p][i] + Distance(p, i)
       /\ next[p] # 0 => /\ startedAt[p][next[p]] <= now
                         /\ load[p].kind \in {"qps", "stepped", "timeLimited"} =>
                               startedAt[p][next[p]] + Distance(p, next[p]) <= due[p]

(* Only as many workers run actions as there may be.                       *)
WorkersInv ==
    /\ IsFiniteSet(running)
    /\ \A p \in Phases : load[p].kind = "parallelism" =>
          Cardinality({ r \in running : r[1] = p }) <= Limit
    /\ \A d \in delayed : load[d[1]].kind = "randomizedTimeLimited"

(* All phases of a globalQPSLoad that were created use one limiter, and a  *)
(* phase has one grant for each start and one for the start it waits for.  *)
SharedInv ==
    \A p \in Phases :
       /\ uses[p] \in {"none", existing}
       /\ load[p].kind = "global" /\ pc[p] # "idle" => uses[p] # "none"
       /\ load[p].kind # "global" \/ existing = "none" => granted[p] = << >>
       /\ load[p].kind = "global" =>
             Len(granted[p]) = IF pc[p] = "wait" THEN next[p] + 1 ELSE next[p]
       /\ pc[p] = "wait" => due[p] = granted[p][next[p] + 1]
       /\ \A i \in 1 .. Len(granted[p]) : i <= next[p] => startedAt[p][i] >= granted[p][i]

(* When the bucket of a limiter would be empty, had it no bottom: the time *)
(* of the last reservation less the credit it left.                        *)
EmptyAt(l) == limiters[l].last - limiters[l].credit

(* The grants from s on.                                                   *)
GrantsSince(s) ==
    UNION { { <<p, i>> : i \in { j \in 1 .. Len(granted[p]) : granted[p][j] >= s } } :
              p \in Phases }

(* The bucket: no grant is later than what the last reservation gave, and  *)
(* those since s are paid for by the burst and the time from s until the   *)
(* bucket is empty.                                                        *)
BucketInv ==
    /\ \A l \in Phases : limiters[l].last <= now
    /\ existing # "none" =>
          /\ \A p \in Phases : \A i \in 1 .. Len(granted[p]) :
                \/ granted[p][i] <= EmptyAt(existing)
                \/ granted[p][i] <= limiters[existing].last
          /\ \A s \in Nat :
                /\ IsFiniteSet(GrantsSince(s))
                /\ \/ GrantsSince(s) = {}
                   \/ Cardinality(GrantsSince(s)) * Period <= Burst * Period + EmptyAt(existing) - s

(* Over any span of time, the grants of the limiter stay below its rate.   *)
RateInv ==
    \A s \in Nat : \A t \in Nat :
       s <= t => Cardinality(Grants(s, t)) <= Burst + (t - s) \div Period

IndInv == /\ TuningTypeOK /\ ProgressInv /\ ActionsInv /\ PaceInv /\ WorkersInv
          /\ SharedInv /\ BucketInv /\ RateInv

-----------------------------------------------------------------------------
(* Arithmetic and membership.                                              *)

(* What fits into the burst and a span d of time, counted in periods.      *)
LEMMA PerPeriod ==
    ASSUME NEW P \in Nat \ {0}, NEW B \in Nat, NEW n \in Nat, NEW d \in Nat,
           n * P <= B * P + d
    PROVE  n <= B + d \div P
<1> DEFINE q == d \div P
<1>1. q \in Nat /\ d < (q + 1) * P
  OBVIOUS
<1>2. SUFFICES ASSUME n >= B + q + 1 PROVE FALSE
  BY <1>1
<1>3. PICK e \in Nat : n = B + q + 1 + e
  <2>1. n - (B + q + 1) \in Nat /\ n = B + q + 1 + (n - (B + q + 1))
    BY <1>1, <1>2
  <2> QED
    BY <2>1
<1>4. n * P = B * P + (q + 1) * P + e * P
  BY <1>1, <1>3
<1>5. e * P >= 0
  OBVIOUS
<1> HIDE DEF q
<1> QED
  BY <1>1, <1>4, <1>5

(* The constants and the clock are numbers.                                *)
LEMMA Numbers ==
    /\ Period \in Nat \ {0} /\ Burst \in Nat \ {0} /\ BurstSize \in Nat \ {0}
    /\ TimeLimit \in Nat \ {0} /\ Limit \in Nat \ {0} /\ MaxTime \in Nat
    /\ Burst * Period \in Nat /\ Burst * Period >= Period
<1>1. /\ Period \in Nat \ {0} /\ Burst \in Nat \ {0} /\ BurstSize \in Nat \ {0}
      /\ TimeLimit \in Nat \ {0} /\ Limit \in Nat \ {0} /\ MaxTime \in Nat
  BY TuningAssumption
<1>2. Burst * Period \in Nat /\ Burst * Period = Period + (Burst - 1) * Period
      /\ (Burst - 1) * Period >= 0
  BY <1>1
<1> QED
  BY <1>1, <1>2

LEMMA NowType == ASSUME TuningTypeOK PROVE now \in Nat /\ now <= MaxTime
BY Numbers DEF TuningTypeOK

(* The loads of a test.                                                    *)
LEMMA LoadType ==
    ASSUME TuningTypeOK
    PROVE  /\ load \in [Phases -> [kind : SetKinds, actions : Nat]]
           /\ "none" \notin Phases
BY TuningAssumption DEF TuningTypeOK, Phases

LEMMA PhaseTypes ==
    ASSUME TuningTypeOK, NEW p \in Phases
    PROVE  /\ load[p].actions \in Nat /\ next[p] \in Nat /\ due[p] \in Nat
           /\ Len(startedAt[p]) = next[p]
           /\ \A i \in 1 .. next[p] : startedAt[p][i] \in Nat
<1>1. load[p].actions \in Nat
  BY LoadType
<1>2. next[p] \in Nat /\ due[p] \in Nat /\ startedAt[p] \in Seq(Nat) /\ Len(startedAt[p]) = next[p]
  BY DEF TuningTypeOK
<1> QED
  BY <1>1, <1>2

(* Distances are times.                                                    *)
LEMMA DistanceType ==
    ASSUME TuningTypeOK, NEW p \in Phases, NEW i \in Nat, load[p].actions # 0
    PROVE  Distance(p, i) \in Nat
<1>1. Period \in Nat /\ TimeLimit \in Nat /\ load[p].actions \in Nat \ {0}
  BY LoadType, TuningAssumption
<1>2. TimeLimit \div load[p].actions \in Nat
  BY <1>1
<1> QED
  BY <1>1, <1>2 DEF Distance

(* Membership in Grants and GrantsSince.                                   *)
LEMMA GrantsMember ==
    ASSUME NEW s, NEW t, NEW x
    PROVE  x \in Grants(s, t) <=> \E p \in Phases : \E i \in 1 .. Len(granted[p]) :
                                     x = <<p, i>> /\ granted[p][i] \in s .. t
BY DEF Grants

LEMMA SinceMember ==
    ASSUME NEW s, NEW x
    PROVE  x \in GrantsSince(s) <=> \E p \in Phases : \E i \in 1 .. Len(granted[p]) :
                                       x = <<p, i>> /\ granted[p][i] >= s
BY DEF GrantsSince

-----------------------------------------------------------------------------
(* Types, actions and distances: what every step keeps.                    *)

(* The next action is noted with the time of its start.                    *)
LEMMA StartedType ==
    ASSUME TuningTypeOK, ProgressInv, NEW p \in Phases, pc[p] \in {"loop", "wait"},
           Started(p, next[p] + 1), UNCHANGED <<now, load>>
    PROVE  /\ next' \in [Phases -> Nat] /\ startedAt' \in [Phases -> Seq(Nat)]
           /\ pc' \in [Phases -> {"idle", "loop", "wait", "join", "returned"}]
           /\ \A q \in Phases : next'[q] <= load[q].actions /\ Len(startedAt'[q]) = next'[q]
           /\ \A q \in Phases \ {p} : /\ next'[q] = next[q] /\ pc'[q] = pc[q]
                                      /\ startedAt'[q] = startedAt[q]
           /\ next'[p] = next[p] + 1 /\ startedAt'[p][next[p] + 1] = now
           /\ \A i \in 1 .. next[p] : startedAt'[p][i] = startedAt[p][i]
           /\ pc'[p] = IF next[p] + 1 = load[p].actions THEN "join" ELSE "loop"
           /\ Len(startedAt'[p]) = next[p] + 1
<1>1. now \in Nat /\ next[p] < load[p].actions /\ load[p].actions \in Nat /\ next[p] \in Nat
  BY LoadType, NowType DEF TuningTypeOK, ProgressInv
<1>2. startedAt[p] \in Seq(Nat) /\ Len(startedAt[p]) = next[p]
  BY DEF TuningTypeOK
<1>3. /\ Append(startedAt[p], now) \in Seq(Nat) /\ Len(Append(startedAt[p], now)) = next[p] + 1
      /\ Append(startedAt[p], now)[next[p] + 1] = now
      /\ \A i \in 1 .. next[p] : Append(startedAt[p], now)[i] = startedAt[p][i]
  BY <1>1, <1>2
<1>4. startedAt'[p] = Append(startedAt[p], now)
  BY DEF Started, TuningTypeOK
<1> QED
  BY <1>1, <1>2, <1>3, <1>4, SMTT(30) DEF Started, TuningTypeOK

(* The sleeps end at a time.                                               *)
LEMMA SleepType ==
    ASSUME TuningTypeOK, ProgressInv, NEW p \in Phases, pc[p] = "loop", NEW t \in Sleep(p, next[p] + 1),
           load[p].kind \in {"qps", "randomized", "stepped", "timeLimited", "poisson"}
    PROVE  t \in Nat
<1>1. /\ now \in Nat /\ due[p] \in Nat /\ Period \in Nat /\ TimeLimit \in Nat
      /\ load[p].actions \in Nat \ {0}
  <2>1. next[p] < load[p].actions /\ load[p].actions \in Nat /\ next[p] \in Nat /\ due[p] \in Nat
    BY LoadType DEF TuningTypeOK, ProgressInv
  <2> QED
    BY <2>1, NowType, Numbers
<1>2. TimeLimit \div load[p].actions \in Nat
  BY <1>1
<1> QED
  BY <1>1, <1>2 DEF Sleep, QpsSleep, RandomizedSleep, SteppedSleep, TimeLimitedSleep, NextLaunch

(* What a reservation does to the bucket and when it is granted.           *)
LEMMA ReserveFacts ==
    ASSUME TuningTypeOK, NEW p \in Phases, uses[p] \in Phases, Reserve(p)
    PROVE  LET l == uses[p]
           IN  /\ limiters' \in [Phases -> [credit : Int, last : Nat]]
               /\ limiters'[l].last = now
               /\ \A k \in Phases \ {l} : limiters'[k] = limiters[k]
               /\ limiters'[l].last - limiters'[l].credit =
                     Period + (IF EmptyAt(l) > now - Burst * Period
                               THEN EmptyAt(l) ELSE now - Burst * Period)
               /\ due'[p] = IF limiters'[l].last - limiters'[l].credit > now
                            THEN limiters'[l].last - limiters'[l].credit ELSE now
               /\ due' \in [Phases -> Nat] /\ \A q \in Phases \ {p} : due'[q] = due[q]
               /\ granted' = [granted EXCEPT ![p] = Append(@, due'[p])]
<1> DEFINE l == uses[p]
           left == Credit(l) - Period
<1>1. /\ now \in Nat /\ Period \in Nat /\ Burst \in Nat /\ Burst * Period \in Nat
      /\ limiters[l].credit \in Int /\ limiters[l].last \in Nat
  BY Numbers, NowType DEF TuningTypeOK
<1> HIDE DEF l
<1>2. Credit(l) = IF EmptyAt(l) > now - Burst * Period THEN now - EmptyAt(l) ELSE Burst * Period
  <2>1. ASSUME NEW c \in Int, NEW t \in Nat, NEW z \in Nat, NEW b \in Nat
        PROVE  (IF c + t - z > b THEN b ELSE c + t - z)
                  = IF z - c > t - b THEN t - (z - c) ELSE b
    BY ONLY <2>1
  <2> QED
    BY <1>1, <2>1 DEF Credit, EmptyAt
<1>3. left \in Int
  BY <1>1, <1>2 DEF EmptyAt
<1>4. limiters' = [limiters EXCEPT ![l] = [credit |-> left, last |-> now]]
  BY DEF Reserve, l
<1>a. /\ due' = [due EXCEPT ![p] = IF left < 0 THEN now - left ELSE now]
      /\ granted' = [granted EXCEPT ![p] = Append(@, due'[p])]
  BY DEF Reserve, l
<1>b. l \in Phases
  BY DEF l
<1> HIDE DEF left
<1>5. /\ limiters' \in [Phases -> [credit : Int, last : Nat]]
      /\ limiters'[l].last = now /\ limiters'[l].credit = left
      /\ \A k \in Phases \ {l} : limiters'[k] = limiters[k]
  BY <1>1, <1>3, <1>4, <1>b DEF TuningTypeOK
<1>6. limiters'[l].last - limiters'[l].credit = now - left
  BY <1>5
<1>7. now - left = Period + (IF EmptyAt(l) > now - Burst * Period
                            THEN EmptyAt(l) ELSE now - Burst * Period)
  BY <1>1, <1>2 DEF EmptyAt, left
<1>9. /\ due'[p] = IF left < 0 THEN now - left ELSE now
      /\ due' \in [Phases -> Nat] /\ \A q \in Phases \ {p} : due'[q] = due[q]
  <2>1. (IF left < 0 THEN now - left ELSE now) \in Nat
    BY <1>1, <1>3
  <2> QED
    BY <2>1, <1>a DEF TuningTypeOK
<1>10. due'[p] = IF now - left > now THEN now - left ELSE now
  BY <1>1, <1>3, <1>9
<1> QED
  BY <1>5, <1>6, <1>7, <1>9, <1>10, <1>a DEF l

(* No step changes the load.                                               *)
LEMMA LoadFixed == ASSUME [TuningNext]_tuningVars PROVE load' = load /\ Phases' = Phases
BY DEF TuningNext, tuningVars, Phases, CreateTuningSet, StartAction, StartDelayed, StartByWorker,
       WaitForLimiter, StartLimited, Return, WakeUp, ActionEnds, Tick

LEMMA TypeStep ==
    ASSUME TuningTypeOK, ProgressInv, SharedInv, [TuningNext]_tuningVars
    PROVE  TuningTypeOK'
<1> USE LoadFixed
<1>1. ASSUME NEW p \in Phases, CreateTuningSet(p) PROVE TuningTypeOK'
  <2>1. /\ existing' \in Phases \cup {"none"} /\ uses' \in [Phases -> Phases \cup {"none"}]
    <3>1. CASE load[p].kind = "global"
      <4>1. existing' \in Phases \cup {"none"} /\ uses' = [uses EXCEPT ![p] = existing']
        BY <1>1, <3>1 DEF CreateTuningSet, GetOrCreate, TuningTypeOK
      <4> QED
        BY <4>1 DEF TuningTypeOK
    <3>2. CASE load[p].kind # "global"
      BY <1>1, <3>2 DEF CreateTuningSet, TuningTypeOK
    <3> QED
      BY <3>1, <3>2
  <2>2. /\ pc' \in [Phases -> {"idle", "loop", "wait", "join", "returned"}]
        /\ due' \in [Phases -> Nat]
    BY <1>1, NowType DEF CreateTuningSet, TuningTypeOK
  <2> QED
    BY <1>1, <2>1, <2>2 DEF CreateTuningSet, TuningTypeOK
<1>2. ASSUME NEW p \in Phases, StartAction(p) PROVE TuningTypeOK'
  <2>1. PICK t \in Sleep(p, next[p] + 1) : due' = [due EXCEPT ![p] = t]
    BY <1>2 DEF StartAction
  <2>2. t \in Nat
    BY <1>2, SleepType DEF StartAction
  <2>3. pc[p] \in {"loop", "wait"} /\ Started(p, next[p] + 1) /\ UNCHANGED <<now, load>>
    BY <1>2 DEF StartAction
  <2>4. due' \in [Phases -> Nat]
    BY <2>1, <2>2 DEF TuningTypeOK
  <2>5. running' \subseteq Phases \X Nat
    BY <1>2 DEF StartAction, TuningTypeOK
  <2> QED
    BY <1>2, <2>3, <2>4, <2>5, StartedType DEF StartAction, limiterVars, TuningTypeOK
<1>3. ASSUME NEW p \in Phases, StartDelayed(p) PROVE TuningTypeOK'
  <2>1. PICK d \in 0 .. TimeLimit - 1 : delayed' = delayed \cup {<<p, next[p] + 1, now + d>>}
    BY <1>3 DEF StartDelayed
  <2>2. delayed' \subseteq Phases \X Nat \X Nat
    BY <2>1, NowType, Numbers DEF TuningTypeOK
  <2>3. pc[p] \in {"loop", "wait"} /\ Started(p, next[p] + 1) /\ UNCHANGED <<now, load>>
    BY <1>3 DEF StartDelayed
  <2> QED
    BY <1>3, <2>2, <2>3, StartedType DEF StartDelayed, limiterVars, TuningTypeOK
<1>4. ASSUME NEW p \in Phases, StartByWorker(p) PROVE TuningTypeOK'
  <2>1. pc[p] \in {"loop", "wait"} /\ Started(p, next[p] + 1) /\ UNCHANGED <<now, load>>
    BY <1>4 DEF StartByWorker
  <2>2. running' \subseteq Phases \X Nat
    BY <1>4 DEF StartByWorker, TuningTypeOK
  <2> QED
    BY <1>4, <2>1, <2>2, StartedType DEF StartByWorker, limiterVars, TuningTypeOK
<1>5. ASSUME NEW p \in Phases, WaitForLimiter(p) PROVE TuningTypeOK'
  <2>1. uses[p] \in Phases /\ Reserve(p)
    BY <1>5 DEF WaitForLimiter, SharedInv, TuningTypeOK
  <2>2. granted' \in [Phases -> Seq(Nat)]
    <3>1. due'[p] \in Nat /\ granted' = [granted EXCEPT ![p] = Append(@, due'[p])]
      BY <2>1, ReserveFacts
    <3>2. Append(granted[p], due'[p]) \in Seq(Nat)
      BY <3>1 DEF TuningTypeOK
    <3> QED
      BY <3>1, <3>2 DEF TuningTypeOK
  <2> QED
    BY <1>5, <2>1, <2>2, ReserveFacts DEF WaitForLimiter, TuningTypeOK
<1>6. ASSUME NEW p \in Phases, StartLimited(p) PROVE TuningTypeOK'
  <2>1. pc[p] \in {"loop", "wait"} /\ Started(p, next[p] + 1) /\ UNCHANGED <<now, load>>
    BY <1>6 DEF StartLimited
  <2>2. running' \subseteq Phases \X Nat
    BY <1>6 DEF StartLimited, TuningTypeOK
  <2> QED
    BY <1>6, <2>1, <2>2, StartedType DEF StartLimited, limiterVars, TuningTypeOK
<1>7. ASSUME NEW p \in Phases, Return(p) PROVE TuningTypeOK'
  BY <1>7 DEF Return, limiterVars, TuningTypeOK
<1>8. ASSUME NEW d \in delayed, WakeUp(d) PROVE TuningTypeOK'
  <2>1. running' \subseteq Phases \X Nat /\ delayed' \subseteq Phases \X Nat \X Nat
    BY <1>8 DEF WakeUp, TuningTypeOK
  <2> QED
    BY <1>8, <2>1 DEF WakeUp, limiterVars, TuningTypeOK
<1>9. ASSUME NEW r \in running, ActionEnds(r) PROVE TuningTypeOK'
  <2>1. running' \subseteq Phases \X Nat /\ done' \subseteq Phases \X Nat
    BY <1>9 DEF ActionEnds, TuningTypeOK
  <2> QED
    BY <1>9, <2>1 DEF ActionEnds, limiterVars, TuningTypeOK
<1>10. CASE Tick
  <2>1. now' \in 0 .. MaxTime
    BY <1>10, NowType, Numbers DEF Tick
  <2> QED
    BY <1>10, <2>1 DEF Tick, limiterVars, TuningTypeOK
<1>11. CASE UNCHANGED tuningVars
  BY <1>11 DEF tuningVars, TuningTypeOK
<1> QED
  BY <1>1, <1>2, <1>3, <1>4, <1>5, <1>6, <1>7, <1>8, <1>9, <1>10, <1>11 DEF TuningNext

(* Starting an action, whatever kind of set does it.                       *)
Starts(p) == \/ StartAction(p) \/ StartDelayed(p) \/ StartByWorker(p) \/ StartLimited(p)

LEMMA StartsFacts ==
    ASSUME TuningTypeOK, ProgressInv, NEW p \in Phases, Starts(p)
    PROVE  /\ pc[p] \in {"loop", "wait"} /\ Started(p, next[p] + 1) /\ UNCHANGED <<now, load>>
           /\ UNCHANGED <<done, existing, uses, limiters, granted>>
           /\ \A q \in Phases \ {p} : due'[q] = due[q]
BY DEF Starts, StartAction, StartDelayed, StartByWorker, StartLimited, limiterVars, TuningTypeOK

LEMMA ProgressStep ==
    ASSUME TuningTypeOK, ProgressInv, [TuningNext]_tuningVars
    PROVE  ProgressInv'
<1> USE LoadFixed
<1>1. ASSUME NEW p \in Phases, CreateTuningSet(p) PROVE ProgressInv'
  <2>1. next[p] = 0 /\ load[p].actions \in Nat
    BY <1>1, LoadType DEF CreateTuningSet, ProgressInv
  <2>2. /\ pc'[p] = IF load[p].actions = 0 THEN "join" ELSE "loop"
        /\ \A q \in Phases \ {p} : pc'[q] = pc[q]
        /\ UNCHANGED next
    BY <1>1 DEF CreateTuningSet, TuningTypeOK
  <2> QED
    BY <2>1, <2>2 DEF ProgressInv
<1>2. ASSUME NEW p \in Phases, Starts(p) PROVE ProgressInv'
  <2>1. next[p] \in Nat /\ next[p] < load[p].actions /\ load[p].actions \in Nat
    BY <1>2, StartsFacts, LoadType DEF ProgressInv, TuningTypeOK
  <2>2. /\ \A q \in Phases \ {p} : next'[q] = next[q] /\ pc'[q] = pc[q]
        /\ next'[p] = next[p] + 1
        /\ pc'[p] = IF next[p] + 1 = load[p].actions THEN "join" ELSE "loop"
    BY <1>2, StartsFacts, StartedType
  <2> QED
    BY <2>1, <2>2 DEF ProgressInv
<1>3. ASSUME NEW p \in Phases, WaitForLimiter(p) PROVE ProgressInv'
  BY <1>3 DEF WaitForLimiter, ProgressInv, TuningTypeOK
<1>4. ASSUME NEW p \in Phases, Return(p) PROVE ProgressInv'
  BY <1>4 DEF Return, ProgressInv, TuningTypeOK
<1>5. CASE \/ \E d \in delayed : WakeUp(d)
           \/ \E r \in running : ActionEnds(r)
           \/ Tick \/ UNCHANGED tuningVars
  BY <1>5 DEF WakeUp, ActionEnds, Tick, tuningVars, ProgressInv
<1> QED
  BY <1>1, <1>2, <1>3, <1>4, <1>5 DEF TuningNext, Starts

LEMMA ActionsStep ==
    ASSUME TuningTypeOK, ProgressInv, ActionsInv, [TuningNext]_tuningVars
    PROVE  ActionsInv'
<1> USE LoadFixed
<1>1. ASSUME NEW p \in Phases, CreateTuningSet(p) PROVE ActionsInv'
  <2>1. \A q \in Phases : pc'[q] = "returned" => pc[q] = "returned"
    BY <1>1 DEF CreateTuningSet, TuningTypeOK
  <2> QED
    BY <1>1, <2>1 DEF CreateTuningSet, ActionsInv, ExecuteWaits
<1>2. ASSUME NEW p \in Phases, Starts(p) PROVE ActionsInv'
  <2>1. /\ \A q \in Phases \ {p} : next'[q] = next[q] /\ pc'[q] = pc[q]
        /\ next'[p] = next[p] + 1 /\ pc'[p] # "returned" /\ next[p] \in Nat
        /\ done' = done
    BY <1>2, StartsFacts, StartedType DEF TuningTypeOK
  <2>2. /\ running \subseteq running' /\ delayed \subseteq delayed'
        /\ \/ <<p, next[p] + 1>> \in running'
           \/ \E d \in delayed' : d[1] = p /\ d[2] = next[p] + 1
    <3>1. CASE StartAction(p) \/ StartByWorker(p) \/ StartLimited(p)
      BY <3>1 DEF StartAction, StartByWorker, StartLimited
    <3>2. CASE StartDelayed(p)
      <4>1. PICK t \in 0 .. TimeLimit - 1 : delayed' = delayed \cup {<<p, next[p] + 1, now + t>>}
        BY <3>2 DEF StartDelayed
      <4>2. <<p, next[p] + 1, now + t>>[1] = p /\ <<p, next[p] + 1, now + t>>[2] = next[p] + 1
        OBVIOUS
      <4> QED
        BY <3>2, <4>1, <4>2 DEF StartDelayed
    <3> QED
      BY <1>2, <3>1, <3>2 DEF Starts
  <2>3. ExecuteWaits'
    BY <2>1 DEF ActionsInv, ExecuteWaits
  <2>4. \A q \in Phases : \A i \in 1 .. next'[q] :
           \/ <<q, i>> \in running' \cup done'
           \/ \E d \in delayed' : d[1] = q /\ d[2] = i
    <3> TAKE q \in Phases
    <3> TAKE i \in 1 .. next'[q]
    <3>1. CASE q = p /\ i = next[p] + 1
      BY <2>2, <3>1
    <3>2. CASE ~(q = p /\ i = next[p] + 1)
      <4>1. next[q] \in Nat /\ i \in 1 .. next[q]
        BY <2>1, <3>2, PhaseTypes
      <4> QED
        BY <2>1, <2>2, <4>1 DEF ActionsInv
    <3> QED
      BY <3>1, <3>2
  <2> QED
    BY <2>3, <2>4 DEF ActionsInv
<1>3. ASSUME NEW p \in Phases, WaitForLimiter(p) PROVE ActionsInv'
  <2>1. \A q \in Phases : pc'[q] = "returned" => pc[q] = "returned"
    BY <1>3 DEF WaitForLimiter, TuningTypeOK
  <2> QED
    BY <1>3, <2>1 DEF WaitForLimiter, ActionsInv, ExecuteWaits
<1>4. ASSUME NEW p \in Phases, Return(p) PROVE ActionsInv'
  <2>1. \A i \in 1 .. load[p].actions : <<p, i>> \in done
    <3> TAKE i \in 1 .. load[p].actions
    <3>1. i \in 1 .. next[p]
      BY <1>4 DEF Return, ProgressInv
    <3>2. <<p, i>> \notin running /\ \A d \in delayed : d[1] # p
      BY <1>4 DEF Return, Pending
    <3> QED
      BY <3>1, <3>2 DEF ActionsInv
  <2>2. \A q \in Phases \ {p} : pc'[q] = pc[q]
    BY <1>4 DEF Return, TuningTypeOK
  <2>3. ExecuteWaits'
    BY <1>4, <2>1, <2>2 DEF Return, ActionsInv, ExecuteWaits
  <2> QED
    BY <1>4, <2>3 DEF Return, ActionsInv
<1>5. ASSUME NEW d \in delayed, WakeUp(d) PROVE ActionsInv'
  <2>1. ExecuteWaits'
    BY <1>5 DEF WakeUp, ActionsInv, ExecuteWaits
  <2> QED
    BY <1>5, <2>1 DEF WakeUp, ActionsInv
<1>6. ASSUME NEW r \in running, ActionEnds(r) PROVE ActionsInv'
  <2>1. ExecuteWaits'
    BY <1>6 DEF ActionEnds, ActionsInv, ExecuteWaits
  <2> QED
    BY <1>6, <2>1 DEF ActionEnds, ActionsInv
<1>7. CASE Tick \/ UNCHANGED tuningVars
  BY <1>7 DEF Tick, tuningVars, ActionsInv, ExecuteWaits
<1> QED
  BY <1>1, <1>2, <1>3, <1>4, <1>5, <1>6, <1>7 DEF TuningNext, Starts

(* The sleep after a start is at least the distance to the next one.       *)
LEMMA SleepDistance ==
    ASSUME TuningTypeOK, ProgressInv, NEW p \in Phases, pc[p] = "loop", NEW t \in Sleep(p, next[p] + 1),
           load[p].kind \in {"qps", "stepped", "timeLimited"}
    PROVE  now + Distance(p, next[p] + 1) <= t
<1>1. load[p].actions \in Nat \ {0} /\ next[p] \in Nat
  BY PhaseTypes DEF ProgressInv
<1>2. TimeLimit \div load[p].actions \in Nat
  BY <1>1, Numbers
<1> QED
  BY <1>1, <1>2, NowType, Numbers
     DEF Sleep, Distance, QpsSleep, SteppedSleep, TimeLimitedSleep

LEMMA PaceStep ==
    ASSUME TuningTypeOK, ProgressInv, PaceInv, [TuningNext]_tuningVars
    PROVE  PaceInv'
<1> USE LoadFixed
<1>0. \A p, i : Distance(p, i)' = Distance(p, i)
  BY DEF Distance
<1>1. ASSUME NEW p \in Phases, CreateTuningSet(p) PROVE PaceInv'
  <2>1. next[p] = 0 /\ \A q \in Phases \ {p} : due'[q] = due[q]
    BY <1>1 DEF CreateTuningSet, ProgressInv, TuningTypeOK
  <2> QED
    BY <1>0, <1>1, <2>1 DEF CreateTuningSet, PaceInv, TuningTypeOK
<1>2. ASSUME NEW p \in Phases, Starts(p) PROVE PaceInv'
  <2> DEFINE n == next[p]
  <2>1. /\ \A q \in Phases \ {p} : /\ next'[q] = next[q] /\ due'[q] = due[q]
                                   /\ startedAt'[q] = startedAt[q]
        /\ next'[p] = n + 1 /\ n \in Nat
        /\ startedAt'[p][n + 1] = now
        /\ \A i \in 1 .. n : startedAt'[p][i] = startedAt[p][i]
        /\ now' = now
    BY <1>2, StartsFacts, StartedType, ZenonT(40) DEF TuningTypeOK
  <2>2. load[p].actions # 0 /\ load[p].actions \in Nat /\ now \in Nat
    BY <1>2, StartsFacts, PhaseTypes, NowType DEF ProgressInv
  <2>3. n # 0 => now >= startedAt[p][n] + Distance(p, n)
    <3> SUFFICES ASSUME n # 0 PROVE now >= startedAt[p][n] + Distance(p, n)
      OBVIOUS
    <3>1. startedAt[p][n] \in Nat /\ startedAt[p][n] <= now
      BY <2>1 DEF PaceInv, TuningTypeOK
    <3>2. CASE load[p].kind \in {"qps", "stepped", "timeLimited"}
      <4>1. due[p] <= now /\ due[p] \in Nat
        BY <1>2, <3>2 DEF Starts, StartAction, StartDelayed, StartByWorker, StartLimited,
                          TuningTypeOK
      <4>2. startedAt[p][n] + Distance(p, n) <= due[p]
        BY <3>2 DEF PaceInv
      <4>3. Distance(p, n) \in Nat
        BY <2>1, <2>2, DistanceType
      <4> QED
        BY <2>2, <3>1, <4>1, <4>2, <4>3
    <3>3. CASE load[p].kind \notin {"qps", "stepped", "timeLimited"}
      BY <2>2, <3>1, <3>3 DEF Distance
    <3> QED
      BY <3>2, <3>3
  <2>4. load[p].kind \in {"qps", "stepped", "timeLimited"} => now + Distance(p, n + 1) <= due'[p]
    <3> SUFFICES ASSUME load[p].kind \in {"qps", "stepped", "timeLimited"}
                 PROVE  now + Distance(p, n + 1) <= due'[p]
      OBVIOUS
    <3>1. StartAction(p)
      BY <1>2 DEF Starts, StartDelayed, StartByWorker, StartLimited, ProgressInv
    <3>2. PICK t \in Sleep(p, n + 1) : due' = [due EXCEPT ![p] = t]
      BY <3>1 DEF StartAction
    <3>3. due'[p] = t /\ pc[p] = "loop"
      BY <3>1, <3>2 DEF StartAction, TuningTypeOK
    <3> QED
      BY <3>3, SleepDistance
  <2>5. ASSUME NEW q \in Phases
        PROVE  /\ \A i \in 1 .. next'[q] - 1 : startedAt'[q][i + 1] >= startedAt'[q][i] + Distance(q, i)
               /\ next'[q] # 0 => /\ startedAt'[q][next'[q]] <= now
                                  /\ load[q].kind \in {"qps", "stepped", "timeLimited"} =>
                                        startedAt'[q][next'[q]] + Distance(q, next'[q]) <= due'[q]
    <3>1. CASE q # p
      BY <2>1, <3>1 DEF PaceInv
    <3>2. CASE q = p
      <4>1. ASSUME NEW i \in 1 .. n
            PROVE  startedAt'[p][i + 1] >= startedAt'[p][i] + Distance(p, i)
        <5>1. CASE i = n
          BY <2>1, <2>3, <5>1
        <5>2. CASE i # n
          BY <2>1, <5>2 DEF PaceInv
        <5> QED
          BY <5>1, <5>2
      <4> QED
        BY <2>1, <2>2, <2>4, <3>2, <4>1
    <3> QED
      BY <3>1, <3>2
  <2>6. next' \in [Phases -> Nat]
    BY <1>2, StartsFacts, StartedType
  <2> QED
    BY <1>0, <2>1, <2>5, <2>6 DEF PaceInv
<1>3. ASSUME NEW p \in Phases, WaitForLimiter(p) PROVE PaceInv'
  <2>1. /\ load[p].kind = "global" /\ UNCHANGED <<next, startedAt, now>>
        /\ \A q \in Phases \ {p} : due'[q] = due[q]
    BY <1>3 DEF WaitForLimiter, Reserve, TuningTypeOK
  <2> QED
    BY <1>0, <2>1 DEF PaceInv, TuningTypeOK
<1>4. CASE \/ \E p \in Phases : Return(p)
           \/ \E d \in delayed : WakeUp(d)
           \/ \E r \in running : ActionEnds(r)
           \/ UNCHANGED tuningVars
  <2>1. UNCHANGED <<next, startedAt, due, now>>
    BY <1>4 DEF Return, WakeUp, ActionEnds, tuningVars
  <2> QED
    BY <1>0, <2>1 DEF PaceInv, TuningTypeOK
<1>5. CASE Tick
  <2>1. UNCHANGED <<next, startedAt, due>> /\ now' = now + 1 /\ now \in Nat
    BY <1>5, NowType DEF Tick
  <2>2. \A p \in Phases : next[p] # 0 => startedAt[p][next[p]] \in Nat
    BY PhaseTypes
  <2> QED
    BY <1>0, <2>1, <2>2 DEF PaceInv
<1> QED
  BY <1>1, <1>2, <1>3, <1>4, <1>5 DEF TuningNext, Starts

RunningOf(p) == { r \in running : r[1] = p }

LEMMA WorkersStep ==
    ASSUME TuningTypeOK, ProgressInv, WorkersInv, [TuningNext]_tuningVars
    PROVE  WorkersInv'
<1> USE LoadFixed
<1>0. ASSUME IsFiniteSet(running'),
             \A q \in Phases : load[q].kind = "parallelism" => Cardinality(RunningOf(q)') <= Limit,
             \A d \in delayed' : load[d[1]].kind = "randomizedTimeLimited"
      PROVE  WorkersInv'
  BY <1>0 DEF WorkersInv, RunningOf
<1>00. /\ IsFiniteSet(running)
       /\ \A q \in Phases : load[q].kind = "parallelism" => Cardinality(RunningOf(q)) <= Limit
       /\ \A d \in delayed : load[d[1]].kind = "randomizedTimeLimited"
  BY DEF WorkersInv, RunningOf
<1>1. ASSUME NEW p \in Phases, NEW i, running' = running \cup {<<p, i>>},
             load[p].kind # "parallelism"
      PROVE  /\ IsFiniteSet(running')
             /\ \A q \in Phases : load[q].kind = "parallelism" =>
                   Cardinality(RunningOf(q)') <= Limit
  <2>1. IsFiniteSet(running')
    BY <1>00, <1>1, FS_AddElement
  <2>2. \A q \in Phases \ {p} : RunningOf(q)' = RunningOf(q)
    BY <1>1 DEF RunningOf
  <2> QED
    BY <1>00, <1>1, <2>1, <2>2
<1>2. ASSUME NEW p \in Phases, StartAction(p) \/ StartLimited(p) PROVE WorkersInv'
  <2>1. /\ running' = running \cup {<<p, next[p] + 1>>}
        /\ load[p].kind # "parallelism" /\ UNCHANGED delayed
    BY <1>2 DEF StartAction, StartLimited, ProgressInv
  <2> QED
    BY <1>0, <1>00, <1>1, <2>1
<1>3. ASSUME NEW p \in Phases, StartDelayed(p) PROVE WorkersInv'
  <2>1. PICK t \in 0 .. TimeLimit - 1 : delayed' = delayed \cup {<<p, next[p] + 1, now + t>>}
    BY <1>3 DEF StartDelayed
  <2>2. load[p].kind = "randomizedTimeLimited" /\ UNCHANGED running
    BY <1>3 DEF StartDelayed
  <2>3. \A d \in delayed' : load[d[1]].kind = "randomizedTimeLimited"
    BY <1>00, <2>1, <2>2
  <2>4. \A q \in Phases : RunningOf(q)' = RunningOf(q)
    BY <2>2 DEF RunningOf
  <2> QED
    BY <1>0, <1>00, <2>2, <2>3, <2>4
<1>4. ASSUME NEW p \in Phases, StartByWorker(p) PROVE WorkersInv'
  <2>1. /\ running' = running \cup {<<p, next[p] + 1>>} /\ UNCHANGED delayed
        /\ Cardinality(RunningOf(p)) < Limit
    BY <1>4 DEF StartByWorker, RunningOf
  <2>2. IsFiniteSet(running')
    BY <1>00, <2>1, FS_AddElement
  <2>3. \A q \in Phases \ {p} : RunningOf(q)' = RunningOf(q)
    BY <2>1 DEF RunningOf
  <2>4. RunningOf(p)' = RunningOf(p) \cup {<<p, next[p] + 1>>}
    BY <2>1 DEF RunningOf
  <2>5. IsFiniteSet(RunningOf(p))
    BY <1>00, FS_Subset DEF RunningOf
  <2>6. /\ Cardinality(RunningOf(p)) \in Nat
        /\ \/ Cardinality(RunningOf(p)') = Cardinality(RunningOf(p))
           \/ Cardinality(RunningOf(p)') = Cardinality(RunningOf(p)) + 1
    BY <2>4, <2>5, FS_AddElement, FS_CardinalityType
  <2>7. Cardinality(RunningOf(p)') <= Limit
    BY <2>1, <2>6, Numbers
  <2> QED
    BY <1>0, <1>00, <2>1, <2>2, <2>3, <2>7
<1>5. ASSUME NEW d \in delayed, WakeUp(d) PROVE WorkersInv'
  <2>1. d[1] \in Phases /\ load[d[1]].kind # "parallelism"
    BY <1>00 DEF TuningTypeOK
  <2>2. running' = running \cup {<<d[1], d[2]>>} /\ delayed' \subseteq delayed
    BY <1>5 DEF WakeUp
  <2> QED
    BY <1>0, <1>00, <1>1, <2>1, <2>2
<1>6. ASSUME NEW r \in running, ActionEnds(r) PROVE WorkersInv'
  <2>1. running' \subseteq running /\ UNCHANGED delayed
    BY <1>6 DEF ActionEnds
  <2>2. IsFiniteSet(running')
    BY <1>00, <2>1, FS_Subset
  <2>3. ASSUME NEW q \in Phases PROVE Cardinality(RunningOf(q)') <= Cardinality(RunningOf(q))
    <3>1. RunningOf(q)' \subseteq RunningOf(q) /\ RunningOf(q) \subseteq running
      BY <2>1 DEF RunningOf
    <3>2. IsFiniteSet(RunningOf(q))
      BY <1>00, <3>1, FS_Subset
    <3> QED
      BY <3>1, <3>2, FS_Subset
  <2>4. ASSUME NEW q \in Phases
        PROVE  Cardinality(RunningOf(q)') \in Nat /\ Cardinality(RunningOf(q)) \in Nat
    BY <1>00, <2>2, FS_Subset, FS_CardinalityType DEF RunningOf
  <2> QED
    BY <1>0, <1>00, <2>1, <2>2, <2>3, <2>4, Numbers
<1>7. CASE \/ \E p \in Phases : CreateTuningSet(p) \/ WaitForLimiter(p) \/ Return(p)
           \/ Tick \/ UNCHANGED tuningVars
  <2>1. UNCHANGED <<running, delayed>>
    BY <1>7 DEF CreateTuningSet, WaitForLimiter, Return, Tick, tuningVars
  <2> QED
    BY <2>1 DEF WorkersInv
<1> QED
  BY <1>2, <1>3, <1>4, <1>5, <1>6, <1>7 DEF TuningNext

LEMMA SharedStep ==
    ASSUME TuningTypeOK, ProgressInv, SharedInv, [TuningNext]_tuningVars
    PROVE  SharedInv'
<1> USE LoadFixed
<1>0. \A q \in Phases : granted[q] \in Seq(Nat) /\ Len(granted[q]) \in Nat
  BY DEF TuningTypeOK
<1>1. ASSUME NEW p \in Phases, CreateTuningSet(p) PROVE SharedInv'
  <2>1. /\ UNCHANGED <<next, startedAt, granted>>
        /\ \A q \in Phases \ {p} : pc'[q] = pc[q] /\ due'[q] = due[q] /\ uses'[q] = uses[q]
        /\ pc[p] = "idle" /\ pc'[p] \in {"join", "loop"}
    <3>1. \A q \in Phases \ {p} : uses'[q] = uses[q]
      BY <1>1 DEF CreateTuningSet, GetOrCreate, TuningTypeOK
    <3> QED
      BY <1>1, <3>1 DEF CreateTuningSet, TuningTypeOK
  <2>2. existing # "none" => existing' = existing
    BY <1>1 DEF CreateTuningSet, GetOrCreate
  <2>3. /\ existing' = "none" => existing = "none"
        /\ load[p].kind = "global" => uses'[p] = existing' /\ existing' # "none"
        /\ load[p].kind # "global" => uses'[p] = uses[p] /\ existing' = existing
    <3>1. CASE load[p].kind = "global"
      <4>1. existing' = (IF existing = "none" THEN p ELSE existing) /\ uses'[p] = existing'
        BY <1>1, <3>1 DEF CreateTuningSet, GetOrCreate, TuningTypeOK
      <4> QED
        BY <3>1, <4>1, LoadType
    <3>2. CASE load[p].kind # "global"
      BY <1>1, <3>2 DEF CreateTuningSet
    <3> QED
      BY <3>1, <3>2
  <2>4. \A q \in Phases : existing = "none" => uses[q] = "none"
    BY DEF SharedInv
  <2> QED
    BY <2>1, <2>2, <2>3, <2>4 DEF SharedInv
<1>2. ASSUME NEW p \in Phases, Starts(p) PROVE SharedInv'
  <2>1. /\ \A q \in Phases \ {p} : /\ next'[q] = next[q] /\ due'[q] = due[q]
                                   /\ startedAt'[q] = startedAt[q] /\ pc'[q] = pc[q]
        /\ next'[p] = next[p] + 1 /\ next[p] \in Nat
        /\ startedAt'[p][next[p] + 1] = now
        /\ \A i \in 1 .. next[p] : startedAt'[p][i] = startedAt[p][i]
        /\ UNCHANGED <<uses, existing, granted>>
        /\ pc'[p] \notin {"wait", "idle"} /\ pc[p] # "idle"
    BY <1>2, StartsFacts, StartedType, ZenonT(40) DEF TuningTypeOK
  <2>2. load[p].kind = "global" => pc[p] = "wait" /\ due[p] <= now
    BY <1>2 DEF Starts, StartAction, StartDelayed, StartByWorker, StartLimited
  <2>3. load[p].kind = "global" => /\ Len(granted[p]) = next[p] + 1
                                   /\ granted[p][next[p] + 1] <= now
    BY <2>2 DEF SharedInv
  <2>4. \A i \in 1 .. Len(granted[p]) : i <= next[p] + 1 => startedAt'[p][i] >= granted[p][i]
    <3>1. CASE load[p].kind = "global"
      <4> SUFFICES ASSUME NEW i \in 1 .. next[p] + 1
                   PROVE  startedAt'[p][i] >= granted[p][i]
        BY <2>3, <3>1
      <4>0. now \in Nat /\ granted[p][next[p] + 1] \in Nat
        BY <1>0, <2>1, <2>3, <3>1, NowType
      <4>1. CASE i = next[p] + 1
        BY <2>1, <2>3, <3>1, <4>0, <4>1
      <4>2. CASE i # next[p] + 1
        <5>1. i \in 1 .. next[p] /\ i \in 1 .. Len(granted[p])
          BY <2>1, <2>3, <3>1, <4>2
        <5> QED
          BY <2>1, <5>1 DEF SharedInv
      <4> QED
        BY <4>1, <4>2
    <3>2. CASE load[p].kind # "global"
      BY <3>2 DEF SharedInv
    <3> QED
      BY <3>1, <3>2
  <2> QED
    BY <2>1, <2>3, <2>4 DEF SharedInv
<1>3. ASSUME NEW p \in Phases, WaitForLimiter(p) PROVE SharedInv'
  <2>1. /\ \A q \in Phases \ {p} : pc'[q] = pc[q] /\ due'[q] = due[q] /\ granted'[q] = granted[q]
        /\ granted'[p] = Append(granted[p], due'[p])
        /\ pc'[p] = "wait" /\ pc[p] = "loop" /\ load[p].kind = "global"
        /\ UNCHANGED <<next, startedAt, existing, uses>>
    BY <1>3 DEF WaitForLimiter, Reserve, TuningTypeOK
  <2>2. Len(granted[p]) = next[p] /\ uses[p] = existing /\ existing # "none" /\ next[p] \in Nat
    BY <2>1, PhaseTypes DEF SharedInv
  <2>3. /\ Len(granted'[p]) = next[p] + 1 /\ granted'[p][next[p] + 1] = due'[p]
        /\ \A i \in 1 .. next[p] : granted'[p][i] = granted[p][i]
    BY <1>0, <2>1, <2>2
  <2>4. \A i \in 1 .. next[p] : startedAt[p][i] >= granted[p][i]
    BY <2>2 DEF SharedInv
  <2>5. \A i \in 1 .. Len(granted'[p]) : i <= next[p] => startedAt[p][i] >= granted'[p][i]
    BY <2>2, <2>3, <2>4
  <2>6. ASSUME NEW q \in Phases
        PROVE  /\ uses[q] \in {"none", existing}
               /\ load[q].kind = "global" /\ pc'[q] # "idle" => uses[q] # "none"
               /\ load[q].kind # "global" \/ existing = "none" => granted'[q] = << >>
               /\ load[q].kind = "global" =>
                     Len(granted'[q]) = IF pc'[q] = "wait" THEN next[q] + 1 ELSE next[q]
               /\ pc'[q] = "wait" => due'[q] = granted'[q][next[q] + 1]
               /\ \A i \in 1 .. Len(granted'[q]) : i <= next[q] => startedAt[q][i] >= granted'[q][i]
    <3>1. CASE q = p
      BY <2>1, <2>2, <2>3, <2>5, <3>1
    <3>2. CASE q # p
      BY <2>1, <3>2 DEF SharedInv
    <3> QED
      BY <3>1, <3>2
  <2> QED
    BY <2>1, <2>6 DEF SharedInv
<1>4. ASSUME NEW p \in Phases, Return(p) PROVE SharedInv'
  <2>1. /\ \A q \in Phases \ {p} : pc'[q] = pc[q]
        /\ pc'[p] = "returned" /\ pc[p] = "join"
        /\ UNCHANGED <<next, startedAt, due, granted, existing, uses>>
    BY <1>4 DEF Return, limiterVars, TuningTypeOK
  <2> QED
    BY <2>1 DEF SharedInv
<1>5. CASE \/ \E d \in delayed : WakeUp(d)
           \/ \E r \in running : ActionEnds(r)
           \/ Tick \/ UNCHANGED tuningVars
  <2>1. UNCHANGED <<pc, next, startedAt, due, granted, existing, uses>>
    BY <1>5 DEF WakeUp, ActionEnds, Tick, tuningVars, limiterVars
  <2> QED
    BY <2>1 DEF SharedInv
<1> QED
  BY <1>1, <1>2, <1>3, <1>4, <1>5 DEF TuningNext, Starts

-----------------------------------------------------------------------------
(* The bucket.                                                             *)

(* A reservation adds one grant.                                           *)
LEMMA OneMoreGrant ==
    ASSUME TuningTypeOK, NEW p \in Phases, NEW g \in Nat, Phases' = Phases,
           granted' = [granted EXCEPT ![p] = Append(@, g)],
           NEW s \in Nat, NEW t \in Nat
    PROVE  LET x == <<p, Len(granted[p]) + 1>>
           IN  /\ GrantsSince(s)' = IF g >= s THEN GrantsSince(s) \cup {x} ELSE GrantsSince(s)
               /\ x \notin GrantsSince(s)
               /\ Grants(s, t)' = IF g \in s .. t THEN Grants(s, t) \cup {x} ELSE Grants(s, t)
<1> DEFINE n == Len(granted[p])
           x == <<p, n + 1>>
<1>1. /\ n \in Nat /\ granted'[p] = Append(granted[p], g)
      /\ \A q \in Phases \ {p} : granted'[q] = granted[q]
  BY DEF TuningTypeOK
<1>2. /\ Len(granted'[p]) = n + 1 /\ granted'[p][n + 1] = g
      /\ \A i \in 1 .. n : granted'[p][i] = granted[p][i]
  BY <1>1 DEF TuningTypeOK
<1>3. ASSUME NEW q \in Phases, NEW i
      PROVE  i \in 1 .. Len(granted'[q]) <=> i \in 1 .. Len(granted[q]) \/ (q = p /\ i = n + 1)
  BY <1>1, <1>2
<1>4. ASSUME NEW q \in Phases, NEW i \in 1 .. Len(granted[q])
      PROVE  granted'[q][i] = granted[q][i] /\ <<q, i>> # x
  BY <1>1, <1>2
<1>5. x \notin GrantsSince(s)
  BY <1>1, SinceMember
<1>6. ASSUME NEW y
      PROVE  y \in GrantsSince(s)' <=> y \in GrantsSince(s) \/ (y = x /\ g >= s)
  <2>1. y \in GrantsSince(s)' <=> \E q \in Phases : \E i \in 1 .. Len(granted'[q]) :
                                     y = <<q, i>> /\ granted'[q][i] >= s
    BY DEF GrantsSince
  <2>2. y \in GrantsSince(s) <=> \E q \in Phases : \E i \in 1 .. Len(granted[q]) :
                                     y = <<q, i>> /\ granted[q][i] >= s
    BY SinceMember
  <2>3. ASSUME y \in GrantsSince(s)' PROVE y \in GrantsSince(s) \/ (y = x /\ g >= s)
    <3>0. PICK q \in Phases : \E i \in 1 .. Len(granted'[q]) : y = <<q, i>> /\ granted'[q][i] >= s
      BY <2>1, <2>3
    <3>1. PICK i \in 1 .. Len(granted'[q]) : y = <<q, i>> /\ granted'[q][i] >= s
      BY <3>0
    <3> QED
      BY <1>2, <1>3, <1>4, <2>2, <3>1
  <2>4. ASSUME y \in GrantsSince(s) PROVE y \in GrantsSince(s)'
    BY <1>3, <1>4, <2>1, <2>2, <2>4
  <2>5. ASSUME y = x, g >= s PROVE y \in GrantsSince(s)'
    <3>1. n + 1 \in 1 .. Len(granted'[p]) /\ granted'[p][n + 1] >= s
      BY <1>1, <1>2, <2>5
    <3> QED
      BY <2>1, <2>5, <3>1
  <2> QED
    BY <2>3, <2>4, <2>5
<1>7. ASSUME NEW y
      PROVE  y \in Grants(s, t)' <=> y \in Grants(s, t) \/ (y = x /\ g \in s .. t)
  <2>1. y \in Grants(s, t)' <=> \E q \in Phases : \E i \in 1 .. Len(granted'[q]) :
                                     y = <<q, i>> /\ granted'[q][i] \in s .. t
    BY DEF Grants
  <2>2. y \in Grants(s, t) <=> \E q \in Phases : \E i \in 1 .. Len(granted[q]) :
                                     y = <<q, i>> /\ granted[q][i] \in s .. t
    BY GrantsMember
  <2>3. ASSUME y \in Grants(s, t)' PROVE y \in Grants(s, t) \/ (y = x /\ g \in s .. t)
    <3>0. PICK q \in Phases : \E i \in 1 .. Len(granted'[q]) : y = <<q, i>> /\ granted'[q][i] \in s .. t
      BY <2>1, <2>3
    <3>1. PICK i \in 1 .. Len(granted'[q]) : y = <<q, i>> /\ granted'[q][i] \in s .. t
      BY <3>0
    <3> QED
      BY <1>2, <1>3, <1>4, <2>2, <3>1
  <2>4. ASSUME y \in Grants(s, t) PROVE y \in Grants(s, t)'
    BY <1>3, <1>4, <2>1, <2>2, <2>4
  <2>5. ASSUME y = x, g \in s .. t PROVE y \in Grants(s, t)'
    <3>1. n + 1 \in 1 .. Len(granted'[p]) /\ granted'[p][n + 1] \in s .. t
      BY <1>1, <1>2, <2>5
    <3> QED
      BY <2>1, <2>5, <3>1
  <2> QED
    BY <2>3, <2>4, <2>5
<1> HIDE DEF x
<1>8. GrantsSince(s)' = IF g >= s THEN GrantsSince(s) \cup {x} ELSE GrantsSince(s)
  BY <1>6
<1>9. Grants(s, t)' = IF g \in s .. t THEN Grants(s, t) \cup {x} ELSE Grants(s, t)
  BY <1>7
<1> QED
  BY <1>5, <1>8, <1>9 DEF x

(* Steps that leave the grants alone.                                      *)
LEMMA SameGrants ==
    ASSUME UNCHANGED granted, Phases' = Phases
    PROVE  \A s, t : GrantsSince(s)' = GrantsSince(s) /\ Grants(s, t)' = Grants(s, t)
BY DEF GrantsSince, Grants

(* The arithmetic of a reservation: n grants since s fit before it, E is   *)
(* when the bucket was empty, F when it is then, and g the new grant.      *)
LEMMA OneMoreFits ==
    ASSUME NEW n \in Nat, NEW P \in Nat \ {0}, NEW C \in Nat, C >= P, NEW E \in Int, NEW m \in Nat,
           NEW F \in Int, F = P + (IF E > m - C THEN E ELSE m - C),
           NEW g \in Nat, g = IF F > m THEN F ELSE m,
           NEW s \in Nat, s <= g,
           n = 0 \/ n * P <= C + E - s
    PROVE  (n + 1) * P <= C + F - s
<1>1. (n + 1) * P = n * P + P
  OBVIOUS
<1>2. n = 0 => n * P = 0
  OBVIOUS
<1>3. n * P \in Nat
  OBVIOUS
<1> QED
  BY <1>1, <1>2, <1>3

LEMMA BucketStep ==
    ASSUME TuningTypeOK, ProgressInv, SharedInv, BucketInv, RateInv, [TuningNext]_tuningVars
    PROVE  BucketInv' /\ RateInv'
<1> USE LoadFixed
<1>1. ASSUME NEW p \in Phases, WaitForLimiter(p) PROVE BucketInv' /\ RateInv'
  <2> DEFINE e == existing
             E == EmptyAt(e)
             F == limiters'[e].last - limiters'[e].credit
             g == due'[p]
             x == <<p, Len(granted[p]) + 1>>
  <2>1. /\ e = uses[p] /\ e \in Phases /\ e # "none" /\ Reserve(p)
        /\ UNCHANGED <<existing, now>>
    BY <1>1 DEF WaitForLimiter, SharedInv, TuningTypeOK
  <2>2. /\ F = Period + (IF E > now - Burst * Period THEN E ELSE now - Burst * Period)
        /\ g = (IF F > now THEN F ELSE now) /\ g \in Nat
        /\ limiters'[e].last = now
        /\ \A k \in Phases \ {e} : limiters'[k] = limiters[k]
        /\ granted' = [granted EXCEPT ![p] = Append(@, g)]
    BY <2>1, ReserveFacts
  <2>3. E \in Int /\ limiters[e].last \in Nat /\ limiters[e].last <= now /\ now \in Nat
    BY <2>1, NowType DEF EmptyAt, TuningTypeOK, BucketInv
  <2>4. EmptyAt(existing)' = F
    BY <2>1 DEF EmptyAt
  <2> HIDE DEF E, F, g
  <2>5. F \in Int /\ F >= E /\ F <= g /\ now <= g
    <3>1. Period \in Nat /\ Burst * Period \in Nat /\ now - Burst * Period \in Int
      BY <2>3, Numbers
    <3>2. CASE E > now - Burst * Period
      BY <2>2, <2>3, <3>1, <3>2
    <3>3. CASE ~(E > now - Burst * Period)
      <4>1. F = Period + (now - Burst * Period)
        BY <2>2, <3>3
      <4>2. E <= now - Burst * Period
        BY <2>3, <3>1, <3>3
      <4> HIDE DEF F
      <4> QED
        BY <2>2, <2>3, <3>1, <4>1, <4>2
    <3> QED
      BY <3>2, <3>3
  <2>a. /\ \A q \in Phases \ {p} : granted'[q] = granted[q]
        /\ granted[p] \in Seq(Nat) /\ granted'[p] = Append(granted[p], g)
        /\ Len(granted'[p]) = Len(granted[p]) + 1 /\ granted'[p][Len(granted[p]) + 1] = g
        /\ \A i \in 1 .. Len(granted[p]) : granted'[p][i] = granted[p][i]
    BY <2>2 DEF TuningTypeOK
  <2>6. \A s \in Nat : IsFiniteSet(GrantsSince(s)) /\
           (GrantsSince(s) = {} \/ Cardinality(GrantsSince(s)) * Period <= Burst * Period + E - s)
    BY <2>1 DEF BucketInv, E
  <2>b. ASSUME NEW s \in Nat, NEW t \in Nat
        PROVE  /\ GrantsSince(s)' = IF g >= s THEN GrantsSince(s) \cup {x} ELSE GrantsSince(s)
               /\ x \notin GrantsSince(s)
               /\ Grants(s, t)' = IF g \in s .. t THEN Grants(s, t) \cup {x} ELSE Grants(s, t)
    <3>1. g \in Nat /\ granted' = [granted EXCEPT ![p] = Append(@, g)] /\ Phases' = Phases
      BY <2>2
    <3> QED
      BY ONLY TuningTypeOK, p \in Phases, s \in Nat, t \in Nat, <3>1, OneMoreGrant, ZenonT(40) DEF x
  <2>7. \A l \in Phases : (limiters[l].last <= now)'
    <3> TAKE l \in Phases
    <3>1. CASE l = e
      BY <2>1, <2>2, <2>3, <3>1
    <3>2. CASE l # e
      BY <2>1, <2>2, <3>2 DEF BucketInv
    <3> QED
      BY <3>1, <3>2
  <2>8. ASSUME NEW q \in Phases, NEW i \in 1 .. Len(granted'[q])
        PROVE  granted'[q][i] <= F \/ granted'[q][i] <= now
    <3>0. granted[q] \in Seq(Nat)
      BY DEF TuningTypeOK
    <3>1. CASE q = p /\ i = Len(granted[p]) + 1
      BY <2>2, <2>3, <2>5, <2>a, <3>1
    <3>2. CASE ~(q = p /\ i = Len(granted[p]) + 1)
      <4>1. i \in 1 .. Len(granted[q]) /\ granted'[q][i] = granted[q][i]
        <5>1. CASE q = p
          BY <2>a, <3>2, <5>1
        <5>2. CASE q # p
          BY <2>a, <5>2
        <5> QED
          BY <5>1, <5>2
      <4>2. granted[q][i] <= E \/ granted[q][i] <= limiters[e].last
        BY <2>1, <4>1 DEF BucketInv, E
      <4>3. granted[q][i] \in Nat
        BY <3>0, <4>1
      <4> QED
        BY <2>3, <2>5, <4>1, <4>2, <4>3
    <3> QED
      BY <3>1, <3>2
  <2>9. ASSUME NEW s \in Nat
        PROVE  /\ IsFiniteSet(GrantsSince(s)')
               /\ \/ GrantsSince(s)' = {}
                  \/ Cardinality(GrantsSince(s)') * Period <= Burst * Period + F - s
               /\ s <= g => /\ Cardinality(GrantsSince(s)') * Period <= Burst * Period + F - s
                            /\ Cardinality(GrantsSince(s)') = Cardinality(GrantsSince(s)) + 1
    <3>1. /\ GrantsSince(s)' = IF g >= s THEN GrantsSince(s) \cup {x} ELSE GrantsSince(s)
          /\ x \notin GrantsSince(s)
      BY <2>b
    <3>2. IsFiniteSet(GrantsSince(s)) /\ Cardinality(GrantsSince(s)) \in Nat
      BY <2>6, FS_CardinalityType
    <3>3. CASE g >= s
      <4>1. /\ IsFiniteSet(GrantsSince(s)')
            /\ Cardinality(GrantsSince(s)') = Cardinality(GrantsSince(s)) + 1
        BY <3>1, <3>2, <3>3, FS_AddElement
      <4>2. \/ Cardinality(GrantsSince(s)) = 0
            \/ Cardinality(GrantsSince(s)) * Period <= Burst * Period + E - s
        BY <2>6, FS_EmptySet
      <4>3. (Cardinality(GrantsSince(s)) + 1) * Period <= Burst * Period + F - s
        <5>1. s <= g
          BY <2>2, <3>3
        <5> QED
          BY <2>2, <2>3, <2>5, <3>2, <4>2, <5>1, Numbers, OneMoreFits
      <4> QED
        BY <4>1, <4>3
    <3>4. CASE ~(g >= s)
      <4>1. GrantsSince(s)' = GrantsSince(s)
        BY <3>1, <3>4
      <4>2. Cardinality(GrantsSince(s)) * Period \in Nat
        BY <3>2, Numbers
      <4>3. \/ GrantsSince(s) = {}
            \/ Cardinality(GrantsSince(s)) * Period <= Burst * Period + F - s
        BY <2>3, <2>5, <2>6, <4>2, Numbers
      <4> QED
        BY <2>2, <3>2, <3>4, <4>1, <4>3
    <3> QED
      BY <3>3, <3>4
  <2>10. BucketInv'
    BY <2>1, <2>2, <2>4, <2>7, <2>8, <2>9 DEF BucketInv
  <2>11. ASSUME NEW s \in Nat, NEW t \in Nat, s <= t
         PROVE  Cardinality(Grants(s, t)') <= Burst + (t - s) \div Period
    <3>1. CASE g \in s .. t
      <4>1. Grants(s, t)' = GrantsSince(s)'
        <5>1. ASSUME NEW q \in Phases, NEW i \in 1 .. Len(granted'[q])
              PROVE  granted'[q][i] \in s .. t <=> granted'[q][i] >= s
          <6>1. granted'[q][i] \in Nat
            <7>1. granted'[q] \in Seq(Nat)
              BY <2>2, <2>a DEF TuningTypeOK
            <7> QED
              BY <7>1
          <6> QED
            BY <2>3, <2>5, <2>8, <3>1, <5>1, <6>1
        <5> QED
          BY <5>1 DEF Grants, GrantsSince
      <4>2. /\ Cardinality(GrantsSince(s)') \in Nat
            /\ Cardinality(GrantsSince(s)') * Period <= Burst * Period + (t - s)
        <5>1. Cardinality(GrantsSince(s)') \in Nat
          BY <2>9, FS_CardinalityType
        <5>2. Cardinality(GrantsSince(s)') * Period \in Nat
          BY <5>1, Numbers
        <5>3. Cardinality(GrantsSince(s)') * Period <= Burst * Period + F - s
          BY <2>9, <3>1
        <5> QED
          BY <2>2, <2>5, <3>1, <5>1, <5>2, <5>3, Numbers, SMTT(30)
      <4>3. t - s \in Nat
        BY <2>11
      <4> QED
        BY <4>1, <4>2, <4>3, Numbers, PerPeriod
    <3>2. CASE g \notin s .. t
      <4>1. Grants(s, t)' = Grants(s, t)
        BY <2>b, <3>2
      <4> QED
        BY <2>11, <4>1 DEF RateInv
    <3> QED
      BY <3>1, <3>2
  <2> QED
    BY <2>10, <2>11 DEF RateInv
<1>2. ASSUME NEW p \in Phases, CreateTuningSet(p) PROVE BucketInv' /\ RateInv'
  <2>1. UNCHANGED <<granted, limiters, now>>
    BY <1>2 DEF CreateTuningSet
  <2>2. existing' = existing \/ existing = "none"
    BY <1>2 DEF CreateTuningSet, GetOrCreate
  <2>3. existing = "none" => \A s : GrantsSince(s) = {} /\ \A q \in Phases : granted[q] = << >>
    <3> SUFFICES ASSUME existing = "none"
                 PROVE  \A s : GrantsSince(s) = {} /\ \A q \in Phases : granted[q] = << >>
      OBVIOUS
    <3>1. \A q \in Phases : granted[q] = << >>
      BY DEF SharedInv
    <3> QED
      BY <3>1, SinceMember
  <2>4. RateInv'
    BY <2>1, SameGrants DEF RateInv
  <2>5. CASE existing' = existing
    BY <2>1, <2>4, <2>5, SameGrants DEF BucketInv, EmptyAt
  <2>6. CASE existing = "none"
    <3>1. \A s : GrantsSince(s)' = {} /\ IsFiniteSet({})
      BY <2>1, <2>3, <2>6, SameGrants, FS_EmptySet
    <3> QED
      <4>1. \A q \in Phases : 1 .. Len(granted'[q]) = {}
        BY <2>1, <2>3, <2>6
      <4>2. \A l \in Phases : (limiters[l].last <= now)'
        BY <2>1 DEF BucketInv
      <4> QED
        BY <2>4, <3>1, <4>1, <4>2 DEF BucketInv
  <2> QED
    BY <2>2, <2>5, <2>6
<1>3. CASE ~ \E p \in Phases : CreateTuningSet(p) \/ WaitForLimiter(p)
  <2>1. UNCHANGED <<granted, limiters, existing>> /\ now' \in {now, now + 1} /\ now \in Nat
    <3>1. ASSUME NEW p \in Phases, Starts(p) PROVE UNCHANGED <<granted, limiters, existing, now>>
      BY <3>1, StartsFacts
    <3> QED
      BY <1>3, <3>1, NowType DEF TuningNext, Starts, Return, WakeUp, ActionEnds, Tick, tuningVars, limiterVars
  <2>2. \A l \in Phases : limiters[l].last \in Nat
    BY DEF TuningTypeOK
  <2>3. RateInv'
    BY <2>1, SameGrants DEF RateInv
  <2>4. \A l \in Phases : (limiters[l].last <= now)'
    BY <2>1, <2>2 DEF BucketInv
  <2>5. \A s : GrantsSince(s)' = GrantsSince(s)
    BY <2>1, SameGrants
  <2>6. \A l : EmptyAt(l)' = EmptyAt(l)
    BY <2>1 DEF EmptyAt
  <2>7. BucketInv'
    BY <2>1, <2>4, <2>5, <2>6 DEF BucketInv
  <2> QED
    BY <2>3, <2>7
<1> QED
  BY <1>1, <1>2, <1>3

-----------------------------------------------------------------------------
LEMMA InitInv == TuningInit => IndInv
<1> SUFFICES ASSUME TuningInit PROVE IndInv
  OBVIOUS
<1>1. TuningTypeOK
  <2>1. load \in [Phases -> [kind : SetKinds, actions : Nat]]
    BY TuningAssumption DEF TuningInit, Phases
  <2>2. \A p \in Phases : load[p].actions \in Nat
    BY <2>1
  <2>3. Burst * Period \in Int /\ 0 \in 0 .. MaxTime
    BY Numbers
  <2> QED
    BY <2>2, <2>3 DEF TuningInit, TuningTypeOK
<1>2. ProgressInv /\ ActionsInv /\ PaceInv
  BY DEF TuningInit, ProgressInv, ActionsInv, ExecuteWaits, PaceInv
<1>3. WorkersInv
  <2>1. \A p \in Phases : { r \in running : r[1] = p } = {}
    BY DEF TuningInit
  <2> QED
    BY <2>1, FS_EmptySet, Numbers DEF TuningInit, WorkersInv
<1>4. SharedInv
  BY DEF TuningInit, SharedInv
<1>5. BucketInv /\ RateInv
  <2>1. \A s, t : Grants(s, t) = {}
    BY GrantsMember DEF TuningInit
  <2>2. ASSUME NEW s \in Nat, NEW t \in Nat, s <= t PROVE 0 <= Burst + (t - s) \div Period
    <3>1. t - s \in Nat /\ Burst \in Nat /\ Period \in Nat \ {0}
      BY <2>2, Numbers
    <3>2. (t - s) \div Period \in Nat
      BY <3>1
    <3> QED
      BY <3>1, <3>2
  <2>3. RateInv
    BY <2>1, <2>2, FS_EmptySet DEF RateInv
  <2>4. BucketInv
    BY DEF TuningInit, BucketInv
  <2> QED
    BY <2>3, <2>4
<1> QED
  BY <1>1, <1>2, <1>3, <1>4, <1>5 DEF IndInv

LEMMA InductiveInv == TuningSpec => []IndInv
<1>1. IndInv /\ [TuningNext]_tuningVars => IndInv'
  BY TypeStep, ProgressStep, ActionsStep, PaceStep, WorkersStep, SharedStep, BucketStep DEF IndInv
<1> QED
  BY <1>1, InitInv, PTL DEF TuningSpec

(* TuningTypeOK for every load and any number of phases: the limiter, the        *)
(* grants and the actions of the phases have their types.                  *)
THEOREM TuningTypeCorrect == TuningSpec => []TuningTypeOK
<1>1. IndInv => TuningTypeOK
  BY DEF IndInv
<1> QED
  BY <1>1, InductiveInv, PTL

(* LoadIsPaced for every load and any number of phases, in parallel or one *)
(* after the other, and however late timers fire: the phases of a          *)
(* globalQPSLoad together get no more than its burst and rate over any     *)
(* span of time, the other sets keep the distance of their actions and     *)
(* their limit, and Execute returns when its actions have ended.           *)
THEOREM LoadPaced == TuningSpec => []LoadIsPaced
<1>1. ASSUME IndInv PROVE LoadIsPaced
  <2>1. GlobalRate
    <3>1. \A s \in 0 .. MaxTime : \A t \in s .. MaxTime : s \in Nat /\ t \in Nat /\ s <= t
      BY Numbers
    <3> QED
      BY <1>1, <3>1 DEF IndInv, RateInv, SharedInv, GlobalRate
  <2>2. PhaseRate
    BY <1>1 DEF IndInv, PaceInv, WorkersInv, PhaseRate
  <2>3. ExecuteWaits
    BY <1>1 DEF IndInv, ActionsInv
  <2> QED
    BY <2>1, <2>2, <2>3 DEF LoadIsPaced
<1> QED
  BY <1>1, InductiveInv, PTL
=============================================================================
