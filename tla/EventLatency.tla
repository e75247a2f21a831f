---------------------------- MODULE EventLatency ----------------------------
(***************************************************************************)
(* The latency measurements that turn watch events into phases of objects: *)
(*                                                                         *)
(*   common/slos/pod_startup_latency.go                      kind "pod"    *)
(*   common/job_lifecycle_latency.go                         kind "job"    *)
(*   common/slos/resourceclaim_allocation_latency.go         kind "claim"  *)
(*   util/phase_latency.go, util/pods_metadata.go   the recorded phases    *)
(*                                                                         *)
(* Informer handlers put snapshots of objects into a queue, a goroutine    *)
(* takes them out and records phases under the object's name, and gather   *)
(* computes latencies.  A time is abstracted to the life of the object it  *)
(* belongs to: names are used again after a deletion.                      *)
(***************************************************************************)
EXTENDS Integers, Sequences, FiniteSets

CONSTANTS
    Kinds,      \* which of the measurements, a subset of {"pod", "job", "claim"}
    Keys,
    MaxLives,   \* bound: incarnations of one name
    MaxQueue,   \* bound: length of the queue
    MaxStarts   \* bound: calls of start

(* The stages of an object's life, 1 to 3.  Pod: pending, Running, Running *)
(* with a started container.  Job: created, with a start time, with a      *)
(* completion time.  Claim: stage 3 is allocated.                          *)
Phases ==
    [pod   |-> {"create", "schedule", "run", "watch"},
     job   |-> {"create", "run", "done"},
     claim |-> {"create", "allocate", "podCreate"}]
Transitions ==
    [pod   |-> {<<"create", "schedule">>, <<"schedule", "run">>, <<"run", "watch">>,
                <<"schedule", "watch">>, <<"create", "watch">>},
     job   |-> {<<"create", "run">>, <<"run", "done">>},
     claim |-> {<<"create", "allocate">>, <<"podCreate", "create">>}]
AllPhases == UNION { Phases[k] : k \in DOMAIN Phases }
Starting  == {"idle", "gathered"}
NoKeys    == [count |-> 0, keys |-> {}]

VARIABLES
    kind,       \* which of the measurements this is
    cluster,    \* key -> [life, stage]; stage 0: deleted
    seen,       \* key -> what the informers delivered last
    podSeen,    \* podCreationTimes: key -> life
    queue,      \* the event queue
    open,       \* ShutDown was not called
    running,    \* isRunning
    test,       \* where the test is
    pending,    \* worker -> assignments left of its event
    entries,    \* ObjectTransitionTimes: key -> phase -> life, 0 if none
    stateless,  \* PodsMetadata: key -> "unknown", "yes" or "no"
    samples,    \* latencies of the last calculation: <<key, from, to>>
    known,      \* what gather's poll has read: how many keys have a creation and,
                \* as history, which if no other was recorded until it succeeded
    starts      \* history: calls of start

vars == <<kind, cluster, seen, podSeen, queue, open, running, test, pending,
          entries, stateless, samples, known, starts>>

Init ==
    /\ kind \in Kinds
    /\ cluster = [k \in Keys |-> [life |-> 0, stage |-> 0]]
    /\ seen = cluster /\ podSeen = [k \in Keys |-> 0]
    /\ queue = << >> /\ open = TRUE /\ running = FALSE /\ test = "idle"
    /\ pending = [w \in 1 .. MaxStarts |-> << >>]
    /\ entries = [k \in Keys |-> [p \in AllPhases |-> 0]]
    /\ stateless = [k \in Keys |-> "unknown"]
    /\ samples = {} /\ known = NoKeys /\ starts = 0

-----------------------------------------------------------------------------
(* The cluster: objects are created, progress, and are deleted.            *)
ObjectChanges(k) ==
    /\ \/ /\ cluster[k].stage = 0 /\ cluster[k].life < MaxLives
          /\ cluster' = [cluster EXCEPT ![k] = [life |-> @.life + 1, stage |-> 1]]
       \/ /\ cluster[k].stage \in 1 .. 2
          /\ cluster' = [cluster EXCEPT ![k].stage = @ + 1]
    /\ UNCHANGED <<kind, seen, podSeen, queue, open, running, test, pending,
                   entries, stateless, samples, known, starts>>

ObjectDeleted(k) ==
    /\ cluster[k].stage # 0
    /\ cluster' = [cluster EXCEPT ![k].stage = 0]
    /\ UNCHANGED <<kind, seen, podSeen, queue, open, running, test, pending,
                   entries, stateless, samples, known, starts>>

(* addEvent: states between two deliveries may be skipped; processEvent    *)
(* ignores the nil object of a deletion; a queue that is shut down takes   *)
(* nothing.                                                                *)
Deliver(k) ==
    /\ running /\ cluster[k] # seen[k] /\ Len(queue) < MaxQueue
    /\ seen' = [seen EXCEPT ![k] = cluster[k]]
    /\ queue' = IF open /\ cluster[k].stage # 0
                THEN Append(queue, [key |-> k, life |-> cluster[k].life,
                                    stage |-> cluster[k].stage])
                ELSE queue
    /\ UNCHANGED <<kind, cluster, podSeen, open, running, test, pending, entries,
                   stateless, samples, known, starts>>

(* addPodEvent: the pod that owns a claim, by the other informer.          *)
DeliverPod(k) ==
    /\ kind = "claim" /\ running /\ cluster[k].stage # 0 /\ podSeen[k] = 0
    /\ podSeen' = [podSeen EXCEPT ![k] = cluster[k].life]
    /\ UNCHANGED <<kind, cluster, seen, queue, open, running, test, pending,
                   entries, stateless, samples, known, starts>>

-----------------------------------------------------------------------------
Has(k, p) == entries[k][p] # 0          \* Get

(* processEvent: what each measurement records for an event.               *)
PodPhases(e) ==
    IF e.stage > 1 /\ ~Has(e.key, "create")
    THEN <<"watch", "create">> \o (IF e.stage = 3 THEN <<"run">> ELSE << >>)
    ELSE << >>

New(e, ps) == SelectSeq(ps, LAMBDA p : ~Has(e.key, p))

JobPhases(e) == New(e, SubSeq(<<"create", "run", "done">>, 1, e.stage))

ClaimPhases(e) ==
    CASE e.stage = 3 /\ ~Has(e.key, "create") -> << >>
      [] e.stage = 3 /\ Has(e.key, "create")  -> New(e, <<"allocate", "podCreate">>)
      [] e.stage < 3                          -> New(e, <<"create", "podCreate">>)

NewPhases(e) == CASE kind = "pod"   -> PodPhases(e)
                  [] kind = "job"   -> JobPhases(e)
                  [] kind = "claim" -> ClaimPhases(e)

(* A worker goroutine takes an event; the queue is drained after ShutDown. *)
TakeEvent(w) ==
    /\ w <= starts /\ pending[w] = << >> /\ queue # << >>
    /\ LET e == Head(queue)
       IN /\ pending' = [pending EXCEPT ![w] = [i \in 1 .. Len(NewPhases(e)) |->
                           [key |-> e.key, phase |-> NewPhases(e)[i], life |-> e.life]]]
          /\ \E s \in {"yes", "no"} :
                stateless' = IF kind = "pod" THEN [stateless EXCEPT ![e.key] = s]
                                             ELSE stateless
    /\ queue' = Tail(queue)
    /\ UNCHANGED <<kind, cluster, seen, podSeen, open, running, test, entries,
                   samples, known, starts>>

(* Set; the creation time of a claim's pod comes from the cache, or from a *)
(* GET that may fail and fills the cache.                                  *)
Record(w) ==
    /\ pending[w] # << >>
    /\ LET a == Head(pending[w])
           Value(v) == entries' = [entries EXCEPT ![a.key][a.phase] = v]
       IN IF a.phase # "podCreate"
          THEN Value(a.life) /\ UNCHANGED podSeen
          ELSE \/ podSeen[a.key] # 0 /\ Value(podSeen[a.key]) /\ UNCHANGED podSeen
               \/ /\ podSeen[a.key] = 0 /\ cluster[a.key].stage # 0
                  /\ podSeen' = [podSeen EXCEPT ![a.key] = cluster[a.key].life]
                  /\ Value(cluster[a.key].life)
               \/ podSeen[a.key] = 0 /\ UNCHANGED <<entries, podSeen>>
    /\ pending' = [pending EXCEPT ![w] = Tail(@)]
    /\ UNCHANGED <<kind, cluster, seen, queue, open, running, test, stateless,
                   samples, known, starts>>

-----------------------------------------------------------------------------
(* start: neither the queue nor the entries are made anew.                 *)
Start ==
    /\ test \in Starting /\ ~running /\ starts < MaxStarts
    /\ running' = TRUE /\ starts' = starts + 1
    /\ seen' = [k \in Keys |-> [life |-> 0, stage |-> 0]]
    /\ test' = "idle"
    /\ UNCHANGED <<kind, cluster, podSeen, queue, open, pending, entries,
                   stateless, samples, known>>

Stop == running' = FALSE /\ open' = FALSE

Created == { k \in Keys : Has(k, "create") }

(* The job measurement polls until as many jobs are completed as created,  *)
(* or times out.  The two counts are taken one after the other, and each   *)
(* under the lock.                                                         *)
CountCreated ==
    /\ kind = "job" /\ test = "idle" /\ running
    /\ test' = "counted"
    /\ known' = [count |-> Cardinality(Created), keys |-> Created]
    /\ UNCHANGED <<kind, cluster, seen, podSeen, queue, open, running, pending,
                   entries, stateless, samples, starts>>

PollJobs ==
    /\ test = "counted"
    /\ IF known.count = Cardinality({ k \in Keys : Has(k, "done") })
       THEN /\ test' = "polled"
            /\ known' = [known EXCEPT !.keys = IF Created = @ THEN @ ELSE {}]
       ELSE test' = "idle" /\ known' = NoKeys
    /\ UNCHANGED <<kind, cluster, seen, podSeen, queue, open, running, pending,
                   entries, stateless, samples, starts>>

PollTimesOut ==
    /\ kind = "job" /\ test = "idle" /\ running
    /\ test' = "polled" /\ known' = NoKeys
    /\ UNCHANGED <<kind, cluster, seen, podSeen, queue, open, running, pending,
                   entries, stateless, samples, starts>>

GatherStops ==
    /\ running /\ test = (IF kind = "job" THEN "polled" ELSE "idle")
    /\ Stop /\ test' = "stopped"
    /\ UNCHANGED <<kind, cluster, seen, podSeen, queue, pending, entries,
                   stateless, samples, known, starts>>

(* gatherScheduleTimes: events of tracked pods only, of any life, matched  *)
(* by name or, with mapEventsByOrder, by position; events may have expired.*)
GatherScheduleTimes ==
    /\ kind = "pod" /\ test = "stopped"
    /\ test' = "scheduled"
    /\ \E k \in SUBSET Created :
          entries' = [x \in Keys |->
             IF x \in k THEN [entries[x] EXCEPT !["schedule"] = cluster[x].life]
                        ELSE entries[x]]
    /\ UNCHANGED <<kind, cluster, seen, podSeen, queue, open, running, pending,
                   stateless, samples, known, starts>>

ListEventsFails ==
    /\ kind = "pod" /\ test = "stopped"
    /\ test' = "gathered"
    /\ UNCHANGED <<kind, cluster, seen, podSeen, queue, open, running, pending,
                   entries, stateless, samples, known, starts>>

(* CalculateTransitionsLatency, under the lock: all keys, and for pods the *)
(* stateless and the stateful ones (which includes the unknown) again.     *)
Filters == [all |-> Keys,
            yes |-> { k \in Keys : stateless[k] = "yes" },
            no  |-> { k \in Keys : stateless[k] # "yes" }]

Calculate(f) ==
    /\ f # "all" => kind = "pod"
    /\ test = CASE f = "yes"                 -> "all"
                [] f = "no"                  -> "yes"
                [] f = "all" /\ kind = "pod" -> "scheduled"
                [] f = "all" /\ kind # "pod" -> "stopped"
    /\ samples' = { <<k, t[1], t[2]>> : k \in Filters[f], t \in Transitions[kind] }
                    \cap { s \in Keys \X AllPhases \X AllPhases :
                             Has(s[1], s[2]) /\ Has(s[1], s[3]) }
    /\ test' = IF f = "no" \/ kind # "pod" THEN "gathered" ELSE f
    /\ UNCHANGED <<kind, cluster, seen, podSeen, queue, open, running, pending,
                   entries, stateless, known, starts>>

Dispose ==
    /\ test \in Starting
    /\ IF running THEN Stop ELSE UNCHANGED <<running, open>>
    /\ test' = "disposed"
    /\ UNCHANGED <<kind, cluster, seen, podSeen, queue, pending, entries,
                   stateless, samples, known, starts>>

Next ==
    \/ \E k \in Keys : ObjectChanges(k) \/ ObjectDeleted(k) \/ Deliver(k) \/ DeliverPod(k)
    \/ \E w \in 1 .. MaxStarts : TakeEvent(w) \/ Record(w)
    \/ Start \/ CountCreated \/ PollJobs \/ PollTimesOut \/ GatherStops
    \/ GatherScheduleTimes \/ ListEventsFails \/ Dispose
    \/ \E f \in DOMAIN Filters : Calculate(f)

-----------------------------------------------------------------------------
TypeOK ==
    /\ \A k \in Keys : cluster[k].life \in 0 .. MaxLives /\ cluster[k].stage \in 0 .. 3
    /\ queue \in Seq([key : Keys, life : 1 .. MaxLives, stage : 1 .. 3])
    /\ test \in Starting \cup {"counted", "polled", "stopped", "scheduled", "all", "yes", "disposed"}
    /\ entries \in [Keys -> [AllPhases -> 0 .. MaxLives]]
    /\ \A k \in Keys, p \in AllPhases \ Phases[kind] : ~Has(k, p)

(* A pod's start-up latency is that of one pod, although its name may be   *)
(* used again while events are in the queue: creation, run and watch times *)
(* of every sample belong to one life.  (processEvent records them with    *)
(* the first event of a running pod; a second start adds a second worker   *)
(* to the same queue and is excepted.)                                     *)
StartupOfOnePod ==
    kind = "pod" /\ starts = 1 =>
       \A s \in samples : {s[2], s[3]} \subseteq {"create", "run", "watch"} =>
          entries[s[1]][s[2]] = entries[s[1]][s[3]]

(* A gather of job latencies that does not time out has both latencies of  *)
(* as many jobs as it knew of when its wait began to count, and of those   *)
(* very jobs if it heard of no other between its two counts, whatever is   *)
(* created later.                                                          *)
JobsAwaited ==
    kind = "job" /\ test = "gathered" =>
       LET both == { k \in Keys : {<<k, "create", "run">>, <<k, "run", "done">>} \subseteq samples }
       IN Cardinality(both) >= known.count /\ known.keys \subseteq both
=============================================================================
