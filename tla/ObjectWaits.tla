---------------------------- MODULE ObjectWaits ----------------------------
(***************************************************************************)
(* The measurements that wait until objects of the cluster are in a wanted *)
(* state, as a store filled by a reflector shows them:                     *)
(*   pvs      WaitForAvailablePVs     (util/wait_for_pvs.go, pvs.go)       *)
(*   pvcs     WaitForBoundPVCs        (util/wait_for_pvcs.go, pvcs.go)     *)
(*   nodes    WaitForNodes            (util/wait_for_nodes.go)             *)
(*   generic  WaitForGenericK8sObjects (util/wait_for_conditions.go)       *)
(* and WaitForFinishedJobs (common/wait_for_jobs.go, kind "jobs"), whose   *)
(* one queue worker follows the events of the jobs while gather compares   *)
(* the finished ones with a LIST of its own.                               *)
(* A state stands for the phases or conditions the wait tells apart:       *)
(*   "good" Available or Bound; Bound; schedulable; a successful condition;*)
(*          Complete                                                       *)
(*   "bad"  Released or Failed; Lost; (none); a failed condition; Failed   *)
(*   "pending" otherwise, and "absent" when there is no such object.       *)
(***************************************************************************)
EXTENDS Integers, Sequences, SequencesExt, FiniteSets

CONSTANTS
    Kinds,      \* the measurements to check
    Objects,
    Selected,   \* of the wanted provisioner, or in the namespace range
    Desired,    \* desired count; minDesired of nodes and generic
    MaxWanted,  \* maxDesiredNodeCount, maxFailedObjectCount
    MaxLives,   \* bound: objects of one name
    MaxFeed     \* bound: changes and handlers under way

VARIABLES
    kind,
    cluster,    \* object -> [life, state]
    feed,       \* changes the watch has not delivered: [key, life, state]
    store,      \* object -> [life, state] as a LIST from the watch cache, or
                \* the reflector's store, has it
    queue,      \* jobs: handlers in the queue: [key, life, state]
    isRunning,  \* jobs
    finishedJobs, \* jobs: key -> the life that finished, 0 if not in the map
    wait,       \* "off", "polling", "ok", "failed", "timeout" or "disposed"
    listed,     \* jobs: key -> the life in gather's LIST, 0 if it is not there
    held,       \* history: the wanted state was there in the cluster
    unfinished  \* history: listed jobs that had not finished at success

vars == <<kind, cluster, feed, store, queue, isRunning, finishedJobs, wait, listed, held, unfinished>>

None == [o \in Objects |-> 0]

(* What the selected objects of a store or of the cluster are.             *)
In(objs, states) == { o \in Selected : objs[o].state \in states }
Usable(objs)     == Cardinality(In(objs, {"good"}))
Broken(objs)     == Cardinality(In(objs, {"bad"}))
Present(objs)    == Cardinality(In(objs, {"pending", "good", "bad"}))
Pending(objs)    == Cardinality(In(objs, {"pending"}))

(* The conditions of the waits, on what they computed from one List.       *)
PVsProvisioned(objs) == Present(objs) = Usable(objs) + Pending(objs) /\ Usable(objs) = Desired
PVCsBound(objs)      == Present(objs) = Usable(objs) + Pending(objs) /\ Usable(objs) = Desired
NodesReady(objs)     == Desired <= Usable(objs) /\ Usable(objs) <= MaxWanted
Settled(objs)        == Desired <= Usable(objs) + Broken(objs)

Satisfied(objs) ==
    CASE kind = "pvs"     -> PVsProvisioned(objs)
      [] kind = "pvcs"    -> PVCsBound(objs)
      [] kind = "nodes"   -> NodesReady(objs)
      [] kind = "generic" -> Settled(objs) /\ Broken(objs) <= MaxWanted
      [] kind = "jobs"    -> FALSE

(* What the caller of the wait wants of the cluster.                       *)
Wanted(objs) ==
    CASE kind \in {"pvs", "pvcs"} -> Usable(objs) = Desired /\ Broken(objs) = 0
      [] kind = "nodes"   -> Usable(objs) \in Desired .. MaxWanted
      [] kind = "generic" -> /\ Broken(objs) <= MaxWanted
                             /\ Usable(objs) >= Desired - Broken(objs)
      [] kind = "jobs"    -> FALSE

Init ==
    /\ kind \in Kinds
    /\ cluster \in [Objects -> { [life |-> 0, state |-> "absent"], [life |-> 1, state |-> "pending"] }]
    /\ feed = << >>
    /\ store = cluster
    /\ queue = << >>
    /\ isRunning = FALSE
    /\ finishedJobs = None
    /\ wait = "off"
    /\ listed = None
    /\ held = Wanted(cluster)
    /\ unfinished = {}

---------------------------------------------------------------------------
(* The cluster                                                             *)

Change(o, new) ==
    /\ Len(feed) < MaxFeed
    /\ cluster' = [cluster EXCEPT ![o] = new]
    /\ feed' = Append(feed, [key |-> o, life |-> new.life, state |-> new.state])
    /\ held' = (held \/ Wanted(cluster'))
    /\ UNCHANGED <<kind, store, queue, isRunning, finishedJobs, wait, listed, unfinished>>

Create(o) ==
    /\ cluster[o].state = "absent" /\ cluster[o].life < MaxLives
    /\ Change(o, [life |-> cluster[o].life + 1, state |-> "pending"])

(* A finished job stays so; a node may become unready, a volume released.  *)
Progress(o) ==
    \/ /\ cluster[o].state = "pending"
       /\ \E s \in {"good", "bad"} :
            /\ s = "bad" => kind # "nodes"
            /\ Change(o, [cluster[o] EXCEPT !.state = s])
    \/ /\ cluster[o].state = "good" /\ kind # "jobs"
       /\ Change(o, [cluster[o] EXCEPT !.state = IF kind = "nodes" THEN "pending" ELSE "bad"])

Delete(o) ==
    /\ cluster[o].state # "absent"
    /\ Change(o, [cluster[o] EXCEPT !.state = "absent"])

---------------------------------------------------------------------------
(* The reflector (newObjectStore, informer.NewInformer)                    *)

Entry(o, obj) == [key |-> o, life |-> obj.life, state |-> obj.state]

(* An informer's event is a handler in the queue of the measurement.       *)
Enqueue(calls) == queue' = IF isRunning THEN queue \o calls ELSE queue

Deliver ==
    /\ feed # << >> /\ Len(queue) < MaxFeed
    /\ LET c == Head(feed)
       IN  /\ store' = [store EXCEPT ![c.key] = [life |-> c.life, state |-> c.state]]
           /\ Enqueue(<<c>>)
    /\ feed' = Tail(feed)
    /\ UNCHANGED <<kind, cluster, isRunning, finishedJobs, wait, listed, held, unfinished>>

(* The watch broke: a LIST replaces the store, one event per object.       *)
Relist ==
    /\ Len(feed) > 1 /\ Len(queue) < MaxFeed
    /\ store' = cluster
    /\ LET differ == { o \in Objects : store[o] # cluster[o] }
       IN  Enqueue(SetToSeq({ Entry(o, cluster[o]) : o \in differ }))
    /\ feed' = << >>
    /\ UNCHANGED <<kind, cluster, isRunning, finishedJobs, wait, listed, held, unfinished>>

---------------------------------------------------------------------------
(* WaitForPVs, WaitForPVCs, WaitForNodes, WaitForGenericK8sObjects         *)

(* Execute: the store is synced, from the watch cache, or creating it      *)
(* timed out.                                                              *)
WaitFor(k) ==
    /\ kind = k /\ wait = "off"
    /\ wait' \in {"polling", "failed"}
    /\ UNCHANGED <<kind, cluster, feed, store, queue, isRunning, finishedJobs, listed, held, unfinished>>

WaitForAvailablePVs      == WaitFor("pvs")
WaitForBoundPVCs         == WaitFor("pvcs")
WaitForNodes             == WaitFor("nodes")
WaitForGenericK8sObjects == WaitFor("generic")

(* One List per interval; PVs that come or go are only logged.             *)
Poll ==
    /\ wait = "polling"
    /\ \/ Satisfied(store) /\ wait' = "ok"
       \/ kind = "generic" /\ Settled(store) /\ ~Satisfied(store) /\ wait' = "failed"
    /\ UNCHANGED <<kind, cluster, feed, store, queue, isRunning, finishedJobs, listed, held, unfinished>>

TimeOut ==
    /\ kind # "jobs" /\ wait = "polling"
    /\ wait' = "timeout"
    /\ UNCHANGED <<kind, cluster, feed, store, queue, isRunning, finishedJobs, listed, held, unfinished>>

---------------------------------------------------------------------------
(* WaitForFinishedJobs                                                     *)

(* start: isRunning stays set even if the informer does not sync in time.  *)
Start ==
    /\ kind = "jobs" /\ wait = "off" /\ ~isRunning
    /\ isRunning' = TRUE
    /\ queue' = SetToSeq({ Entry(o, store[o]) : o \in In(store, {"pending", "good", "bad"}) })
    /\ UNCHANGED <<kind, cluster, feed, store, finishedJobs, wait, listed, held, unfinished>>

finishedJobCondition(c) == c.state \in {"good", "bad"}

(* handleObject, in the one worker of the queue.                           *)
HandleObject ==
    /\ queue # << >>
    /\ LET c == Head(queue)
       IN  finishedJobs' = [finishedJobs EXCEPT
                              ![c.key] = IF finishedJobCondition(c) THEN c.life ELSE 0]
    /\ queue' = Tail(queue)
    /\ UNCHANGED <<kind, cluster, feed, store, isRunning, wait, listed, held, unfinished>>

(* gather: jobKeys lists from the cluster itself, not from the cache.      *)
Gather ==
    /\ isRunning /\ wait \in {"off", "ok", "timeout"}
    /\ listed' = [o \in Objects |-> IF o \in In(cluster, {"pending", "good", "bad"})
                                      THEN cluster[o].life ELSE 0]
    /\ wait' = "polling"
    /\ UNCHANGED <<kind, cluster, feed, store, queue, isRunning, finishedJobs, held, unfinished>>

Keys(m) == { o \in Objects : m[o] # 0 }

(* Changes of a job that its handler has not seen yet.                     *)
UnderWay == { feed[i].key : i \in DOMAIN feed } \cup { queue[i].key : i \in DOMAIN queue }

Succeed ==
    /\ wait' = "ok"
    /\ unfinished' = unfinished \cup
         { o \in Keys(listed) \ UnderWay : finishedJobs[o] < listed[o] }

(* The poll wants the sets to be equal; after the time-out only the listed *)
(* jobs count.                                                             *)
PollJobs ==
    /\ kind = "jobs" /\ wait = "polling"
    /\ Keys(listed) = Keys(finishedJobs)
    /\ Succeed
    /\ UNCHANGED <<kind, cluster, feed, store, queue, isRunning, finishedJobs, listed, held>>

JobsTimeOut ==
    /\ kind = "jobs" /\ wait = "polling"
    /\ IF Keys(listed) \subseteq Keys(finishedJobs)
         THEN Succeed
         ELSE wait' = "timeout" /\ UNCHANGED unfinished
    /\ UNCHANGED <<kind, cluster, feed, store, queue, isRunning, finishedJobs, listed, held>>

(* Dispose: queue.Stop returns when the worker has emptied the queue.      *)
Dispose ==
    /\ isRunning /\ wait # "polling"
    /\ queue = << >>
    /\ isRunning' = FALSE
    /\ wait' = "disposed"
    /\ UNCHANGED <<kind, cluster, feed, store, queue, finishedJobs, listed, held, unfinished>>

Next ==
    \/ \E o \in Objects : Create(o) \/ Progress(o) \/ Delete(o)
    \/ Deliver \/ Relist
    \/ WaitForAvailablePVs \/ WaitForBoundPVCs \/ WaitForNodes \/ WaitForGenericK8sObjects
    \/ Poll \/ TimeOut
    \/ Start \/ HandleObject \/ Gather \/ PollJobs \/ JobsTimeOut \/ Dispose

Spec == Init /\ [][Next]_vars

---------------------------------------------------------------------------
Objs == [Objects -> [life : 0 .. MaxLives, state : {"absent", "pending", "good", "bad"}]]

TypeOK ==
    /\ kind \in Kinds
    /\ cluster \in Objs /\ store \in Objs
    /\ Len(feed) <= MaxFeed
    /\ Len(queue) <= MaxFeed + Cardinality(Objects)
    /\ isRunning \in BOOLEAN
    /\ finishedJobs \in [Objects -> 0 .. MaxLives] /\ listed \in [Objects -> 0 .. MaxLives]
    /\ wait \in {"off", "polling", "ok", "failed", "timeout", "disposed"}

(* A wait that succeeds has seen something real: the wanted state was      *)
(* there in the cluster at one moment, all objects together, although the  *)
(* store lags, misses states at a relist and changes between two polls.    *)
WaitedStateWasReal == kind # "jobs" /\ wait = "ok" => held

(* A gather that succeeds has no unfinished job: every job of its LIST     *)
(* finished, in the incarnation that was listed or a later one, unless     *)
(* news of that job was still on its way to the queue's worker.            *)
ListedJobsFinished == unfinished = {}
=============================================================================
