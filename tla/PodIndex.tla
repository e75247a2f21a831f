------------------------------ MODULE PodIndex ------------------------------
(***************************************************************************)
(* Waiting for the pods of a Deployment:                                   *)
(*                                                                         *)
(*   measurement/util/controlled_pods_indexer.go   pods by controller, with*)
(*                                the ReplicaSets between, kept until the  *)
(*                                last pod of a deleted one is gone        *)
(*   measurement/util/wait_for_pods.go, pods.go    the wait for them       *)
(*                                                                         *)
(* Pods and ReplicaSets come from two informers.  An informer updates its  *)
(* store first and calls the handler later, from another goroutine.        *)
(***************************************************************************)
EXTENDS Integers, Sequences, FiniteSets

CONSTANTS
    Pods, ReplicaSets,
    Margin,     \* CountErrorMargin
    MaxDesired, \* bound: the desired number of pods
    MaxNotes    \* bound: notifications of an informer under way

Unknown  == "unknown"    \* the empty UID
NoPod    == [owner |-> "none", status |-> "none"]
(* Pods that are running but not ready count like pending ones.            *)
Statuses == {"Terminating", "RunningAndReady", "RunningOutdated", "Pending", "Inactive"}

VARIABLES
    podCluster, \* pod -> [owner, status]: the cluster
    podStore,   \* the same as the pod informer's store has it
    podNotes,   \* handler calls under way: old owners that may be cleared
    rsCluster,  \* ReplicaSet -> "never", "alive" or "deleted"
    rsCache,    \* ReplicaSets in their informer's store
    rsNotes,    \* handler calls under way: <<event, ReplicaSet>>
    rsIndexer,  \* ReplicaSets in the indexer's own store
    rsPendingDeletion,
    wait,       \* WaitForPods: "off", "polling", "ok" or "timeout"
    desired,    \* options.DesiredPodCount()
    known,      \* history: ReplicaSets added by their handler
    late,       \* history: pods the store showed after their ReplicaSet was dropped
    missed      \* history: ReplicaSets whose deletion, or that of a pod of theirs,
                \* was missed by the watch

vars == <<podCluster, podStore, podNotes, rsCluster, rsCache, rsNotes, rsIndexer,
          rsPendingDeletion, wait, desired, known, late, missed>>
podVars == <<podCluster, podStore, podNotes, late, missed>>
rsVars  == <<rsCluster, rsCache, rsNotes, rsIndexer, rsPendingDeletion, known>>

Init ==
    /\ podCluster = [p \in Pods |-> NoPod] /\ podStore = podCluster
    /\ podNotes = << >>
    /\ rsCluster = [r \in ReplicaSets |-> "never"]
    /\ rsCache = {} /\ rsNotes = << >> /\ rsIndexer = {} /\ rsPendingDeletion = {}
    /\ wait = "off" /\ desired = 0 /\ known = {} /\ late = {} /\ missed = {}

-----------------------------------------------------------------------------
PodChanges(p) ==
    /\ \E r \in ReplicaSets, s \in Statuses :
          \/ /\ podCluster[p] = NoPod /\ rsCluster[r] = "alive" /\ s = "Pending"
             /\ podCluster' = [podCluster EXCEPT ![p] = [owner |-> r, status |-> s]]
          \/ /\ podCluster[p].owner = r /\ podCluster[p].status \notin {"Terminating", s}
             /\ podCluster' = [podCluster EXCEPT ![p].status = s]
          \/ /\ podCluster[p].status = "Terminating"
             /\ podCluster' = [podCluster EXCEPT ![p] = NoPod]
    /\ UNCHANGED <<podStore, podNotes, late, missed, rsVars, wait, desired>>

ReplicaSetChanges(r) ==
    /\ rsCluster[r] # "deleted"
    /\ rsCluster' = [rsCluster EXCEPT ![r] = IF @ = "never" THEN "alive" ELSE "deleted"]
    /\ UNCHANGED <<podVars, rsCache, rsNotes, rsIndexer, rsPendingDeletion, wait,
                   desired, known>>

(* The pod informer: its handlers look at updates that change the owner    *)
(* and at deletions.  A deletion that the watch missed comes from a relist *)
(* as DeletedFinalStateUnknown, of which getControllerInfo makes nothing.  *)
PodEvent(p) ==
    /\ podStore[p] # podCluster[p] /\ Len(podNotes) < MaxNotes
    /\ podStore' = [podStore EXCEPT ![p] = podCluster[p]]
    /\ LET old == podStore[p].owner
           new == podCluster[p].owner
       IN /\ \/ /\ podNotes' = IF podStore[p] # NoPod /\ old # new
                               THEN Append(podNotes, old) ELSE podNotes
                /\ UNCHANGED missed
             \/ /\ podCluster[p] = NoPod
                /\ podNotes' = Append(podNotes, Unknown) /\ missed' = missed \cup {old}
          /\ late' = IF old = new THEN late
                     ELSE IF new \in known \ rsIndexer THEN late \cup {p} ELSE late \ {p}
    /\ UNCHANGED <<podCluster, rsVars, wait, desired>>

ReplicaSetEvent(r) ==
    /\ Len(rsNotes) < MaxNotes
    /\ \/ /\ rsCluster[r] = "alive" /\ r \notin rsCache
          /\ rsCache' = rsCache \cup {r} /\ rsNotes' = Append(rsNotes, <<"add", r>>)
          /\ UNCHANGED missed
       \/ /\ rsCluster[r] = "deleted" /\ r \in rsCache
          /\ rsCache' = rsCache \ {r}
          /\ \/ rsNotes' = Append(rsNotes, <<"delete", r>>) /\ UNCHANGED missed
             \/ rsNotes' = Append(rsNotes, <<"delete", Unknown>>) /\ missed' = missed \cup {r}
    /\ UNCHANGED <<podCluster, podStore, podNotes, late, rsCluster, rsIndexer,
                   rsPendingDeletion, wait, desired, known>>

-----------------------------------------------------------------------------
Owned(r) == { p \in Pods : podStore[p].owner = r }    \* appendPodsControlledBy

(* Mutant: a deleted ReplicaSet is dropped although it has pods.           *)
DropRSData(r, pend) ==
    rsPendingDeletion' = pend \ {r} /\ rsIndexer' = rsIndexer \ (pend \cap {r})

(* clearRSDataIfPossibleLocked, with the set of pending deletions given.   *)
ClearRSDataIfPossible(r, pend) ==
    IF r \in pend /\ Owned(r) = {}
    THEN rsPendingDeletion' = pend \ {r} /\ rsIndexer' = rsIndexer \ {r}
    ELSE rsPendingDeletion' = pend /\ UNCHANGED rsIndexer

PodHandler ==
    /\ podNotes # << >>
    /\ ClearRSDataIfPossible(Head(podNotes), rsPendingDeletion)
    /\ podNotes' = Tail(podNotes)
    /\ UNCHANGED <<podCluster, podStore, late, missed, rsCluster, rsCache, rsNotes, wait,
                   desired, known>>

ReplicaSetAdded ==
    /\ rsNotes # << >> /\ Head(rsNotes)[1] = "add"
    /\ rsIndexer' = rsIndexer \cup {Head(rsNotes)[2]}
    /\ known' = known \cup {Head(rsNotes)[2]}
    /\ rsNotes' = Tail(rsNotes)
    /\ UNCHANGED <<podVars, rsCluster, rsCache, rsPendingDeletion, wait, desired>>

ReplicaSetDeleted ==
    /\ rsNotes # << >> /\ Head(rsNotes)[1] = "delete"
    /\ LET r == Head(rsNotes)[2]
       IN ClearRSDataIfPossible(r, rsPendingDeletion \cup {r})
    /\ rsNotes' = Tail(rsNotes)
    /\ UNCHANGED <<podVars, rsCluster, rsCache, wait, desired, known>>

-----------------------------------------------------------------------------
(* PodsControlledBy the Deployment, and ComputePodsStartupStatus.          *)
Listed == UNION { Owned(r) : r \in rsIndexer }
Count(S, statuses) == Cardinality({ p \in S : podStore[p].status \in statuses })

StartWait(n) ==
    /\ wait # "polling"
    /\ wait' = "polling" /\ desired' = n
    /\ UNCHANGED <<podVars, rsVars>>

(* The two conditions under which WaitForPods returns.                     *)
AllRunning ==
    /\ Cardinality(Listed) =
          Count(Listed, {"RunningAndReady", "RunningOutdated", "Inactive"})
    /\ Count(Listed, {"RunningOutdated"}) = 0
    /\ Count(Listed, {"RunningAndReady"}) = desired

WithinMargin ==
    /\ Margin > 0
    /\ Count(Listed, {"RunningAndReady"}) >= desired - Margin
    /\ Cardinality(Listed) - Count(Listed, {"Inactive"}) <= desired
    /\ Count(Listed, {"Inactive"}) <= Margin

PollSucceeds ==
    /\ wait = "polling" /\ (AllRunning \/ WithinMargin)
    /\ wait' = "ok"
    /\ UNCHANGED <<podVars, rsVars, desired>>

WaitTimesOut ==
    /\ wait = "polling" /\ ~AllRunning
    /\ wait' = "timeout"
    /\ UNCHANGED <<podVars, rsVars, desired>>

Next ==
    \/ \E p \in Pods : PodChanges(p) \/ PodEvent(p)
    \/ \E r \in ReplicaSets : ReplicaSetChanges(r) \/ ReplicaSetEvent(r)
    \/ PodHandler \/ ReplicaSetAdded \/ ReplicaSetDeleted
    \/ \E n \in 0 .. MaxDesired : StartWait(n)
    \/ PollSucceeds \/ WaitTimesOut
-----------------------------------------------------------------------------
TypeOK ==
    /\ \A p \in Pods : podStore[p] # NoPod =>
          podStore[p].owner \in ReplicaSets /\ podStore[p].status \in Statuses
    /\ podNotes \in Seq(ReplicaSets \cup {Unknown})
    /\ rsIndexer \cup rsPendingDeletion \subseteq ReplicaSets
    /\ wait \in {"off", "polling", "ok", "timeout"}

(* The indexer neither forgets nor hoards: when no handler call is under   *)
(* way, its ReplicaSets are those that exist and the deleted ones that     *)
(* still have pods, however the two informers interleave.  (A pod that     *)
(* shows up after its ReplicaSet was dropped is lost.  A ReplicaSet stays  *)
(* for ever if the watch missed its deletion, or that of its last pod.)    *)
IndexFollowsCluster ==
    podNotes = << >> /\ rsNotes = << >> =>
       /\ rsCache \cup { podStore[p].owner : p \in { q \in Pods \ late :
                            podStore[q].owner \in known } } \subseteq rsIndexer
       /\ \A r \in rsIndexer \ (rsCache \cup missed) : Owned(r) # {}

(* A wait without margin ends only when every pod of a known ReplicaSet,   *)
(* one deleted with its Deployment included, is up to date and ready, or   *)
(* inactive: pods that terminate are waited for.                           *)
PodsAwaited ==
    wait = "polling" /\ wait' = "ok" /\ Margin = 0 =>
       \A p \in Pods \ late : podStore[p].owner \in known =>
          podStore[p].status \in {"RunningAndReady", "Inactive"}
=============================================================================
