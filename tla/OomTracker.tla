----------------------------- MODULE OomTracker -----------------------------
(***************************************************************************)
(* The ClusterOOMsTracker measurement (measurement/common/ooms_tracker.go):*)
(* a watch for OOM events, started first, and a paged LIST of the events   *)
(* before it; events are told apart by resource version.  An event of the  *)
(* cluster is its position in the history of events, which is also its     *)
(* resource version.                                                       *)
(***************************************************************************)
EXTENDS Integers, Sequences, FiniteSets

CONSTANTS
    Ignored,    \* clusterOOMsIgnoredProcesses
    Processes,
    MaxEvents,  \* bound: OOM events in the cluster
    PageSize,   \* initialListPageSize
    MaxRelists, \* bound: watches that break for good
    MaxStarts   \* bound: starts of the measurement

VARIABLES
    events,     \* the cluster's OOM events: processes, in order
    watched,    \* events the watch has passed; -1 without a watch
    page,       \* events handlePriorOOMs has handled; -1 if it does not run
    listed,     \* events of the LIST's resource version
    tracker,    \* "idle", "informer", "prior", "running", "gathered", "failed"
    startTime,  \* events before start
    recorded,   \* resourceVersionRecorded
    ooms,       \* m.ooms: resource versions, in the order of handling
    report,     \* the summary: oomData["failures"] as positions in ooms and, as
                \* history, the events it answers for (-1 if start had failed)
    relists,    \* history: relists of the informers
    skipped,    \* history: events a relist has skipped since start
    starts      \* history: how often it was started

vars == <<events, watched, page, listed, tracker, startTime, recorded, ooms,
          report, relists, skipped, starts>>

Init ==
    /\ events = << >> /\ watched = -1 /\ page = -1 /\ listed = 0
    /\ tracker = "idle" /\ startTime = 0 /\ recorded = {} /\ ooms = << >>
    /\ report = [failures |-> {}, upTo |-> -1]
    /\ relists = 0 /\ skipped = {} /\ starts = 0

OomHappens(p) ==
    /\ Len(events) < MaxEvents
    /\ events' = Append(events, p)
    /\ UNCHANGED <<watched, page, listed, tracker, startTime, recorded, ooms,
                   report, relists, skipped, starts>>

(* handleOOMEvent, under the lock.                                         *)
HandleOOMEvent(e) ==
    IF e \in recorded THEN UNCHANGED <<recorded, ooms>>
    ELSE recorded' = recorded \cup {e} /\ ooms' = Append(ooms, e)

(* start, initFields: not while it is running.  After a gather the         *)
(* resource versions are forgotten, but m.ooms is not: what was recorded   *)
(* before is recorded again, as past.                                      *)
Start ==
    /\ tracker \in {"idle", "gathered"} /\ starts < MaxStarts
    /\ tracker' = "informer" /\ starts' = starts + 1
    /\ startTime' = Len(events) /\ recorded' = {} /\ skipped' = {}
    /\ watched' = -1 /\ page' = -1 /\ listed' = 0
    /\ UNCHANGED <<events, ooms, report, relists>>

(* listFunc empties the result and keeps its resource version; an informer *)
(* that did not sync in time goes on.                                      *)
InformerLists ==
    /\ tracker \in {"informer", "failed"} /\ watched = -1
    /\ tracker' = (IF tracker = "informer" THEN "prior" ELSE tracker)
    /\ watched' = Len(events)
    /\ UNCHANGED <<events, page, listed, startTime, recorded, ooms, report,
                   relists, skipped, starts>>

StartFails ==                           \* the sync or the LIST
    /\ tracker = "informer" \/ (tracker = "prior" /\ page = -1)
    /\ tracker' = "failed"
    /\ UNCHANGED <<events, watched, page, listed, startTime, recorded, ooms,
                   report, relists, skipped, starts>>

(* Events that the stopped informer has already are still handled.         *)
WatchEvent ==
    /\ tracker \in {"prior", "running", "failed", "gathered"}
    /\ watched \in 0 .. Len(events) - 1
    /\ HandleOOMEvent(watched + 1)
    /\ watched' = watched + 1
    /\ UNCHANGED <<events, page, listed, tracker, startTime, report, relists,
                   skipped, starts>>

(* A watch that cannot be resumed from its resource version is replaced by *)
(* a LIST, emptied again.                                                  *)
Relist ==
    /\ watched >= 0 /\ relists < MaxRelists /\ tracker # "gathered"
    /\ relists' = relists + 1
    /\ skipped' = skipped \cup watched + 1 .. Len(events)
    /\ watched' = Len(events)
    /\ UNCHANGED <<events, page, listed, tracker, startTime, recorded, ooms, report,
                   starts>>

(* handlePriorOOMs: the pages of one LIST share its resource version.      *)
ListPrior ==
    /\ tracker = "prior" /\ page = -1
    /\ page' = 0 /\ listed' = Len(events)
    /\ UNCHANGED <<events, watched, tracker, startTime, recorded, ooms, report,
                   relists, skipped, starts>>

PriorEvent ==
    /\ tracker = "prior" /\ page \in 0 .. listed - 1
    /\ HandleOOMEvent(page + 1)
    /\ page' = page + 1
    /\ UNCHANGED <<events, watched, listed, tracker, startTime, report, relists,
                   skipped, starts>>

NextPageExpired ==                      \* the continue token is too old
    /\ tracker = "prior" /\ page \in 1 .. listed - 1 /\ page % PageSize = 0
    /\ tracker' = "failed"
    /\ UNCHANGED <<events, watched, page, listed, startTime, recorded, ooms,
                   report, relists, skipped, starts>>

PriorDone ==
    /\ tracker = "prior" /\ page = listed
    /\ tracker' = "running"
    /\ UNCHANGED <<events, watched, page, listed, startTime, recorded, ooms,
                   report, relists, skipped, starts>>

(* gather stops the informer and does not wait for its events.             *)
Gather ==
    /\ tracker \in {"running", "failed"}
    /\ tracker' = "gathered"
    /\ report' = [failures |-> { n \in 1 .. Len(ooms) :
                                   ooms[n] > startTime /\ events[ooms[n]] \notin Ignored },
                  upTo |-> IF tracker = "running" THEN watched ELSE -1]
    /\ UNCHANGED <<events, watched, page, listed, startTime, recorded, ooms,
                   relists, skipped, starts>>

Next ==
    \/ \E p \in Processes : OomHappens(p)
    \/ Start \/ InformerLists \/ StartFails \/ WatchEvent \/ Relist
    \/ ListPrior \/ PriorEvent \/ NextPageExpired \/ PriorDone \/ Gather

-----------------------------------------------------------------------------
TypeOK ==
    /\ watched \in -1 .. Len(events) /\ page \in -1 .. listed
    /\ recorded \subseteq 1 .. Len(events)
    /\ tracker \in {"idle", "informer", "prior", "running", "gathered", "failed"}
    /\ report.failures \subseteq 1 .. Len(ooms)

(* "doing the same in the reverse order might make us miss some OOMs"      *)
(* (ooms_tracker.go:190): once start is done, each event of the history up *)
(* to where the watch is was recorded, whichever of watch and LIST came    *)
(* first, unless a relist skipped it.  An event is recorded once for every *)
(* start, and once only if it happened after the last one, so a gather has *)
(* each failure since start, once.                                         *)
NoOomMissed ==
    /\ \A e \in 1 .. Len(events) :
          Cardinality({n \in 1 .. Len(ooms) : ooms[n] = e})
             <= (IF e > startTime THEN 1 ELSE starts)
    /\ tracker = "running" => 1 .. watched \ skipped \subseteq recorded
    /\ tracker = "gathered" =>
          { e \in startTime + 1 .. report.upTo : events[e] \notin Ignored } \ skipped
             \subseteq { ooms[n] : n \in report.failures }
=============================================================================
