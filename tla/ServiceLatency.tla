--------------------------- MODULE ServiceLatency ---------------------------
(***************************************************************************)
(* The ServiceCreationLatency measurement                                  *)
(* (measurement/common/service_creation_latency.go): informers queue       *)
(* handlers of service and ingress events, a pool of workers runs them, a  *)
(* handler pings its service until it answers, and the test waits for the  *)
(* recorded phases to agree in number.                                     *)
(***************************************************************************)
EXTENDS Integers, Sequences, FiniteSets, Functions

CONSTANTS
    TypeMaps,   \* the types of the services and ingresses to check
    Workers,    \* the pool of workerqueue.NewWorkerQueue
    PingChecks, \* successful pings in a row that make a service reachable
    MaxQueue    \* bound: length of the queue

Types    == <<"ClusterIP", "NodePort", "LoadBalancer", "Ingress">>
Phases   == {"creating", "ipAssigning", "reachability", "deleting", "deleted"}
Idle     == [op |-> "idle", key |-> "none", at |-> "none", success |-> 0]
Actions  == [waitForReady |-> "reachability", waitForDeletion |-> "deleted"]
NoPoll   == [action |-> "none", left |-> << >>, count |-> -1, known |-> {}]

VARIABLES
    typeOf,     \* service or ingress -> its type
    cluster,    \* service -> "absent", "new", "assigned" (has addresses), "gone"
    seen,       \* service -> the state the informer delivered last
    queue,      \* handlers: [op, key, assigned]
    open,       \* the queue was not shut down
    worker,     \* worker -> the handler it runs
    phases,     \* creationTimes: service -> recorded phases
    checkers,   \* pingCheckers: services with a checker
    isRunning,
    test,       \* "idle", "running", "disposing" or "disposed"
    poll        \* a poll of one of the waits: the types left, the first count and,
                \* as history, the services it has answered for

vars == <<typeOf, cluster, seen, queue, open, worker, phases, checkers, isRunning,
          test, poll>>
Services == DOMAIN typeOf
waits    == <<typeOf, poll>>

Init ==
    /\ typeOf \in TypeMaps
    /\ cluster = [s \in Services |-> "absent"]
    /\ seen = cluster /\ queue = << >> /\ open = TRUE
    /\ worker = [w \in Workers |-> Idle]
    /\ phases = [s \in Services |-> {}]
    /\ checkers = {} /\ isRunning = FALSE /\ test = "idle"
    /\ poll = NoPoll

-----------------------------------------------------------------------------
ServiceChanges(s) ==
    /\ \E n \in {"new", "assigned", "gone"} :
          /\ <<cluster[s], n>> \in {<<"absent", "new">>, <<"new", "assigned">>,
                                    <<"new", "gone">>, <<"assigned", "gone">>}
          /\ cluster' = [cluster EXCEPT ![s] = n]
    /\ UNCHANGED <<seen, queue, open, worker, phases, checkers, isRunning, test, waits>>

(* The informer's handler, also of updates that change nothing that counts *)
(* here.  A deletion whose last state was missed has no deletion           *)
(* timestamp.                                                              *)
Deliver(s, stamped) ==
    /\ isRunning /\ Len(queue) < MaxQueue
    /\ cluster[s] # seen[s] \/ cluster[s] = "assigned"
    /\ seen' = [seen EXCEPT ![s] = cluster[s]]
    /\ cluster[s] = "gone" => seen[s] # "absent"
    /\ queue' = IF open
                THEN Append(queue, [op |-> IF cluster[s] = "gone" THEN "delete" ELSE "update",
                                    key |-> s,
                                    flag |-> IF cluster[s] = "gone" THEN stamped
                                             ELSE cluster[s] = "assigned"])
                ELSE queue
    /\ UNCHANGED <<cluster, open, worker, phases, checkers, isRunning, test, waits>>

-----------------------------------------------------------------------------
Record(s, p)   == phases' = [phases EXCEPT ![s] = @ \cup {p}]
Goes(w, at)    == worker' = [worker EXCEPT ![w].at = at]
Finishes(w)    == worker' = [worker EXCEPT ![w] = Idle]

(* handleObject, handleIngressObject: nothing after Dispose.               *)
TakeHandler(w) ==
    /\ worker[w] = Idle /\ queue # << >>
    /\ queue' = Tail(queue)
    /\ LET h == Head(queue)
       IN worker' = [worker EXCEPT ![w] =
             IF isRunning /\ (h.op = "update" => typeOf[h.key] \in Range(Types))
             THEN [op |-> h.op, key |-> h.key, success |-> 0,
                   at |-> CASE h.op = "delete" /\ h.flag -> "delete"
                            [] h.op = "delete" /\ ~h.flag -> "return"
                            [] h.op = "update" /\ h.flag -> "createAssigned"
                            [] h.op = "update" /\ ~h.flag -> "create"]
             ELSE Idle]
    /\ UNCHANGED <<cluster, seen, open, phases, checkers, isRunning, test, waits>>

(* updateObject, updateIngressObject: the creation time, then the address, *)
(* which a service of type ClusterIP or NodePort has from the start.       *)
RecordCreation(w) ==
    /\ worker[w].at \in {"create", "createAssigned"}
    /\ Record(worker[w].key, "creating")
    /\ Goes(w, CASE typeOf[worker[w].key] \in {"ClusterIP", "NodePort"} -> "ping"
                 [] worker[w].at = "createAssigned"                     -> "assign"
                 [] OTHER                                               -> "return")
    /\ UNCHANGED <<cluster, seen, queue, open, checkers, isRunning, test, waits>>

CheckAddress(w) ==
    /\ worker[w].at = "assign"
    /\ Goes(w, IF "ipAssigning" \in phases[worker[w].key] THEN "return" ELSE "assigning")
    /\ UNCHANGED <<cluster, seen, queue, open, phases, checkers, isRunning, test, waits>>

RecordAddress(w) ==
    /\ worker[w].at = "assigning"
    /\ Goes(w, "ping") /\ Record(worker[w].key, "ipAssigning")
    /\ UNCHANGED <<cluster, seen, queue, open, checkers, isRunning, test, waits>>

(* A handler that has nothing left to do.                                  *)
HandlerReturns(w) ==
    /\ worker[w].at = "return"
    /\ Finishes(w)
    /\ UNCHANGED <<cluster, seen, queue, open, phases, checkers, isRunning, test, waits>>

(* Mutant: one answer too many is asked for, the count is not capped.      *)
PingAnswersLate(w) ==
    /\ worker[w].at = "ping" /\ cluster[worker[w].key] # "gone"
    /\ IF worker[w].success = PingChecks
       THEN Record(worker[w].key, "reachability") /\ Goes(w, "add")
       ELSE worker' = [worker EXCEPT ![w].success = @ + 1] /\ UNCHANGED phases
    /\ UNCHANGED <<cluster, seen, queue, open, checkers, isRunning, test, waits>>

(* pingChecker.run, in the worker: it can only end with PingChecks answers *)
(* in a row, since nobody knows its stop channel yet.                      *)
PingAnswers(w) ==
    /\ worker[w].at = "ping" /\ cluster[worker[w].key] # "gone"
    /\ IF worker[w].success + 1 = PingChecks
       THEN Record(worker[w].key, "reachability") /\ Goes(w, "add")
       ELSE worker' = [worker EXCEPT ![w].success = @ + 1] /\ UNCHANGED phases
    /\ UNCHANGED <<cluster, seen, queue, open, checkers, isRunning, test, waits>>

PingFails(w) ==                         \* or there is no pod to ping from
    /\ worker[w].at = "ping"
    /\ worker' = [worker EXCEPT ![w].success = 0]
    /\ UNCHANGED <<cluster, seen, queue, open, phases, checkers, isRunning, test, waits>>

AddChecker(w) ==
    /\ worker[w].at = "add"
    /\ checkers' = checkers \cup {worker[w].key}
    /\ Finishes(w)
    /\ UNCHANGED <<cluster, seen, queue, open, phases, isRunning, test, waits>>

(* deleteObject, deleteIngressObject, under the lock.                      *)
RecordDeletion(w) ==
    /\ worker[w].at = "delete"
    /\ phases' = [phases EXCEPT ![worker[w].key] = @ \cup {"deleting", "deleted"}]
    /\ checkers' = checkers \ {worker[w].key}
    /\ Finishes(w)
    /\ UNCHANGED <<cluster, seen, queue, open, isRunning, test, waits>>

-----------------------------------------------------------------------------
Start ==
    /\ test = "idle"
    /\ test' = "running" /\ isRunning' = TRUE
    /\ UNCHANGED <<cluster, seen, queue, open, worker, phases, checkers, waits>>

Count(t, p) == Cardinality({ s \in Services : typeOf[s] = t /\ p \in phases[s] })
Known(t)    == { s \in Services : typeOf[s] = t /\ "creating" \in phases[s] }

(* waitForReady and waitForDeletion poll type by type; a time-out changes  *)
(* nothing.  Of each type they count the reached or deleted services and   *)
(* then the created ones, each count under its own lock.  (The counts of a *)
(* type that no service has are 0.)                                        *)
BeginPoll(action) ==
    /\ test = "running" /\ poll = NoPoll
    /\ poll' = [NoPoll EXCEPT !.action = action,
                              !.left = SelectSeq(Types, LAMBDA t : t \in Range(typeOf))]
    /\ UNCHANGED <<typeOf, cluster, seen, queue, open, worker, phases, checkers,
                   isRunning, test>>

CountReached ==
    /\ poll.left # << >> /\ poll.count = -1
    /\ poll' = [poll EXCEPT !.count = Count(Head(poll.left), Actions[poll.action])]
    /\ UNCHANGED <<typeOf, cluster, seen, queue, open, worker, phases, checkers,
                   isRunning, test>>

(* The history takes no notice of a type of which a deletion is recorded   *)
(* whose creation another worker has still to record.                      *)
CountCreated ==
    /\ poll.count # -1
    /\ LET t == Head(poll.left)
           counted == { s \in Services : typeOf[s] = t /\ Actions[poll.action] \in phases[s] }
       IN poll' = IF poll.count # Count(t, "creating") THEN NoPoll
                  ELSE [poll EXCEPT !.left = Tail(@), !.count = -1,
                                    !.known = IF counted \subseteq Known(t)
                                              THEN @ \cup Known(t) ELSE @]
    /\ UNCHANGED <<typeOf, cluster, seen, queue, open, worker, phases, checkers,
                   isRunning, test>>

WaitSucceeds ==
    /\ poll.action # "none" /\ poll.left = << >>
    /\ poll' = NoPoll
    /\ UNCHANGED <<typeOf, cluster, seen, queue, open, worker, phases, checkers,
                   isRunning, test>>

(* Dispose: queue.Stop waits for the workers, then the checkers stop.      *)
Dispose ==
    /\ test \in {"idle", "running"} /\ poll = NoPoll
    /\ test' = "disposing" /\ isRunning' = FALSE /\ open' = FALSE
    /\ UNCHANGED <<cluster, seen, queue, worker, phases, checkers, waits>>

Disposed ==
    /\ test = "disposing" /\ queue = << >> /\ \A w \in Workers : worker[w] = Idle
    /\ test' = "disposed"
    /\ UNCHANGED <<cluster, seen, queue, open, worker, phases, checkers, isRunning, waits>>

WorkerStep(w) ==
    \/ TakeHandler(w) \/ RecordCreation(w) \/ CheckAddress(w) \/ RecordAddress(w) \/ HandlerReturns(w)
    \/ PingAnswers(w) \/ PingFails(w) \/ AddChecker(w) \/ RecordDeletion(w)

Next ==
    \/ \E s \in Services : ServiceChanges(s)
    \/ \E s \in Services, stamped \in BOOLEAN : Deliver(s, stamped)
    \/ \E w \in Workers : WorkerStep(w)
    \/ \E a \in DOMAIN Actions : BeginPoll(a)
    \/ Start \/ CountReached \/ CountCreated \/ WaitSucceeds \/ Dispose \/ Disposed

-----------------------------------------------------------------------------
TypeOK ==
    /\ cluster \in [Services -> {"absent", "new", "assigned", "gone"}]
    /\ phases \in [Services -> SUBSET Phases]
    /\ checkers \subseteq Services
    /\ \A w \in Workers : worker[w].success \in 0 .. PingChecks - 1

(* waitForReady and waitForDeletion compare numbers, taken one after the   *)
(* other while workers record.  Yet when the numbers of a type agree, each *)
(* service of it that was created by then has been reached, or seen        *)
(* deleted: reached services are counted first, and are among the created  *)
(* ones.  (A deletion may be recorded before the creation, by another      *)
(* worker; the numbers of that type say nothing then.)                     *)
ReadyServicesReached ==
    \A s \in poll.known : Actions[poll.action] \in phases[s]
=============================================================================
