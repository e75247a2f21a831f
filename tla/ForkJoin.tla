------------------------------ MODULE ForkJoin ------------------------------
(***************************************************************************)
(* What a step of phases promises (simple_test_executor.go, ExecuteStep):  *)
(* its phases start together and the step ends when all of them are done.  *)
(* In between, and only then, a phase changes objects: its own, one at a   *)
(* time, and only towards the replica count it asks for.  When a phase is  *)
(* done, nothing of it is still at work.                                   *)
(***************************************************************************)
EXTENDS Integers

CONSTANTS
    Phases,
    KeysOf(_),  \* the object sets of a phase
    Target(_)   \* the replica count a phase asks for

VARIABLES
    state,      \* phase -> "idle", "running" or "done"
    objects     \* object set -> replicas that exist

vars == <<state, objects>>

Init == state = [p \in Phases |-> "idle"]

Fork(ps) ==
    /\ \A p \in Phases : state[p] = "idle"
    /\ \A p, q \in ps : p # q => KeysOf(p) \cap KeysOf(q) = {}
    /\ state' \in [Phases -> {"idle", "running", "done"}]
    /\ \A p \in Phases : (p \in ps) = (state'[p] # "idle")
    /\ UNCHANGED objects

Create(p, k, r) == r < Target(p)  /\ objects' = [objects EXCEPT ![k] = @ \cup {r}]
Delete(p, k, r) == r >= Target(p) /\ objects' = [objects EXCEPT ![k] = @ \ {r}]

Work(p) ==
    /\ state[p] = "running"
    /\ \E k \in KeysOf(p) :
          \/ \E r \in objects'[k] : Create(p, k, r)
          \/ \E r \in objects[k] : Delete(p, k, r)
    /\ UNCHANGED state

Finish(p) ==
    /\ state[p] = "running"
    /\ state' = [state EXCEPT ![p] = "done"]
    /\ UNCHANGED objects

Join ==
    /\ \A p \in Phases : state[p] # "running"
    /\ state' = [p \in Phases |-> "idle"]
    /\ UNCHANGED objects

Next == \/ \E ps \in SUBSET Phases : Fork(ps)
        \/ \E p \in Phases : Work(p) \/ Finish(p)
        \/ Join

Spec == Init /\ [][Next]_vars
=============================================================================
