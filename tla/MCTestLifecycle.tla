-------------------------- MODULE MCTestLifecycle ---------------------------
(* Instances of TestLifecycle for TLC.                                     *)
EXTENDS TestLifecycle

Chaotic == [prefix |-> "p", number |-> 1, existing |-> FALSE, delete |-> TRUE,
            stale |-> TRUE, chaos |-> TRUE, half |-> TRUE, excluded |-> {}, deps |-> <<"d1", "d2">>,
            bounded |-> TRUE, steps |-> 1]

(* Two tests with the same namespaces and a common dependency: the second  *)
(* meets what the first left behind, its chaos monkey included.            *)
TwoTests == <<Chaotic, [Chaotic EXCEPT !.deps = <<"d1">>, !.half = FALSE]>>
=============================================================================
