-------------------------- MODULE MCPhaseExecution --------------------------
(* Instances of PhaseExecution for TLC.                                    *)
EXTENDS PhaseExecution

Phase(name, nss, bundle, n) ==
    [name |-> name, namespaces |-> nss, bundle |-> bundle, replicas |-> n, tuned |-> TRUE]

(* A service and a deployment per replica in two namespaces, scaled up,    *)
(* patched, and scaled to zero; one namespace may run ahead of the other.  *)
ScalePhases ==
    { Phase("up",   <<"n1", "n2">>, <<"svc", "dep">>, 1),
      Phase("more", <<"n1">>,       <<"svc", "dep">>, 2),
      Phase("down", <<"n1">>,       <<"svc", "dep">>, 0) }

(* Unknown volumes that are deleted by a phase, in parallel with others,   *)
(* and the ways planning can fail.                                         *)
FaultPhases ==
    { Phase("sweep", <<"n1">>, <<"pv">>, 0),
      Phase("pair",  <<"n2", "n1">>, <<"pv", "dep">>, 1),
      Phase("bad",   <<"n1">>, <<"dep", "bad">>, 0),
      Phase("sel",   <<"n2">>, <<"dep", "sel">>, 0),
      Phase("none",  <<"n1">>, << >>, 1),
      [Phase("lost", <<"n1">>, <<"dep">>, 1) EXCEPT !.tuned = FALSE] }

NoTemplates == {}
OneEmptyTemplate == { <<"svc", 1>> }
=============================================================================
