-------------------------- MODULE MCControlledPods --------------------------
(* Instances of ControlledPods for TLC; the .cfg files give the constants. *)
EXTENDS ControlledPods
=============================================================================
