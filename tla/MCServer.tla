------------------------------ MODULE MCServer ------------------------------
(* Serve for TLC: the scheduler and its pool in every registration order   *)
(* and multiplicity up to three, two requests.                             *)
EXTENDS Server

MCKeys == {"postgres", "scheduler"}
=============================================================================
