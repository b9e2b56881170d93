---------------------------- MODULE MCEventStream ---------------------------
(* Small instances of EventStream for TLC. *)
EXTENDS EventStream

MCDet == [r \in Runs |-> 1]
MCAgent == [r \in Runs |-> 1]
=============================================================================
