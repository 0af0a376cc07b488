---------------------------- MODULE MCEventStore ----------------------------
(* Instances of EventStore for TLC. *)
EXTENDS EventStore

CONSTANTS e1, e2

MCBatch == {<<e1>>, <<e2>>, <<e1, e2>>}
=============================================================================
