---------------------------- MODULE MCEventStream ----------------------------
(* An instance of EventStream for TLC. *)
EXTENDS EventStream

CONSTANTS i1, i2

TwoItems == {i1, i2}
=============================================================================
