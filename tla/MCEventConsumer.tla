-------------------------- MODULE MCEventConsumer --------------------------
(* Small instances of EventConsumer for TLC. *)
EXTENDS EventConsumer

AllFaults == FaultKinds
NoFaults == {}

============================================================================
