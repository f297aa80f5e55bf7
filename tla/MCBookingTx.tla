---------------------------- MODULE MCBookingTx ----------------------------
(* Small instances of BookingTx for TLC. *)
EXTENDS BookingTx

AllFaults == FaultKinds
NoFaults == {}

============================================================================
