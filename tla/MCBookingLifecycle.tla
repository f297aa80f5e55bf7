------------------------- MODULE MCBookingLifecycle -------------------------
(* Small instances of BookingLifecycle for TLC. *)
EXTENDS BookingLifecycle

AllFaults == FaultKinds
NoFaults == {}

============================================================================
