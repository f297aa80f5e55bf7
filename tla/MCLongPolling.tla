--------------------------- MODULE MCLongPolling ---------------------------
(* Small instances of LongPolling for TLC. *)
EXTENDS LongPolling

AllFaults == FaultKinds

============================================================================
