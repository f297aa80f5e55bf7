--------------------------- MODULE MCListingReads ---------------------------
(* Small instances of ListingReads for TLC. *)
EXTENDS ListingReads

AllFaults == FaultKinds

============================================================================
