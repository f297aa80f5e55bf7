---------------------------- MODULE MCSearchPath ----------------------------
(* Small instances of SearchPath for TLC. *)
EXTENDS SearchPath

============================================================================
