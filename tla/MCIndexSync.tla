----------------------------- MODULE MCIndexSync -----------------------------
(* Small instances of IndexSync. *)
EXTENDS IndexSync
=============================================================================
