----------------------------- MODULE MCSyncCall -----------------------------
(* Model-checking instance of SyncCall, and the mutants of its runs.         *)
EXTENDS SyncCall
=============================================================================
