------------------------------ MODULE MCCamera ------------------------------
(* Model-checking instance of Camera. *)
EXTENDS Camera, TLC
=============================================================================
