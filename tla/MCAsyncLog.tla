----------------------------- MODULE MCAsyncLog -----------------------------
(* Model-checking instance of AsyncLog: two threads log two lines each.      *)
EXTENDS AsyncLog
=============================================================================
