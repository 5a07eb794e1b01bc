----------------------------- MODULE RemoteCall -----------------------------
(***************************************************************************)
(* What the HTTP thread is promised when it calls a method of the main     *)
(* thread through common_web/cproxy.h: the calls are served one at a time, *)
(* in the order in which they were made, each exactly once, and a caller   *)
(* gets its answer only from its own served call.                          *)
(***************************************************************************)
EXTENDS Sequences

CONSTANT Callers        \* the threads that make calls

VARIABLES phase,        \* what each caller is doing
          waiting       \* the calls made and not yet served, oldest first

Init == /\ phase = [c \in Callers |-> "idle"]
        /\ waiting = << >>

Call(c) == /\ phase[c] = "idle"
           /\ phase' = [phase EXCEPT ![c] = "called"]
           /\ waiting' = Append(waiting, c)

Serve(c) == /\ waiting # << >>
            /\ c = Head(waiting)
            /\ phase[c] = "called"
            /\ phase' = [phase EXCEPT ![c] = "served"]
            /\ waiting' = Tail(waiting)

Return(c) == /\ phase[c] = "served"
             /\ phase' = [phase EXCEPT ![c] = "idle"]
             /\ UNCHANGED waiting

Next == \E c \in Callers : Call(c) \/ Serve(c) \/ Return(c)

Spec == Init /\ [][Next]_<<phase, waiting>>
=============================================================================
