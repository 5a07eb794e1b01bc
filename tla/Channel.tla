------------------------------ MODULE Channel -------------------------------
(***************************************************************************)
(* What a websocket session promises its senders: a first-in first-out     *)
(* channel that may fail.  Until it fails, what has been received is the   *)
(* beginning of what has been sent; after that nothing more is received.   *)
(***************************************************************************)
EXTENDS Sequences

CONSTANT Messages

VARIABLES buffer,       \* sent and not yet received, oldest first
          received,     \* what the peer has received, oldest first
          failed        \* the channel has failed

Init == /\ buffer = << >>
        /\ received = << >>
        /\ failed = FALSE

Send(m) == /\ ~failed
           /\ buffer' = Append(buffer, m)
           /\ UNCHANGED <<received, failed>>

Receive == /\ ~failed
           /\ buffer # << >>
           /\ received' = Append(received, Head(buffer))
           /\ buffer' = Tail(buffer)
           /\ UNCHANGED failed

Fail == /\ ~failed
        /\ failed' = TRUE
        /\ buffer' = << >>
        /\ UNCHANGED received

Next == Receive \/ Fail \/ \E m \in Messages : Send(m)

Spec == Init /\ [][Next]_<<buffer, received, failed>>
=============================================================================
