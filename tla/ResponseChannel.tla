-------------------------- MODULE ResponseChannel ---------------------------
(***************************************************************************)
(* What the response queue of a WebSocket session promises: responses      *)
(* reach the frontend in the order in which they were given to the queue,  *)
(* none is skipped and none comes twice.                                   *)
(***************************************************************************)
EXTENDS Naturals, Sequences

VARIABLES
    given,      \* number of responses given to the queue
    delivered   \* those that reached the frontend, by number

vars == <<given, delivered>>

Init == given = 0 /\ delivered = <<>>

Give == given' = given + 1 /\ UNCHANGED delivered

Deliver ==
    /\ Len(delivered) < given
    /\ delivered' = Append(delivered, Len(delivered) + 1)
    /\ UNCHANGED given

Next == Give \/ Deliver

Spec == Init /\ [][Next]_vars
============================================================================
