--------------------------- MODULE WeatherService ---------------------------
(***************************************************************************)
(* What the server promises the frontends about the weather, without       *)
(* sessions, directory, buffers or devices: a station owes an answer for   *)
(* every time it was asked, each is given once or lost, and it is given to *)
(* a frontend that asked for that station, be it another one's answer.  A  *)
(* request may be led to the wrong station, which then owes the answer.    *)
(***************************************************************************)
EXTENDS Naturals, Sequences, FiniteSets

CONSTANTS Frontend, StationId, Requests

VARIABLES
    asked,      \* the stations a frontend asked for
    pending,    \* the answers a station still owes
    told,       \* the stations whose weather a frontend was sent
    meant,      \* the stations of a frontend's requests that were led astray ...
    went        \* ... and the stations these requests came to

vars == <<asked, pending, told, meant, went>>

Init ==
    /\ asked = [f \in Frontend |-> <<>>]
    /\ pending = [d \in StationId |-> 0]
    /\ told = [f \in Frontend |-> <<>>]
    /\ meant = [f \in Frontend |-> <<>>]
    /\ went = [f \in Frontend |-> <<>>]

Occurrences(d, ids) == Cardinality({n \in DOMAIN ids : ids[n] = d})

Ask(f, ids) ==
    /\ asked' = [asked EXCEPT ![f] = @ \o ids]
    /\ pending' = [d \in StationId |-> pending[d] + Occurrences(d, ids)]
    /\ UNCHANGED <<told, meant, went>>

Settle(d) ==
    /\ pending[d] > 0
    /\ pending' = [pending EXCEPT ![d] = @ - 1]

Answer(f, d) ==
    /\ Occurrences(d, asked[f]) + Occurrences(d, went[f]) > 0
    /\ told' = [told EXCEPT ![f] = Append(@, d)]
    /\ UNCHANGED <<asked, meant, went>>
    /\ Settle(d)

Lose(d) == UNCHANGED <<asked, told, meant, went>> /\ Settle(d)

Misdirect(f, d, e) ==
    /\ d # e /\ pending[d] > 0
    /\ pending' = [pending EXCEPT ![d] = @ - 1, ![e] = @ + 1]
    /\ meant' = [meant EXCEPT ![f] = Append(@, d)]
    /\ went' = [went EXCEPT ![f] = Append(@, e)]
    /\ UNCHANGED <<asked, told>>

Next ==
    \/ \E f \in Frontend, ids \in Requests : Ask(f, ids)
    \/ \E f \in Frontend, d \in StationId : Answer(f, d)
    \/ \E d \in StationId : Lose(d)
    \/ \E f \in Frontend, d, e \in StationId : Misdirect(f, d, e)

Spec == Init /\ [][Next]_vars

----------------------------------------------------------------------------
\* Where a station is in the lists of the frontends.
Places(d, lists) ==
    UNION {{f} \X {n \in DOMAIN lists[f] : lists[f][n] = d} : f \in Frontend}

\* No request is answered twice: what all frontends together have been told of a
\* station, what the station owes and what was led away from it is no more than
\* they asked for and was led to it.
AnsweredAtMostOnce ==
    \A d \in StationId :
        Cardinality(Places(d, told)) + pending[d] + Cardinality(Places(d, meant))
            <= Cardinality(Places(d, asked)) + Cardinality(Places(d, went))
=============================================================================
