-------------------------- MODULE StationDirectory --------------------------
(***************************************************************************)
(* What the directory of stations promises the frontend and the            *)
(* microcontrollers, without maps, pointers or destructors: a session      *)
(* serves no station until it registers one, the id it registers is served *)
(* by no other session of its kind, and it serves that one station until   *)
(* it is released for good: by its own end, or before it by another        *)
(* session that strikes it out.                                            *)
(***************************************************************************)
CONSTANTS Session, SSLSession, StationId, InvalidId

VARIABLE serves     \* the station a session serves, or InvalidId

SameKind(s, t) == s \in SSLSession <=> t \in SSLSession

TypeOK == serves \in [Session -> StationId \cup {InvalidId}]

Init == serves = [s \in Session |-> InvalidId]

Register(s, id) ==
    /\ serves[s] = InvalidId
    /\ \A t \in Session : SameKind(s, t) => serves[t] # id
    /\ serves' = [serves EXCEPT ![s] = id]

Release(s) ==
    /\ serves[s] # InvalidId
    /\ serves' = [serves EXCEPT ![s] = InvalidId]

Next == \E s \in Session : Release(s) \/ \E id \in StationId : Register(s, id)

Spec == Init /\ [][Next]_serves
============================================================================
