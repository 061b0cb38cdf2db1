---------------------------- MODULE SharedState ----------------------------
(***************************************************************************)
(* SharedState, the directory that all sessions of the server share: here  *)
(* its two hash maps from a station id to a raw pointer to the TCP session *)
(* of the microcontroller serving that station, one map for the plain and  *)
(* one for the TLS sessions.  join, leave and findStation are the methods  *)
(* of those names.  join and leave hold mtx_ throughout and are atomic.    *)
(* A session is identified with its address.                               *)
(***************************************************************************)
CONSTANTS
    Session,        \* addresses at which TCP sessions are allocated
    SSLSession,     \* those of them that hold an SSLTCPSession
    StationId,      \* the valid station ids: Goe, Wf, Bs
    None            \* no entry, nullptr

ASSUME DirectoryAssumption ==
    /\ SSLSession \subseteq Session
    /\ None \notin Session

VARIABLE
    tcp_sessions_   \* plain_tcp_sessions_ and ssl_tcp_sessions_, by kind

Kind == {"plain", "ssl"}

KindOf(s) == IF s \in SSLSession THEN "ssl" ELSE "plain"

DirectoryTypeOK ==
    tcp_sessions_ \in [Kind -> [StationId -> Session \cup {None}]]

DirectoryInit ==
    tcp_sessions_ = [k \in Kind |-> [id \in StationId |-> None]]

----------------------------------------------------------------------------
(* try_emplace inserts only where the key is free. *)

\* Mutant: the key is inserted or assigned, a later session takes it over.
JoinAssigns(s, id) == TRUE

joined(s, id) == tcp_sessions_[KindOf(s)][id] = None

join(s, id) ==
    tcp_sessions_' = IF joined(s, id)
                     THEN [tcp_sessions_ EXCEPT ![KindOf(s)][id] = s]
                     ELSE tcp_sessions_

\* Mutant: the entry of a session that goes away stays in the map.
LeaveNothing(s, id) == UNCHANGED tcp_sessions_

(* erase by key: the entry goes whoever the session in it is; erasing a key *)
(* that is not a station id does nothing.                                   *)
leave(s, id) ==
    tcp_sessions_' =
        [tcp_sessions_ EXCEPT ![KindOf(s)] =
            [i \in StationId |-> IF i = id THEN None ELSE @[i]]]

\* The session, if there is one, whose entry leave(s, id) takes though it is not s.
robbed(s, id) ==
    {t \in Session \ {s} : id \in StationId /\ tcp_sessions_[KindOf(s)][id] = t}

\* Mutant: an entry in the plain map hides the TLS map even if it has expired.
FindStationByEntry(id, lockable) ==
    LET k == IF tcp_sessions_["plain"][id] # None THEN "plain" ELSE "ssl"
    IN  {tcp_sessions_[k][id]} \cap lockable

(* The plain map first and, when it has no session whose weak_ptr can be    *)
(* locked, the TLS map.  The set holds the session found, if there is one.  *)
findStation(id, lockable) ==
    LET found(k) == {tcp_sessions_[k][id]} \cap lockable
    IN  IF found("plain") # {} THEN found("plain") ELSE found("ssl")
============================================================================
