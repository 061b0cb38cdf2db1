------------------------------ MODULE MCServer ------------------------------
(* Instances of Server for TLC. *)
EXTENDS Server

Frontends == {"http", "https"}

FourPorts == <<"http", "https", "tcp", "tcps">>
=============================================================================
