-------------------------- MODULE MCResponseQueue --------------------------
(* Instances of ResponseQueue for TLC. *)
EXTENDS ResponseQueue

CONSTANTS io1, io2
============================================================================
