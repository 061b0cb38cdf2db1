--------------------------- MODULE MCHttpSession ---------------------------
(* Instances of HttpSession for TLC. *)
EXTENDS HttpSession

CONSTANTS w1, w2

Two == {w1, w2}
============================================================================
