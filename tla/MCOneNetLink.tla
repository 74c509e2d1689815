---------------------------- MODULE MCOneNetLink ----------------------------
(* OneNetLink for TLC: every variable is finite, no further bound is needed. *)
EXTENDS OneNetLink
=============================================================================
