---------------------------- MODULE MCSoftApServer ----------------------------
(* Four connections compete for three slots (five in the firmware). *)
EXTENDS SoftApServer
=============================================================================
