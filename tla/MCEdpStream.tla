---------------------------- MODULE MCEdpStream ----------------------------
(***************************************************************************)
(* EdpStream for TLC.  Sizes are scaled down together: a heartbeat answer  *)
(* is the shortest packet, a command the longest, recv_buf holds two       *)
(* commands, and a segment can carry two commands as well.                 *)
(***************************************************************************)
EXTENDS EdpStream

MCPktSize == [k \in Kind |-> CASE k = "PINGRESP" -> 2
                               [] k = "CONNRESP" -> 3
                               [] OTHER -> 4]
=============================================================================
