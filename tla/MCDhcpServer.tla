----------------------------- MODULE MCDhcpServer -----------------------------
(***************************************************************************)
(* Three stations and a range of three addresses: octets 4 to 6 above the  *)
(* server's own octet 3, or 3 to 5 below its own octet 6.  A station may   *)
(* bring along octet 5 of the own network, or octet 4 of one that sorts    *)
(* below it: in front of the first range, in the middle of the second.     *)
(***************************************************************************)
EXTENDS DhcpServer, TLC
MCPresented == {Own(5), 3 * 4}
MCSymmetry == Permutations(Macs)

\* What is Running of a list is one list, the one without the nodes whose time is
\* over: evaluated for all lists of up to four nodes.
Timed  == [mac : {"a", "b"}, lease_timer : 0..1]
HasTime(n) == n.lease_timer # 0

ASSUME RunningIsTheRest ==
  \A k \in 0..4 : \A l \in [1..k -> Timed] : Running(l) = {SelectSeq(l, HasTime)}
=============================================================================
