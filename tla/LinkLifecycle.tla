---------------------------- MODULE LinkLifecycle ----------------------------
(***************************************************************************)
(* What the firmware promises about its one TCP link to the OneNET cloud,  *)
(* without timers, espconn nodes or posted signals.                        *)
(*                                                                         *)
(*   "waiting"   booted, the link has never been asked for                 *)
(*   "trying"    some timer or some pending connect will bring it up       *)
(*   "online"    the link is established                                   *)
(*   "stranded"  nothing in the device will ever try again                 *)
(*                                                                         *)
(* heard is the first message the cloud got over the current link.         *)
(***************************************************************************)
VARIABLES phase, heard

lvars == <<phase, heard>>

Init == phase = "waiting" /\ heard = "none"

\* The first attempt; it may be refused before a packet leaves the device.
Begin == /\ phase = "waiting"
         /\ phase' \in {"trying", "stranded"}
         /\ heard' = "none"

Establish == /\ phase = "trying"
             /\ phase' = "online"
             /\ heard' = "none"

\* Another attempt may be refused at once, and then it is the last one.
GiveUp == /\ phase = "trying"
          /\ phase' = "stranded"
          /\ heard' = "none"

\* The login request comes before anything else.  It may arrive damaged: the
\* buffer it is sent from is freed while the message is still unacknowledged.
Greet == /\ phase = "online"
         /\ heard = "none"
         /\ heard' \in {"CONNREQ", "GARBLED"}
         /\ UNCHANGED phase

\* An established link that fails is retried, one that is closed is not.
Drop == /\ phase = "online"
        /\ phase' \in {"trying", "stranded"}
        /\ heard' = "none"

Reset == phase' = "waiting" /\ heard' = "none"

Next == Begin \/ Establish \/ GiveUp \/ Greet \/ Drop \/ Reset

Spec == Init /\ [][Next]_lvars

\* An attempt comes to an end: the device does not try for ever.
AttemptEnds == (phase = "trying") ~> (phase # "trying")
=============================================================================
