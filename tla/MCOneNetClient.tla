--------------------------- MODULE MCOneNetClient ---------------------------
(***************************************************************************)
(* OneNetClient for TLC: one link and one other link at most, three        *)
(* packets (the login's answer and two more) in a connection.              *)
(***************************************************************************)
EXTENDS OneNetClient

MCKind == {"CONNRESP", "PINGRESP", "on", "off", "other", "badreq"}

MCPktSize == [k \in MCKind |-> CASE k = "PINGRESP" -> 2
                                 [] k = "CONNRESP" -> 2
                                 [] OTHER -> 3]
=============================================================================
