----------------------------- MODULE OneNetLink -----------------------------
(***************************************************************************)
(* The firmware's TCP link to the OneNET cloud: user_main.c (TCP_timer),   *)
(* WIFI.c (WIFI_connect_Flag), OneNet.c (callbacks, recon_timer, heartbeat *)
(* timer) and the espconn library they call, whose source the repository   *)
(* carries (plink_active, espconn_Task, one unacknowledged buffer).        *)
(*                                                                         *)
(* One event task runs every timer and callback to completion, so a        *)
(* handler is one action.  The gaps that matter are between handlers:      *)
(* between an lwIP error callback and the espconn_Task that reports it,    *)
(* between a send and its acknowledgement, and while a timer is pending.   *)
(***************************************************************************)
EXTENDS Naturals

CONSTANT MaxCon     \* espconn_tcp_get_max_con(): TCP links the device may hold

ASSUME MaxConAssumption == MaxCon \in Nat \ {0}

VARIABLES
  station,              \* wifi_station_get_connect_status()
  WIFI_connect_Flag,    \* the application's copy of it, refreshed every 5 s
  apLinks,              \* links the configuration page holds in plink_active
  TCP_timer,            \* armed: the link has not been started since boot
  recon_timer,          \* armed: one-shot, 1.5 s after a link error
  T_OneNet_HeartTime,   \* armed: periodic, 10 s
  node,                 \* the link's node in plink_active
  sig,                  \* signal posted to espconn_Task and not yet run
  pbuf,                 \* the node's espconn_buf list: at most one message
  Cli_stat,             \* the application's "connected" flag
  heard                 \* first message the cloud got over this link

timers == <<TCP_timer, recon_timer, T_OneNet_HeartTime>>
link   == <<node, sig, pbuf, heard>>
vars   == <<station, WIFI_connect_Flag, apLinks, timers, link, Cli_stat>>
-----------------------------------------------------------------------------
Status == {"IDLE", "CONNECTING", "WRONG_PASSWORD", "NO_AP_FOUND",
           "CONNECT_FAIL", "GOT_IP"}
Msg    == {"CONNREQ", "PINGREQ", "CMDRESP"}

\* Where the message in pbuf is: on its way, at the cloud but not acknowledged,
\* or queued on a control block that is already gone.
Place  == {"wire", "rcvd", "stale"}
Empty  == [msg |-> "none", at |-> "none"]
Buffered(m, p) == [msg |-> m, at |-> p]

TypeOK ==
  /\ station \in Status
  /\ WIFI_connect_Flag \in BOOLEAN
  /\ apLinks \in 0..MaxCon
  /\ TCP_timer \in BOOLEAN
  /\ recon_timer \in BOOLEAN
  /\ T_OneNet_HeartTime \in BOOLEAN
  /\ node \in {"none", "syn", "open", "lost"}
  /\ sig \in {"none", "ERRER", "CLOSE"}
  /\ pbuf \in {Empty} \cup [msg : Msg, at : Place]
  /\ Cli_stat \in BOOLEAN
  /\ heard \in Msg \cup {"none", "GARBLED"}

\* user_init: the state after power-on, a crash or system_restart.
Init ==
  /\ station = "IDLE"
  /\ WIFI_connect_Flag = FALSE
  /\ apLinks = 0
  /\ TCP_timer = TRUE
  /\ recon_timer = FALSE
  /\ T_OneNet_HeartTime = FALSE
  /\ node = "none"
  /\ sig = "none"
  /\ pbuf = Empty
  /\ Cli_stat = FALSE
  /\ heard = "none"
-----------------------------------------------------------------------------
(* The radio and the configuration page, as the rest of the code sees them *)

StationNext(s) ==
  CASE s = "IDLE"       -> {"CONNECTING"}
    [] s = "CONNECTING" -> {"WRONG_PASSWORD", "NO_AP_FOUND", "CONNECT_FAIL", "GOT_IP"}
    [] OTHER            -> {"CONNECTING"}

StationStep == /\ station' \in StationNext(station)
               /\ UNCHANGED <<WIFI_connect_Flag, apLinks, timers, link, Cli_stat>>

ApLinkStep == /\ apLinks' \in (0..MaxCon) \cap {apLinks + 1, apLinks - 1}
              /\ UNCHANGED <<station, WIFI_connect_Flag, timers, link, Cli_stat>>

\* Power loss, a fatal exception or system_restart.
Reboot == /\ station' = "IDLE"
          /\ WIFI_connect_Flag' = FALSE
          /\ apLinks' = 0
          /\ TCP_timer' = TRUE
          /\ recon_timer' = FALSE
          /\ T_OneNet_HeartTime' = FALSE
          /\ node' = "none"
          /\ sig' = "none"
          /\ pbuf' = Empty
          /\ Cli_stat' = FALSE
          /\ heard' = "none"

\* Mutant: the STATION_GOT_IP case is missing.
get_WIFI_state_NoGotIp ==
  /\ WIFI_connect_Flag' = (IF station = "CONNECT_FAIL" THEN FALSE ELSE WIFI_connect_Flag)
  /\ UNCHANGED <<station, apLinks, timers, link, Cli_stat>>

\* T_get_WIFI.  Only two statuses touch the flag: while the station is
\* searching or was refused, the flag keeps its last value.
get_WIFI_state ==
  /\ WIFI_connect_Flag' = CASE station = "GOT_IP"       -> TRUE
                            [] station = "CONNECT_FAIL" -> FALSE
                            [] OTHER                    -> WIFI_connect_Flag
  /\ UNCHANGED <<station, apLinks, timers, link, Cli_stat>>
-----------------------------------------------------------------------------
(* espconn *)

ActiveLinks == apLinks + (IF node = "none" THEN 0 ELSE 1)

\* espconn_connect refuses without a callback: too many links, no station
\* address (the device is in AP+STA mode), or this port is in the list already.
Refused == \/ ActiveLinks >= MaxCon
           \/ station # "GOT_IP"
           \/ node # "none"

\* espconn_tcp_client: "none" is ESPCONN_MEM or ESPCONN_RTE, where the node is
\* not kept; "lost" is any other error of tcp_connect, where it is kept although
\* no handshake was started.
espconn_connect ==
  /\ node' \in IF Refused THEN {node} ELSE {"syn", "none", "lost"}
  /\ UNCHANGED <<sig, pbuf, heard>>

\* Mutant: write_flag is not looked at, a node in handshake takes data.
espconn_sent_NoWriteFlag(m, n) ==
  IF n # "none" /\ pbuf = Empty
  THEN Buffered(m, IF sig = "none" THEN "wire" ELSE "stale")
  ELSE pbuf

\* espconn_sent of m while the node is n, as the new value of pbuf.  A node
\* takes data only after the handshake (write_flag), and one message at a time
\* (ESPCONN_MAXNUM).
espconn_sent(m, n) ==
  IF n = "open" /\ pbuf = Empty
  THEN Buffered(m, IF sig = "none" THEN "wire" ELSE "stale")
  ELSE pbuf

\* lwIP gives the connection up: refused, reset or retransmitted in vain.  The
\* node stays in plink_active until espconn_Task runs.
LinkError == /\ node \in {"syn", "open"}
             /\ sig = "none"
             /\ sig' = "ERRER"
             /\ UNCHANGED <<station, WIFI_connect_Flag, apLinks, timers, node, pbuf, heard, Cli_stat>>

\* A FIN from the cloud: espconn_client_recv closes our side at once.
PeerCloses == /\ node = "open"
              /\ sig = "none"
              /\ sig' = "CLOSE"
              /\ UNCHANGED <<station, WIFI_connect_Flag, apLinks, timers, node, pbuf, heard, Cli_stat>>

\* The message arrives.  tcp_write was told not to copy, and the buffers of
\* CONNREQ and CMDRESP are freed right after the call: a retransmission sends
\* whatever the heap holds by then.  The heartbeat's buffer is never freed.
PeerReceives ==
  /\ pbuf.at = "wire" /\ sig = "none"
  /\ pbuf' = [pbuf EXCEPT !.at = "rcvd"]
  /\ \E got \in {pbuf.msg} \cup (IF pbuf.msg = "PINGREQ" THEN {} ELSE {"GARBLED"}) :
        heard' = IF heard = "none" THEN got ELSE heard
  /\ UNCHANGED <<station, WIFI_connect_Flag, apLinks, timers, node, sig, Cli_stat>>

\* espconn_client_sent: the acknowledgement empties the list;
\* OneNet_Tcp_send_cb does nothing.
AckArrives == /\ pbuf.at = "rcvd" /\ sig = "none"
              /\ pbuf' = Empty
              /\ UNCHANGED <<station, WIFI_connect_Flag, apLinks, timers, node, sig, heard, Cli_stat>>
-----------------------------------------------------------------------------
(* The application's handlers *)

\* OneNet_Tcp_cline_connect: the result of espconn_connect is only printed.
OneNet_Tcp_cline_connect == espconn_connect

\* Mutant: the boot timer is not disarmed.
Begin_TCP_KeepsTimer ==
  /\ TCP_timer
  /\ WIFI_connect_Flag
  /\ OneNet_Tcp_cline_connect
  /\ UNCHANGED <<station, WIFI_connect_Flag, apLinks, timers, Cli_stat>>

\* TCP_timer, every second until the station has had an address once.
Begin_TCP == /\ TCP_timer
             /\ WIFI_connect_Flag
             /\ TCP_timer' = FALSE
             /\ OneNet_Tcp_cline_connect
             /\ UNCHANGED <<station, WIFI_connect_Flag, apLinks, recon_timer, T_OneNet_HeartTime, Cli_stat>>

\* recon_timer fires.
Reconnect == /\ recon_timer
             /\ recon_timer' = FALSE
             /\ OneNet_Tcp_cline_connect
             /\ UNCHANGED <<station, WIFI_connect_Flag, apLinks, TCP_timer, T_OneNet_HeartTime, Cli_stat>>

\* The handshake completes: espconn_client_connect opens the node for writing
\* and calls OneNet_Tcp_ConnectTure_cb, which sends the login request and
\* starts the heartbeat.
Connected == /\ node = "syn"
             /\ sig = "none"
             /\ node' = "open"
             /\ pbuf' = espconn_sent("CONNREQ", "open")
             /\ heard' = "none"
             /\ Cli_stat' = TRUE
             /\ T_OneNet_HeartTime' = TRUE
             /\ UNCHANGED <<station, WIFI_connect_Flag, apLinks, TCP_timer, recon_timer, sig>>

\* The heartbeat timer is never disarmed: it fires with or without a link.
OneNet_Tcp_Cline_HeartBeat ==
  /\ T_OneNet_HeartTime
  /\ pbuf' = espconn_sent("PINGREQ", node)
  /\ UNCHANGED <<station, WIFI_connect_Flag, apLinks, timers, node, sig, heard, Cli_stat>>

\* A segment arrives and its command is answered.  The result of espconn_send
\* is ignored: with a message unacknowledged, the answer is lost.
AnswerCommand ==
  /\ node = "open" /\ sig = "none"
  /\ pbuf' = espconn_sent("CMDRESP", node)
  /\ UNCHANGED <<station, WIFI_connect_Flag, apLinks, timers, node, sig, heard, Cli_stat>>

\* Mutant: SIG_ESPCONN_CLOSE is handled like SIG_ESPCONN_ERRER.
espconn_Task_RetriesClose ==
  /\ sig # "none"
  /\ node' = "none"
  /\ sig' = "none"
  /\ pbuf' = Empty
  /\ heard' = "none"
  /\ recon_timer' = TRUE
  /\ UNCHANGED <<station, WIFI_connect_Flag, apLinks, TCP_timer, T_OneNet_HeartTime, Cli_stat>>

\* Mutant: the SIG_ESPCONN_ERRER case is missing.
espconn_Task_NoErrer ==
  /\ sig = "CLOSE"
  /\ node' = "none"
  /\ sig' = "none"
  /\ pbuf' = Empty
  /\ heard' = "none"
  /\ Cli_stat' = FALSE
  /\ UNCHANGED <<station, WIFI_connect_Flag, apLinks, timers>>

\* espconn_Task reports the end of the link.  After an error
\* OneNet_Tcp_ReConnect_cb arms recon_timer and leaves Cli_stat as it is; after
\* a close OneNet_Tcp_ClineOff_cb clears Cli_stat and arms nothing.
espconn_Task ==
  /\ sig # "none"
  /\ node' = "none"
  /\ sig' = "none"
  /\ pbuf' = Empty
  /\ heard' = "none"
  /\ \/ sig = "ERRER" /\ recon_timer' = TRUE /\ UNCHANGED Cli_stat
     \/ sig = "CLOSE" /\ Cli_stat' = FALSE /\ UNCHANGED recon_timer
  /\ UNCHANGED <<station, WIFI_connect_Flag, apLinks, TCP_timer, T_OneNet_HeartTime>>
-----------------------------------------------------------------------------
Next == \/ StationStep \/ ApLinkStep \/ Reboot
        \/ get_WIFI_state
        \/ Begin_TCP \/ Reconnect
        \/ Connected \/ LinkError \/ PeerCloses \/ espconn_Task
        \/ OneNet_Tcp_Cline_HeartBeat \/ AnswerCommand
        \/ PeerReceives \/ AckArrives

Spec == Init /\ [][Next]_vars

(***************************************************************************)
(* Periodic timers keep firing and the event task drains its queue: weak   *)
(* fairness.  A handshake ends one way or the other (lwIP's SYN            *)
(* retransmission limit), and a cloud that is tried again and again answers *)
(* some time: strong fairness of Connected, an assumption on the network.  *)
(***************************************************************************)
Fairness == /\ WF_vars(get_WIFI_state)
            /\ WF_vars(Begin_TCP)
            /\ WF_vars(Reconnect)
            /\ WF_vars(espconn_Task)
            /\ SF_vars(Connected)

FairSpec == Spec /\ Fairness
-----------------------------------------------------------------------------
(* What makes the link correct *)

Online   == node = "open" /\ sig = "none"
Trying   == recon_timer \/ sig = "ERRER" \/ (node = "syn" /\ sig = "none")
Phase    == CASE TCP_timer -> "waiting"
              [] ~TCP_timer /\ Online -> "online"
              [] ~TCP_timer /\ ~Online /\ Trying -> "trying"
              [] OTHER -> "stranded"

\* At any time at most one thing can lead to espconn_connect or owns the link:
\* the boot timer, the retry timer, or the node.  Otherwise a second connect
\* would meet ESPCONN_ISCONN, whose result nobody looks at.
OneOwner == /\ ~(TCP_timer /\ recon_timer)
            /\ TCP_timer => node = "none"
            /\ recon_timer => node = "none"

\* The cloud never hears a heartbeat or a command response before the login
\* request, whatever timers of an earlier link are still running.
LoginFirst == heard \in {"none", "CONNREQ", "GARBLED"}

\* As long as the cloud has heard nothing, the login request is the message in
\* flight: nothing that was refused or lost could have been the login.
LoginNotDropped == Online /\ heard = "none" => pbuf = Buffered("CONNREQ", "wire")

\* An established link is kept alive and known to the application.
OpenIsTended == node = "open" => T_OneNet_HeartTime /\ Cli_stat

\* The inductive invariant behind these.  OneOwner and OpenIsTended carry over
\* as they are; LoginFirst needs LoginNotDropped, which in turn needs to know
\* that nothing is buffered before the handshake is over.
LinkInv ==
  /\ TypeOK
  /\ OneOwner
  /\ OpenIsTended
  /\ LoginFirst
  /\ LoginNotDropped
  /\ node # "open" => pbuf = Empty /\ heard = "none"
  /\ sig = "ERRER" => node \in {"syn", "open"}
  /\ sig = "CLOSE" => node = "open"

\* Only a restart helps a device that has stopped trying.
StrandedUntilReset == [][Phase = "stranded" => Phase' \in {"stranded", "waiting"}]_vars

\* The abstract life of the link; heard counts only while the link is online.
Life == INSTANCE LinkLifecycle
          WITH phase <- Phase, heard <- IF Phase = "online" THEN heard ELSE "none"
ImplementsLifecycle == Life!Spec
AttemptEnds == Life!AttemptEnds

\* With a station that keeps its address, the device does start the link.
StartsOnceOnline == <>[](station = "GOT_IP") => <>[](~TCP_timer)
=============================================================================
