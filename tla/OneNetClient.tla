---------------------------- MODULE OneNetClient ----------------------------
(***************************************************************************)
(* The whole OneNET client: the link (OneNetLink, whose variables and      *)
(* handlers are at hand under their names) and the receive path            *)
(* (EdpStream) as the firmware runs them, in one event task and over one   *)
(* espconn.  They meet in two handlers: the end of the handshake, which    *)
(* sends the login and resets recv_buf and the pins, and the arrival of a  *)
(* segment, whose command is answered through the one message that may be  *)
(* unacknowledged.  What the composition adds is which command is answered.*)
(***************************************************************************)
EXTENDS OneNetLink, Sequences

CONSTANTS BUFFER_SIZE, MSS, PktSize, HeapBlocks, MaxPkts

VARIABLES
  up, stream, rcvd, from, taken, cuts, torn, dropped, light, heap, work, fault,  \* EdpStream
  answer,      \* index of the command whose CMDRESP is in pbuf, 0 for none
  answered,    \* commands of this connection whose CMDRESP the cloud got
  acking       \* bytes the cloud had written when it got the message in pbuf

Stream == INSTANCE EdpStream

ASSUME ClientAssumption == Stream!StreamAssumption

streamVars == <<up, stream, rcvd, from, taken, cuts, torn, dropped, light, heap, work, fault>>
responses  == <<answer, answered, acking>>
clientVars == <<vars, streamVars, responses>>

ClientInit == /\ Init
              /\ Stream!Init
              /\ answer = 0
              /\ answered = {}
              /\ acking = 0

Running   == fault = "none"
IsSwitch(i) == stream[i].kind \in Stream!Switches

\* The index of what was parsed behind a hole: no command of the cloud.
Unknown == MaxPkts + 1
-----------------------------------------------------------------------------
(* Steps of one part alone *)

\* Handlers and network events that neither see the stream nor the answer.
LinkStep == /\ Running
            /\ \/ StationStep \/ ApLinkStep
               \/ get_WIFI_state \/ Begin_TCP \/ Reconnect
               \/ OneNet_Tcp_Cline_HeartBeat
            /\ UNCHANGED <<streamVars, responses>>

\* The cloud answers the login first and writes what it likes after that.
CloudWrites(k) == /\ heard = "CONNREQ"
                  /\ k = "CONNRESP" <=> stream = <<>> /\ dropped = 0
                  /\ Stream!CloudWrites(k)
                  /\ UNCHANGED <<vars, responses>>

ClientPeerReceives == /\ PeerReceives
                      /\ answered' = (answered \cup {answer}) \ {0}
                      /\ acking' = Stream!Total
                      /\ UNCHANGED <<streamVars, answer>>

\* Mutant: an acknowledgement makes room for a response that was refused.
ClientAckArrives_Retries ==
  /\ Running
  /\ pbuf.at = "rcvd" /\ sig = "none"
  /\ \E i \in 0..taken :
       /\ i # 0 => IsSwitch(i) /\ i \notin answered
       /\ answer' = i
       /\ pbuf' = IF i = 0 THEN Empty ELSE Buffered("CMDRESP", "wire")
  /\ acking' = 0
  /\ UNCHANGED <<streamVars, station, WIFI_connect_Flag, apLinks, TCP_timer, recon_timer,
                 T_OneNet_HeartTime, node, sig, heard, Cli_stat, answered>>

ClientAckArrives == /\ Running
                    /\ AckArrives
                    /\ answer' = 0
                    /\ acking' = 0
                    /\ UNCHANGED <<streamVars, answered>>

ClientTask == /\ Running
              /\ espconn_Task
              /\ answer' = 0
              /\ acking' = 0
              /\ UNCHANGED <<streamVars, answered>>
-----------------------------------------------------------------------------
(* Steps of both *)

\* OneNet_Tcp_ConnectTure_cb: the login is sent before recv_buf is replaced.
ClientConnected == /\ Connected
                   /\ Stream!Connect
                   /\ answer' = 0
                   /\ answered' = {}
                   /\ acking' = 0

\* Mutant: the receive path is not told that the connection is over.
LinkEnds_StaysUp == /\ Running
                    /\ LinkError \/ PeerCloses
                    /\ UNCHANGED <<streamVars, responses>>

\* The connection ends, by an error or a FIN: no segment comes after it.
LinkEnds == /\ Running
            /\ LinkError \/ PeerCloses
            /\ IF up THEN Stream!LinkLost ELSE UNCHANGED streamVars
            /\ UNCHANGED responses

\* OneNet_Deal_CMDREQ after OneNet_GPIO_Control knew the command of index i.
Answer(i) == /\ AnswerCommand
             /\ answer' = IF pbuf = Empty THEN i ELSE answer

\* Every segment acknowledges what its sender had received: with bytes written
\* after the cloud got our message, lwIP runs espconn_client_sent first.  (Behind
\* a hole the offsets say nothing of when a byte was written.)
AckedBefore(n) == pbuf.at = "rcvd" /\ ~torn => rcvd + n <= acking

\* OneNet_Tcp_RecvData_Analy.
Receive(n) ==
  /\ AckedBefore(n)
  /\ Stream!Receive(n)
  /\ IF taken' # taken /\ IsSwitch(taken')
     THEN Answer(taken')
     ELSE UNCHANGED <<vars, answer>>
  /\ UNCHANGED <<answered, acking>>

\* The same on what follows a hole.
ReceiveGarbled(n, k) ==
  /\ AckedBefore(n)
  /\ Stream!ReceiveGarbled(n, k)
  /\ IF k \in Stream!Switches THEN Answer(Unknown) ELSE UNCHANGED <<vars, answer>>
  /\ UNCHANGED <<answered, acking>>

\* The segment acknowledges what it acknowledges, dropped or not; offsets count
\* from the bytes that are left.
ReceiveDropped(n) ==
  /\ AckedBefore(n)
  /\ Stream!ReceiveDropped(n)
  /\ acking' = IF pbuf.at = "rcvd" /\ ~torn' THEN acking - n ELSE acking
  /\ UNCHANGED <<vars, answer, answered>>

ClientReboot == /\ Reboot
                /\ Stream!Restart
                /\ answer' = 0
                /\ answered' = {}
                /\ acking' = 0
-----------------------------------------------------------------------------
ClientNext == \/ LinkStep
              \/ \E k \in Stream!Kind : CloudWrites(k)
              \/ \E n \in 1..MSS : Receive(n) \/ ReceiveDropped(n)
              \/ \E n \in 1..MSS, k \in Stream!Kind : ReceiveGarbled(n, k)
              \/ ClientConnected \/ LinkEnds \/ ClientTask \/ ClientReboot
              \/ ClientPeerReceives \/ ClientAckArrives

ClientSpec == ClientInit /\ [][ClientNext]_clientVars

\* TCP carries what is sent while the connection lasts, both ways.
ClientFairness == /\ WF_clientVars(\E n \in 1..MSS : Receive(n) \/ ReceiveDropped(n))
                  /\ WF_clientVars(ClientPeerReceives)
                  /\ WF_clientVars(ClientAckArrives)

ClientFairSpec == ClientSpec /\ ClientFairness
-----------------------------------------------------------------------------
(* What makes the client correct *)

ClientTypeOK == /\ answer \in 0..Unknown
                /\ answered \subseteq 1..Unknown
                /\ acking \in Nat
                /\ pbuf.msg = "CMDRESP" <=> answer # 0

\* Segments are handled exactly while the link is established: neither half
\* believes in a connection the other half has given up.
UpIsOnline == Running => (up <=> Online)

\* A response, on its way or delivered, is about a switching command that was
\* taken from this connection; only behind a hole, where nothing the cloud wrote
\* is left to answer, is it about anything else.
Earned(i) == IF i = Unknown THEN Stream!Garbled ELSE i <= taken /\ IsSwitch(i)
AnswersAreEarned == up => \A i \in answered \cup ({answer} \ {0}) : Earned(i)

\* Responses reach the cloud in the order of the commands.
AnswersInOrder == up /\ answer # 0 => \A i \in answered : i <= answer

\* A response that was refused is never sent later: a command that is obeyed
\* and is neither answered nor being answered stays unanswered.
NoLateAnswer ==
  [][up /\ up' => \A i \in 1..taken : i \notin answered /\ i # answer
                                      => i \notin answered' /\ i # answer']_clientVars

\* The two halves and the answers agree.
ClientInv == ClientTypeOK /\ UpIsOnline /\ AnswersAreEarned /\ AnswersInOrder

\* What the comment at the reply says: a command that was obeyed is answered,
\* unless the link ends first.
EveryCommandAnswered ==
  \A i \in 1..MaxPkts :
    (up /\ taken >= i /\ IsSwitch(i)) ~> (i \in answered \/ ~up \/ ~Running)
=============================================================================
