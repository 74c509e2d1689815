-------------------------- MODULE OneNetClientProof --------------------------
(***************************************************************************)
(* Theorems about OneNetLink for every number of TCP links, and about      *)
(* OneNetClient for every size of buffer, segment, packet and heap, every  *)
(* number of links and every number of packets: the link logs in first,    *)
(* has one owner and lives as LinkLifecycle says; the composition is both  *)
(* of its halves, so that what is proved of a half holds in it, and        *)
(* responses are earned, in order and never late.                          *)
(***************************************************************************)
EXTENDS OneNetClient, TLAPS

(* The link alone: type correctness, the login first, the single owner of the link *)
(* and the refinement of LinkLifecycle all rest on LinkInv.                         *)

USE MaxConAssumption DEF Status, Msg, Place, Empty, Buffered

\* The state after user_init satisfies the invariant.
LEMMA InitInv == Init => LinkInv
<1> SUFFICES ASSUME Init PROVE LinkInv
  OBVIOUS
<1>1. TypeOK
  <2>1. apLinks \in 0..MaxCon
    BY DEF Init
  <2>2. QED BY <2>1 DEF Init, TypeOK
<1>2. OneOwner /\ OpenIsTended /\ LoginFirst /\ LoginNotDropped
  BY DEF Init, OneOwner, OpenIsTended, LoginFirst, LoginNotDropped, Online
<1>3. QED
  BY <1>1, <1>2 DEF Init, LinkInv

\* Every handler, and every move of the radio, the pages and the cloud,
\* preserves the invariant.
LEMMA StepInv == LinkInv /\ [Next]_vars => LinkInv'
<1> SUFFICES ASSUME LinkInv, [Next]_vars
             PROVE  LinkInv'
  OBVIOUS
<1> USE DEF LinkInv, TypeOK, OneOwner, OpenIsTended, LoginFirst, LoginNotDropped,
            Online, timers, link
<1>1. CASE StationStep
  <2>1. StationNext(station) \subseteq Status
    BY DEF StationNext
  <2>2. QED BY <1>1, <2>1 DEF StationStep
<1>2. CASE ApLinkStep
  BY <1>2 DEF ApLinkStep
<1>3. CASE Reboot
  <2>1. apLinks' \in 0..MaxCon
    BY <1>3 DEF Reboot
  <2>2. TypeOK'
    BY <1>3, <2>1 DEF Reboot
  <2>3. QED BY <1>3, <2>2 DEF Reboot
<1>4. CASE get_WIFI_state
  <2>1. WIFI_connect_Flag' \in BOOLEAN
    BY <1>4 DEF get_WIFI_state
  <2>2. UNCHANGED <<station, apLinks, timers, link, Cli_stat>>
    BY <1>4 DEF get_WIFI_state
  <2> QED BY <2>1, <2>2
<1>5. CASE Begin_TCP
  <2>1. node = "none" /\ node' \in {"syn", "none", "lost"} /\ ~recon_timer /\ ~TCP_timer'
    BY <1>5 DEF Begin_TCP, OneNet_Tcp_cline_connect, espconn_connect
  <2>2. UNCHANGED <<station, WIFI_connect_Flag, apLinks, recon_timer, T_OneNet_HeartTime, Cli_stat,
                    sig, pbuf, heard>>
    BY <1>5 DEF Begin_TCP, OneNet_Tcp_cline_connect, espconn_connect
  <2>3. TCP_timer' = FALSE
    BY <1>5 DEF Begin_TCP
  <2> QED BY <2>1, <2>2, <2>3
<1>6. CASE Reconnect
  <2>1. node = "none" /\ node' \in {"syn", "none", "lost"} /\ ~TCP_timer /\ ~recon_timer'
    BY <1>6 DEF Reconnect, OneNet_Tcp_cline_connect, espconn_connect
  <2>2. UNCHANGED <<station, WIFI_connect_Flag, apLinks, TCP_timer, T_OneNet_HeartTime, Cli_stat,
                    sig, pbuf, heard>>
    BY <1>6 DEF Reconnect, OneNet_Tcp_cline_connect, espconn_connect
  <2>3. recon_timer' = FALSE
    BY <1>6 DEF Reconnect
  <2> QED BY <2>1, <2>2, <2>3
<1>7. CASE Connected
  BY <1>7, SMTT(30) DEF Connected, espconn_sent
<1>8. CASE LinkError
  BY <1>8 DEF LinkError
<1>9. CASE PeerCloses
  BY <1>9 DEF PeerCloses
<1>10. CASE espconn_Task
  BY <1>10 DEF espconn_Task
<1>11. CASE OneNet_Tcp_Cline_HeartBeat
  BY <1>11 DEF OneNet_Tcp_Cline_HeartBeat, espconn_sent
<1>12. CASE AnswerCommand
  BY <1>12 DEF AnswerCommand, espconn_sent
<1>13. CASE PeerReceives
  BY <1>13 DEF PeerReceives
<1>14. CASE AckArrives
  BY <1>14 DEF AckArrives
<1>15. CASE UNCHANGED vars
  BY <1>15 DEF vars
<1>16. QED
  BY <1>1, <1>2, <1>3, <1>4, <1>5, <1>6, <1>7, <1>8, <1>9, <1>10, <1>11, <1>12,
     <1>13, <1>14, <1>15 DEF Next

\* The inductive invariant holds throughout.
THEOREM LinkInvariant == Spec => []LinkInv
BY InitInv, StepInv, PTL DEF Spec

\* Every variable keeps its type.
THEOREM TypeCorrect == Spec => []TypeOK
<1>1. LinkInv => TypeOK
  BY DEF LinkInv
<1>2. QED BY LinkInvariant, <1>1, PTL

\* The cloud hears the login request before anything else, on every link, even
\* with the heartbeat timer of an earlier link still running.
THEOREM LoginComesFirst == Spec => [](LoginFirst /\ LoginNotDropped)
<1>1. LinkInv => LoginFirst /\ LoginNotDropped
  BY DEF LinkInv
<1>2. QED BY LinkInvariant, <1>1, PTL

\* The boot timer, the retry timer and the node are never there together.
THEOREM SingleOwner == Spec => []OneOwner
<1>1. LinkInv => OneOwner
  BY DEF LinkInv
<1>2. QED BY LinkInvariant, <1>1, PTL

\* Every step of the device is a step of LinkLifecycle, or leaves phase and
\* heard as they are.
LEMMA StepRefines == LinkInv /\ [Next]_vars => [Life!Next]_(Life!lvars)
<1> SUFFICES ASSUME LinkInv, [Next]_vars
             PROVE  [Life!Next]_(Life!lvars)
  OBVIOUS
<1> USE DEF LinkInv, TypeOK, OneOwner, Phase, Online, Trying, timers, link, Life!lvars
<1>1. CASE StationStep
  BY <1>1 DEF StationStep
<1>2. CASE ApLinkStep
  BY <1>2 DEF ApLinkStep
<1>3. CASE Reboot
  BY <1>3 DEF Reboot, Life!Next, Life!Reset
<1>4. CASE get_WIFI_state
  BY <1>4 DEF get_WIFI_state
<1>5. CASE Begin_TCP
  BY <1>5, SMTT(30) DEF Begin_TCP, OneNet_Tcp_cline_connect, espconn_connect, Refused,
              Life!Next, Life!Begin
<1>6. CASE Reconnect
  BY <1>6, SMTT(30) DEF Reconnect, OneNet_Tcp_cline_connect, espconn_connect, Refused,
              Life!Next, Life!GiveUp
<1>7. CASE Connected
  BY <1>7, SMTT(30) DEF Connected, Life!Next, Life!Establish
<1>8. CASE LinkError
  BY <1>8 DEF LinkError, Life!Next, Life!Drop
<1>9. CASE PeerCloses
  BY <1>9 DEF PeerCloses, Life!Next, Life!Drop
<1>10. CASE espconn_Task
  BY <1>10 DEF espconn_Task
<1>11. CASE OneNet_Tcp_Cline_HeartBeat
  BY <1>11 DEF OneNet_Tcp_Cline_HeartBeat
<1>12. CASE AnswerCommand
  BY <1>12 DEF AnswerCommand
<1>13. CASE PeerReceives
  BY <1>13 DEF PeerReceives, LoginNotDropped, Life!Next, Life!Greet
<1>14. CASE AckArrives
  BY <1>14 DEF AckArrives
<1>15. CASE UNCHANGED vars
  BY <1>15 DEF vars
<1>16. QED
  BY <1>1, <1>2, <1>3, <1>4, <1>5, <1>6, <1>7, <1>8, <1>9, <1>10, <1>11, <1>12,
     <1>13, <1>14, <1>15 DEF Next

\* The device implements the abstract life of the link.
THEOREM Refinement == Spec => ImplementsLifecycle
<1>1. Init => Life!Init
  BY DEF Init, Life!Init, Phase
<1>2. QED
  BY <1>1, StepRefines, LinkInvariant, PTL DEF Spec, ImplementsLifecycle, Life!Spec

\* Only a restart ends the stranded phase.
THEOREM StrandedStays == Spec => StrandedUntilReset
<1>1. LinkInv /\ [Next]_vars => [Phase = "stranded" => Phase' \in {"stranded", "waiting"}]_vars
  BY StepRefines DEF Life!Next, Life!lvars, Life!Begin, Life!Establish, Life!GiveUp,
                     Life!Greet, Life!Drop, Life!Reset
<1>2. QED
  BY <1>1, LinkInvariant, PTL DEF Spec, StrandedUntilReset

HIDE MaxConAssumption DEF Status, Msg, Place, Empty, Buffered
-----------------------------------------------------------------------------
\* The receive path again, with what is proved about it.
SP == INSTANCE EdpStreamProof

-----------------------------------------------------------------------------
(* The names of the receive path and of its proofs mean the same *)

LEMMA Sizes == SP!StreamAssumption
BY ClientAssumption DEF SP!StreamAssumption, SP!Kind, Stream!StreamAssumption, Stream!Kind

LEMMA SameNames ==
  /\ Stream!Kind = SP!Kind /\ Stream!Switches = SP!Switches
  /\ Stream!Running = SP!Running /\ Stream!Total = SP!Total /\ Stream!Garbled = SP!Garbled
  /\ \A i : Stream!End(i) = SP!End(i)
BY Zenon DEF Stream!Kind, SP!Kind, Stream!Switches, SP!Switches, Stream!Running, SP!Running,
   Stream!Total, SP!Total, Stream!End, SP!End, Stream!Garbled, SP!Garbled

LEMMA SameStreamInit == Stream!Init <=> SP!Init
BY Zenon DEF Stream!Init, SP!Init, Stream!Switches, SP!Switches

LEMMA SameReceive == \A n : Stream!Receive(n) <=> SP!Receive(n)
BY Zenon
DEF Stream!Receive, SP!Receive, Stream!ReceivePacket, SP!ReceivePacket,
    Stream!ReceivePartial, SP!ReceivePartial, Stream!ReceiveOverflow, SP!ReceiveOverflow,
    Stream!ReceiveNoMem, SP!ReceiveNoMem, Stream!Handed, SP!Handed, Stream!Fits, SP!Fits,
    Stream!Deal, SP!Deal, Stream!Garbled, SP!Garbled, Stream!Segment, SP!Segment,
    Stream!Complete, SP!Complete, Stream!Peak, SP!Peak, Stream!CmdLeak, SP!CmdLeak,
    Stream!IsPacket, SP!IsPacket, Stream!EndsPacket, SP!EndsPacket, Stream!Running, SP!Running,
    Stream!Total, SP!Total, Stream!End, SP!End, Stream!Command, SP!Command,
    Stream!Switches, SP!Switches, Stream!recv, SP!recv, Stream!loss, SP!loss, Stream!mem, SP!mem

LEMMA SameGarbled == \A n, k : Stream!ReceiveGarbled(n, k) <=> SP!ReceiveGarbled(n, k)
BY Zenon
DEF Stream!ReceiveGarbled, SP!ReceiveGarbled, Stream!Handed, SP!Handed, Stream!Fits, SP!Fits,
    Stream!Deal, SP!Deal, Stream!Garbled, SP!Garbled, Stream!Segment, SP!Segment,
    Stream!Peak, SP!Peak, Stream!CmdLeak, SP!CmdLeak,
    Stream!IsPacket, SP!IsPacket, Stream!EndsPacket, SP!EndsPacket, Stream!Running, SP!Running,
    Stream!Total, SP!Total, Stream!End, SP!End, Stream!Command, SP!Command,
    Stream!Switches, SP!Switches, Stream!loss, SP!loss

LEMMA SameDropped == \A n : Stream!ReceiveDropped(n) <=> SP!ReceiveDropped(n)
BY Zenon
DEF Stream!ReceiveDropped, SP!ReceiveDropped, Stream!DropPackets, SP!DropPackets,
    Stream!DropPart, SP!DropPart, Stream!Without, SP!Without, Stream!Segment, SP!Segment,
    Stream!IsPacket, SP!IsPacket, Stream!EndsPacket, SP!EndsPacket, Stream!Running, SP!Running,
    Stream!Total, SP!Total, Stream!End, SP!End, Stream!recv, SP!recv, Stream!mem, SP!mem

LEMMA SameOthers ==
  /\ \A k : Stream!CloudWrites(k) <=> SP!CloudWrites(k)
  /\ Stream!Connect <=> SP!Connect
  /\ Stream!LinkLost <=> SP!LinkLost
  /\ Stream!Restart <=> SP!Restart
BY Zenon
DEF Stream!CloudWrites, SP!CloudWrites, Stream!Connect, SP!Connect, Stream!LinkLost, SP!LinkLost,
    Stream!Restart, SP!Restart, Stream!NoBytes, SP!NoBytes, Stream!Running, SP!Running,
    Stream!Total, SP!Total, Stream!End, SP!End, Stream!Switches, SP!Switches,
    Stream!recv, SP!recv, Stream!loss, SP!loss, Stream!mem, SP!mem

LEMMA SameStreamNext == Stream!Next <=> SP!Next
BY SameNames, SameReceive, SameGarbled, SameDropped, SameOthers, Zenon DEF Stream!Next, SP!Next

LEMMA SameStreamVars == UNCHANGED Stream!vars => UNCHANGED SP!vars
BY DEF Stream!vars, SP!vars, Stream!recv, SP!recv, Stream!loss, SP!loss, Stream!mem, SP!mem

-----------------------------------------------------------------------------
(* Every step of the firmware is a step of each half, or leaves it alone *)

LEMMA StepLink == [ClientNext]_clientVars => [Next]_vars
<1> SUFFICES ASSUME [ClientNext]_clientVars PROVE [Next]_vars
  OBVIOUS
<1>1. CASE LinkStep
  BY <1>1 DEF LinkStep, Next
<1>2. ASSUME NEW k \in Stream!Kind, CloudWrites(k) PROVE UNCHANGED vars
  BY <1>2 DEF CloudWrites
<1>3. ASSUME NEW n \in 1..MSS, Receive(n) PROVE [Next]_vars
  BY <1>3 DEF Receive, Answer, Next
<1>6. ASSUME NEW n \in 1..MSS, ReceiveDropped(n) PROVE UNCHANGED vars
  BY <1>6 DEF ReceiveDropped
<1>7. ASSUME NEW n \in 1..MSS, NEW k \in Stream!Kind, ReceiveGarbled(n, k) PROVE [Next]_vars
  BY <1>7 DEF ReceiveGarbled, Answer, Next
<1>4. CASE \/ ClientConnected \/ LinkEnds \/ ClientTask \/ ClientReboot
           \/ ClientPeerReceives \/ ClientAckArrives
  BY <1>4 DEF ClientConnected, LinkEnds, ClientTask, ClientReboot, ClientPeerReceives,
              ClientAckArrives, Next
<1>5. CASE UNCHANGED clientVars
  BY <1>5 DEF clientVars
<1> QED BY <1>1, <1>2, <1>3, <1>4, <1>5, <1>6, <1>7 DEF ClientNext

LEMMA StepStream == [ClientNext]_clientVars => [Stream!Next]_(Stream!vars)
<1> SUFFICES ASSUME [ClientNext]_clientVars PROVE [Stream!Next]_(Stream!vars)
  OBVIOUS
<1>0. UNCHANGED streamVars => UNCHANGED Stream!vars
  BY DEF streamVars, Stream!vars, Stream!recv, Stream!loss, Stream!mem
<1>1. CASE LinkStep \/ ClientTask \/ ClientPeerReceives \/ ClientAckArrives
  BY <1>0, <1>1 DEF LinkStep, ClientTask, ClientPeerReceives, ClientAckArrives
<1>2. ASSUME NEW k \in Stream!Kind, CloudWrites(k) PROVE Stream!Next
  BY <1>2 DEF CloudWrites, Stream!Next
<1>3. ASSUME NEW n \in 1..MSS, Receive(n) PROVE Stream!Next
  BY <1>3 DEF Receive, Stream!Next
<1>7. ASSUME NEW n \in 1..MSS, ReceiveDropped(n) PROVE Stream!Next
  BY <1>7 DEF ReceiveDropped, Stream!Next
<1>8. ASSUME NEW n \in 1..MSS, NEW k \in Stream!Kind, ReceiveGarbled(n, k) PROVE Stream!Next
  BY <1>8 DEF ReceiveGarbled, Stream!Next
<1>4. CASE ClientConnected \/ ClientReboot
  BY <1>4 DEF ClientConnected, ClientReboot, Stream!Next
<1>5. CASE LinkEnds
  BY <1>0, <1>5 DEF LinkEnds, Stream!Next
<1>6. CASE UNCHANGED clientVars
  BY <1>0, <1>6 DEF clientVars
<1> QED BY <1>1, <1>2, <1>3, <1>4, <1>5, <1>6, <1>7, <1>8 DEF ClientNext

-----------------------------------------------------------------------------
(* What each half guarantees holds in the composition *)

LEMMA LinkHolds == ClientSpec => []LinkInv
<1>1. ClientInit => Init
  BY DEF ClientInit
<1> QED BY <1>1, StepLink, LinkInvariant, PTL DEF ClientSpec, Spec

LEMMA StreamHolds == ClientSpec => []SP!IInv
<1>1. ClientInit => SP!IInv
  BY SP!InitIInv, Sizes, SameStreamInit DEF ClientInit
<1>2. SP!IInv /\ [ClientNext]_clientVars => SP!IInv'
  BY SP!StepIInv, Sizes, StepStream, SameStreamNext, SameStreamVars
<1> QED BY <1>1, <1>2, PTL DEF ClientSpec

\* Seen from the cloud, the firmware as a whole is the abstract channel: the
\* packets of a connection are handled in order, each at most once, and only
\* their handling moves the light, whatever login, heartbeat and responses do
\* on the same socket.
THEOREM ClientIsChannel == ClientSpec => SP!ImplementsChannel
<1>1. ClientInit => SP!Channel!Init
  BY Sizes, SameStreamInit, SP!InitChannel DEF ClientInit
<1>2. SP!IInv /\ [ClientNext]_clientVars => [SP!Channel!Next]_(SP!Channel!cvars)
  BY Sizes, StepStream, SameStreamNext, SameStreamVars, SP!StepChannel
<1> QED BY <1>1, <1>2, StreamHolds, PTL DEF ClientSpec, SP!ImplementsChannel, SP!Channel!Spec

\* And its link has the abstract life: it is tried again or stranded as
\* LinkLifecycle says, and on every link the cloud hears the login first.
THEOREM ClientLivesOneLife == ClientSpec => ImplementsLifecycle
<1>1. ClientInit => Init
  BY DEF ClientInit
<1> QED BY <1>1, StepLink, Refinement, PTL DEF ClientSpec, Spec

\* The invariants of the halves, as the client has them: an aligned parser, a
\* light that is what the last switching command says, the login first, and one
\* owner of the link.
THEOREM HalvesStaySafe ==
  ClientSpec => [](SP!Aligned /\ SP!LightFollows /\ LoginFirst /\ OneOwner)
<1>1. ClientInit => SP!LightFollows
  BY SameStreamInit DEF ClientInit, SP!Init, SP!LightFollows
<1>2. SP!IInv /\ SP!LightFollows /\ [ClientNext]_clientVars => SP!LightFollows'
  BY Sizes, StepStream, SameStreamNext, SameStreamVars, SP!StepLight
<1>3. SP!IInv => SP!Aligned
  BY DEF SP!IInv, SP!Front, SP!Aligned
<1>4. LinkInv => LoginFirst /\ OneOwner
  BY DEF LinkInv
<1> QED BY <1>1, <1>2, <1>3, <1>4, LinkHolds, StreamHolds, PTL DEF ClientSpec

\* What the answers need to know of the halves.
Halves == LinkInv /\ SP!IInv

\* Nothing is buffered before the handshake is over.
LEMMA Buffers ==
  ASSUME Halves
  PROVE  /\ pbuf = Empty \/ (DOMAIN pbuf = {"msg", "at"} /\ pbuf.msg \in Msg)
         /\ node # "open" => pbuf = Empty
         /\ sig \in {"none", "ERRER", "CLOSE"}
BY DEF Halves, LinkInv, TypeOK, Empty, Msg, Place

\* A packet is taken out of recv_buf in its turn.
LEMMA TakenIsNext ==
  ASSUME Halves, NEW n \in 1..MSS, Stream!Receive(n), taken' # taken
  PROVE  taken' = taken + 1 /\ taken' <= Len(stream)
<1>1. taken \in Nat /\ Len(stream) \in Nat
  BY SP!PacketTypes DEF Halves, SP!IInv, SP!TypeOK
<1>2. PICK i \in 1..Len(stream) : stream[i].start = from /\ taken' = i
  BY DEF Stream!Receive, Stream!ReceivePacket, Stream!ReceivePartial,
         Stream!ReceiveOverflow, Stream!ReceiveNoMem, Stream!Complete, Stream!recv
<1>3. i = taken + 1
  BY <1>2, Sizes, SP!FrontIsNext DEF Halves
<1> QED BY <1>1, <1>2, <1>3

\* The stream a link has carried so far has a length and its packets a place.
LEMMA StreamBounds ==
  ASSUME Halves
  PROVE  /\ taken \in 0..Len(stream) /\ Len(stream) \in Nat
         /\ Stream!Total \in Nat
<1>1. SP!TypeOK
  BY DEF Halves, SP!IInv
<1>2. Len(stream) \in Nat /\ SP!End(Len(stream)) \in Nat
  BY <1>1, Sizes, SP!PacketTypes
<1>3. Stream!Total = SP!End(Len(stream))
  BY DEF Stream!Total, Stream!End, SP!End
<1> QED BY <1>1, <1>2, <1>3 DEF SP!TypeOK
\* A dropped segment leaves the packets that were taken where they were.
LEMMA DroppedLeaves ==
  ASSUME Halves, NEW n \in 1..MSS, Stream!ReceiveDropped(n)
  PROVE  /\ up /\ Running /\ ~torn
         /\ UNCHANGED <<up, taken, fault>>
         /\ Len(stream') \in Nat /\ Len(stream') <= Len(stream) /\ taken <= Len(stream')
         /\ \A i \in 1..taken : stream'[i] = stream[i]
<1>1. SP!ReceiveDropped(n) /\ SP!IInv
  BY SameDropped DEF Halves
<1>2. up /\ Running /\ ~torn /\ UNCHANGED <<up, taken, fault>>
  BY <1>1 DEF SP!ReceiveDropped, SP!Running, Running, SP!recv
<1>3. \E a, b \in 0..Len(stream) :
        /\ a <= b /\ taken <= a /\ Len(stream') = Len(stream) - (b - a)
        /\ \A i \in 1..a : stream'[i] = stream[i]
  <2>1. CASE SP!DropPackets(n)
    <3>1. PICK a \in 0..Len(stream), b \in 0..Len(stream) :
                 SP!End(a) = rcvd /\ SP!End(b) = rcvd + n /\ stream' = SP!Without(a, b)
      BY <2>1 DEF SP!DropPackets
    <3>2. /\ a < b /\ taken <= a /\ Len(stream') = Len(stream) - (b - a)
          /\ \A i \in 1..a : stream'[i] = stream[i]
      BY <1>1, <3>1, Sizes, SP!DroppedPackets
    <3> QED BY <3>2
  <2>2. CASE SP!DropPart(n)
    <3>1. PICK a \in 0..Len(stream) : /\ \A i \in 1..Len(stream) : i <= a <=> stream[i].end <= rcvd
                                      /\ stream' = SubSeq(stream, 1, a)
      BY <2>2 DEF SP!DropPart
    <3>2. Len(stream') = a /\ taken <= a /\ \A i \in 1..a : stream'[i] = stream[i]
      BY <1>1, <3>1, Sizes, SP!TornStream
    <3>3. Len(stream) \in Nat
      BY StreamBounds
    <3>4. a <= Len(stream) /\ Len(stream) \in 0..Len(stream) /\ a = Len(stream) - (Len(stream) - a)
      BY <3>3
    <3> QED BY <3>2, <3>4
  <2> QED BY <1>1, <2>1, <2>2 DEF SP!ReceiveDropped
<1>4. taken \in Nat /\ Len(stream) \in Nat
  BY StreamBounds
<1>5. PICK a \in 0..Len(stream), b \in 0..Len(stream) :
        /\ a <= b /\ taken <= a /\ Len(stream') = Len(stream) - (b - a)
        /\ \A i \in 1..a : stream'[i] = stream[i]
  BY <1>3
<1> QED BY <1>2, <1>4, <1>5
-----------------------------------------------------------------------------
(* The responses *)

\* The inductive invariant: ClientInv, and the bound on the packets that makes
\* answer a packet's number.
AnswerInv == ClientInv /\ Len(stream) <= MaxPkts

LEMMA InitAnswer == ClientInit => AnswerInv
<1> SUFFICES ASSUME ClientInit PROVE AnswerInv
  OBVIOUS
<1>1. MaxPkts \in Nat
  BY ClientAssumption DEF Stream!StreamAssumption
<1>2. stream = <<>> /\ Len(stream) = 0 /\ ~up
  BY DEF ClientInit, Stream!Init
<1>3. pbuf = Empty /\ ~Online
  BY DEF ClientInit, Init, Online
<1>4. pbuf.msg = "none"
  BY <1>3 DEF Empty
<1> QED BY <1>1, <1>2, <1>3, <1>4
        DEF ClientInit, AnswerInv, ClientInv, ClientTypeOK, Unknown, UpIsOnline, AnswersAreEarned,
            AnswersInOrder

\* Every handler preserves it, and none sends a response that was refused.
LEMMA StepAnswer ==
  ASSUME Halves, Halves', AnswerInv, [ClientNext]_clientVars
  PROVE  /\ AnswerInv'
         /\ up /\ up' => \A i \in 1..taken : i \notin answered /\ i # answer
                                             => i \notin answered' /\ i # answer'
<1> DEFINE Late == up /\ up' => \A i \in 1..taken : i \notin answered /\ i # answer
                                             => i \notin answered' /\ i # answer'
<1> SUFFICES AnswerInv' /\ Late
  OBVIOUS
<1>0. /\ MaxPkts \in Nat
      /\ taken \in Nat /\ taken <= Len(stream) /\ Len(stream) \in Nat /\ Stream!Total \in Nat
      /\ answer \in 0..Unknown /\ answered \subseteq 1..Unknown /\ acking \in Nat
      /\ Unknown = MaxPkts + 1
      /\ pbuf.msg = "CMDRESP" <=> answer # 0
      /\ Len(stream) <= MaxPkts
  BY ClientAssumption, StreamBounds DEF Stream!StreamAssumption, AnswerInv, ClientInv, ClientTypeOK, Unknown
<1>1. CASE LinkStep
  <2>1. UNCHANGED <<up, stream, taken, torn, fault, answer, answered, acking>>
    BY <1>1 DEF LinkStep, streamVars, responses
  <2>2. pbuf'.msg = "CMDRESP" <=> pbuf.msg = "CMDRESP"
    <3>1. CASE OneNet_Tcp_Cline_HeartBeat
      <4>1. pbuf' = pbuf \/ (pbuf = Empty /\ pbuf'.msg = "PINGREQ")
        BY <3>1 DEF OneNet_Tcp_Cline_HeartBeat, espconn_sent, Buffered
      <4> QED BY <4>1 DEF Empty
    <3>2. CASE ~OneNet_Tcp_Cline_HeartBeat
      BY <1>1, <3>2 DEF LinkStep, StationStep, ApLinkStep, get_WIFI_state,
             Begin_TCP, Reconnect, OneNet_Tcp_cline_connect, espconn_connect,
             link
    <3> QED BY <3>1, <3>2
  <2>3. Online' <=> Online
    BY <1>1 DEF LinkStep, StationStep, ApLinkStep, get_WIFI_state,
           Begin_TCP, Reconnect, OneNet_Tcp_cline_connect, espconn_connect,
           OneNet_Tcp_Cline_HeartBeat, link, Online, Refused
  <2> QED BY <1>0, <2>1, <2>2, <2>3
          DEF AnswerInv, ClientInv, ClientTypeOK, Unknown, UpIsOnline, Running, AnswersAreEarned, Earned, Stream!Garbled, IsSwitch,
              AnswersInOrder
<1>2. ASSUME NEW k \in Stream!Kind, CloudWrites(k) PROVE AnswerInv' /\ Late
  <2>1. /\ UNCHANGED <<up, taken, torn, fault, answer, answered, acking, pbuf, node, sig>>
        /\ up /\ ~torn
        /\ Len(stream') = Len(stream) + 1 /\ Len(stream') <= MaxPkts
        /\ \A i \in 1..Len(stream) : stream'[i] = stream[i]
    BY <1>0, <1>2 DEF CloudWrites, vars, timers, link, responses, Stream!CloudWrites, Stream!recv, Stream!loss,
           Halves, SP!IInv, SP!TypeOK
  <2>2. \A i \in answered \cup ({answer} \ {0}) : i \in 1..Len(stream) /\ i # Unknown
    BY <1>0, <2>1 DEF AnswerInv, ClientInv, AnswersAreEarned, Earned, Stream!Garbled
  <2> QED BY <1>0, <2>1, <2>2
          DEF AnswerInv, ClientInv, ClientTypeOK, Unknown, UpIsOnline, Running, Online,
              AnswersAreEarned, Earned, Stream!Garbled, IsSwitch, AnswersInOrder
<1>3. ASSUME NEW n \in 1..MSS, Receive(n) PROVE AnswerInv' /\ Late
  <2>1. /\ Stream!Receive(n) /\ up /\ up' /\ Running
        /\ UNCHANGED <<stream, torn, answered, acking>>
    <3>1. Stream!Receive(n) /\ UNCHANGED <<answered, acking>>
      BY <1>3 DEF Receive
    <3>2. up /\ Running /\ UNCHANGED <<up, stream, torn>>
      BY Zenon, <3>1 DEF Stream!Receive, Stream!Handed, Stream!loss, Stream!ReceivePacket, Stream!ReceivePartial,
         Stream!ReceiveOverflow, Stream!ReceiveNoMem, Stream!Running, Running
    <3> QED BY <3>1, <3>2
  <2>2. taken' = taken \/ (taken' = taken + 1 /\ taken' <= Len(stream))
    BY <2>1, TakenIsNext
  <2>3. Online' <=> Online
    BY <1>3 DEF Receive, Answer, AnswerCommand, vars, timers, link, Online
  <2>4. \/ /\ answer' = answer /\ (pbuf'.msg = "CMDRESP" <=> pbuf.msg = "CMDRESP")
        \/ /\ answer' = taken' /\ taken' = taken + 1 /\ IsSwitch(taken')
           /\ pbuf'.msg = "CMDRESP"
    <3>1. CASE taken' # taken /\ IsSwitch(taken')
      <4>1. Answer(taken')
        BY <1>3, <3>1 DEF Receive
      <4>2. node = "open" /\ pbuf' = espconn_sent("CMDRESP", "open")
        BY <4>1 DEF Answer, AnswerCommand
      <4>3. CASE pbuf = Empty
        <5>1. pbuf'.msg = "CMDRESP"
          BY <4>2, <4>3 DEF espconn_sent, Buffered
        <5>2. answer' = taken'
          BY <4>1, <4>3 DEF Answer
        <5> QED BY <5>1, <5>2, <3>1, <2>2
      <4>4. CASE pbuf # Empty
        BY <4>1, <4>2, <4>4 DEF Answer, espconn_sent
      <4> QED BY <4>3, <4>4
    <3>2. CASE ~(taken' # taken /\ IsSwitch(taken'))
      BY <1>3, <3>2 DEF Receive, vars, timers, link
    <3> QED BY <3>1, <3>2
  <2>5. /\ \A i \in answered \cup ({answer} \ {0}) : Earned(i)
        /\ answer # 0 => \A i \in answered : i <= answer
    BY <2>1 DEF AnswerInv, ClientInv, AnswersAreEarned, AnswersInOrder
  <2>6. taken' = taken + 1 => \A i \in answered \cup ({answer} \ {0}) : i <= taken
    BY <1>0, <2>2, <2>5 DEF Earned, Stream!Garbled
  <2>7. answer' \in 0..Unknown /\ (pbuf'.msg = "CMDRESP" <=> answer' # 0)
    BY <1>0, <2>2, <2>4
  <2>8. AnswersAreEarned'
    BY <1>0, <2>1, <2>2, <2>4, <2>5, <2>6 DEF AnswersAreEarned, Earned, Stream!Garbled, IsSwitch
  <2>9. AnswersInOrder'
    BY <1>0, <2>1, <2>2, <2>4, <2>5, <2>6 DEF AnswersInOrder
  <2>10. UpIsOnline'
    BY <2>1, <2>3 DEF AnswerInv, ClientInv, UpIsOnline
  <2>11. Late
    BY <1>0, <2>1, <2>4
  <2> QED BY <1>0, <2>1, <2>7, <2>8, <2>9, <2>10, <2>11 DEF AnswerInv, ClientInv, ClientTypeOK, Unknown
<1>11. ASSUME NEW n \in 1..MSS, NEW k \in Stream!Kind, ReceiveGarbled(n, k) PROVE AnswerInv' /\ Late
  <2>1. /\ up /\ up' /\ Running /\ Stream!Garbled /\ Stream!Garbled'
        /\ UNCHANGED <<stream, taken, torn, answered, acking>>
    <3>1. Stream!ReceiveGarbled(n, k) /\ UNCHANGED <<answered, acking>>
      BY <1>11 DEF ReceiveGarbled
    <3> QED BY <3>1 DEF Stream!ReceiveGarbled, Stream!Handed, Stream!loss, Stream!Garbled,
                        Stream!Running, Running
  <2>3. Online' <=> Online
    BY <1>11 DEF ReceiveGarbled, Answer, AnswerCommand, vars, timers, link, Online
  <2>4. \/ answer' = answer /\ (pbuf'.msg = "CMDRESP" <=> pbuf.msg = "CMDRESP")
        \/ answer' = Unknown /\ pbuf'.msg = "CMDRESP"
    <3>1. CASE k \in Stream!Switches
      <4>1. Answer(Unknown)
        BY <1>11, <3>1 DEF ReceiveGarbled
      <4>2. node = "open" /\ pbuf' = espconn_sent("CMDRESP", "open")
        BY <4>1 DEF Answer, AnswerCommand
      <4>3. CASE pbuf = Empty
        <5>1. pbuf'.msg = "CMDRESP" /\ answer' = Unknown
          BY <4>1, <4>2, <4>3 DEF Answer, espconn_sent, Buffered
        <5> QED BY <5>1
      <4>4. CASE pbuf # Empty
        BY <4>1, <4>2, <4>4 DEF Answer, espconn_sent
      <4> QED BY <4>3, <4>4
    <3>2. CASE k \notin Stream!Switches
      BY <1>11, <3>2 DEF ReceiveGarbled, vars, timers, link
    <3> QED BY <3>1, <3>2
  <2>5. answer' \in 0..Unknown /\ (pbuf'.msg = "CMDRESP" <=> answer' # 0)
    BY <1>0, <2>4
  <2>6. AnswersAreEarned' /\ AnswersInOrder'
    <3>1. /\ \A i \in answered \cup ({answer} \ {0}) : Earned(i)
          /\ answer # 0 => \A i \in answered : i <= answer
      BY <2>1 DEF AnswerInv, ClientInv, AnswersAreEarned, AnswersInOrder
    <3>2. \A i : Earned(i) => Earned(i)'
      BY <2>1 DEF Earned, IsSwitch
    <3>3. Earned(Unknown)'
      BY <2>1 DEF Earned, Unknown
    <3>4. \A i \in answered' : i <= Unknown
      BY <1>0, <2>1
    <3>5. AnswersAreEarned'
      <4> SUFFICES ASSUME NEW i \in answered' \cup ({answer'} \ {0}) PROVE Earned(i)'
        BY DEF AnswersAreEarned
      <4>1. CASE i = Unknown
        BY <3>3, <4>1 DEF Unknown
      <4>2. CASE i # Unknown
        <5>1. i \in answered \cup ({answer} \ {0})
          BY <2>1, <2>4, <4>2
        <5> QED BY <3>1, <3>2, <5>1
      <4> QED BY <4>1, <4>2
    <3>6. AnswersInOrder'
      BY <2>1, <2>4, <3>1, <3>4 DEF AnswersInOrder
    <3> QED BY <3>5, <3>6
  <2>7. UpIsOnline' /\ Late
    BY <1>0, <2>1, <2>3, <2>4 DEF AnswerInv, ClientInv, UpIsOnline
  <2> QED BY <1>0, <2>1, <2>5, <2>6, <2>7 DEF AnswerInv, ClientInv, ClientTypeOK, Unknown
<1>12. ASSUME NEW n \in 1..MSS, ReceiveDropped(n) PROVE AnswerInv' /\ Late
  <2>1. /\ UNCHANGED vars /\ UNCHANGED <<answer, answered>> /\ AckedBefore(n)
        /\ acking' = IF pbuf.at = "rcvd" /\ ~torn' THEN acking - n ELSE acking
        /\ Stream!ReceiveDropped(n)
    BY <1>12 DEF ReceiveDropped
  <2>2. /\ up /\ Running /\ ~torn
        /\ UNCHANGED <<up, taken, fault>>
        /\ Len(stream') \in Nat /\ Len(stream') <= Len(stream) /\ taken <= Len(stream')
        /\ \A i \in 1..taken : stream'[i] = stream[i]
    BY <2>1, DroppedLeaves
  <2>3. acking' \in Nat
    <3>1. rcvd \in Nat
      BY DEF Halves, SP!IInv, SP!TypeOK
    <3>2. pbuf.at = "rcvd" => rcvd + n <= acking
      BY <2>1, <2>2 DEF AckedBefore
    <3> QED BY <1>0, <2>1, <3>1, <3>2
  <2>4. \A i \in answered \cup ({answer} \ {0}) : i # Unknown /\ i <= taken /\ IsSwitch(i)
    BY <1>0, <2>2 DEF AnswerInv, ClientInv, AnswersAreEarned, Earned, Stream!Garbled
  <2>5. \A i \in answered \cup ({answer} \ {0}) : i \in 1..taken
    BY <1>0, <2>4
  <2>6. AnswersAreEarned'
    BY <1>0, <2>1, <2>2, <2>4, <2>5 DEF AnswersAreEarned, Earned, Unknown, IsSwitch
  <2>7. UNCHANGED <<pbuf, node, sig>>
    BY <2>1 DEF vars, link
  <2> QED BY <1>0, <2>1, <2>2, <2>3, <2>6, <2>7
          DEF AnswerInv, ClientInv, ClientTypeOK, Unknown, UpIsOnline, Running, Online, AnswersInOrder, Unknown
<1>4. CASE ClientConnected
  <2>1. pbuf = Empty
    BY <1>4, Buffers DEF ClientConnected, Connected
  <2>2. pbuf' = Buffered("CONNREQ", "wire") /\ Online'
    BY <1>4, <2>1 DEF ClientConnected, Connected, espconn_sent, Online
  <2>3. pbuf'.msg = "CONNREQ"
    BY <2>2 DEF Buffered
  <2>4. /\ ~up /\ stream' = <<>> /\ answer' = 0 /\ answered' = {} /\ acking' = 0
        /\ up' \/ fault' = "nomem"
    BY <1>4 DEF ClientConnected, Stream!Connect, Stream!NoBytes
  <2> QED BY <1>0, <2>2, <2>3, <2>4
          DEF AnswerInv, ClientInv, ClientTypeOK, Unknown, UpIsOnline, Running, AnswersAreEarned, AnswersInOrder
<1>5. CASE LinkEnds
  <2>1. UNCHANGED <<stream, pbuf, answer, answered, acking>> /\ ~up'
    BY <1>5 DEF LinkEnds, LinkError, PeerCloses, responses, streamVars, Stream!LinkLost
  <2>2. ~Online'
    BY <1>5 DEF LinkEnds, LinkError, PeerCloses, Online
  <2> QED BY <1>0, <2>1, <2>2
          DEF AnswerInv, ClientInv, ClientTypeOK, Unknown, UpIsOnline, AnswersAreEarned, AnswersInOrder
<1>6. CASE ClientTask
  <2>1. /\ UNCHANGED <<up, stream, taken, torn, fault, answered>>
        /\ answer' = 0 /\ acking' = 0 /\ pbuf' = Empty /\ Running
    BY <1>6 DEF ClientTask, espconn_Task, streamVars
  <2>2. ~Online /\ ~Online'
    BY <1>6 DEF ClientTask, espconn_Task, Online
  <2>3. ~up
    BY <2>1, <2>2 DEF AnswerInv, ClientInv, UpIsOnline
  <2>4. pbuf'.msg = "none"
    BY <2>1 DEF Empty
  <2> QED BY <1>0, <2>1, <2>2, <2>3, <2>4
          DEF AnswerInv, ClientInv, ClientTypeOK, Unknown, UpIsOnline, AnswersAreEarned, AnswersInOrder
<1>7. CASE ClientReboot
  <2>1. /\ stream' = <<>> /\ ~up' /\ answer' = 0 /\ answered' = {} /\ acking' = 0
        /\ pbuf' = Empty /\ ~Online'
    BY <1>7 DEF ClientReboot, Stream!Restart, Stream!NoBytes, Reboot, Online
  <2>2. pbuf'.msg = "none"
    BY <2>1 DEF Empty
  <2> QED BY <1>0, <2>1, <2>2
          DEF AnswerInv, ClientInv, ClientTypeOK, Unknown, UpIsOnline, AnswersAreEarned, AnswersInOrder
<1>8. CASE ClientPeerReceives
  <2>1. /\ UNCHANGED <<up, stream, taken, torn, fault, answer, node, sig>>
        /\ answered' = (answered \cup {answer}) \ {0} /\ acking' = Stream!Total
        /\ pbuf' = [pbuf EXCEPT !.at = "rcvd"] /\ pbuf.at = "wire"
    BY <1>8 DEF ClientPeerReceives, PeerReceives, streamVars
  <2>2. pbuf # Empty
    BY <2>1 DEF Empty
  <2>3. pbuf'.msg = pbuf.msg
    BY <2>1, <2>2, Buffers
  <2> QED BY <1>0, <2>1, <2>3
          DEF AnswerInv, ClientInv, ClientTypeOK, Unknown, UpIsOnline, Running, Online,
              AnswersAreEarned, Earned, Stream!Garbled, IsSwitch, AnswersInOrder
<1>9. CASE ClientAckArrives
  <2>1. /\ UNCHANGED <<up, stream, taken, torn, fault, answered, node, sig>>
        /\ answer' = 0 /\ acking' = 0 /\ pbuf' = Empty
    BY <1>9 DEF ClientAckArrives, AckArrives, streamVars
  <2>2. pbuf'.msg = "none"
    BY <2>1 DEF Empty
  <2> QED BY <1>0, <2>1, <2>2
          DEF AnswerInv, ClientInv, ClientTypeOK, Unknown, UpIsOnline, Running, Online,
              AnswersAreEarned, Earned, Stream!Garbled, IsSwitch, AnswersInOrder
<1>10. CASE UNCHANGED clientVars
  BY <1>0, <1>10
  DEF clientVars, vars, timers, link, streamVars, responses, AnswerInv, ClientInv, ClientTypeOK,
      UpIsOnline, Running,
      Online, AnswersAreEarned, Earned, Stream!Garbled, IsSwitch, AnswersInOrder
<1> QED BY <1>1, <1>2, <1>3, <1>4, <1>5, <1>6, <1>7, <1>8, <1>9, <1>10, <1>11, <1>12 DEF ClientNext

\* Both halves agree on whether there is a connection; a response is about a
\* switching command that was taken from it; responses keep the commands' order.
THEOREM AnswersRight == ClientSpec => []ClientInv
<1>1. Halves /\ Halves' /\ AnswerInv /\ [ClientNext]_clientVars => AnswerInv'
  BY StepAnswer
<1>2. AnswerInv => ClientInv
  BY DEF AnswerInv
<1>3. ClientSpec => []Halves
  BY LinkHolds, StreamHolds, PTL DEF Halves
<1> QED BY <1>1, <1>2, <1>3, InitAnswer, PTL DEF ClientSpec

\* A command whose response was refused is never answered by a later one.
THEOREM NeverLate == ClientSpec => NoLateAnswer
<1> DEFINE Step == up /\ up' => \A i \in 1..taken : i \notin answered /\ i # answer
                                                  => i \notin answered' /\ i # answer'
<1>1. Halves /\ Halves' /\ AnswerInv /\ [ClientNext]_clientVars => AnswerInv' /\ [Step]_clientVars
  BY StepAnswer
<1>2. ClientSpec => []Halves
  BY LinkHolds, StreamHolds, PTL DEF Halves
<1>3. ClientSpec => [][Step]_clientVars
  BY <1>1, <1>2, InitAnswer, PTL DEF ClientSpec
<1> QED BY <1>3 DEF NoLateAnswer
=============================================================================
