------------------------------ MODULE EdpCodec ------------------------------
(***************************************************************************)
(* EDP packets as bytes (EdpKit.c) and what OneNet.c does with them: the   *)
(* login, heartbeat and response packets the device builds, and the        *)
(* packets it finds in recv_buf, unpacks and obeys.  EdpStream abstracts   *)
(* a packet to the place where it ends; here its end is computed from its  *)
(* bytes, its length field of one to four digits included.                 *)
(*                                                                         *)
(* A byte is a number, a buffer the sequence of its bytes, and _read_pos   *)
(* the number of bytes read.  Every segment is handed over: what a dropped *)
(* one does to the stream does not depend on bytes and is in EdpStream.    *)
(***************************************************************************)
EXTENDS Integers, Sequences, FiniteSetsExt

CONSTANTS
  BUFFER_SIZE,   \* capacity of recv_buf
  Segments,      \* lengths a segment can have
  MaxMsgs,       \* bound: packets of the cloud that are not yet taken
  Ids, Bodies,   \* identifiers and bodies of commands
  src_dev, dst_dev   \* the device's identifier and key

Byte == 0..255
CONNREQ  == 16
CONNRESP == 32
CMDREQ   == 160
CMDRESP  == 176
PINGREQ  == 192
PINGRESP == 208
Zero == 48          \* "0"
One  == 49          \* "1"

\* Identifiers have a length field of 16 bits, and recv_buf is shorter than any
\* body that would need more.
\* A body has the shape the mini-program gives it: {"LED1":c, c its 9th byte.
\* A shorter one would make OneNet_GPIO_Control look behind the block; a command
\* without a body is refused before that.
ASSUME CodecAssumption ==
  /\ BUFFER_SIZE \in Nat /\ MaxMsgs \in Nat
  /\ Segments \subseteq Nat \ {0}
  /\ \A s \in Ids \cup Bodies \cup {src_dev, dst_dev} : s \in Seq(Byte) /\ Len(s) <= 65535
  /\ \A b \in Bodies : b = <<>> \/ Len(b) >= 9

VARIABLES
  sent,      \* packets of this connection the device has not taken yet
  wire,      \* their bytes that are not in recv_buf yet
  recv_buf,  \* the bytes received and not taken
  light,     \* GPIO 5, 2 and 4
  out        \* the last packet the device built for this link, <<>> without one

vars == <<sent, wire, recv_buf, light, out>>

Switches == {"on", "off"}
Message  == [type : {CMDREQ}, id : Ids, body : Bodies]
            \cup [type : {CONNRESP, PINGRESP}, id : {<<>>}, body : {<<>>}]
-----------------------------------------------------------------------------
(* Writing *)

WriteUint16(n) == <<(n \div 256) % 256, n % 256>>
WriteUint32(n) == WriteUint16(n \div 65536) \o WriteUint16(n % 65536)
WriteStr(s)    == WriteUint16(Len(s)) \o s

\* Of the digits to the base 128, the multiplier of the readers.
Weight == <<1, 128, 16384, 2097152, 268435456>>

\* Digits of n: at least one, at most five.
DigitCount(n) == Min({i \in 1..4 : n < Weight[i + 1]} \cup {5})

\* Low digit first; all but the last have the top bit set.
WriteRemainlen(n) ==
  [i \in 1..DigitCount(n) |-> ((n \div Weight[i]) % 128) + (IF i < DigitCount(n) THEN 128 ELSE 0)]

PROTOCOL_NAME == <<69, 68, 80>>     \* "EDP"

PacketConnect1(devid, auth_key) ==
  <<CONNREQ>>
  \o WriteRemainlen((2 + 3) + 1 + 1 + 2 + (2 + Len(devid)) + (2 + Len(auth_key)))
  \o WriteStr(PROTOCOL_NAME) \o <<1, 64>> \o WriteUint16(300)
  \o WriteStr(devid) \o WriteStr(auth_key)

PacketPing == <<PINGREQ>> \o WriteRemainlen(0)

\* Mutant: the length of the body is not counted.
PacketCmdResp_ShortLength(cmdid, resp) ==
  <<CMDRESP>> \o WriteRemainlen(Len(cmdid) + Len(resp) + 2) \o WriteStr(cmdid)
  \o (IF resp = <<>> THEN <<>> ELSE WriteUint32(Len(resp)) \o resp)

\* An empty body has no length either.
PacketCmdResp(cmdid, resp) ==
  <<CMDRESP>> \o WriteRemainlen(Len(cmdid) + Len(resp) + (IF resp = <<>> THEN 2 ELSE 6))
  \o WriteStr(cmdid)
  \o (IF resp = <<>> THEN <<>> ELSE WriteUint32(Len(resp)) \o resp)

\* What the cloud writes, as the device reads it: commands are laid out like
\* responses.
Encode(m) ==
  CASE m.type = CONNRESP -> <<CONNRESP, 2, 0, 0>>
    [] m.type = PINGRESP -> <<PINGRESP, 0>>
    [] m.type = CMDREQ   ->
         LET rest == WriteStr(m.id)
                     \o (IF m.body = <<>> THEN <<>> ELSE WriteUint32(Len(m.body)) \o m.body)
         IN <<CMDREQ>> \o WriteRemainlen(Len(rest)) \o rest
-----------------------------------------------------------------------------
(* Reading: a reader returns what it read and the new _read_pos, or Failed *)

Failed == [val |-> -1, pos |-> -1]

\* Position in b, counted from pos, of the first digit without its top bit
\* among the first four; 5 if there is none.
LastDigit(b, pos) == Min({i \in 1..4 : pos + i <= Len(b) /\ b[pos + i] < 128} \cup {5})
Value(b, pos, k)  == LET digit(i) == IF i <= k THEN (b[pos + i] % 128) * Weight[i] ELSE 0
                     IN digit(1) + digit(2) + digit(3) + digit(4)

ReadRemainlen(b, pos) ==
  LET k == LastDigit(b, pos) IN
  IF k = 5 THEN Failed ELSE [val |-> Value(b, pos, k), pos |-> pos + k]

ReadUint16(b, pos) ==
  IF pos + 2 > Len(b) THEN Failed
  ELSE [val |-> b[pos + 1] * 256 + b[pos + 2], pos |-> pos + 2]

\* The two halves are read in one go; TLC's integers end below 2^31.
ReadUint32(b, pos) ==
  IF pos + 4 > Len(b) THEN Failed
  ELSE [val |-> ReadUint16(b, pos).val * 65536 + ReadUint16(b, pos + 2).val, pos |-> pos + 4]

ReadBytes(b, pos, count) ==
  IF pos + count > Len(b) THEN Failed
  ELSE [val |-> SubSeq(b, pos + 1, pos + count), pos |-> pos + count]

\* Mutant: one byte of length is assumed.
IsPkgComplete_OneDigit(b) ==
  IF Len(b) > 1 /\ 2 + (b[2] % 128) <= Len(b) THEN 2 + (b[2] % 128) ELSE 0

\* The length of the packet at the front of b, 0 if it is not all there, -1 if
\* its length field never ends.
IsPkgComplete(b) ==
  LET k     == LastDigit(b, 1)
      total == 1 + k + Value(b, 1, k)
  IN IF k = 5 THEN (IF Len(b) >= 5 THEN -1 ELSE 0)
     ELSE IF total <= Len(b) THEN total ELSE 0

\* The packet p, whose type has been read.
UnpackCmdReq(p) ==
  LET refused == [rc |-> -1, id |-> <<>>, body |-> <<>>]
      rem     == ReadRemainlen(p, 1)
      idlen   == ReadUint16(p, rem.pos)
      id      == ReadBytes(p, idlen.pos, idlen.val)
      len     == ReadUint32(p, id.pos)
      body    == ReadBytes(p, len.pos, len.val)
  IN IF rem.pos = -1 \/ idlen.pos = -1 \/ id.pos = -1 \/ len.pos = -1 \/ body.pos = -1
     THEN refused
     ELSE [rc |-> 0, id |-> id.val, body |-> body.val]
-----------------------------------------------------------------------------
(* The machine *)

TypeOK ==
  /\ sent \in Seq(Message)
  /\ wire \in Seq(Byte)
  /\ recv_buf \in Seq(Byte)
  /\ Len(recv_buf) <= BUFFER_SIZE
  /\ light \in Switches
  /\ out \in Seq(Byte)

Init == /\ sent = <<>> /\ wire = <<>> /\ recv_buf = <<>>
        /\ light \in Switches
        /\ out = <<>>

\* Fatal exception or power loss.
Restart == /\ sent' = <<>> /\ wire' = <<>> /\ recv_buf' = <<>>
           /\ light' \in Switches
           /\ out' = <<>>

\* A new link: OneNet_Tcp_SendClien_Req.
Connect == /\ out = <<>>
           /\ sent' = <<>> /\ wire' = <<>> /\ recv_buf' = <<>>
           /\ light' = "off"
           /\ out' = PacketConnect1(src_dev, dst_dev)

\* The link ends; nobody looks at recv_buf until the next one replaces it.
LinkLost == /\ out # <<>>
            /\ sent' = <<>> /\ wire' = <<>> /\ recv_buf' = <<>>
            /\ out' = <<>>
            /\ UNCHANGED light

OneNet_Tcp_Cline_HeartBeat == /\ out # <<>>
                              /\ out' = PacketPing
                              /\ UNCHANGED <<sent, wire, recv_buf, light>>

CloudWrites(m) == /\ out # <<>>
                  /\ Len(sent) < MaxMsgs
                  /\ sent' = Append(sent, m)
                  /\ wire' = wire \o Encode(m)
                  /\ UNCHANGED <<recv_buf, light, out>>

\* recv_buf after a segment of n bytes.
Appended(n) == recv_buf \o SubSeq(wire, 1, n)

\* Mutant: the two values are swapped.
OneNet_GPIO_Control_Swapped(body) == CASE body[9] = One  -> "off"
                                       [] body[9] = Zero -> "on"
                                       [] OTHER -> "other"

\* OneNet_GPIO_Control of a command's body, which starts at cmd_req - 8.
OneNet_GPIO_Control(body) == CASE body[9] = One  -> "on"
                               [] body[9] = Zero -> "off"
                               [] OTHER -> "other"

\* Mutant: a response that follows another carries the identifier of that one.
Deal_KeepsId(p) ==
  LET cmd == UnpackCmdReq(p)
      req == IF p[1] = CMDREQ /\ cmd.rc = 0 THEN OneNet_GPIO_Control(cmd.body) ELSE "none"
      id  == IF out[1] = CMDRESP THEN UnpackCmdReq(out).id ELSE cmd.id
  IN IF req \in Switches
     THEN light' = req /\ out' = PacketCmdResp(id, <<111, 107>>)
     ELSE UNCHANGED <<light, out>>

\* OneNet_Tcp_RecvData_Analy with the packet p: a command that is understood
\* moves the light and is answered with its identifier and "ok".
Deal(p) ==
  LET cmd == UnpackCmdReq(p)
      req == IF p[1] = CMDREQ /\ cmd.rc = 0 THEN OneNet_GPIO_Control(cmd.body) ELSE "none"
  IN IF req \in Switches
     THEN light' = req /\ out' = PacketCmdResp(cmd.id, <<111, 107>>)
     ELSE UNCHANGED <<light, out>>

\* A segment: WriteBytes, GetEdpPacket, and what is done with the packet.  What
\* overflows recv_buf or leaves no packet to look at ends in an exception.
Receive(n) ==
  /\ out # <<>> /\ n <= Len(wire)
  /\ LET b    == Appended(n)
         flag == IsPkgComplete(b)
     IN IF Len(b) > BUFFER_SIZE \/ flag <= 0
        THEN Restart
        ELSE /\ Deal(SubSeq(b, 1, flag))
             /\ recv_buf' = SubSeq(b, flag + 1, Len(b))
             /\ wire' = SubSeq(wire, n + 1, Len(wire))
             /\ sent' = SubSeq(sent, 2, Len(sent))

Next == \/ \E m \in Message : CloudWrites(m)
        \/ \E n \in Segments : Receive(n)
        \/ Connect \/ LinkLost \/ OneNet_Tcp_Cline_HeartBeat \/ Restart

Spec == Init /\ [][Next]_vars
-----------------------------------------------------------------------------
(* What makes the codec correct *)

\* Whatever the cut, IsPkgComplete finds the packet the cloud wrote first, all
\* of it, and nothing before it is all there: it is never misled by a length
\* field or a packet cut in the middle, nor by what follows the packet.
FrameFound ==
  \A n \in {0} \cup Segments : n <= Len(wire) =>
    IsPkgComplete(Appended(n)) =
      IF sent # <<>> /\ Len(Encode(Head(sent))) <= Len(Appended(n))
      THEN Len(Encode(Head(sent))) ELSE 0

\* Bytes stay bytes, and frames are found.
FrameInv == TypeOK /\ FrameFound

\* What the device sends is one packet for a reader that frames the way the
\* device does: its length field says how long it is.
SendsOneFrame == out # <<>> => IsPkgComplete(out) = Len(out)

\* What a packet says.
KindOf(m) == CASE m.type = CONNRESP -> "CONNRESP"
               [] m.type = PINGRESP -> "PINGRESP"
               [] m.type = CMDREQ /\ m.body = <<>>   -> "badreq"
               [] m.type = CMDREQ /\ m.body # <<>> ->
                    IF m.body[9] = One THEN "on" ELSE IF m.body[9] = Zero THEN "off" ELSE "other"

\* A command the device takes from its buffer moves the light to what it says and
\* is answered with "ok" and its own identifier, not that of another command, in
\* the layout commands have; no other packet moves the light or is answered.
AnswersTheCommand ==
  [][out # <<>> /\ out' # <<>> /\ Len(sent') < Len(sent)
     => LET m == Head(sent) IN
        IF KindOf(m) \in Switches
        THEN /\ light' = KindOf(m)
             /\ out'[1] = CMDRESP
             /\ UnpackCmdReq(out') = [rc |-> 0, id |-> m.id, body |-> <<111, 107>>]
        ELSE UNCHANGED <<light, out>>]_vars

\* Byte by byte, the light still does what the commands say, in their order, and
\* nothing else moves it while a link lasts.
Channel == INSTANCE CommandChannel
             WITH Kind  <- {"CONNRESP", "PINGRESP", "on", "off", "other", "badreq"},
                  state <- (IF out = <<>> THEN "down" ELSE "whole"),
                  queue <- [i \in DOMAIN sent |-> KindOf(sent[i])]
ImplementsChannel == Channel!Spec
=============================================================================
