------------------------------ MODULE EdpStream ------------------------------
(***************************************************************************)
(* The receive path of the OneNET client: the cloud writes EDP packets     *)
(* into a TCP stream, lwIP hands the stream over in segments, and each     *)
(* segment runs OneNet_Tcp_Cline_ReData_cb, which appends it to recv_buf,  *)
(* takes at most one packet out of it and obeys it (OneNet.c, EdpKit.c).   *)
(*                                                                         *)
(* Bytes are stream offsets: recv_buf holds the bytes from..rcvd-1 of the  *)
(* stream, and a packet is its kind and the offsets it starts and ends at. *)
(* The heap is the number of blocks that stay allocated between handlers;  *)
(* a Buffer with its data counts as one.                                   *)
(*                                                                         *)
(* espconn_client_recv acknowledges a segment before it copies it, and     *)
(* drops it silently when the copy cannot be allocated.  Whole packets     *)
(* lost that way are taken out of the stream.  Once a part of a packet is  *)
(* lost the link is torn: the stream ends with the packets that were there *)
(* before, and what recv_buf holds behind them can be parsed as anything.  *)
(***************************************************************************)
EXTENDS Integers, Sequences, FiniteSets

CONSTANTS
  BUFFER_SIZE,  \* capacity of recv_buf
  MSS,          \* longest segment
  PktSize,      \* bytes of a packet of each kind, header included
  HeapBlocks,   \* blocks the heap can hold
  MaxPkts       \* bound: packets the cloud writes into one connection

Kind == {"CONNRESP", "PINGRESP", "on", "off", "other", "badreq"}

ASSUME StreamAssumption ==
  /\ BUFFER_SIZE \in Nat /\ MSS \in Nat /\ HeapBlocks \in Nat /\ MaxPkts \in Nat
  /\ PktSize \in [Kind -> Nat \ {0, 1}]

VARIABLES
  up,       \* the link is established
  stream,   \* packets the cloud has written into this connection
  rcvd,     \* bytes of the stream handed to the receive callback
  from,     \* stream offset of recv_buf->_data[0]
  taken,    \* index of the last packet taken out of recv_buf
  cuts,     \* how the network has cut the stream of this connection so far
  torn,     \* part of a packet was dropped: recv_buf has a hole
  dropped,  \* packets of this connection that were dropped whole
  light,    \* GPIO 5, 2 and 4
  heap,     \* live blocks: Buffers, command blocks of UnpackCmdReq, raw data
  work,     \* links and packets handled since boot
  fault     \* why the device is about to restart

recv  == <<rcvd, from, taken>>
loss  == <<torn, dropped>>
mem   == <<heap, work>>
vars  == <<up, stream, recv, cuts, loss, light, mem, fault>>
-----------------------------------------------------------------------------
Command  == {"on", "off", "other", "badreq"}  \* messages of type CMDREQ
Switches == {"on", "off"}
Packet   == [kind : Kind, start : Nat, end : Nat]
Fault    == {"none", "nullpkg", "overflow", "nomem", "badfree"}

\* "one": every segment was exactly one packet.  "whole": every segment was one
\* or more packets.  "any": segments and packets are unrelated.
CutKind  == {"one", "whole", "any"}

End(i) == IF i = 0 THEN 0 ELSE stream[i].end
Total  == End(Len(stream))

\* The packets that were there before the hole have all been taken: what is at
\* the front of recv_buf is not the start of a packet.
Garbled == torn /\ taken = Len(stream)

TypeOK ==
  /\ up \in BOOLEAN
  /\ stream \in Seq(Packet)
  /\ rcvd \in Nat
  /\ from \in Nat
  /\ taken \in 0..Len(stream)
  /\ cuts \in CutKind
  /\ torn \in BOOLEAN
  /\ dropped \in Nat
  /\ light \in Switches
  /\ heap \in Nat /\ heap <= HeapBlocks
  /\ work \in Nat
  /\ fault \in Fault

\* The pins are not set at boot: Init_led is called for the first link.
Init ==
  /\ up = FALSE
  /\ stream = <<>>
  /\ rcvd = 0 /\ from = 0 /\ taken = 0
  /\ cuts = "one" /\ torn = FALSE /\ dropped = 0
  /\ light \in Switches
  /\ heap = 0 /\ work = 0
  /\ fault = "none"

Running == fault = "none"
-----------------------------------------------------------------------------
(* The cloud and the network *)

\* On a torn link what the cloud writes is part of what can be parsed as anything.
CloudWrites(k) ==
  /\ up /\ Running /\ ~torn
  /\ Len(stream) + dropped < MaxPkts
  /\ stream' = Append(stream, [kind |-> k, start |-> Total, end |-> Total + PktSize[k]])
  /\ UNCHANGED <<up, recv, cuts, loss, light, mem, fault>>

\* A segment of n bytes that the network may deliver now, and what it makes of
\* cuts.
EndsPacket(b)   == \E i \in 1..Len(stream) : stream[i].end = b
IsPacket(a, b)  == \E i \in 1..Len(stream) : stream[i].start = a /\ stream[i].end = b
Segment(n) ==
  /\ torn \/ rcvd + n <= Total
  /\ cuts' = IF IsPacket(rcvd, rcvd + n) THEN cuts
             ELSE IF EndsPacket(rcvd + n) /\ cuts # "any" THEN "whole"
             ELSE "any"

\* The link ends.  recv_buf keeps what it holds until the next link.
LinkLost ==
  /\ up /\ Running
  /\ up' = FALSE
  /\ UNCHANGED <<stream, recv, cuts, loss, light, mem, fault>>

\* A new connection, or none.
NoBytes == /\ stream' = <<>>
           /\ rcvd' = 0 /\ from' = 0 /\ taken' = 0
           /\ cuts' = "one" /\ torn' = FALSE /\ dropped' = 0

\* Fatal exception or power loss.
Restart ==
  /\ up' = FALSE
  /\ NoBytes
  /\ light' \in Switches
  /\ heap' = 0 /\ work' = 0
  /\ fault' = "none"
-----------------------------------------------------------------------------
(* A segment the application never gets *)

\* The stream without its packets a+1..b; those behind them move up.
Without(a, b) ==
  [j \in 1..(Len(stream) - (b - a)) |->
     IF j <= a THEN stream[j]
     ELSE [kind  |-> stream[j + (b - a)].kind,
           start |-> stream[j + (b - a)].start - (End(b) - End(a)),
           end   |-> stream[j + (b - a)].end - (End(b) - End(a))]]

\* The segment is one or more packets: the parser does not notice.
DropPackets(n) ==
  /\ Segment(n)
  /\ \E a, b \in 0..Len(stream) :
       /\ End(a) = rcvd /\ End(b) = rcvd + n
       /\ stream' = Without(a, b)
       /\ dropped' = dropped + (b - a)
  /\ UNCHANGED torn

\* It begins or ends inside a packet: the bytes behind it join those before it.
DropPart(n) ==
  /\ rcvd + n <= Total
  /\ ~\E a, b \in 0..Len(stream) : End(a) = rcvd /\ End(b) = rcvd + n
  /\ \E a \in 0..Len(stream) :
       /\ \A i \in 1..Len(stream) : i <= a <=> stream[i].end <= rcvd
       /\ stream' = SubSeq(stream, 1, a)
  /\ torn' = TRUE /\ cuts' = "any"
  /\ UNCHANGED dropped

\* espconn_client_recv acknowledges the segment and os_zalloc has no room for
\* its copy: pbuf_copy_partial returns 0 and recv_callback does not run.  The
\* copy is the largest block there is; a heap with room for many small ones may
\* not have it in one piece, so it may fail at any time.
ReceiveDropped(n) ==
  /\ up /\ Running /\ ~torn
  /\ DropPackets(n) \/ DropPart(n)
  /\ UNCHANGED <<up, recv, light, mem, fault>>
-----------------------------------------------------------------------------
(* The handlers *)

\* Mutant: the link starts with the recv_buf of the one before.
Connect_KeepsBuffer ==
  /\ ~up /\ Running /\ heap + 3 <= HeapBlocks
  /\ up' = TRUE
  /\ light' = "off"
  /\ heap' = heap + 2 /\ work' = work + 1
  /\ stream' = <<>> /\ taken' = 0 /\ cuts' = "one" /\ torn' = FALSE /\ dropped' = 0
  /\ UNCHANGED <<rcvd, from, fault>>

\* Mutant: the login packet is not deleted.
Connect_KeepsLogin ==
  /\ ~up /\ Running /\ heap + 4 <= HeapBlocks
  /\ up' = TRUE
  /\ light' = "off"
  /\ heap' = heap + 4 /\ work' = work + 1
  /\ NoBytes
  /\ UNCHANGED fault

\* Mutant: the pins keep their state over a reconnect.
Connect_KeepsPins ==
  /\ ~up /\ Running /\ heap + 3 <= HeapBlocks
  /\ up' = TRUE
  /\ heap' = heap + 3 /\ work' = work + 1
  /\ NoBytes
  /\ UNCHANGED <<light, fault>>

\* OneNet_Tcp_SendClien_Req: str is advanced before os_free, which ignores the
\* pointer; the login packet is freed; OneNet_Tcp_Init_EdpPack replaces recv_buf
\* and Heart_pkg without deleting the old ones and resets the pins.
Connect ==
  /\ ~up /\ Running
  /\ IF heap + 3 > HeapBlocks
     THEN /\ fault' = "nomem"
          /\ UNCHANGED <<up, light, mem>>
     ELSE /\ up' = TRUE
          /\ light' = "off"
          /\ heap' = heap + 3 /\ work' = work + 1
          /\ UNCHANGED fault
  /\ NoBytes

\* Mutant: the completeness test is strict.
Complete_Strict(i, bytes) == stream[i].start = from /\ stream[i].end < bytes

\* Mutant: any complete packet is taken, not the one at the front.
Complete_AnyPacket(i, bytes) == stream[i].start >= from /\ stream[i].end <= bytes

\* IsPkgComplete: the packet at the front of recv_buf is all there.
Complete(i, bytes) == stream[i].start = from /\ stream[i].end <= bytes

\* Blocks a handler holds at its peak: the two copies of the segment, the packet,
\* and for a command its two fields and the response.
Peak(k) == CASE k \in Switches -> 6
             [] k \in {"other", "badreq"} -> 5
             [] OTHER -> 3

\* What OneNet_Deal_CMDREQ leaves behind: on success only cmdid is freed, since
\* cmd_req was moved past its first 8 bytes; a command OneNet_GPIO_Control does
\* not know frees neither; a malformed one leaves the field read first.
CmdLeak(k) == CASE k = "other" -> 2
                [] k \in Command \ {"other"} -> 1
                [] OTHER -> 0

\* A segment of n bytes is copied and handed to OneNet_Tcp_Cline_ReData_cb.
Handed(n) == up /\ Running /\ Segment(n) /\ heap + 1 <= HeapBlocks
Fits(n)   == rcvd + n - from <= BUFFER_SIZE

\* A packet of kind k is handled; the callback's own copy of the segment stays.
\* os_free of the moved cmd_req reads the payload as a block header: it is
\* ignored or it traps.
Deal(k) ==
  /\ heap + Peak(k) <= HeapBlocks
  /\ light' = IF k \in Switches THEN k ELSE light
  /\ heap' = heap + 1 + CmdLeak(k) /\ work' = work + 1
  /\ fault' \in IF k \in Switches THEN {"none", "badfree"} ELSE {"none"}

\* Mutant: the first segment of a link is stored and not looked at.
ReceivePacket_SkipsFirst(n) ==
  /\ Handed(n) /\ Fits(n)
  /\ rcvd' = rcvd + n
  /\ \E i \in 1..Len(stream) :
       /\ Complete(i, rcvd + n)
       /\ from' = IF rcvd = 0 THEN from ELSE stream[i].end
       /\ taken' = IF rcvd = 0 THEN taken ELSE i
  /\ UNCHANGED <<up, stream, loss, light, mem, fault>>

\* Mutant: what is behind the packet taken is dropped with it.
ReceivePacket_DropsRest(n) ==
  /\ Handed(n) /\ Fits(n)
  /\ \E i \in 1..Len(stream) :
       /\ Complete(i, rcvd + n)
       /\ Deal(stream[i].kind)
       /\ taken' = i
  /\ rcvd' = rcvd + n
  /\ from' = rcvd + n
  /\ UNCHANGED <<up, stream, loss>>

\* One segment with the packet at the front complete: GetEdpPacket takes that
\* packet and no other, however many are complete.
ReceivePacket(n) ==
  /\ Handed(n) /\ Fits(n)
  /\ \E i \in 1..Len(stream) :
       /\ Complete(i, rcvd + n)
       /\ Deal(stream[i].kind)
       /\ rcvd' = rcvd + n
       /\ from' = stream[i].end
       /\ taken' = i
  /\ UNCHANGED <<up, stream, loss>>

\* Behind the hole of a torn link: the bytes at the front of recv_buf look like a
\* packet of kind k and of some length m.  Offsets stay; what is left counts from
\* the end of the last true packet.
ReceiveGarbled(n, k) ==
  /\ Handed(n) /\ Fits(n) /\ Garbled
  /\ Deal(k)
  /\ \E m \in 2..(rcvd + n - from) : rcvd' = rcvd + n - m
  /\ UNCHANGED <<up, stream, from, taken, loss>>

\* No complete packet: GetEdpPacket returns NULL, "need more bytes..." is
\* printed, and EdpPacketType dereferences the NULL.
ReceivePartial(n) ==
  /\ Handed(n) /\ Fits(n) /\ heap + 2 <= HeapBlocks
  /\ ~\E i \in 1..Len(stream) : Complete(i, rcvd + n)
  /\ fault' = "nullpkg"
  /\ UNCHANGED <<up, stream, recv, loss, light, mem>>

\* WriteBytes does not look at the capacity of recv_buf.
ReceiveOverflow(n) ==
  /\ Handed(n) /\ ~Fits(n) /\ heap + 2 <= HeapBlocks
  /\ fault' = "overflow"
  /\ UNCHANGED <<up, stream, recv, loss, light, mem>>

\* os_zalloc returned NULL inside the callback and nobody looked; a length read
\* behind a hole can be more than any heap holds.
ReceiveNoMem(n) ==
  /\ Handed(n)
  /\ \/ heap + 2 > HeapBlocks
     \/ Fits(n) /\ Garbled
     \/ Fits(n) /\ \E i \in 1..Len(stream) : /\ Complete(i, rcvd + n)
                                             /\ heap + Peak(stream[i].kind) > HeapBlocks
  /\ fault' = "nomem"
  /\ UNCHANGED <<up, stream, recv, loss, light, mem>>

\* The callback runs on bytes that are not behind a hole, or fails.
Receive(n) == ReceivePacket(n) \/ ReceivePartial(n) \/ ReceiveOverflow(n) \/ ReceiveNoMem(n)
-----------------------------------------------------------------------------
Next == \/ \E k \in Kind : CloudWrites(k)
        \/ \E n \in 1..MSS : Receive(n) \/ ReceiveDropped(n)
        \/ \E n \in 1..MSS, k \in Kind : ReceiveGarbled(n, k)
        \/ Connect \/ LinkLost \/ Restart

Spec == Init /\ [][Next]_vars

\* TCP brings what was written while the link lasts, to the application or to
\* its grave; a link that can be made is made, and a fatal exception restarts the
\* device.
Fairness == /\ WF_vars(\E n \in 1..MSS : ~torn /\ (Receive(n) \/ ReceiveDropped(n)))
            /\ WF_vars(Connect)
            /\ WF_vars(fault # "none" /\ Restart)

FairSpec == Spec /\ Fairness
-----------------------------------------------------------------------------
(* What makes the receive path correct *)

\* Complete packets that wait in recv_buf between two callbacks.
Backlog == {i \in 1..Len(stream) : i > taken /\ stream[i].end <= rcvd}

\* recv_buf starts where the last packet taken ended: short of a hole a packet is
\* never parsed from its middle and never parsed twice, whatever was dropped.
Aligned == ~Garbled => /\ from = End(taken)
                       /\ from <= rcvd
                       /\ ~torn => rcvd <= Total

\* The light is what the last switching command taken over this link says, as long
\* as there was no hole in front of one; the link itself starts with the light off.
LightFollows ==
  up /\ ~Garbled =>
    LET seen == {i \in 1..taken : stream[i].kind \in Switches} IN
    IF seen = {} THEN light = "off"
    ELSE \E i \in seen : light = stream[i].kind /\ \A j \in seen : j <= i

\* As long as each segment is one packet nothing ever waits, and the parser
\* cannot fail, even if segments are dropped.
NeverBehind == cuts = "one" => Backlog = {} /\ ~torn /\ fault \notin {"nullpkg", "overflow"}

\* Types; and no link and no packet leaves more than three blocks behind, so that
\* a device that runs out of heap has done at least its share of work before.
HeapLasts == /\ TypeOK
             /\ heap <= 3 * work
             /\ fault = "nomem" /\ ~torn => HeapBlocks < 3 * work + 6

\* Segments of whole packets never starve the parser; but once a packet waits,
\* the device stays that far behind the cloud for as long as the link lasts.
LagStays ==
  [][up /\ up' /\ cuts' # "any" => /\ fault' # "nullpkg"
                                  /\ Cardinality(Backlog') >= Cardinality(Backlog)]_vars

\* In order, each at most once, and on a link without a hole nothing but the
\* handling of a packet moves the light.
Unhandled == IF up THEN [j \in 1..(Len(stream) - taken) |-> stream[taken + j].kind] ELSE <<>>
LinkState == IF ~up THEN "down" ELSE IF torn THEN "torn" ELSE "whole"
Channel == INSTANCE CommandChannel WITH queue <- Unhandled, state <- LinkState
ImplementsChannel == Channel!Spec

\* Every packet written is handled or dropped with its segment, as long as each
\* segment is one packet and the link lasts: none just stays where it is.
Obeyed == \A i \in 1..MaxPkts :
            (up /\ Len(stream) + dropped >= i)
              ~> (taken + dropped >= i \/ ~up \/ cuts # "one")

\* What comments in the code say and the code does not do: an incomplete packet
\* is waited for.
IncompleteIsAwaited == fault # "nullpkg"
=============================================================================
