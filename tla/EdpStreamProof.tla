--------------------------- MODULE EdpStreamProof ---------------------------
(***************************************************************************)
(* What EdpStream keeps true for every buffer size, segment length, packet *)
(* size and size of the heap.                                              *)
(***************************************************************************)
EXTENDS EdpStream, SequenceTheorems, FiniteSetTheorems, TLAPS

\* The packets lie end to end in the stream: each starts where the one before
\* it ended, and none is empty.
EndToEnd ==
  /\ \A i \in 1..Len(stream) : /\ stream[i].start = End(i - 1)
                               /\ stream[i].start < stream[i].end
  /\ \A i, j \in 1..Len(stream) : i < j => stream[i].end <= stream[j].start

\* recv_buf starts behind the last packet taken, hole or not: on a torn link the
\* offsets stay there.
Front == /\ from = End(taken)
         /\ from <= rcvd
         /\ ~torn => rcvd <= Total
         /\ torn => cuts = "any"

\* The inductive invariant.
IInv == TypeOK /\ EndToEnd /\ Front
-----------------------------------------------------------------------------
\* A function on 1..m is a sequence of length m.
LEMMA FunctionIsSeq ==
  ASSUME NEW S, NEW m \in Nat, NEW q \in [1..m -> S]
  PROVE  q \in Seq(S) /\ Len(q) = m
OBVIOUS

\* What TypeOK says of the packets one by one.
LEMMA PacketTypes ==
  ASSUME TypeOK
  PROVE  /\ Len(stream) \in Nat
         /\ \A i \in 1..Len(stream) : /\ stream[i].kind \in Kind
                                      /\ stream[i].start \in Nat
                                      /\ stream[i].end \in Nat
         /\ \A i \in 0..Len(stream) : End(i) \in Nat
         /\ Total \in Nat
<1>1. stream \in Seq(Packet)
  BY DEF TypeOK
<1>2. Len(stream) \in Nat /\ \A i \in 1..Len(stream) : stream[i] \in Packet
  BY <1>1
<1>3. \A i \in 1..Len(stream) : /\ stream[i].kind \in Kind
                                /\ stream[i].start \in Nat
                                /\ stream[i].end \in Nat
  BY <1>2 DEF Packet
<1>4. \A i \in 0..Len(stream) : End(i) \in Nat
  BY <1>2, <1>3 DEF End
<1> QED BY <1>2, <1>3, <1>4 DEF Total

\* The packet at the front of recv_buf is the one behind the last taken: no
\* other starts where that one ended.
LEMMA FrontIsNext ==
  ASSUME IInv, NEW i \in 1..Len(stream), stream[i].start = from
  PROVE  i = taken + 1
<1>1. /\ Len(stream) \in Nat /\ taken \in 0..Len(stream)
      /\ \A j \in 1..Len(stream) : stream[j].start \in Nat /\ stream[j].end \in Nat
  BY PacketTypes DEF IInv, TypeOK
<1>2. from = IF taken = 0 THEN 0 ELSE stream[taken].end
  BY DEF IInv, Front, End
<1>3. /\ \A j \in 1..Len(stream) : /\ stream[j].start = IF j = 1 THEN 0 ELSE stream[j - 1].end
                                   /\ stream[j].start < stream[j].end
      /\ \A j, k \in 1..Len(stream) : j < k => stream[j].end <= stream[k].start
  BY <1>1 DEF IInv, EndToEnd, End
<1>4. CASE i <= taken
  <2>1. taken \in 1..Len(stream) /\ from = stream[taken].end
    BY <1>1, <1>2, <1>4
  <2>2. stream[i].start < stream[i].end /\ (i < taken => stream[i].end <= stream[taken].start)
    BY <1>3, <2>1
  <2>3. stream[taken].start < stream[taken].end
    BY <1>3, <2>1
  <2> QED BY <1>1, <1>4, <2>1, <2>2, <2>3
<1>5. CASE i > taken + 1
  <2>1. taken + 1 \in 1..Len(stream)
    BY <1>1, <1>5
  <2>2. stream[taken + 1].start = from
    BY <1>1, <1>2, <1>3, <2>1
  <2>3. stream[taken + 1].end <= stream[i].start /\ stream[taken + 1].start < stream[taken + 1].end
    BY <1>3, <1>5, <2>1
  <2> QED BY <1>1, <2>1, <2>2, <2>3
<1> QED BY <1>1, <1>4, <1>5

\* Nothing the cloud writes disturbs what it wrote before.
LEMMA Written ==
  ASSUME IInv, NEW k \in Kind, CloudWrites(k)
  PROVE  /\ Len(stream') = Len(stream) + 1
         /\ \A i \in 1..Len(stream) : stream'[i] = stream[i]
         /\ stream'[Len(stream) + 1] = [kind |-> k, start |-> Total, end |-> Total + PktSize[k]]
         /\ Total \in Nat /\ stream' \in Seq(Packet)
         /\ \A i \in 0..Len(stream) : End(i)' = End(i)
         /\ Total' = Total + PktSize[k]
         /\ PktSize[k] \in Nat \ {0}
<1>1. Total \in Nat /\ Len(stream) \in Nat /\ stream \in Seq(Packet)
  BY PacketTypes DEF IInv, TypeOK
<1>2. PktSize[k] \in Nat \ {0}
  BY StreamAssumption
<1>3. [kind |-> k, start |-> Total, end |-> Total + PktSize[k]] \in Packet
  BY <1>1, <1>2 DEF Packet
<1>4. /\ Len(stream') = Len(stream) + 1
      /\ \A i \in 1..Len(stream) : stream'[i] = stream[i]
      /\ stream'[Len(stream) + 1] = [kind |-> k, start |-> Total, end |-> Total + PktSize[k]]
      /\ stream' \in Seq(Packet)
  BY <1>1, <1>3 DEF CloudWrites
<1>5. \A i \in 0..Len(stream) : End(i)' = End(i)
  BY <1>1, <1>4 DEF End
<1>6. Total' = Total + PktSize[k]
  BY <1>1, <1>4 DEF Total, End
<1> QED BY <1>1, <1>2, <1>4, <1>5, <1>6

\* Ends of packets grow along the stream.
LEMMA EndsGrow ==
  ASSUME IInv, NEW i \in 0..Len(stream), NEW j \in 0..Len(stream)
  PROVE  /\ i <= j => End(i) <= End(j)
         /\ i < j => End(i) < End(j) /\ End(i) <= stream[j].start
<1>1. /\ Len(stream) \in Nat
      /\ \A l \in 1..Len(stream) : stream[l].start \in Nat /\ stream[l].end \in Nat
  BY PacketTypes DEF IInv
<1>2. ASSUME i < j PROVE End(i) < End(j) /\ End(i) <= stream[j].start
  <2>1. j \in 1..Len(stream) /\ End(j) = stream[j].end /\ stream[j].start < stream[j].end
    BY <1>1, <1>2 DEF IInv, EndToEnd, End
  <2>2. End(i) <= stream[j].start
    <3>1. CASE i = 0
      BY <1>1, <2>1, <3>1 DEF End
    <3>2. CASE i # 0
      <4>1. i \in 1..Len(stream) /\ End(i) = stream[i].end
        BY <1>1, <3>2 DEF End
      <4> QED BY <1>2, <2>1, <4>1 DEF IInv, EndToEnd
    <3> QED BY <3>1, <3>2
  <2>3. End(i) \in Nat
    BY PacketTypes DEF IInv
  <2> QED BY <1>1, <2>1, <2>2, <2>3
<1>3. ASSUME i = j PROVE End(i) <= End(j)
  <2>1. End(i) \in Nat
    BY PacketTypes DEF IInv
  <2> QED BY <1>3, <2>1
<1>4. End(i) \in Nat /\ End(j) \in Nat /\ i \in Nat /\ j \in Nat
  BY <1>1, PacketTypes DEF IInv
<1> QED BY <1>2, <1>3, <1>4

\* A segment of whole packets that is dropped takes these packets out of the
\* stream; none of them had been taken, and those before them stay.
LEMMA DroppedPackets ==
  ASSUME IInv, NEW n \in 1..MSS, NEW a \in 0..Len(stream), NEW b \in 0..Len(stream),
         End(a) = rcvd, End(b) = rcvd + n, stream' = Without(a, b)
  PROVE  /\ a < b /\ taken <= a
         /\ stream' \in Seq(Packet)
         /\ Len(stream') = Len(stream) - (b - a)
         /\ \A j \in 1..a : stream'[j] = stream[j]
         /\ \A j \in (a + 1)..Len(stream') :
              /\ j + (b - a) \in (b + 1)..Len(stream)
              /\ stream'[j].kind = stream[j + (b - a)].kind
              /\ stream'[j].start = stream[j + (b - a)].start - n
              /\ stream'[j].end = stream[j + (b - a)].end - n
<1>1. /\ Len(stream) \in Nat /\ taken \in 0..Len(stream) /\ rcvd \in Nat /\ n \in Nat /\ n > 0
      /\ \A l \in 1..Len(stream) : /\ stream[l].kind \in Kind /\ stream[l].start \in Nat
                                   /\ stream[l].end \in Nat /\ stream[l] \in Packet
  <2>1. stream \in Seq(Packet) /\ taken \in 0..Len(stream) /\ rcvd \in Nat
    BY DEF IInv, TypeOK
  <2>2. /\ Len(stream) \in Nat
        /\ \A l \in 1..Len(stream) : /\ stream[l].kind \in Kind /\ stream[l].start \in Nat
                                     /\ stream[l].end \in Nat
    BY PacketTypes DEF IInv
  <2>3. \A l \in 1..Len(stream) : stream[l] \in Packet
    BY <2>1
  <2>4. n \in Nat /\ n > 0
    BY StreamAssumption
  <2> QED BY <2>1, <2>2, <2>3, <2>4
<1>2. a < b
  <2>1. b <= a => End(b) <= End(a)
    BY EndsGrow
  <2>2. a \in Nat /\ b \in Nat
    BY <1>1
  <2>3. ~(rcvd + n <= rcvd)
    BY <1>1
  <2> QED BY <2>1, <2>2, <2>3
<1>3. taken <= a
  <2>1. End(taken) <= End(a)
    BY DEF IInv, Front
  <2>2. a < taken => End(a) < End(taken)
    BY <1>1, EndsGrow
  <2>3. End(taken) \in Nat
    BY <1>1, PacketTypes DEF IInv
  <2> QED BY <1>1, <2>1, <2>2, <2>3
<1> DEFINE d == b - a
           m == Len(stream) - d
           new(j) == [kind |-> stream[j + d].kind, start |-> stream[j + d].start - n,
                      end |-> stream[j + d].end - n]
<1>4. d \in Nat \ {0} /\ m \in Nat /\ a <= m /\ End(b) - End(a) = n
  BY <1>1, <1>2
<1>5. stream' = [j \in 1..m |-> IF j <= a THEN stream[j] ELSE new(j)]
  BY <1>4 DEF Without
<1>6. \A j \in 1..a : j \in 1..Len(stream) /\ j \in 1..m
  BY <1>1, <1>4
<1>7. ASSUME NEW j \in (a + 1)..m
      PROVE  /\ j \in 1..m /\ j > a /\ j + d \in (b + 1)..Len(stream) /\ j + d \in 1..Len(stream)
             /\ new(j) \in Packet
  <2>1. j \in 1..m /\ j > a /\ j + d \in (b + 1)..Len(stream) /\ j + d \in 1..Len(stream)
    BY <1>1, <1>2, <1>4
  <2>2. n <= stream[j + d].start
    <3>1. j + d \in 0..Len(stream) /\ b < j + d
      BY <1>1, <2>1
    <3>2. End(b) <= stream[j + d].start
      BY <3>1, EndsGrow
    <3> QED BY <1>1, <2>1, <3>2
  <2>3. stream[j + d].start < stream[j + d].end
    BY <2>1 DEF IInv, EndToEnd
  <2>4. stream[j + d].kind \in Kind /\ stream[j + d].start \in Nat /\ stream[j + d].end \in Nat
    BY <1>1, <2>1
  <2>5. stream[j + d].start - n \in Nat /\ stream[j + d].end - n \in Nat
    <3>1. n \in Nat
      BY <1>1
    <3> QED BY <2>2, <2>3, <2>4, <3>1
  <2>6. new(j) = [kind |-> stream[j + d].kind, start |-> stream[j + d].start - n,
                  end |-> stream[j + d].end - n]
    BY DEF new
  <2> QED BY <2>1, <2>4, <2>5, <2>6, SMTT(30) DEF Packet
<1> HIDE DEF new, m, d
<1>8. \A j \in 1..m : IF j <= a THEN stream[j] \in Packet ELSE new(j) \in Packet
  <2> TAKE j \in 1..m
  <2>1. CASE j <= a
    <3>1. j \in 1..Len(stream)
      BY <1>1, <1>4, <2>1 DEF m
    <3> QED BY <1>1, <2>1, <3>1
  <2>2. CASE ~(j <= a)
    <3>1. j \in (a + 1)..m
      BY <1>1, <1>4, <2>2
    <3> QED BY <1>7, <2>2, <3>1
  <2> QED BY <2>1, <2>2
<1>9. stream' \in [1..m -> Packet]
  BY <1>5, <1>8
<1>10. stream' \in Seq(Packet) /\ Len(stream') = m
  BY <1>4, <1>9, FunctionIsSeq
<1>11. \A j \in 1..a : stream'[j] = stream[j]
  BY <1>1, <1>5, <1>6
<1>12. ASSUME NEW j \in (a + 1)..m
       PROVE  /\ j + d \in (b + 1)..Len(stream)
              /\ stream'[j].kind = stream[j + d].kind
              /\ stream'[j].start = stream[j + d].start - n
              /\ stream'[j].end = stream[j + d].end - n
  <2>1. j \in 1..m /\ ~(j <= a) /\ j + d \in (b + 1)..Len(stream)
    BY <1>1, <1>7
  <2>2. stream'[j] = new(j)
    BY <1>5, <2>1
  <2> QED BY <2>1, <2>2 DEF new
<1> QED BY <1>2, <1>3, <1>10, <1>11, <1>12 DEF d, m

\* The packets that are left lie end to end, and where there were none left
\* behind the segment the stream ends with what was received.
LEMMA DropKeepsOrder ==
  ASSUME IInv, NEW n \in 1..MSS, NEW a \in 0..Len(stream), NEW b \in 0..Len(stream),
         End(a) = rcvd, End(b) = rcvd + n, stream' = Without(a, b)
  PROVE  /\ EndToEnd'
         /\ \A i \in 0..a : End(i)' = End(i)
         /\ Total' >= rcvd
<1> DEFINE d == b - a
<1>1. /\ a < b /\ taken <= a
      /\ stream' \in Seq(Packet)
      /\ Len(stream') = Len(stream) - d
      /\ \A j \in 1..a : stream'[j] = stream[j]
      /\ \A j \in (a + 1)..Len(stream') :
           /\ j + d \in (b + 1)..Len(stream)
           /\ stream'[j].kind = stream[j + d].kind
           /\ stream'[j].start = stream[j + d].start - n
           /\ stream'[j].end = stream[j + d].end - n
  BY DroppedPackets
<1>2. /\ Len(stream) \in Nat /\ rcvd \in Nat /\ n \in Nat /\ n > 0 /\ d \in Nat \ {0}
      /\ a <= Len(stream') /\ Len(stream') \in Nat
      /\ \A l \in 1..Len(stream) : stream[l].start \in Nat /\ stream[l].end \in Nat
  <2>1. Len(stream) \in Nat /\ \A l \in 1..Len(stream) : stream[l].start \in Nat /\ stream[l].end \in Nat
    BY PacketTypes DEF IInv
  <2>2. n \in Nat /\ n > 0 /\ rcvd \in Nat
    BY StreamAssumption DEF IInv, TypeOK
  <2>3. a \in Nat /\ b \in Nat /\ a < b /\ b <= Len(stream) /\ Len(stream') = Len(stream) - (b - a)
    BY <1>1, <2>1
  <2>4. d \in Nat \ {0} /\ a <= Len(stream') /\ Len(stream') \in Nat
    BY <2>1, <2>3
  <2> QED BY <2>1, <2>2, <2>4
<1> HIDE DEF d
<1>3. \A i \in 0..a : End(i)' = End(i)
  BY <1>1, <1>2 DEF End
<1>4. ASSUME NEW i \in a..Len(stream')
      PROVE  i + d \in b..Len(stream) /\ End(i)' = End(i + d) - n
  <2>1. CASE i = a
    <3>1. a + d = b /\ End(a)' = End(a)
      BY <1>2, <1>3 DEF d
    <3> QED BY <1>2, <2>1, <3>1
  <2>2. CASE i > a
    <3>1. /\ i \in (a + 1)..Len(stream') /\ i # 0 /\ i + d # 0
          /\ i + d \in (b + 1)..Len(stream) /\ stream'[i].end = stream[i + d].end - n
      BY <1>1, <1>2, <2>2
    <3> QED BY <1>2, <3>1 DEF End
  <2> QED BY <1>2, <2>1, <2>2
<1>5. ASSUME NEW i \in 1..Len(stream')
      PROVE  stream'[i].start = End(i - 1)' /\ stream'[i].start < stream'[i].end
  <2>1. CASE i <= a
    <3>1. i \in 1..a /\ i \in 1..Len(stream) /\ i - 1 \in 0..a
      BY <1>2, <2>1
    <3>2. stream'[i] = stream[i] /\ End(i - 1)' = End(i - 1)
      BY <1>1, <1>3, <3>1
    <3> QED BY <3>1, <3>2 DEF IInv, EndToEnd
  <2>2. CASE i > a
    <3>1. i \in (a + 1)..Len(stream') /\ i - 1 \in a..Len(stream') /\ (i - 1) + d = (i + d) - 1
      BY <1>2, <2>2
    <3>2. /\ i + d \in 1..Len(stream)
          /\ stream'[i].start = stream[i + d].start - n
          /\ stream'[i].end = stream[i + d].end - n
      <4>1. i + d \in (b + 1)..Len(stream)
        BY <1>1, <3>1
      <4> QED BY <1>1, <1>2, <3>1, <4>1
    <3>3. End(i - 1)' = End((i + d) - 1) - n
      BY <1>4, <3>1
    <3>4. stream[i + d].start = End((i + d) - 1) /\ stream[i + d].start < stream[i + d].end
      BY <3>2 DEF IInv, EndToEnd
    <3> QED BY <1>2, <3>2, <3>3, <3>4, SMTT(30)
  <2> QED BY <1>2, <2>1, <2>2
<1>6. ASSUME NEW i \in 1..Len(stream'), NEW j \in 1..Len(stream'), i < j
      PROVE  stream'[i].end <= stream'[j].start
  <2>1. CASE j <= a
    <3>1. i \in 1..a /\ j \in 1..a /\ i \in 1..Len(stream) /\ j \in 1..Len(stream)
      BY <1>2, <1>6, <2>1
    <3> QED BY <1>1, <1>6, <3>1 DEF IInv, EndToEnd
  <2>2. CASE j > a
    <3>1. j \in (a + 1)..Len(stream')
      BY <1>2, <2>2
    <3>2. /\ j + d \in 1..Len(stream) /\ j + d > b /\ stream'[j].start = stream[j + d].start - n
      <4>1. j + d \in (b + 1)..Len(stream)
        BY <1>1, <3>1
      <4> QED BY <1>1, <1>2, <3>1, <4>1
    <3>3. CASE i <= a
      <4>1. i \in 1..a /\ i \in 0..Len(stream) /\ stream'[i] = stream[i] /\ stream[i].end = End(i)
            /\ i \in 1..Len(stream)
        BY <1>1, <1>2, <3>3 DEF End
      <4>2. End(i) <= End(a)
        BY <3>3, <4>1, EndsGrow
      <4>3. End(b) <= stream[j + d].start
        <5>1. j + d \in 0..Len(stream)
          BY <3>2
        <5> QED BY <3>2, <5>1, EndsGrow
      <4> QED BY <1>2, <3>2, <4>1, <4>2, <4>3, SMTT(30)
    <3>4. CASE i > a
      <4>1. i \in (a + 1)..Len(stream')
        BY <1>2, <3>4
      <4>2. i + d \in 1..Len(stream) /\ stream'[i].end = stream[i + d].end - n /\ i + d < j + d
        <5>1. i + d \in (b + 1)..Len(stream)
          BY <1>1, <4>1
        <5> QED BY <1>1, <1>2, <1>6, <4>1, <5>1
      <4>3. stream[i + d].end <= stream[j + d].start
        BY <3>2, <4>2 DEF IInv, EndToEnd
      <4> QED BY <1>2, <3>2, <4>2, <4>3, SMTT(30)
    <3> QED BY <1>2, <3>3, <3>4
  <2> QED BY <1>2, <2>1, <2>2
<1>7. Total' >= rcvd
  <2>1. PICK i \in a..Len(stream') : i = Len(stream')
    BY <1>2
  <2>2. i + d \in b..Len(stream) /\ i + d \in 0..Len(stream) /\ Total' = End(i + d) - n
    <3>1. Total' = End(i)'
      BY <2>1 DEF Total, End
    <3>2. i + d \in b..Len(stream) /\ End(i)' = End(i + d) - n
      BY <1>4
    <3> QED BY <1>2, <2>1, <3>1, <3>2
  <2>3. End(b) <= End(i + d) /\ End(i + d) \in Nat
    <3>1. b <= i + d
      BY <2>2
    <3> QED BY <2>2, <3>1, EndsGrow, PacketTypes DEF IInv
  <2> QED BY <1>2, <2>2, <2>3
<1> QED BY <1>3, <1>5, <1>6, <1>7 DEF EndToEnd

\* A part of a packet that is dropped leaves the packets that were complete.
LEMMA TornStream ==
  ASSUME IInv, NEW a \in 0..Len(stream), stream' = SubSeq(stream, 1, a),
         \A i \in 1..Len(stream) : i <= a <=> stream[i].end <= rcvd
  PROVE  /\ stream' \in Seq(Packet) /\ Len(stream') = a /\ taken <= a
         /\ \A j \in 1..a : stream'[j] = stream[j]
         /\ \A j \in 0..a : End(j)' = End(j)
         /\ EndToEnd'
<1>1. stream \in Seq(Packet) /\ Len(stream) \in Nat /\ taken \in 0..Len(stream)
  BY PacketTypes DEF IInv, TypeOK
<1>2. stream' \in Seq(Packet) /\ Len(stream') = a /\ \A j \in 1..a : stream'[j] = stream[j]
  BY <1>1
<1>3. \A j \in 0..a : End(j)' = End(j)
  BY <1>1, <1>2 DEF End
<1>4. taken <= a
  <2>1. CASE taken = 0
    BY <1>1, <2>1
  <2>2. CASE taken # 0
    <3>1. taken \in 1..Len(stream) /\ stream[taken].end <= rcvd
      BY <1>1, <2>2 DEF IInv, Front, End
    <3> QED BY <3>1
  <2> QED BY <2>1, <2>2
<1>5. EndToEnd'
  <2>1. ASSUME NEW i \in 1..Len(stream')
        PROVE  stream'[i].start = End(i - 1)' /\ stream'[i].start < stream'[i].end
    <3>1. i \in 1..a /\ i - 1 \in 0..a /\ i \in 1..Len(stream)
      BY <1>1, <1>2
    <3>2. stream'[i] = stream[i] /\ End(i - 1)' = End(i - 1)
      BY <1>2, <1>3, <3>1
    <3> QED BY <3>1, <3>2 DEF IInv, EndToEnd
  <2>2. ASSUME NEW i \in 1..Len(stream'), NEW j \in 1..Len(stream'), i < j
        PROVE  stream'[i].end <= stream'[j].start
    <3>1. i \in 1..a /\ j \in 1..a /\ i \in 1..Len(stream) /\ j \in 1..Len(stream)
      BY <1>1, <1>2
    <3> QED BY <1>2, <2>2, <3>1 DEF IInv, EndToEnd
  <2> QED BY <2>1, <2>2 DEF EndToEnd
<1> QED BY <1>2, <1>3, <1>4, <1>5
-----------------------------------------------------------------------------
LEMMA InitIInv == Init => IInv
<1> SUFFICES ASSUME Init PROVE IInv
  OBVIOUS
<1>1. stream = <<>> /\ Len(stream) = 0 /\ stream \in Seq(Packet)
  BY DEF Init
<1>2. TypeOK
  <2>1. up \in BOOLEAN /\ cuts \in CutKind /\ light \in Switches /\ fault \in Fault
        /\ torn \in BOOLEAN /\ dropped \in Nat
    BY DEF Init, Fault, CutKind
  <2>2. rcvd \in Nat /\ from \in Nat /\ taken \in 0..Len(stream)
    BY <1>1 DEF Init
  <2>3. heap \in Nat /\ heap <= HeapBlocks /\ work \in Nat
    BY StreamAssumption DEF Init
  <2> QED BY <1>1, <2>1, <2>2, <2>3 DEF TypeOK
<1>3. EndToEnd /\ Front
  BY <1>1 DEF Init, EndToEnd, Front, Total, End
<1> QED BY <1>2, <1>3 DEF IInv

\* What handling a packet does besides moving recv_buf on.
LEMMA DealTypes ==
  ASSUME TypeOK, NEW k \in Kind, Deal(k)
  PROVE  /\ light' \in Switches /\ fault' \in Fault
         /\ heap' \in Nat /\ heap' <= HeapBlocks /\ work' \in Nat
         /\ work' = work + 1 /\ heap' <= heap + 3
         /\ fault' \in {"none", "badfree"}
<1>1. /\ CmdLeak(k) \in Nat /\ 1 + CmdLeak(k) <= Peak(k) /\ 1 + CmdLeak(k) <= 3
      /\ Peak(k) \in Nat
  BY DEF CmdLeak, Peak, Command, Switches
<1>2. /\ heap' = heap + 1 + CmdLeak(k) /\ work' = work + 1 /\ heap + Peak(k) <= HeapBlocks
      /\ heap \in Nat /\ work \in Nat /\ HeapBlocks \in Nat
  BY StreamAssumption DEF Deal, TypeOK
<1>3. heap' \in Nat /\ heap' <= HeapBlocks /\ work' \in Nat /\ heap' <= heap + 3
  <2>1. ASSUME NEW l, l = CmdLeak(k), NEW pk, pk = Peak(k)
        PROVE  heap' \in Nat /\ heap' <= HeapBlocks /\ work' \in Nat /\ heap' <= heap + 3
    BY <1>1, <1>2, <2>1
  <2> QED BY <2>1
<1>4. light' \in Switches /\ fault' \in {"none", "badfree"}
  BY DEF Deal, TypeOK
<1> QED BY <1>2, <1>3, <1>4 DEF Fault

LEMMA StepIInv == IInv /\ [Next]_vars => IInv'
<1> SUFFICES ASSUME IInv, [Next]_vars PROVE IInv'
  OBVIOUS
<1> USE StreamAssumption
<1>1. ASSUME NEW k \in Kind, CloudWrites(k) PROVE IInv'
  <2> DEFINE new == [kind |-> k, start |-> Total, end |-> Total + PktSize[k]]
  <2>a. /\ Len(stream') = Len(stream) + 1
        /\ \A i \in 1..Len(stream) : stream'[i] = stream[i]
        /\ stream'[Len(stream) + 1] = new
        /\ \A i \in 0..Len(stream) : End(i)' = End(i)
    BY <1>1, Written
  <2>b. Total \in Nat /\ PktSize[k] \in Nat \ {0} /\ new.start = Total /\ new.end = Total + PktSize[k]
    BY <1>1, Written
  <2> HIDE DEF new
  <2>1. Len(stream) \in Nat /\ taken \in 0..Len(stream)
    BY PacketTypes DEF IInv, TypeOK
  <2>2. TypeOK'
    BY <1>1, <2>1, Written DEF IInv, TypeOK, CloudWrites, recv, loss, mem
  <2>3. EndToEnd'
    <3>1. ASSUME NEW i \in 1..Len(stream')
          PROVE  stream'[i].start = End(i - 1)' /\ stream'[i].start < stream'[i].end
      <4>1. CASE i = Len(stream) + 1
        BY <2>a, <2>b, <2>1, <4>1 DEF Total
      <4>2. CASE i \in 1..Len(stream)
        <5>1. stream'[i] = stream[i] /\ End(i - 1)' = End(i - 1)
          BY <2>a, <2>1, <4>2
        <5> QED BY <4>2, <5>1 DEF IInv, EndToEnd
      <4> QED BY <2>a, <2>1, <4>1, <4>2
    <3>2. ASSUME NEW i \in 1..Len(stream'), NEW j \in 1..Len(stream'), i < j
          PROVE  stream'[i].end <= stream'[j].start
      <4>1. i \in 1..Len(stream) /\ stream'[i] = stream[i]
        BY <2>a, <2>1, <3>2
      <4>2. CASE j = Len(stream) + 1
        <5>1. stream'[j].start = stream[Len(stream)].end
          BY <2>a, <2>b, <2>1, <4>1, <4>2 DEF Total, End
        <5>2. i < Len(stream) => stream[i].end <= stream[Len(stream)].start
          BY <2>1, <4>1 DEF IInv, EndToEnd
        <5>3. stream[Len(stream)].start < stream[Len(stream)].end
          BY <2>1, <4>1 DEF IInv, EndToEnd
        <5>4. \A l \in 1..Len(stream) : stream[l].start \in Nat /\ stream[l].end \in Nat
          BY PacketTypes DEF IInv
        <5> QED BY <2>1, <4>1, <5>1, <5>2, <5>3, <5>4
      <4>3. CASE j \in 1..Len(stream)
        <5>1. stream'[j] = stream[j]
          BY <2>a, <4>3
        <5> QED BY <3>2, <4>1, <4>3, <5>1 DEF IInv, EndToEnd
      <4> QED BY <2>a, <2>1, <4>2, <4>3
    <3> QED BY <3>1, <3>2 DEF EndToEnd
  <2>4. Front'
    BY <1>1, Written DEF IInv, TypeOK, Front, CloudWrites, recv, loss
  <2> QED BY <2>2, <2>3, <2>4 DEF IInv
<1>2. ASSUME NEW n \in 1..MSS, ReceivePacket(n) PROVE IInv'
  <2>1. PICK i \in 1..Len(stream) :
          /\ Complete(i, rcvd + n)
          /\ Deal(stream[i].kind)
          /\ rcvd' = rcvd + n
          /\ from' = stream[i].end
          /\ taken' = i
    BY <1>2 DEF ReceivePacket
  <2>2. /\ UNCHANGED <<up, stream, torn, dropped>> /\ cuts' \in CutKind
        /\ (torn \/ rcvd + n <= Total) /\ (cuts = "any" => cuts' = "any")
    BY <1>2 DEF ReceivePacket, Handed, Segment, IInv, TypeOK, CutKind, loss
  <2>3. /\ Len(stream) \in Nat /\ stream[i].kind \in Kind /\ stream[i].end \in Nat
        /\ n \in Nat /\ rcvd \in Nat
    BY PacketTypes DEF IInv, TypeOK
  <2>4. /\ light' \in Switches /\ fault' \in Fault
        /\ heap' \in Nat /\ heap' <= HeapBlocks /\ work' \in Nat
    BY <2>1, <2>3, DealTypes DEF IInv
  <2>5. rcvd' \in Nat /\ from' \in Nat /\ taken' \in 0..Len(stream')
    BY <2>1, <2>2, <2>3
  <2>6. TypeOK'
    BY <2>2, <2>4, <2>5 DEF IInv, TypeOK
  <2>7. EndToEnd'
    BY <2>2 DEF IInv, EndToEnd, End
  <2>8. Front'
    BY <2>1, <2>2, <2>3 DEF IInv, Front, Complete, End, Total
  <2> QED BY <2>6, <2>7, <2>8 DEF IInv
<1>3. ASSUME NEW n \in 1..MSS, ReceivePartial(n) \/ ReceiveOverflow(n) \/ ReceiveNoMem(n)
      PROVE IInv'
  <2>1. /\ UNCHANGED <<up, stream, recv, loss, light, mem>> /\ cuts' \in CutKind /\ fault' \in Fault
        /\ (cuts = "any" => cuts' = "any")
    BY <1>3 DEF ReceivePartial, ReceiveOverflow, ReceiveNoMem, Handed, Segment, Fault, IInv, TypeOK, CutKind
  <2> QED BY <2>1 DEF IInv, TypeOK, EndToEnd, Front, End, Total, recv, loss, mem
<1>4. CASE Connect
  <2>1. /\ stream' = <<>> /\ Len(stream') = 0 /\ stream' \in Seq(Packet)
        /\ rcvd' = 0 /\ from' = 0 /\ taken' = 0 /\ cuts' = "one" /\ torn' = FALSE /\ dropped' = 0
    BY <1>4 DEF Connect, NoBytes
  <2>2. /\ heap' \in Nat /\ heap' <= HeapBlocks /\ work' \in Nat
        /\ up' \in BOOLEAN /\ light' \in Switches /\ fault' \in Fault
    <3>1. CASE heap + 3 > HeapBlocks
      BY <1>4, <3>1 DEF Connect, IInv, TypeOK, mem, Fault
    <3>2. CASE ~(heap + 3 > HeapBlocks)
      BY <1>4, <3>2 DEF Connect, IInv, TypeOK, Switches
    <3> QED BY <3>1, <3>2
  <2>3. TypeOK'
    <3>1. rcvd' \in Nat /\ from' \in Nat /\ taken' \in 0..Len(stream') /\ dropped' \in Nat
      BY <2>1
    <3>2. cuts' \in CutKind /\ torn' \in BOOLEAN
      BY <2>1 DEF CutKind
    <3> QED BY <2>1, <2>2, <3>1, <3>2 DEF TypeOK
  <2>4. EndToEnd' /\ Front'
    BY <2>1 DEF EndToEnd, Front, End, Total
  <2> QED BY <2>3, <2>4 DEF IInv
<1>5. CASE LinkLost
  BY <1>5 DEF LinkLost, IInv, TypeOK, EndToEnd, Front, End, Total, recv, loss, mem
<1>6. CASE Restart
  <2>1. /\ stream' = <<>> /\ Len(stream') = 0 /\ stream' \in Seq(Packet)
        /\ rcvd' = 0 /\ from' = 0 /\ taken' = 0 /\ cuts' = "one" /\ torn' = FALSE /\ dropped' = 0
    BY <1>6 DEF Restart, NoBytes
  <2>2. TypeOK'
    <3>1. up' \in BOOLEAN /\ light' \in Switches /\ fault' \in Fault
      BY <1>6 DEF Restart, Fault
    <3>2. heap' \in Nat /\ heap' <= HeapBlocks /\ work' \in Nat
      BY <1>6 DEF Restart
    <3>3. rcvd' \in Nat /\ from' \in Nat /\ taken' \in 0..Len(stream') /\ dropped' \in Nat
      BY <2>1
    <3>4. cuts' \in CutKind /\ torn' \in BOOLEAN
      BY <2>1 DEF CutKind
    <3> QED BY <2>1, <3>1, <3>2, <3>3, <3>4 DEF TypeOK
  <2>3. EndToEnd' /\ Front'
    BY <2>1 DEF EndToEnd, Front, End, Total
  <2> QED BY <2>2, <2>3 DEF IInv
<1>7. CASE UNCHANGED vars
  BY <1>7 DEF vars, recv, loss, mem, IInv, TypeOK, EndToEnd, Front, End, Total
<1>8. ASSUME NEW n \in 1..MSS, ReceiveDropped(n) PROVE IInv'
  <2>0. /\ UNCHANGED <<up, recv, light, mem, fault>> /\ ~torn
        /\ Len(stream) \in Nat /\ taken \in 0..Len(stream) /\ dropped \in Nat
    BY <1>8, PacketTypes DEF ReceiveDropped, IInv, TypeOK
  <2>1. CASE DropPackets(n)
    <3>1. PICK a \in 0..Len(stream), b \in 0..Len(stream) :
            /\ End(a) = rcvd /\ End(b) = rcvd + n
            /\ stream' = Without(a, b)
            /\ dropped' = dropped + (b - a)
      BY <2>1 DEF DropPackets
    <3>2. torn' = torn /\ cuts' \in CutKind
      BY <2>1 DEF DropPackets, Segment, IInv, TypeOK, CutKind
    <3>3. /\ a < b /\ taken <= a /\ stream' \in Seq(Packet)
          /\ Len(stream') = Len(stream) - (b - a)
      BY <3>1, DroppedPackets
    <3>4. EndToEnd' /\ Total' >= rcvd /\ \A i \in 0..a : End(i)' = End(i)
      BY <3>1, DropKeepsOrder
    <3>5. dropped' \in Nat /\ taken' \in 0..Len(stream')
      BY <2>0, <3>1, <3>3 DEF recv
    <3>6. TypeOK'
      BY <2>0, <3>2, <3>3, <3>5 DEF IInv, TypeOK, recv, mem
    <3>7. End(taken)' = End(taken) /\ taken' = taken
      <4>1. taken \in 0..a /\ taken' = taken
        BY <2>0, <3>3 DEF recv
      <4> QED BY <3>4, <4>1 DEF End
    <3>8. Front'
      <4>1. from' = End(taken)' /\ from' <= rcvd'
        BY <2>0, <3>7 DEF IInv, Front, recv
      <4>2. rcvd' <= Total'
        <5>1. Total' \in Nat
          <6>1. Len(stream') \in Nat /\ \A i \in 1..Len(stream') : stream'[i] \in Packet
            BY <3>3
          <6>2. \A i \in 1..Len(stream') : stream'[i].end \in Nat
            BY <6>1 DEF Packet
          <6> QED BY <6>1, <6>2 DEF Total, End
        <5> QED BY <2>0, <3>4, <5>1 DEF recv, IInv, TypeOK
      <4> QED BY <2>0, <3>2, <4>1, <4>2 DEF Front
    <3> QED BY <3>4, <3>6, <3>8 DEF IInv
  <2>2. CASE DropPart(n)
    <3>1. PICK a \in 0..Len(stream) :
            /\ \A i \in 1..Len(stream) : i <= a <=> stream[i].end <= rcvd
            /\ stream' = SubSeq(stream, 1, a)
      BY <2>2 DEF DropPart
    <3>2. /\ stream' \in Seq(Packet) /\ Len(stream') = a /\ taken <= a
          /\ \A j \in 0..a : End(j)' = End(j)
          /\ EndToEnd'
      BY <3>1, TornStream
    <3>3. torn' = TRUE /\ cuts' = "any" /\ dropped' = dropped
      BY <2>2 DEF DropPart
    <3>4. TypeOK'
      BY <2>0, <3>2, <3>3 DEF IInv, TypeOK, recv, mem, CutKind
    <3>5. Front'
      <4>1. taken \in 0..a /\ taken' = taken
        BY <2>0, <3>2 DEF recv
      <4>2. End(taken)' = End(taken)
        BY <3>2, <4>1 DEF End
      <4> QED BY <2>0, <3>3, <4>1, <4>2 DEF IInv, Front, recv
    <3> QED BY <3>2, <3>4, <3>5 DEF IInv
  <2> QED BY <1>8, <2>1, <2>2 DEF ReceiveDropped
<1>9. ASSUME NEW n \in 1..MSS, NEW k \in Kind, ReceiveGarbled(n, k) PROVE IInv'
  <2>1. PICK m \in 2..(rcvd + n - from) : rcvd' = rcvd + n - m
    BY <1>9 DEF ReceiveGarbled
  <2>2. /\ UNCHANGED <<up, stream, from, taken, torn, dropped>> /\ cuts' = "any"
        /\ torn /\ Deal(k)
    <3>1. torn /\ cuts = "any"
      BY <1>9 DEF ReceiveGarbled, Garbled, IInv, Front
    <3> QED BY <1>9, <3>1 DEF ReceiveGarbled, Handed, Segment, loss
  <2>3. /\ light' \in Switches /\ fault' \in Fault
        /\ heap' \in Nat /\ heap' <= HeapBlocks /\ work' \in Nat
    BY <2>2, DealTypes DEF IInv
  <2>4. rcvd' \in Nat /\ from <= rcvd'
    BY <2>1 DEF IInv, TypeOK, Front
  <2>5. TypeOK'
    BY <2>2, <2>3, <2>4 DEF IInv, TypeOK, CutKind
  <2>6. EndToEnd' /\ Front'
    BY <2>2, <2>4 DEF IInv, EndToEnd, Front, End, Total
  <2> QED BY <2>5, <2>6 DEF IInv
<1> QED BY <1>1, <1>2, <1>3, <1>4, <1>5, <1>6, <1>7, <1>8, <1>9 DEF Next, Receive

\* The receive path keeps its variables in their types, and recv_buf begins where
\* the last packet taken ended.
THEOREM StreamInvariant == Spec => []IInv
BY InitIInv, StepIInv, PTL DEF Spec

\* Short of a hole a packet is never parsed from its middle and never parsed
\* twice, whatever segments are cut and dropped.
THEOREM NeverMisaligned == Spec => []Aligned
<1>1. IInv => Aligned
  BY DEF IInv, Front, Aligned
<1> QED BY <1>1, StreamInvariant, PTL
-----------------------------------------------------------------------------
(* The heap *)

LEMMA StepHeap == IInv /\ HeapLasts /\ [Next]_vars => HeapLasts'
<1> SUFFICES ASSUME IInv, HeapLasts, [Next]_vars PROVE HeapLasts'
  OBVIOUS
<1> USE StreamAssumption
<1>0. TypeOK' /\ heap \in Nat /\ work \in Nat /\ heap <= 3 * work
  BY StepIInv DEF IInv, TypeOK, HeapLasts
<1>1. ASSUME UNCHANGED <<mem, fault, torn>> PROVE HeapLasts'
  BY <1>0, <1>1 DEF HeapLasts, mem
<1>2. ASSUME NEW k \in Kind, Deal(k) PROVE HeapLasts'
  <2>1. heap' \in Nat /\ work' = work + 1 /\ heap' <= heap + 3 /\ fault' # "nomem"
    BY <1>2, DealTypes DEF IInv
  <2> QED BY <1>0, <2>1 DEF HeapLasts
<1>3. ASSUME NEW n \in 1..MSS, Receive(n) PROVE HeapLasts'
  <2>1. CASE ReceivePacket(n)
    <3>1. PICK i \in 1..Len(stream) : Deal(stream[i].kind)
      BY <2>1 DEF ReceivePacket
    <3>2. stream[i].kind \in Kind
      BY PacketTypes DEF IInv
    <3> QED BY <1>2, <3>1, <3>2
  <2>2. CASE ReceivePartial(n) \/ ReceiveOverflow(n)
    <3>1. UNCHANGED mem /\ fault' # "nomem"
      BY <2>2 DEF ReceivePartial, ReceiveOverflow
    <3> QED BY <1>0, <3>1 DEF HeapLasts, mem
  <2>3. CASE ReceiveNoMem(n)
    <3>1. UNCHANGED <<torn, heap, work>>
      BY <2>3 DEF ReceiveNoMem, loss, mem
    <3>2. ~torn => heap + 6 > HeapBlocks
      <4>1. \A i \in 1..Len(stream) : Peak(stream[i].kind) \in Nat /\ Peak(stream[i].kind) <= 6
        BY PacketTypes DEF IInv, Peak
      <4>2. CASE heap + 2 > HeapBlocks
        BY <1>0, <4>2
      <4>3. CASE \E i \in 1..Len(stream) : heap + Peak(stream[i].kind) > HeapBlocks
        BY <1>0, <4>1, <4>3
      <4> QED BY <2>3, <4>2, <4>3 DEF ReceiveNoMem, Garbled
    <3> QED BY <1>0, <3>1, <3>2 DEF HeapLasts
  <2> QED BY <1>3, <2>1, <2>2, <2>3 DEF Receive
<1>4. CASE Connect
  <2>1. CASE heap + 3 > HeapBlocks
    BY <1>0, <1>4, <2>1 DEF Connect, HeapLasts, mem
  <2>2. CASE ~(heap + 3 > HeapBlocks)
    BY <1>0, <1>4, <2>2 DEF Connect, HeapLasts, Running
  <2> QED BY <2>1, <2>2
<1>5. CASE Restart
  BY <1>0, <1>5 DEF Restart, HeapLasts
<1>6. ASSUME NEW n \in 1..MSS, ReceiveDropped(n) PROVE HeapLasts'
  <2>1. UNCHANGED mem /\ fault' = "none"
    BY <1>6 DEF ReceiveDropped, Running
  <2> QED BY <1>0, <2>1 DEF HeapLasts, mem
<1>7. ASSUME NEW n \in 1..MSS, NEW k \in Kind, ReceiveGarbled(n, k) PROVE HeapLasts'
  BY <1>2, <1>7 DEF ReceiveGarbled
<1> QED BY <1>1, <1>3, <1>4, <1>5, <1>6, <1>7 DEF Next, CloudWrites, LinkLost, loss, vars

\* Types; and for every heap: no link and no packet costs more than three blocks,
\* and a device whose heap gives out has done that share of work since it booted.
THEOREM HeapSuffices == Spec => []HeapLasts
<1>1. IInv /\ Init => HeapLasts
  BY StreamAssumption DEF IInv, Init, HeapLasts
<1> QED BY <1>1, InitIInv, StreamInvariant, StepHeap, PTL DEF Spec
-----------------------------------------------------------------------------
(* The light *)

LEMMA StepLight == IInv /\ LightFollows /\ [Next]_vars => LightFollows'
<1> SUFFICES ASSUME IInv, LightFollows, [Next]_vars, up', ~Garbled' PROVE LightFollows'
  BY DEF LightFollows
<1>0. Len(stream) \in Nat /\ taken \in 0..Len(stream)
  BY PacketTypes DEF IInv, TypeOK
<1>a. ASSUME up, ~Garbled, UNCHANGED <<taken, light>>, \A i \in 1..taken : stream'[i] = stream[i]
      PROVE  LightFollows'
  <2>1. {i \in 1..taken' : stream'[i].kind \in Switches} = {i \in 1..taken : stream[i].kind \in Switches}
    BY <1>a
  <2> QED BY <1>a, <2>1 DEF LightFollows
<1>1. ASSUME NEW k \in Kind, CloudWrites(k) PROVE LightFollows'
  <2>1. \A i \in 1..taken : stream'[i] = stream[i]
    <3>1. \A i \in 1..Len(stream) : stream'[i] = stream[i]
      BY <1>1, Written
    <3> QED BY <1>0, <3>1
  <2>2. up /\ ~Garbled /\ UNCHANGED <<taken, light>>
    BY <1>1 DEF CloudWrites, recv, Garbled
  <2> QED BY <1>a, <2>1, <2>2
<1>2. ASSUME NEW n \in 1..MSS, ReceivePacket(n) PROVE LightFollows'
  <2>1. PICK i \in 1..Len(stream) :
          /\ stream[i].start = from
          /\ taken' = i
          /\ light' = IF stream[i].kind \in Switches THEN stream[i].kind ELSE light
    BY <1>2 DEF ReceivePacket, Complete, Deal
  <2>2. up /\ UNCHANGED stream
    BY <1>2 DEF ReceivePacket, Handed
  <2>3. i = taken + 1
    BY <2>1, FrontIsNext
  <2>f. ~Garbled
    BY <1>0, <2>3 DEF Garbled
  <2> DEFINE seen == {j \in 1..taken : stream[j].kind \in Switches}
  <2>4. CASE stream[i].kind \in Switches
    <3>1. light' = stream[i].kind /\ i \in {j \in 1..taken' : stream'[j].kind \in Switches}
      BY <1>0, <2>1, <2>2, <2>3, <2>4
    <3>2. \A j \in {l \in 1..taken' : stream'[l].kind \in Switches} : j <= i
      BY <1>0, <2>1, <2>3
    <3>3. light' = stream'[i].kind
      BY <2>2, <3>1
    <3> QED BY <3>1, <3>2, <3>3, Zenon DEF LightFollows
  <2>5. CASE stream[i].kind \notin Switches
    <3>1. {j \in 1..taken' : stream'[j].kind \in Switches} = seen
      BY <1>0, <2>1, <2>2, <2>3, <2>5
    <3>2. UNCHANGED light
      BY <2>1, <2>5
    <3> QED BY <2>2, <2>f, <3>1, <3>2 DEF LightFollows
  <2> QED BY <2>4, <2>5
<1>3. ASSUME NEW n \in 1..MSS, ReceivePartial(n) \/ ReceiveOverflow(n) \/ ReceiveNoMem(n)
      PROVE LightFollows'
  BY <1>3 DEF ReceivePartial, ReceiveOverflow, ReceiveNoMem, recv, loss, LightFollows, Garbled
<1>4. CASE Connect
  <2>1. CASE heap + 3 > HeapBlocks
    BY <1>4, <2>1 DEF Connect
  <2>2. CASE ~(heap + 3 > HeapBlocks)
    <3>1. light' = "off" /\ taken' = 0
      BY <1>4, <2>2 DEF Connect, NoBytes
    <3>2. {i \in 1..taken' : stream'[i].kind \in Switches} = {}
      BY <3>1
    <3> QED BY <3>1, <3>2 DEF LightFollows
  <2> QED BY <2>1, <2>2
<1>5. CASE LinkLost \/ Restart
  BY <1>5 DEF LinkLost, Restart
<1>6. CASE UNCHANGED vars
  BY <1>6 DEF vars, recv, loss, LightFollows, Garbled
<1>7. ASSUME NEW n \in 1..MSS, ReceiveDropped(n) PROVE LightFollows'
  <2>1. up /\ ~Garbled /\ UNCHANGED <<taken, light>>
    BY <1>7 DEF ReceiveDropped, recv, Garbled
  <2>2. \A i \in 1..taken : stream'[i] = stream[i]
    <3>1. CASE DropPackets(n)
      <4>1. PICK a \in 0..Len(stream) : taken <= a /\ \A j \in 1..a : stream'[j] = stream[j]
        BY <3>1, DroppedPackets DEF DropPackets
      <4> QED BY <1>0, <4>1
    <3>2. CASE DropPart(n)
      <4>1. PICK a \in 0..Len(stream) : taken <= a /\ \A j \in 1..a : stream'[j] = stream[j]
        BY <3>2, TornStream DEF DropPart
      <4> QED BY <1>0, <4>1
    <3> QED BY <1>7, <3>1, <3>2 DEF ReceiveDropped
  <2> QED BY <1>a, <2>1, <2>2
<1>8. ASSUME NEW n \in 1..MSS, NEW k \in Kind, ReceiveGarbled(n, k) PROVE LightFollows'
  BY <1>8 DEF ReceiveGarbled, loss, Garbled
<1> QED BY <1>1, <1>2, <1>3, <1>4, <1>5, <1>6, <1>7, <1>8 DEF Next, Receive

\* The light is what the last switching command taken says, as long as there was
\* no hole in front of one.
THEOREM LightObeys == Spec => []LightFollows
<1>1. Init => LightFollows
  BY DEF Init, LightFollows
<1> QED BY <1>1, StreamInvariant, StepLight, PTL DEF Spec
-----------------------------------------------------------------------------
(* One packet per segment *)

\* NeverBehind rests on this: recv_buf is empty between two segments.
Prompt == cuts = "one" => rcvd = from /\ fault \notin {"nullpkg", "overflow"}

\* Packets have the size of their kind.
Sized == \A i \in 1..Len(stream) : stream[i].end = stream[i].start + PktSize[stream[i].kind]

LEMMA StepSized == IInv /\ Sized /\ [Next]_vars => Sized'
<1> SUFFICES ASSUME IInv, Sized, [Next]_vars PROVE Sized'
  OBVIOUS
<1>1. ASSUME NEW k \in Kind, CloudWrites(k) PROVE Sized'
  <2>1. /\ Len(stream') = Len(stream) + 1
        /\ \A i \in 1..Len(stream) : stream'[i] = stream[i]
        /\ stream'[Len(stream) + 1] = [kind |-> k, start |-> Total, end |-> Total + PktSize[k]]
    BY <1>1, Written
  <2>2. Len(stream) \in Nat
    BY PacketTypes DEF IInv
  <2> QED BY <2>1, <2>2 DEF Sized
<1>2. CASE Connect \/ Restart
  <2>1. Len(stream') = 0
    BY <1>2 DEF Connect, Restart, NoBytes
  <2> QED BY <2>1 DEF Sized
<1>3. ASSUME UNCHANGED stream PROVE Sized'
  BY <1>3 DEF Sized
<1>4. ASSUME NEW n \in 1..MSS, ReceiveDropped(n) PROVE Sized'
  <2>0. /\ Len(stream) \in Nat
        /\ \A i \in 1..Len(stream) : /\ stream[i].start \in Nat /\ stream[i].end \in Nat
                                     /\ stream[i].kind \in Kind
        /\ \A k \in Kind : PktSize[k] \in Nat
        /\ n \in Nat
    BY PacketTypes, StreamAssumption DEF IInv
  <2>1. CASE DropPackets(n)
    <3>1. PICK a \in 0..Len(stream), b \in 0..Len(stream) :
            /\ a < b /\ Len(stream') = Len(stream) - (b - a)
            /\ \A j \in 1..a : stream'[j] = stream[j]
            /\ \A j \in (a + 1)..Len(stream') :
                 /\ j + (b - a) \in (b + 1)..Len(stream)
                 /\ stream'[j].kind = stream[j + (b - a)].kind
                 /\ stream'[j].start = stream[j + (b - a)].start - n
                 /\ stream'[j].end = stream[j + (b - a)].end - n
      BY <2>1, DroppedPackets DEF DropPackets
    <3> SUFFICES ASSUME NEW j \in 1..Len(stream')
                 PROVE  stream'[j].end = stream'[j].start + PktSize[stream'[j].kind]
      BY DEF Sized
    <3>2. CASE j <= a
      <4>1. j \in 1..a /\ j \in 1..Len(stream)
        BY <2>0, <3>2
      <4> QED BY <3>1, <4>1 DEF Sized
    <3>3. CASE j > a
      <4>1. j \in (a + 1)..Len(stream')
        BY <2>0, <3>1, <3>3
      <4> DEFINE l == j + (b - a)
      <4>2. l \in 1..Len(stream)
        <5>1. l \in (b + 1)..Len(stream)
          BY <3>1, <4>1
        <5> QED BY <2>0, <5>1
      <4>3. /\ stream'[j].kind = stream[l].kind /\ stream'[j].start = stream[l].start - n
            /\ stream'[j].end = stream[l].end - n
        BY <3>1, <4>1
      <4> HIDE DEF l
      <4>4. stream[l].end = stream[l].start + PktSize[stream[l].kind]
        BY <4>2 DEF Sized
      <4> QED BY <2>0, <4>2, <4>3, <4>4
    <3> QED BY <2>0, <3>1, <3>2, <3>3
  <2>2. CASE DropPart(n)
    <3>1. PICK a \in 0..Len(stream) : /\ Len(stream') = a
                                      /\ \A j \in 1..a : stream'[j] = stream[j]
      BY <2>2, TornStream DEF DropPart
    <3> QED BY <2>0, <3>1 DEF Sized
  <2> QED BY <1>4, <2>1, <2>2 DEF ReceiveDropped
<1> QED BY <1>1, <1>2, <1>3, <1>4 DEF Next, Receive, ReceivePacket, ReceivePartial,
           ReceiveOverflow, ReceiveNoMem, ReceiveGarbled, LinkLost, vars

\* If this segment and all before it were one packet each, so was this one.
LEMMA SegmentIsPacket ==
  ASSUME NEW n, Segment(n), cuts' = "one"
  PROVE  cuts = "one" /\ \E i \in 1..Len(stream) : stream[i].start = rcvd /\ stream[i].end = rcvd + n
<1>1. CASE IsPacket(rcvd, rcvd + n)
  BY <1>1 DEF IsPacket, Segment
<1>2. CASE ~IsPacket(rcvd, rcvd + n)
  <2>1. cuts' = "whole" \/ cuts' = "any"
    BY <1>2, Zenon DEF Segment
  <2> QED BY <2>1
<1> QED BY <1>1, <1>2

LEMMA StepPrompt ==
  ASSUME \A k \in Kind : PktSize[k] <= BUFFER_SIZE
  PROVE  IInv /\ Sized /\ Prompt /\ [Next]_vars => Prompt'
<1> SUFFICES ASSUME IInv, Sized, Prompt, [Next]_vars, cuts' = "one"
             PROVE  rcvd' = from' /\ fault' \notin {"nullpkg", "overflow"}
  BY DEF Prompt
<1>0. /\ rcvd \in Nat /\ BUFFER_SIZE \in Nat
      /\ \A i \in 1..Len(stream) : stream[i].kind \in Kind /\ stream[i].end \in Nat
      /\ \A k \in Kind : PktSize[k] \in Nat
  BY PacketTypes, StreamAssumption DEF IInv, TypeOK
<1>1. ASSUME NEW n \in 1..MSS, Receive(n)
      PROVE  rcvd' = from' /\ fault' \notin {"nullpkg", "overflow"}
  <2>1. Segment(n)
    BY <1>1 DEF Receive, ReceivePacket, ReceivePartial, ReceiveOverflow, ReceiveNoMem, Handed
  <2>2. cuts = "one" /\ \E i \in 1..Len(stream) : stream[i].start = rcvd /\ stream[i].end = rcvd + n
    BY <2>1, SegmentIsPacket
  <2>3. rcvd = from
    BY <2>2 DEF Prompt
  <2>4. PICK i \in 1..Len(stream) : stream[i].start = from /\ stream[i].end = rcvd + n
    BY <2>2, <2>3
  <2>5. Complete(i, rcvd + n)
    BY <1>0, <2>4 DEF Complete
  <2>6. rcvd + n = from + PktSize[stream[i].kind]
    BY <2>4 DEF Sized
  <2>7. CASE ReceivePacket(n)
    <3>1. PICK j \in 1..Len(stream) :
            /\ stream[j].start = from
            /\ rcvd' = rcvd + n
            /\ from' = stream[j].end
            /\ fault' \in IF stream[j].kind \in Switches THEN {"none", "badfree"} ELSE {"none"}
      BY <2>7 DEF ReceivePacket, Complete, Deal
    <3>2. i = j
      BY <2>4, <3>1, FrontIsNext
    <3> QED BY <2>4, <3>1, <3>2
  <2>8. CASE ReceivePartial(n)
    BY <2>5, <2>8 DEF ReceivePartial
  <2>9. CASE ReceiveOverflow(n)
    <3>1. rcvd + n - from > BUFFER_SIZE
      BY <1>0, <2>9 DEF ReceiveOverflow, Fits, IInv, TypeOK
    <3>2. PktSize[stream[i].kind] \in Nat /\ PktSize[stream[i].kind] <= BUFFER_SIZE
      BY <1>0
    <3> QED BY <1>0, <2>3, <2>6, <3>1, <3>2
  <2>10. CASE ReceiveNoMem(n)
    BY <2>3, <2>10 DEF ReceiveNoMem, recv
  <2> QED BY <1>1, <2>7, <2>8, <2>9, <2>10 DEF Receive
<1>2. CASE Connect
  BY <1>2 DEF Connect, NoBytes, Running
<1>3. CASE Restart
  BY <1>3 DEF Restart, NoBytes
<1>4. ASSUME UNCHANGED <<recv, cuts, fault>>
      PROVE  rcvd' = from' /\ fault' \notin {"nullpkg", "overflow"}
  BY <1>4 DEF recv, Prompt
<1>5. ASSUME NEW n \in 1..MSS, ReceiveDropped(n)
      PROVE  rcvd' = from' /\ fault' \notin {"nullpkg", "overflow"}
  <2>1. UNCHANGED <<recv, fault>>
    BY <1>5 DEF ReceiveDropped
  <2>2. DropPackets(n)
    BY <1>5 DEF ReceiveDropped, DropPart
  <2>3. cuts = "one"
    BY <2>2, SegmentIsPacket DEF DropPackets
  <2> QED BY <2>1, <2>3 DEF recv, Prompt
<1>6. ASSUME NEW n \in 1..MSS, NEW k \in Kind, ReceiveGarbled(n, k) PROVE FALSE
  <2>1. cuts = "any" /\ Segment(n)
    BY <1>6 DEF ReceiveGarbled, Handed, Garbled, IInv, Front
  <2> QED BY <2>1, SegmentIsPacket
<1> QED BY <1>1, <1>2, <1>3, <1>4, <1>5, <1>6 DEF Next, CloudWrites, LinkLost, vars

\* With recv_buf empty, no packet waits in it.
LEMMA PromptMeansNoBacklog == IInv /\ Prompt => NeverBehind
<1> SUFFICES ASSUME IInv, Prompt, cuts = "one" PROVE Backlog = {}
  BY DEF NeverBehind, Prompt, IInv, Front
<1> SUFFICES ASSUME NEW i \in 1..Len(stream), i > taken, stream[i].end <= rcvd PROVE FALSE
  BY DEF Backlog
<1>1. /\ Len(stream) \in Nat /\ taken \in 0..Len(stream) /\ from = End(taken) /\ rcvd = from
      /\ \A j \in 1..Len(stream) : stream[j].start \in Nat /\ stream[j].end \in Nat
  BY PacketTypes DEF IInv, TypeOK, Front, Prompt
<1>2. stream[i].start < stream[i].end
  BY DEF IInv, EndToEnd
<1>3. CASE taken = 0
  BY <1>1, <1>2, <1>3 DEF End
<1>4. CASE taken # 0
  <2>1. taken \in 1..Len(stream) /\ from = stream[taken].end
    BY <1>1, <1>4 DEF End
  <2>2. stream[taken].end <= stream[i].start
    BY <2>1 DEF IInv, EndToEnd
  <2> QED BY <1>1, <1>2, <2>1, <2>2
<1> QED BY <1>3, <1>4

\* If every kind of packet fits recv_buf and each segment is one packet, nothing
\* waits and the parser cannot fail.
THEOREM OneByOne ==
  ASSUME \A k \in Kind : PktSize[k] <= BUFFER_SIZE
  PROVE  Spec => []NeverBehind
<1>1. Init => Sized /\ Prompt
  BY DEF Init, Sized, Prompt
<1>2. Spec => []Sized
  BY <1>1, StreamInvariant, StepSized, PTL DEF Spec
<1>3. IInv /\ Sized /\ Prompt /\ [Next]_vars => Prompt'
  BY StepPrompt
<1>4. Spec => []Prompt
  BY <1>1, <1>2, <1>3, StreamInvariant, PTL DEF Spec
<1> QED BY <1>4, StreamInvariant, PromptMeansNoBacklog, PTL
-----------------------------------------------------------------------------
(* Segments of whole packets *)

LEMMA PacketSetFinite ==
  ASSUME NEW m \in Nat, NEW S \in SUBSET (1..m)
  PROVE  IsFiniteSet(S) /\ Cardinality(S) \in Nat
<1>1. IsFiniteSet(1..m)
  BY FS_Interval
<1> QED BY <1>1, FS_Subset, FS_CardinalityType

\* A segment of whole packets ends where a packet ends, and that packet has not
\* been received before.
LEMMA WholeEnds ==
  ASSUME IInv, NEW n \in 1..MSS, Segment(n), cuts' # "any"
  PROVE  \E j \in 1..Len(stream) : /\ stream[j].end = rcvd + n
                                   /\ j > taken
<1>1. \E j \in 1..Len(stream) : stream[j].end = rcvd + n
  <2>1. CASE IsPacket(rcvd, rcvd + n)
    BY <2>1 DEF IsPacket
  <2>2. CASE ~IsPacket(rcvd, rcvd + n)
    <3>1. EndsPacket(rcvd + n)
      BY <2>2, Zenon DEF Segment
    <3> QED BY <3>1 DEF EndsPacket
  <2> QED BY <2>1, <2>2
<1>2. PICK j \in 1..Len(stream) : stream[j].end = rcvd + n
  BY <1>1
<1>3. /\ taken \in 0..Len(stream) /\ Len(stream) \in Nat /\ rcvd \in Nat /\ n \in Nat /\ n > 0
      /\ \A i \in 1..Len(stream) : stream[i].start \in Nat /\ stream[i].end \in Nat
  BY PacketTypes, StreamAssumption DEF IInv, TypeOK
<1>4. SUFFICES ASSUME j <= taken PROVE FALSE
  BY <1>2, <1>3
<1>5. stream[taken].end <= rcvd /\ taken \in 1..Len(stream)
  BY <1>3, <1>4 DEF IInv, Front, End
<1>6. stream[j].end <= stream[taken].end
  <2>1. CASE j = taken
    BY <1>3, <2>1
  <2>2. CASE j < taken
    <3>1. stream[j].end <= stream[taken].start /\ stream[taken].start < stream[taken].end
      BY <1>5, <2>2 DEF IInv, EndToEnd
    <3> QED BY <1>3, <1>5, <3>1
  <2> QED BY <1>3, <1>4, <2>1, <2>2
<1> QED BY <1>2, <1>3, <1>5, <1>6

\* The packet behind the last taken starts where recv_buf starts, and is complete
\* when any packet behind it is.
LEMMA FrontComplete ==
  ASSUME IInv, NEW j \in 1..Len(stream), j > taken, NEW b \in Nat, stream[j].end <= b
  PROVE  taken + 1 \in 1..Len(stream) /\ Complete(taken + 1, b)
<1>1. /\ taken \in 0..Len(stream) /\ Len(stream) \in Nat
      /\ \A i \in 1..Len(stream) : stream[i].start \in Nat /\ stream[i].end \in Nat
  BY PacketTypes DEF IInv, TypeOK
<1>2. taken + 1 \in 1..Len(stream)
  BY <1>1
<1>3. stream[taken + 1].start = from
  <2>1. \A i \in 1..Len(stream) : stream[i].start = End(i - 1)
    BY DEF IInv, EndToEnd
  <2>2. stream[taken + 1].start = End(taken)
    BY <1>1, <1>2, <2>1 DEF End
  <2> QED BY <2>2 DEF IInv, Front
<1>4. stream[taken + 1].end <= b
  <2>1. CASE j = taken + 1
    BY <2>1
  <2>2. CASE j > taken + 1
    <3>1. stream[taken + 1].end <= stream[j].start /\ stream[j].start < stream[j].end
      BY <1>2, <2>2 DEF IInv, EndToEnd
    <3> QED BY <1>1, <1>2, <3>1
  <2> QED BY <1>1, <2>1, <2>2
<1> QED BY <1>2, <1>3, <1>4 DEF Complete

\* A packet is taken for each segment, and at least one arrives with it.
LEMMA StepLag ==
  ASSUME IInv, [Next]_vars, ~UNCHANGED vars, up, up', cuts' # "any"
  PROVE  fault' # "nullpkg" /\ Cardinality(Backlog') >= Cardinality(Backlog)
<1>0. /\ taken \in 0..Len(stream) /\ Len(stream) \in Nat /\ rcvd \in Nat
      /\ \A i \in 1..Len(stream) : stream[i].start \in Nat /\ stream[i].end \in Nat
      /\ MSS \in Nat
  BY PacketTypes, StreamAssumption DEF IInv, TypeOK
<1>f. Len(stream') \in Nat
  BY StepIInv, PacketTypes DEF IInv, TypeOK
<1>1. /\ IsFiniteSet(Backlog) /\ Cardinality(Backlog) \in Nat
      /\ IsFiniteSet(Backlog') /\ Cardinality(Backlog') \in Nat
  <2>1. Backlog \in SUBSET (1..Len(stream)) /\ Backlog' \in SUBSET (1..Len(stream'))
    BY DEF Backlog
  <2> QED BY <1>0, <1>f, <2>1, PacketSetFinite
<1>2. CASE \E k \in Kind : CloudWrites(k)
  <2>1. PICK k \in Kind : CloudWrites(k)
    BY <1>2
  <2>2. /\ Len(stream') = Len(stream) + 1 /\ UNCHANGED <<rcvd, taken, fault>>
        /\ \A i \in 1..Len(stream) : stream'[i] = stream[i]
        /\ fault = "none"
    BY <2>1, Written DEF CloudWrites, recv, Running
  <2>3. Backlog \in SUBSET Backlog'
    BY <1>0, <2>2 DEF Backlog
  <2> QED BY <1>1, <2>2, <2>3, FS_Subset
<1>3. CASE \E n \in 1..MSS : Receive(n)
  <2>1. PICK n \in 1..MSS : Receive(n)
    BY <1>3
  <2>2. Segment(n) /\ stream' = stream /\ fault = "none"
    BY <2>1 DEF Receive, ReceivePacket, ReceivePartial, ReceiveOverflow, ReceiveNoMem, Handed, Running
  <2>3. PICK j \in 1..Len(stream) : stream[j].end = rcvd + n /\ j > taken
    BY <2>2, WholeEnds
  <2>4. taken + 1 \in 1..Len(stream) /\ Complete(taken + 1, rcvd + n)
    BY <1>0, <2>3, FrontComplete
  <2>5. CASE ReceivePacket(n)
    <3>1. PICK i \in 1..Len(stream) :
            /\ stream[i].start = from
            /\ rcvd' = rcvd + n
            /\ taken' = i
            /\ fault' \in IF stream[i].kind \in Switches THEN {"none", "badfree"} ELSE {"none"}
      BY <2>5 DEF ReceivePacket, Complete, Deal
    <3>2. taken' = taken + 1
      BY <3>1, FrontIsNext
    <3>3. \A b \in Backlog : b # taken + 1 => b \in Backlog'
      BY <1>0, <2>2, <3>1, <3>2 DEF Backlog
    <3>4. CASE taken + 1 \in Backlog
      <4>1. j # taken + 1 /\ j \notin Backlog /\ j \in Backlog'
        BY <1>0, <2>2, <2>3, <3>1, <3>2, <3>4 DEF Backlog
      <4>2. (Backlog \ {taken + 1}) \cup {j} \in SUBSET Backlog'
        BY <3>3, <4>1
      <4>3. /\ IsFiniteSet(Backlog \ {taken + 1})
            /\ Cardinality(Backlog \ {taken + 1}) = Cardinality(Backlog) - 1
        BY <1>1, <3>4, FS_RemoveElement
      <4>4. Cardinality((Backlog \ {taken + 1}) \cup {j}) = Cardinality(Backlog)
        <5>1. j \notin Backlog \ {taken + 1}
          BY <4>1
        <5>2. Cardinality((Backlog \ {taken + 1}) \cup {j}) = Cardinality(Backlog \ {taken + 1}) + 1
          BY <4>3, <5>1, FS_AddElement
        <5> QED BY <1>1, <4>3, <5>2
      <4>5. Cardinality((Backlog \ {taken + 1}) \cup {j}) <= Cardinality(Backlog')
        BY <1>1, <4>2, FS_Subset
      <4> QED BY <1>1, <3>1, <4>4, <4>5
    <3>5. CASE taken + 1 \notin Backlog
      <4>1. Backlog \in SUBSET Backlog'
        BY <3>3, <3>5
      <4> QED BY <1>1, <3>1, <4>1, FS_Subset
    <3> QED BY <3>4, <3>5
  <2>6. CASE ReceivePartial(n)
    BY <2>4, <2>6 DEF ReceivePartial
  <2>7. CASE ReceiveOverflow(n) \/ ReceiveNoMem(n)
    <3>1. UNCHANGED <<stream, rcvd, taken>> /\ fault' # "nullpkg"
      BY <2>7 DEF ReceiveOverflow, ReceiveNoMem, recv
    <3>2. Backlog' = Backlog
      BY <3>1 DEF Backlog
    <3> QED BY <1>1, <3>1, <3>2
  <2> QED BY <2>1, <2>5, <2>6, <2>7 DEF Receive
<1>4. CASE \E n \in 1..MSS : ReceiveDropped(n)
  <2>1. PICK n \in 1..MSS : ReceiveDropped(n)
    BY <1>4
  <2>2. DropPackets(n) /\ UNCHANGED <<rcvd, taken, fault>> /\ fault = "none"
    BY <2>1 DEF ReceiveDropped, DropPart, recv, Running
  <2>3. PICK a \in 0..Len(stream), b \in 0..Len(stream) :
          /\ End(a) = rcvd /\ a < b /\ Len(stream') = Len(stream) - (b - a)
          /\ \A j \in 1..a : stream'[j] = stream[j]
    BY <2>2, DroppedPackets DEF DropPackets
  <2>4. ASSUME NEW i \in Backlog PROVE i \in Backlog'
    <3>1. i \in 1..Len(stream) /\ i > taken /\ stream[i].end <= rcvd
      BY DEF Backlog
    <3>2. i <= a
      <4>1. a < i => End(a) < End(i)
        BY <1>0, <3>1, EndsGrow
      <4> QED BY <1>0, <2>3, <3>1, <4>1 DEF End
    <3>3. i \in 1..a /\ i \in 1..Len(stream')
      BY <1>0, <2>3, <3>1, <3>2
    <3> QED BY <2>2, <2>3, <3>1, <3>3 DEF Backlog
  <2>5. Backlog \in SUBSET Backlog'
    BY <2>4
  <2> QED BY <1>1, <2>2, <2>5, FS_Subset
<1>5. ASSUME NEW n \in 1..MSS, NEW k \in Kind, ReceiveGarbled(n, k) PROVE FALSE
  <2>1. cuts = "any" /\ Segment(n)
    BY <1>5 DEF ReceiveGarbled, Handed, Garbled, IInv, Front
  <2> QED BY <2>1 DEF Segment
<1> QED BY <1>2, <1>3, <1>4, <1>5 DEF Next, Connect, LinkLost, Restart

\* Segments of whole packets never starve the parser, and once packets wait, the
\* device stays that far behind for as long as the link lasts.
THEOREM LagForGood == Spec => LagStays
<1> DEFINE Step == up /\ up' /\ cuts' # "any" => /\ fault' # "nullpkg"
                                                /\ Cardinality(Backlog') >= Cardinality(Backlog)
<1>1. IInv /\ [Next]_vars => [Step]_vars
  BY StepLag
<1>2. Spec => [][Step]_vars
  BY <1>1, StreamInvariant, PTL DEF Spec
<1> QED BY <1>2 DEF LagStays
-----------------------------------------------------------------------------
(* The abstract channel *)

\* The kinds of the packets behind the first t of a stream.
LEMMA KindsBehind ==
  ASSUME NEW s \in Seq(Packet), NEW t \in 0..Len(s),
         NEW q, q = [j \in 1..(Len(s) - t) |-> s[t + j].kind]
  PROVE  /\ q \in Seq(Kind)
         /\ Len(q) = Len(s) - t
         /\ \A j \in 1..(Len(s) - t) : q[j] = s[t + j].kind
<1>1. Len(s) \in Nat /\ \A i \in 1..Len(s) : s[i] \in Packet
  OBVIOUS
<1>2. \A i \in 1..Len(s) : s[i].kind \in Kind
  BY <1>1 DEF Packet
<1>3. Len(s) - t \in Nat /\ \A j \in 1..(Len(s) - t) : t + j \in 1..Len(s)
  <2> HIDE DEF Packet
  <2> QED BY <1>1, SMTT(20)
<1>4. q \in [1..(Len(s) - t) -> Kind]
  BY <1>2, <1>3
<1>5. q \in Seq(Kind) /\ Len(q) = Len(s) - t
  BY <1>3, <1>4, FunctionIsSeq
<1> QED BY <1>5

\* Unhandled as a sequence, before and after a step that keeps the link.
LEMMA UnhandledSeq ==
  ASSUME IInv, [Next]_vars, up, up'
  PROVE  /\ Unhandled \in Seq(Kind) /\ Unhandled' \in Seq(Kind)
         /\ Len(Unhandled) = Len(stream) - taken
         /\ Len(Unhandled') = Len(stream') - taken'
         /\ \A j \in 1..(Len(stream) - taken) : Unhandled[j] = stream[taken + j].kind
         /\ \A j \in 1..(Len(stream') - taken') : Unhandled'[j] = stream'[taken' + j].kind
<1>1. /\ stream \in Seq(Packet) /\ taken \in 0..Len(stream)
      /\ Unhandled = [j \in 1..(Len(stream) - taken) |-> stream[taken + j].kind]
  BY DEF IInv, TypeOK, Unhandled
<1>2. IInv'
  BY StepIInv
<1>3. /\ stream' \in Seq(Packet) /\ taken' \in 0..Len(stream')
      /\ Unhandled' = [j \in 1..(Len(stream') - taken') |-> stream'[taken' + j].kind]
  BY <1>2 DEF IInv, TypeOK, Unhandled
<1>4. /\ Unhandled \in Seq(Kind)
      /\ Len(Unhandled) = Len(stream) - taken
      /\ \A j \in 1..(Len(stream) - taken) : Unhandled[j] = stream[taken + j].kind
  BY <1>1, KindsBehind
<1>5. /\ Unhandled' \in Seq(Kind)
      /\ Len(Unhandled') = Len(stream') - taken'
      /\ \A j \in 1..(Len(stream') - taken') : Unhandled'[j] = stream'[taken' + j].kind
  BY <1>3, KindsBehind
<1> QED BY <1>4, <1>5

\* A packet the cloud writes is the last of those unhandled.
LEMMA WriteMaps ==
  ASSUME IInv, NEW k \in Kind, CloudWrites(k)
  PROVE  Channel!Write(k)
<1>1. up /\ up' /\ ~torn /\ ~torn' /\ UNCHANGED <<taken, light>>
  BY DEF CloudWrites, recv, loss
<1>2. /\ Len(stream') = Len(stream) + 1
      /\ \A i \in 1..Len(stream) : stream'[i] = stream[i]
      /\ stream'[Len(stream) + 1] = [kind |-> k, start |-> Total, end |-> Total + PktSize[k]]
  BY Written
<1>3. stream'[Len(stream) + 1].kind = k
  BY <1>2
<1>4. Len(stream) \in Nat /\ taken \in 0..Len(stream)
  BY PacketTypes DEF IInv, TypeOK
<1> DEFINE m == Len(stream) - taken
<1>5. [Next]_vars
  BY DEF Next
<1>6. /\ Unhandled \in Seq(Kind) /\ Unhandled' \in Seq(Kind)
      /\ Len(Unhandled) = m /\ Len(Unhandled') = m + 1
      /\ \A j \in 1..m : Unhandled[j] = stream[taken + j].kind
      /\ \A j \in 1..(m + 1) : Unhandled'[j] = stream'[taken + j].kind
  <2>1. m \in Nat /\ Len(stream') - taken' = m + 1 /\ taken' = taken
    BY <1>1, <1>2, <1>4
  <2>2. /\ Unhandled \in Seq(Kind) /\ Unhandled' \in Seq(Kind)
        /\ Len(Unhandled) = m /\ Len(Unhandled') = Len(stream') - taken'
        /\ \A j \in 1..m : Unhandled[j] = stream[taken + j].kind
        /\ \A j \in 1..(Len(stream') - taken') : Unhandled'[j] = stream'[taken' + j].kind
    BY <1>1, <1>5, UnhandledSeq
  <2> QED BY <2>1, <2>2
<1>7. /\ Append(Unhandled, k) \in Seq(Kind)
      /\ Len(Append(Unhandled, k)) = m + 1
      /\ \A j \in 1..m : Append(Unhandled, k)[j] = Unhandled[j]
      /\ Append(Unhandled, k)[m + 1] = k
  BY <1>6, AppendProperties
<1>8. \A j \in 1..(m + 1) : Unhandled'[j] = Append(Unhandled, k)[j]
  <2> TAKE j \in 1..(m + 1)
  <2>1. CASE j \in 1..m
    <3>1. taken + j \in 1..Len(stream)
      BY <1>4, <2>1
    <3> QED BY <1>2, <1>6, <1>7, <2>1, <3>1
  <2>2. CASE j = m + 1
    <3>1. taken + j = Len(stream) + 1
      BY <1>4, <2>2
    <3> QED BY <1>3, <1>6, <1>7, <2>2, <3>1
  <2>3. m \in Nat /\ (j \in 1..m \/ j = m + 1)
    BY <1>4
  <2> QED BY <2>1, <2>2, <2>3
<1>9. Unhandled' = Append(Unhandled, k)
  BY <1>6, <1>7, <1>8, SeqEqual
<1> QED BY <1>1, <1>9 DEF Channel!Write, LinkState

\* A packet taken is the first of those unhandled.
LEMMA ReceiveMaps ==
  ASSUME IInv, NEW n \in 1..MSS, ReceivePacket(n)
  PROVE  Channel!Handle
<1>1. PICK i \in 1..Len(stream) :
        /\ stream[i].start = from
        /\ taken' = i
        /\ light' = IF stream[i].kind \in Switches THEN stream[i].kind ELSE light
  BY DEF ReceivePacket, Complete, Deal
<1>2. up /\ UNCHANGED <<up, stream, torn>>
  BY DEF ReceivePacket, Handed, loss
<1>3. i = taken + 1
  BY <1>1, FrontIsNext
<1>4. Len(stream) \in Nat /\ taken \in 0..Len(stream)
  BY PacketTypes DEF IInv, TypeOK
<1> DEFINE m == Len(stream) - taken
<1>5. [Next]_vars
  BY DEF Next, Receive
<1>6. m \in Nat \ {0} /\ Len(stream') - taken' = m - 1
  BY <1>1, <1>2, <1>3, <1>4
<1>7. /\ Unhandled \in Seq(Kind) /\ Unhandled' \in Seq(Kind)
      /\ Len(Unhandled) = m /\ Len(Unhandled') = m - 1
      /\ \A j \in 1..m : Unhandled[j] = stream[taken + j].kind
      /\ \A j \in 1..(m - 1) : Unhandled'[j] = stream[taken + 1 + j].kind
  BY <1>1, <1>2, <1>3, <1>5, <1>6, UnhandledSeq
<1>8. Unhandled # <<>> /\ Head(Unhandled) = stream[i].kind
  BY <1>3, <1>6, <1>7
<1>9. /\ Tail(Unhandled) \in Seq(Kind)
      /\ Len(Tail(Unhandled)) = m - 1
      /\ \A j \in 1..(m - 1) : Tail(Unhandled)[j] = Unhandled[j + 1]
  BY <1>7, <1>8, HeadTailProperties
<1>10. \A j \in 1..(m - 1) : Unhandled[j + 1] = stream[taken + 1 + j].kind
  BY <1>4, <1>6, <1>7
<1>11. Unhandled' = Tail(Unhandled)
  <2>1. \A j \in 1..Len(Unhandled') : Unhandled'[j] = Tail(Unhandled)[j]
    BY <1>7, <1>9, <1>10
  <2>2. /\ Unhandled' \in Seq(Kind) /\ Tail(Unhandled) \in Seq(Kind)
        /\ Len(Unhandled') = Len(Tail(Unhandled))
    BY <1>7, <1>9
  <2> HIDE DEF m
  <2> QED BY <2>1, <2>2, SeqEqual
<1>12. light' = Channel!Moved(Head(Unhandled))
  BY <1>1, <1>8 DEF Channel!Moved, Channel!Switches, Switches
<1> QED BY <1>2, <1>8, <1>11, <1>12 DEF Channel!Handle, LinkState

\* Packets dropped with their segment are a run of those unhandled.
LEMMA DropMaps ==
  ASSUME IInv, NEW n \in 1..MSS, ReceiveDropped(n), DropPackets(n)
  PROVE  Channel!Drop
<1>1. PICK a \in 0..Len(stream), b \in 0..Len(stream) :
        /\ a < b /\ taken <= a
        /\ Len(stream') = Len(stream) - (b - a)
        /\ \A j \in 1..a : stream'[j] = stream[j]
        /\ \A j \in (a + 1)..Len(stream') :
             /\ j + (b - a) \in (b + 1)..Len(stream)
             /\ stream'[j].kind = stream[j + (b - a)].kind
  BY DroppedPackets DEF DropPackets
<1>2. /\ up /\ up' /\ ~torn /\ ~torn' /\ UNCHANGED <<taken, light>>
      /\ Len(stream) \in Nat /\ taken \in 0..Len(stream)
  BY PacketTypes DEF ReceiveDropped, DropPackets, recv, IInv, TypeOK
<1> DEFINE c == a - taken
           e == b - taken
           m == Len(stream) - taken
<1>3. /\ Len(Unhandled) = m
      /\ \A j \in 1..m : Unhandled[j] = stream[taken + j].kind
      /\ Unhandled' = [j \in 1..(m - (e - c)) |-> stream'[taken + j].kind]
      /\ m - (e - c) \in Nat
  <2>1. [Next]_vars
    BY DEF Next
  <2>2. Len(Unhandled) = m /\ \A j \in 1..m : Unhandled[j] = stream[taken + j].kind
    BY <1>2, <2>1, UnhandledSeq
  <2>3. Len(stream') - taken' = m - (e - c)
    BY <1>1, <1>2
  <2> QED BY <1>1, <1>2, <2>2, <2>3 DEF Unhandled
<1>4. c \in 0..m /\ e \in 0..m /\ c < e
  BY <1>1, <1>2
<1>n. /\ a \in Nat /\ b \in Nat /\ taken \in Nat /\ Len(stream) \in Nat
      /\ taken <= a /\ a < b /\ b <= Len(stream) /\ Len(stream') = Len(stream) - (b - a)
  BY <1>1, <1>2
<1>5. \A j \in 1..(m - (e - c)) :
        stream'[taken + j].kind = Unhandled[IF j <= c THEN j ELSE j + (e - c)]
  <2> TAKE j \in 1..(m - (e - c))
  <2>1. CASE j <= c
    <3>1. taken + j \in 1..a /\ j \in 1..m
      BY <1>n, <2>1
    <3> QED BY <1>1, <1>3, <2>1, <3>1
  <2>2. CASE ~(j <= c)
    <3>1. /\ taken + j \in (a + 1)..Len(stream') /\ j + (e - c) \in 1..m
          /\ (taken + j) + (b - a) = taken + (j + (e - c))
      BY <1>n, <2>2
    <3>2. stream'[taken + j].kind = stream[(taken + j) + (b - a)].kind
      BY <1>1, <3>1
    <3>3. Unhandled[j + (e - c)] = stream[taken + (j + (e - c))].kind
      BY <1>3, <3>1
    <3>4. stream'[taken + j].kind = Unhandled[j + (e - c)]
      BY <3>1, <3>2, <3>3
    <3> QED BY <2>2, <3>4
  <2> QED BY <2>1, <2>2
<1> HIDE DEF c, e, m
<1>6. Unhandled' = Channel!Without(c, e)
  BY <1>3, <1>5, Zenon DEF Channel!Without
<1> QED BY <1>2, <1>3, <1>4, <1>6 DEF Channel!Drop, LinkState

\* A hole leaves those unhandled that were in front of it.
LEMMA TearMaps ==
  ASSUME IInv, NEW n \in 1..MSS, ReceiveDropped(n), DropPart(n)
  PROVE  Channel!Tear
<1>1. PICK a \in 0..Len(stream) :
        /\ taken <= a
        /\ Len(stream') = a
        /\ \A j \in 1..a : stream'[j] = stream[j]
  BY TornStream DEF DropPart
<1>2. /\ up /\ up' /\ ~torn /\ torn' /\ UNCHANGED <<taken, light>>
      /\ Len(stream) \in Nat /\ taken \in 0..Len(stream)
  BY PacketTypes DEF ReceiveDropped, DropPart, recv, IInv, TypeOK
<1> DEFINE c == a - taken
           m == Len(stream) - taken
<1>3. /\ Len(Unhandled) = m
      /\ \A j \in 1..m : Unhandled[j] = stream[taken + j].kind
      /\ Unhandled' = [j \in 1..(m - (m - c)) |-> stream'[taken + j].kind]
  <2>1. [Next]_vars
    BY DEF Next
  <2>2. Len(Unhandled) = m /\ \A j \in 1..m : Unhandled[j] = stream[taken + j].kind
    BY <1>2, <2>1, UnhandledSeq
  <2>3. Len(stream') - taken' = m - (m - c)
    BY <1>1, <1>2
  <2> QED BY <1>1, <1>2, <2>2, <2>3 DEF Unhandled
<1>4. c \in 0..m /\ m - (m - c) = c /\ m \in Nat
  BY <1>1, <1>2
<1>5. \A j \in 1..(m - (m - c)) :
        stream'[taken + j].kind = Unhandled[IF j <= c THEN j ELSE j + (m - c)]
  <2> TAKE j \in 1..(m - (m - c))
  <2>1. j \in 1..c /\ j <= c
    BY <1>4
  <2>2. taken + j \in 1..a /\ j \in 1..m
    <3>1. a \in Nat /\ taken \in Nat /\ Len(stream) \in Nat /\ a <= Len(stream)
      BY <1>2
    <3> QED BY <2>1, <3>1
  <2> QED BY <1>1, <1>3, <2>1, <2>2
<1> HIDE DEF c, m
<1>6. Unhandled' = Channel!Without(c, Len(Unhandled))
  BY <1>3, <1>5, Zenon DEF Channel!Without
<1> QED BY <1>2, <1>3, <1>4, <1>6 DEF Channel!Tear, LinkState

LEMMA InitChannel == Init => Channel!Init
BY DEF Init, Unhandled, LinkState, Switches, Channel!Init, Channel!Switches

LEMMA StepChannel == IInv /\ [Next]_vars => [Channel!Next]_(Channel!cvars)
<1> SUFFICES ASSUME IInv, [Next]_vars PROVE [Channel!Next]_(Channel!cvars)
  OBVIOUS
<1> USE DEF Channel!Next, Channel!cvars
<1>0. light \in Channel!Switches
  BY DEF IInv, TypeOK, Switches, Channel!Switches
<1>1. ASSUME NEW k \in Kind, CloudWrites(k) PROVE [Channel!Next]_(Channel!cvars)
  BY <1>1, WriteMaps
<1>2. ASSUME NEW n \in 1..MSS, Receive(n) PROVE [Channel!Next]_(Channel!cvars)
  <2>1. CASE ReceivePacket(n)
    BY <2>1, ReceiveMaps
  <2>2. CASE ~ReceivePacket(n)
    <3>1. UNCHANGED <<up, stream, recv, loss, light>>
      BY <1>2, <2>2 DEF Receive, ReceivePartial, ReceiveOverflow, ReceiveNoMem
    <3> QED BY <3>1 DEF recv, loss, Unhandled, LinkState
  <2> QED BY <2>1, <2>2
<1>3. CASE Connect
  <2>1. Unhandled' = <<>>
    <3>1. Len(stream') = 0 /\ taken' = 0
      BY <1>3 DEF Connect, NoBytes
    <3> QED BY <3>1 DEF Unhandled
  <2>2. CASE heap + 3 > HeapBlocks
    <3>1. LinkState' = "down" /\ UNCHANGED light
      BY <1>3, <2>2 DEF Connect, LinkState
    <3> QED BY <2>1, <3>1 DEF Channel!Close
  <2>3. CASE ~(heap + 3 > HeapBlocks)
    <3>1. LinkState = "down" /\ LinkState' = "whole" /\ light' = "off"
      BY <1>3, <2>3 DEF Connect, NoBytes, LinkState
    <3> QED BY <2>1, <3>1 DEF Channel!Open
  <2> QED BY <2>2, <2>3
<1>4. CASE LinkLost
  <2>1. Unhandled' = <<>> /\ LinkState' = "down" /\ UNCHANGED light
    BY <1>4 DEF LinkLost, Unhandled, LinkState
  <2> QED BY <2>1 DEF Channel!Close
<1>5. CASE Restart
  <2>1. Unhandled' = <<>> /\ LinkState' = "down" /\ light' \in Channel!Switches
    BY <1>5 DEF Restart, Unhandled, LinkState, Switches, Channel!Switches
  <2> QED BY <2>1 DEF Channel!Restart
<1>6. ASSUME NEW n \in 1..MSS, ReceiveDropped(n) PROVE [Channel!Next]_(Channel!cvars)
  BY <1>6, DropMaps, TearMaps DEF ReceiveDropped
<1>7. ASSUME NEW n \in 1..MSS, NEW k \in Kind, ReceiveGarbled(n, k)
      PROVE  [Channel!Next]_(Channel!cvars)
  <2>1. /\ up /\ torn /\ taken = Len(stream) /\ UNCHANGED <<up, stream, taken, torn>>
        /\ light' \in Channel!Switches
    BY <1>0, <1>7 DEF ReceiveGarbled, Handed, Garbled, Deal, loss, Switches, Channel!Switches
  <2>2. Len(stream) - taken = 0
    BY <2>1, PacketTypes DEF IInv
  <2>3. Unhandled = <<>> /\ Unhandled' = <<>> /\ LinkState = "torn" /\ LinkState' = "torn"
    BY <2>1, <2>2 DEF Unhandled, LinkState
  <2> QED BY <2>1, <2>3 DEF Channel!Garble
<1>8. CASE UNCHANGED vars
  BY <1>8 DEF vars, recv, loss, Unhandled, LinkState
<1> QED BY <1>1, <1>2, <1>3, <1>4, <1>5, <1>6, <1>7, <1>8 DEF Next

\* Segments, buffers and the heap implement the abstract channel: packets are
\* handled in order, each at most once, and on a link without a hole nothing but
\* their handling moves the light.
THEOREM Refinement == Spec => ImplementsChannel
<1> QED BY InitChannel, StreamInvariant, StepChannel, PTL DEF Spec, ImplementsChannel, Channel!Spec
=============================================================================
