---------------------------- MODULE EdpCodecProof ----------------------------
(***************************************************************************)
(* The codec for every identifier, body and cut: a length field is read    *)
(* back as it was written, a packet is found when all of it has arrived    *)
(* and not before, and what was written into a command is read out of it.  *)
(***************************************************************************)
EXTENDS EdpCodec, SequenceTheorems, TLAPS

(* The length field *)

LEMMA MinOf ==
  ASSUME NEW S, S \subseteq 1..5, 5 \in S
  PROVE  Min(S) \in S /\ \A y \in S : Min(S) <= y
<1>1. \E x \in S : \A y \in S : x <= y
  <2>1. CASE 1 \in S
    BY <2>1
  <2>2. CASE 1 \notin S /\ 2 \in S
    BY <2>2
  <2>3. CASE 1 \notin S /\ 2 \notin S /\ 3 \in S
    BY <2>3
  <2>4. CASE 1 \notin S /\ 2 \notin S /\ 3 \notin S
    BY <2>4
  <2> QED BY <2>1, <2>2, <2>3, <2>4
<1> QED BY <1>1 DEF Min

LEMMA Weights ==
  /\ Weight[1] = 1 /\ Weight[2] = 128 /\ Weight[3] = 16384
  /\ Weight[4] = 2097152 /\ Weight[5] = 268435456
BY DEF Weight

LEMMA DigitCountOf ==
  ASSUME NEW n \in Nat
  PROVE  /\ DigitCount(n) \in 1..5
         /\ DigitCount(n) # 5 => n < Weight[DigitCount(n) + 1]
         /\ n < Weight[5] => DigitCount(n) # 5
         /\ \A i \in 1..4 : i < DigitCount(n) => n >= Weight[i + 1]
<1> DEFINE S == {i \in 1..4 : n < Weight[i + 1]} \cup {5}
<1>1. S \subseteq 1..5 /\ 5 \in S
  OBVIOUS
<1>2. DigitCount(n) \in S /\ \A y \in S : DigitCount(n) <= y
  BY <1>1, MinOf DEF DigitCount
<1>3. \A i \in 1..4 : n < Weight[i + 1] \/ n >= Weight[i + 1]
  BY Weights
<1>4. n < Weight[5] => 4 \in S
  OBVIOUS
<1> QED BY <1>1, <1>2, <1>3, <1>4

LEMMA WeightType == \A i \in 1..5 : Weight[i] \in Nat \ {0}
BY Weights

\* A digit to the base 128, with the top bit if others follow.
Digit(n, i) == (n \div Weight[i]) % 128

LEMMA DigitType == ASSUME NEW n \in Nat, NEW i \in 1..5 PROVE Digit(n, i) \in 0..127
<1>1. CASE i = 1
  BY <1>1, Weights DEF Digit
<1>2. CASE i = 2
  BY <1>2, Weights DEF Digit
<1>3. CASE i = 3
  BY <1>3, Weights DEF Digit
<1>4. CASE i = 4
  BY <1>4, Weights DEF Digit
<1>5. CASE i = 5
  BY <1>5, Weights DEF Digit
<1> QED BY <1>1, <1>2, <1>3, <1>4, <1>5

LEMMA Written ==
  ASSUME NEW n \in Nat
  PROVE  /\ WriteRemainlen(n) \in Seq(Byte)
         /\ Len(WriteRemainlen(n)) = DigitCount(n)
         /\ \A i \in 1..DigitCount(n) :
              /\ WriteRemainlen(n)[i] \in Byte
              /\ WriteRemainlen(n)[i] % 128 = Digit(n, i)
              /\ WriteRemainlen(n)[i] < 128 <=> i = DigitCount(n)
<1> DEFINE D == DigitCount(n)
           w == WriteRemainlen(n)
<1>1. D \in 1..5
  BY DigitCountOf
<1>2. \A i \in 1..D : w[i] = Digit(n, i) + (IF i < D THEN 128 ELSE 0)
  BY DEF WriteRemainlen, Digit
<1>3. \A i \in 1..D : Digit(n, i) \in 0..127
  BY <1>1, DigitType
<1>4. \A i \in 1..D : w[i] \in Byte /\ w[i] % 128 = Digit(n, i) /\ (w[i] < 128 <=> i = D)
  <2> SUFFICES ASSUME NEW i \in 1..D
               PROVE  w[i] \in Byte /\ w[i] % 128 = Digit(n, i) /\ (w[i] < 128 <=> i = D)
    OBVIOUS
  <2> DEFINE d == Digit(n, i)
  <2>1. d \in 0..127 /\ w[i] = d + (IF i < D THEN 128 ELSE 0)
    BY <1>2, <1>3
  <2> HIDE DEF d, w, D
  <2>2. (d + 128) % 128 = d /\ d % 128 = d
    BY <2>1
  <2> QED BY <1>1, <2>1, <2>2 DEF Byte, d
<1>5. w \in [1..D -> Byte]
  <2>1. w = [i \in 1..D |-> w[i]]
    BY DEF WriteRemainlen
  <2> HIDE DEF w, D
  <2> QED BY <1>4, <2>1
<1>6. w \in Seq(Byte) /\ DOMAIN w = 1..D
  <2> HIDE DEF w
  <2> QED BY <1>1, <1>5
<1>7. Len(w) = D
  <2> HIDE DEF w
  <2> QED BY <1>1, <1>6
<1> QED BY <1>4, <1>6, <1>7

\* What four digits can say is written with at most four.
LEMMA FourDigits ==
  ASSUME NEW n \in Nat, n < Weight[5]
  PROVE  /\ DigitCount(n) \in 1..4
         /\ WriteRemainlen(n) \in Seq(Byte) /\ Len(WriteRemainlen(n)) = DigitCount(n)
<1>1. DigitCount(n) \in 1..5 /\ DigitCount(n) # 5
  BY DigitCountOf
<1>2. WriteRemainlen(n) \in Seq(Byte) /\ Len(WriteRemainlen(n)) = DigitCount(n)
  BY Written
<1> QED BY <1>1, <1>2

\* A number below 128^4 is the sum of its digits.
LEMMA SumOfDigits ==
  ASSUME NEW n \in Nat, n < Weight[5]
  PROVE  n = Digit(n, 1) * 1 + Digit(n, 2) * 128 + Digit(n, 3) * 16384 + Digit(n, 4) * 2097152
BY Weights, SMTT(60) DEF Digit

\* Digits behind the last one are 0.
LEMMA NoMoreDigits ==
  ASSUME NEW n \in Nat, NEW i \in 1..4, i > DigitCount(n)
  PROVE  Digit(n, i) = 0
<1>1. n < Weight[DigitCount(n) + 1] /\ DigitCount(n) \in 1..3
  BY DigitCountOf
<1>2. n < Weight[i]
  BY <1>1, Weights
<1>3. n \div Weight[i] = 0
  BY <1>2, Weights
<1> QED BY <1>3 DEF Digit

\* From position pos on, b goes on with w, as far as b reaches.
Agrees(b, pos, w) == \A i \in 1..Len(w) : pos + i <= Len(b) => b[pos + i] = w[i]

LEMMA LastDigitOf ==
  ASSUME NEW b \in Seq(Byte), NEW pos \in Nat
  PROVE  /\ LastDigit(b, pos) \in 1..5
         /\ LastDigit(b, pos) # 5 =>
              pos + LastDigit(b, pos) <= Len(b) /\ b[pos + LastDigit(b, pos)] < 128
         /\ \A i \in 1..4 : pos + i <= Len(b) /\ b[pos + i] < 128 => LastDigit(b, pos) <= i
<1> DEFINE S == {i \in 1..4 : pos + i <= Len(b) /\ b[pos + i] < 128} \cup {5}
<1>1. S \subseteq 1..5 /\ 5 \in S
  OBVIOUS
<1>2. LastDigit(b, pos) \in S /\ \A y \in S : LastDigit(b, pos) <= y
  BY <1>1, MinOf DEF LastDigit
<1> QED BY <1>1, <1>2

\* A length field that is all there is read as the number that was written.
LEMMA LengthRead ==
  ASSUME NEW n \in Nat, n < Weight[5], NEW b \in Seq(Byte), NEW pos \in Nat,
         Agrees(b, pos, WriteRemainlen(n)), pos + DigitCount(n) <= Len(b)
  PROVE  LastDigit(b, pos) = DigitCount(n) /\ Value(b, pos, DigitCount(n)) = n
<1> DEFINE D == DigitCount(n)
<1>1. D \in 1..4
  BY DigitCountOf
<1>2. \A i \in 1..D : b[pos + i] % 128 = Digit(n, i) /\ (b[pos + i] < 128 <=> i = D)
  <2>1. Len(WriteRemainlen(n)) = D
    BY Written
  <2>2. \A i \in 1..D : b[pos + i] = WriteRemainlen(n)[i]
    <3>1. pos + D <= Len(b) /\ Len(b) \in Nat
      OBVIOUS
    <3> HIDE DEF D
    <3> QED BY <1>1, <2>1, <3>1 DEF Agrees
  <2> QED BY <2>2, Written
<1>3. LastDigit(b, pos) = D
  BY <1>1, <1>2, LastDigitOf
<1>4. \A i \in 1..4 : (IF i <= D THEN (b[pos + i] % 128) * Weight[i] ELSE 0) = Digit(n, i) * Weight[i]
  <2> SUFFICES ASSUME NEW i \in 1..4
               PROVE  (IF i <= D THEN (b[pos + i] % 128) * Weight[i] ELSE 0) = Digit(n, i) * Weight[i]
    OBVIOUS
  <2>1. CASE i <= D
    <3>1. b[pos + i] % 128 = Digit(n, i)
      BY <1>1, <1>2, <2>1
    <3> QED BY <3>1, <2>1
  <2>2. CASE ~(i <= D)
    <3>1. Digit(n, i) = 0
      BY <1>1, <2>2, NoMoreDigits
    <3> QED BY <3>1, <2>2, WeightType
  <2> QED BY <2>1, <2>2
<1>5. Value(b, pos, D) = Digit(n, 1) * Weight[1] + Digit(n, 2) * Weight[2]
                         + Digit(n, 3) * Weight[3] + Digit(n, 4) * Weight[4]
  <2> HIDE DEF D
  <2> QED BY <1>4 DEF Value
<1>6. Value(b, pos, D) = n
  BY <1>5, SumOfDigits, Weights
<1> QED BY <1>3, <1>6

\* One that is not, or has more than four digits, is not read.
LEMMA LengthNotRead ==
  ASSUME NEW n \in Nat, NEW b \in Seq(Byte), NEW pos \in Nat,
         Agrees(b, pos, WriteRemainlen(n)),
         n >= Weight[5] \/ Len(b) < pos + DigitCount(n)
  PROVE  LastDigit(b, pos) = 5
<1> DEFINE D == DigitCount(n)
<1>1. D \in 1..5 /\ (n >= Weight[5] => D = 5)
  <2>1. n >= Weight[5] => \A i \in 1..4 : n >= Weight[i + 1]
    BY Weights
  <2>2. D # 5 => n < Weight[D + 1]
    BY DigitCountOf
  <2>3. D \in 1..5
    BY DigitCountOf
  <2> QED BY <2>1, <2>2, <2>3, Weights
<1>2. \A i \in 1..4 : pos + i <= Len(b) => ~(b[pos + i] < 128)
  <2> SUFFICES ASSUME NEW i \in 1..4, pos + i <= Len(b) PROVE ~(b[pos + i] < 128)
    OBVIOUS
  <2>1. i < D
    BY <1>1
  <2>2. i \in 1..Len(WriteRemainlen(n)) /\ i \in 1..D /\ i # D
    <3>1. Len(WriteRemainlen(n)) = D
      BY Written
    <3> HIDE DEF D
    <3> QED BY <1>1, <2>1, <3>1
  <2>3. b[pos + i] = WriteRemainlen(n)[i]
    BY <2>2 DEF Agrees
  <2>4. WriteRemainlen(n)[i] < 128 <=> i = D
    BY <2>2, Written
  <2> HIDE DEF D
  <2>5. ~(WriteRemainlen(n)[i] < 128)
    BY <2>2, <2>4
  <2> QED BY <2>3, <2>5
<1>3. LastDigit(b, pos) \notin 1..4
  BY <1>2, LastDigitOf
<1>4. LastDigit(b, pos) \in 1..5
  BY LastDigitOf
<1> QED BY <1>3, <1>4

\* Whatever number WriteRemainlen writes, ReadRemainlen reads it back, unless it
\* takes five digits, which ReadRemainlen refuses.
THEOREM LengthFieldSurvives ==
  \A n \in Nat : ReadRemainlen(WriteRemainlen(n), 0) =
                   IF n < Weight[5] THEN [val |-> n, pos |-> DigitCount(n)] ELSE Failed
<1> SUFFICES ASSUME NEW n \in Nat
             PROVE  ReadRemainlen(WriteRemainlen(n), 0) =
                      IF n < Weight[5] THEN [val |-> n, pos |-> DigitCount(n)] ELSE Failed
  OBVIOUS
<1> DEFINE w == WriteRemainlen(n)
<1>1. w \in Seq(Byte) /\ Len(w) = DigitCount(n) /\ DigitCount(n) \in 1..5
  BY Written, DigitCountOf
<1>2. Agrees(w, 0, w)
  BY <1>1 DEF Agrees
<1>3. CASE n < Weight[5]
  <2>1. LastDigit(w, 0) = DigitCount(n) /\ Value(w, 0, DigitCount(n)) = n
    BY <1>1, <1>2, <1>3, LengthRead
  <2>2. DigitCount(n) # 5
    BY <1>3, DigitCountOf
  <2> QED BY <1>1, <1>3, <2>1, <2>2 DEF ReadRemainlen
<1>4. CASE ~(n < Weight[5])
  <2>1. LastDigit(w, 0) = 5
    BY <1>1, <1>2, <1>4, LengthNotRead, Weights
  <2> QED BY <1>4, <2>1 DEF ReadRemainlen
<1> QED BY <1>3, <1>4
-----------------------------------------------------------------------------
(* Frames *)

LEMMA Glued ==
  ASSUME NEW s \in Seq(Byte), NEW t \in Seq(Byte)
  PROVE  /\ s \o t \in Seq(Byte)
         /\ Len(s \o t) = Len(s) + Len(t)
         /\ \A i \in 1..Len(s) : (s \o t)[i] = s[i]
         /\ \A i \in 1..Len(t) : (s \o t)[Len(s) + i] = t[i]
<1>1. s \o t \in Seq(Byte) /\ Len(s \o t) = Len(s) + Len(t)
  BY ConcatProperties
<1>2. \A i \in 1..(Len(s) + Len(t)) : (s \o t)[i] = IF i <= Len(s) THEN s[i] ELSE t[i - Len(s)]
  BY ConcatProperties
<1>3. Len(s) \in Nat /\ Len(t) \in Nat
  OBVIOUS
<1> QED BY <1>1, <1>2, <1>3

\* A packet whose length field counts the bytes that follow it.
IsFrame(f) ==
  \E n \in Nat : /\ n < Weight[5]
                 /\ f \in Seq(Byte) /\ Len(f) = 1 + DigitCount(n) + n
                 /\ Agrees(f, 1, WriteRemainlen(n))

\* A buffer that starts with a packet, or with the part of it that has arrived:
\* the packet is found when it is complete and not before.
LEMMA FrameIsFound ==
  ASSUME NEW f, IsFrame(f), NEW b \in Seq(Byte),
         \A i \in 1..Len(f) : i <= Len(b) => b[i] = f[i]
  PROVE  IsPkgComplete(b) = IF Len(f) <= Len(b) THEN Len(f) ELSE 0
<1>1. PICK n \in Nat : /\ n < Weight[5]
                       /\ f \in Seq(Byte) /\ Len(f) = 1 + DigitCount(n) + n
                       /\ Agrees(f, 1, WriteRemainlen(n))
  BY DEF IsFrame
<1>2. DigitCount(n) \in 1..4 /\ Len(WriteRemainlen(n)) = DigitCount(n)
  BY <1>1, FourDigits
<1>3. Len(b) \in Nat
  OBVIOUS
<1>4. Agrees(b, 1, WriteRemainlen(n))
  <2> SUFFICES ASSUME NEW i \in 1..DigitCount(n), 1 + i <= Len(b)
               PROVE  b[1 + i] = WriteRemainlen(n)[i]
    BY <1>2 DEF Agrees
  <2>1. 1 + i \in 1..Len(f)
    BY <1>1, <1>2
  <2>2. f[1 + i] = WriteRemainlen(n)[i]
    BY <1>1, <1>2, <2>1 DEF Agrees
  <2> QED BY <2>1, <2>2
<1>5. CASE Len(b) < 1 + DigitCount(n)
  <2>1. LastDigit(b, 1) = 5
    BY <1>4, <1>5, LengthNotRead
  <2> QED BY <1>1, <1>2, <1>3, <1>5, <2>1 DEF IsPkgComplete
<1>6. CASE 1 + DigitCount(n) <= Len(b)
  <2>1. LastDigit(b, 1) = DigitCount(n) /\ Value(b, 1, DigitCount(n)) = n
    BY <1>1, <1>4, <1>6, LengthRead
  <2> QED BY <1>1, <1>2, <1>3, <1>6, <2>1 DEF IsPkgComplete
<1> QED BY <1>2, <1>3, <1>5, <1>6

LEMMA FrameBuilt ==
  ASSUME NEW t \in Byte, NEW rest \in Seq(Byte), Len(rest) < Weight[5]
  PROVE  LET f == <<t>> \o WriteRemainlen(Len(rest)) \o rest
             k == 1 + DigitCount(Len(rest))
         IN /\ IsFrame(f)
            /\ Agrees(f, 1, WriteRemainlen(Len(rest)))
            /\ f \in Seq(Byte) /\ Len(f) = k + Len(rest)
            /\ f[1] = t
            /\ \A i \in 1..Len(rest) : f[k + i] = rest[i]
<1> DEFINE n == Len(rest)
           w == WriteRemainlen(n)
           h == <<t>> \o w
           f == h \o rest
<1>1. n \in Nat /\ w \in Seq(Byte) /\ Len(w) = DigitCount(n) /\ DigitCount(n) \in 1..4
  BY FourDigits
<1>2. <<t>> \in Seq(Byte) /\ Len(<<t>>) = 1 /\ <<t>>[1] = t
  OBVIOUS
<1>3. /\ h \in Seq(Byte) /\ Len(h) = 1 + Len(w) /\ h[1] = t
      /\ \A i \in 1..Len(w) : h[1 + i] = w[i]
  <2> HIDE DEF w
  <2> QED BY <1>1, <1>2, Glued
<1>4. /\ f \in Seq(Byte) /\ Len(f) = Len(h) + n
      /\ \A i \in 1..Len(h) : f[i] = h[i]
      /\ \A i \in 1..n : f[Len(h) + i] = rest[i]
  <2> HIDE DEF h
  <2> QED BY <1>3, Glued
<1>5. Agrees(f, 1, w) /\ f[1] = t
  <2> HIDE DEF f, h, w
  <2> QED BY <1>1, <1>3, <1>4 DEF Agrees
<1>6. IsFrame(f)
  <2> HIDE DEF f, h
  <2> QED BY <1>1, <1>3, <1>4, <1>5 DEF IsFrame
<1> QED BY <1>1, <1>3, <1>4, <1>5, <1>6
-----------------------------------------------------------------------------
(* Commands and responses *)

\* An identifier or a body.
Str == {s \in Seq(Byte) : Len(s) <= 65535}

\* What follows the length field of a command or a response.
Fields(id, body) ==
  WriteStr(id) \o (IF body = <<>> THEN <<>> ELSE WriteUint32(Len(body)) \o body)
Command(t, id, body) ==
  <<t>> \o WriteRemainlen(Len(Fields(id, body))) \o Fields(id, body)

LEMMA SmallModulo == \A q \in 0..255 : q % 256 = q
OBVIOUS

LEMMA Uint16 ==
  ASSUME NEW n \in Nat, n <= 65535
  PROVE  /\ WriteUint16(n) \in Seq(Byte) /\ Len(WriteUint16(n)) = 2
         /\ WriteUint16(n)[1] * 256 + WriteUint16(n)[2] = n
<1> DEFINE q == n \div 256
           r == n % 256
<1>1. q \in 0..255 /\ r \in 0..255 /\ q * 256 + r = n
  OBVIOUS
<1>2. q % 256 = q
  <2>1. q \in 0..255
    BY <1>1
  <2> HIDE DEF q
  <2> QED BY ONLY <2>1, SmallModulo, Zenon
<1>3. WriteUint16(n) = <<q, r>>
  BY <1>2 DEF WriteUint16
<1>4. <<q, r>> \in Seq(Byte) /\ Len(<<q, r>>) = 2 /\ <<q, r>>[1] = q /\ <<q, r>>[2] = r
  <2> HIDE DEF q, r
  <2> QED BY <1>1 DEF Byte
<1> HIDE DEF q, r
<1> QED BY <1>1, <1>3, <1>4

LEMMA StrWritten ==
  ASSUME NEW s \in Str
  PROVE  /\ WriteStr(s) \in Seq(Byte) /\ Len(WriteStr(s)) = 2 + Len(s)
         /\ WriteStr(s)[1] * 256 + WriteStr(s)[2] = Len(s)
         /\ \A i \in 1..Len(s) : WriteStr(s)[2 + i] = s[i]
<1> DEFINE u == WriteUint16(Len(s))
<1>1. s \in Seq(Byte) /\ Len(s) \in Nat /\ Len(s) <= 65535
  BY DEF Str
<1>2. u \in Seq(Byte) /\ Len(u) = 2 /\ u[1] * 256 + u[2] = Len(s)
  BY <1>1, Uint16
<1>3. WriteStr(s) = u \o s
  BY DEF WriteStr
<1> HIDE DEF u
<1>4. /\ u \o s \in Seq(Byte) /\ Len(u \o s) = Len(u) + Len(s)
      /\ \A i \in 1..Len(u) : (u \o s)[i] = u[i]
      /\ \A i \in 1..Len(s) : (u \o s)[Len(u) + i] = s[i]
  <2>1. u \in Seq(Byte) /\ s \in Seq(Byte)
    BY <1>1, <1>2
  <2> QED BY <2>1, Glued
<1>5. (u \o s)[1] = u[1] /\ (u \o s)[2] = u[2]
  BY <1>2, <1>4
<1> QED BY <1>2, <1>3, <1>4, <1>5

LEMMA Uint32 ==
  ASSUME NEW n \in Nat, n <= 65535
  PROVE  /\ WriteUint32(n) \in Seq(Byte) /\ Len(WriteUint32(n)) = 4
         /\ WriteUint32(n)[1] * 256 + WriteUint32(n)[2] = 0
         /\ WriteUint32(n)[3] * 256 + WriteUint32(n)[4] = n
<1> DEFINE h == WriteUint16(0)
           l == WriteUint16(n)
<1>1. n \div 65536 = 0 /\ n % 65536 = n
  OBVIOUS
<1>2. WriteUint32(n) = h \o l
  BY <1>1 DEF WriteUint32
<1>3. h \in Seq(Byte) /\ Len(h) = 2 /\ h[1] * 256 + h[2] = 0
  BY Uint16
<1>4. l \in Seq(Byte) /\ Len(l) = 2 /\ l[1] * 256 + l[2] = n
  BY Uint16
<1> HIDE DEF h, l
<1>5. /\ h \o l \in Seq(Byte) /\ Len(h \o l) = 4
      /\ \A i \in 1..2 : (h \o l)[i] = h[i]
      /\ \A i \in 1..2 : (h \o l)[2 + i] = l[i]
  <2>1. h \in Seq(Byte) /\ l \in Seq(Byte)
    BY <1>3, <1>4
  <2>2. /\ h \o l \in Seq(Byte) /\ Len(h \o l) = Len(h) + Len(l)
        /\ \A i \in 1..Len(h) : (h \o l)[i] = h[i]
        /\ \A i \in 1..Len(l) : (h \o l)[Len(h) + i] = l[i]
    BY <2>1, Glued
  <2> QED BY <1>3, <1>4, <2>2
<1>6. /\ (h \o l)[1] = h[1] /\ (h \o l)[2] = h[2]
      /\ (h \o l)[3] = l[1] /\ (h \o l)[4] = l[2]
  BY <1>5
<1> QED BY <1>2, <1>3, <1>4, <1>5, <1>6

LEMMA FieldsWritten ==
  ASSUME NEW id \in Str, NEW body \in Str
  PROVE  LET c == Fields(id, body)
             k == 2 + Len(id)
         IN /\ c \in Seq(Byte) /\ Len(c) < Weight[5]
            /\ Len(c) = IF body = <<>> THEN k ELSE k + 4 + Len(body)
            /\ c[1] * 256 + c[2] = Len(id)
            /\ \A i \in 1..Len(id) : c[2 + i] = id[i]
            /\ body # <<>> => /\ c[k + 1] * 256 + c[k + 2] = 0
                              /\ c[k + 3] * 256 + c[k + 4] = Len(body)
                              /\ \A i \in 1..Len(body) : c[k + 4 + i] = body[i]
<1> DEFINE s == WriteStr(id)
           u == WriteUint32(Len(body))
           v == u \o body
           k == 2 + Len(id)
<1>1. /\ id \in Seq(Byte) /\ body \in Seq(Byte)
      /\ Len(id) \in Nat /\ Len(id) <= 65535 /\ Len(body) \in Nat /\ Len(body) <= 65535
  BY DEF Str
<1>2. /\ s \in Seq(Byte) /\ Len(s) = k
      /\ s[1] * 256 + s[2] = Len(id) /\ \A i \in 1..Len(id) : s[2 + i] = id[i]
  BY StrWritten
<1>3. /\ u \in Seq(Byte) /\ Len(u) = 4
      /\ u[1] * 256 + u[2] = 0 /\ u[3] * 256 + u[4] = Len(body)
  BY <1>1, Uint32
<1>4. /\ v \in Seq(Byte) /\ Len(v) = 4 + Len(body)
      /\ v[1] = u[1] /\ v[2] = u[2] /\ v[3] = u[3] /\ v[4] = u[4]
      /\ \A i \in 1..Len(body) : v[4 + i] = body[i]
  <2> HIDE DEF u
  <2>1. u \in Seq(Byte) /\ body \in Seq(Byte)
    BY <1>1, <1>3
  <2>2. /\ u \o body \in Seq(Byte) /\ Len(u \o body) = Len(u) + Len(body)
        /\ \A i \in 1..Len(u) : (u \o body)[i] = u[i]
        /\ \A i \in 1..Len(body) : (u \o body)[Len(u) + i] = body[i]
    BY <2>1, Glued
  <2>3. /\ (u \o body)[1] = u[1] /\ (u \o body)[2] = u[2]
        /\ (u \o body)[3] = u[3] /\ (u \o body)[4] = u[4]
    BY <1>3, <2>2
  <2> QED BY <1>3, <2>2, <2>3
<1>5. CASE body = <<>>
  <2>1. Fields(id, body) = s \o <<>>
    BY <1>5 DEF Fields
  <2>2. s \o <<>> = s
    BY <1>2, ConcatEmptySeq
  <2> HIDE DEF s
  <2> QED BY <1>1, <1>2, <1>5, <2>1, <2>2, Weights
<1>6. CASE body # <<>>
  <2>1. Fields(id, body) = s \o v
    BY <1>6 DEF Fields
  <2> HIDE DEF s, v, u
  <2>2. /\ s \o v \in Seq(Byte) /\ Len(s \o v) = k + 4 + Len(body)
        /\ \A i \in 1..k : (s \o v)[i] = s[i]
        /\ \A i \in 1..(4 + Len(body)) : (s \o v)[k + i] = v[i]
    <3>1. s \in Seq(Byte) /\ v \in Seq(Byte)
      BY <1>2, <1>4
    <3>2. /\ s \o v \in Seq(Byte) /\ Len(s \o v) = Len(s) + Len(v)
          /\ \A i \in 1..Len(s) : (s \o v)[i] = s[i]
          /\ \A i \in 1..Len(v) : (s \o v)[Len(s) + i] = v[i]
      BY <3>1, Glued
    <3> QED BY <1>1, <1>2, <1>4, <3>2
  <2>3. /\ (s \o v)[1] = s[1] /\ (s \o v)[2] = s[2]
        /\ \A i \in 1..Len(id) : (s \o v)[2 + i] = id[i]
    BY <1>1, <1>2, <2>2
  <2>4. /\ (s \o v)[k + 1] = v[1] /\ (s \o v)[k + 2] = v[2]
        /\ (s \o v)[k + 3] = v[3] /\ (s \o v)[k + 4] = v[4]
    <3>1. /\ 1 \in 1..(4 + Len(body)) /\ 2 \in 1..(4 + Len(body))
          /\ 3 \in 1..(4 + Len(body)) /\ 4 \in 1..(4 + Len(body))
      BY <1>1
    <3> QED BY <2>2, <3>1
  <2>5. \A i \in 1..Len(body) : (s \o v)[k + 4 + i] = body[i]
    <3> SUFFICES ASSUME NEW i \in 1..Len(body) PROVE (s \o v)[k + 4 + i] = body[i]
      OBVIOUS
    <3>1. 4 + i \in 1..(4 + Len(body)) /\ k + (4 + i) = k + 4 + i
      BY <1>1
    <3> QED BY <1>4, <2>2, <3>1
  <2>6. Len(s \o v) < Weight[5]
    BY <1>1, <2>2, Weights
  <2> DEFINE w == s \o v
  <2>7. w[1] * 256 + w[2] = Len(id)
    BY <1>2, <2>3
  <2>8. w[k + 1] * 256 + w[k + 2] = 0 /\ w[k + 3] * 256 + w[k + 4] = Len(body)
    BY <1>3, <1>4, <2>4
  <2>9. /\ w \in Seq(Byte) /\ Len(w) < Weight[5] /\ Len(w) = k + 4 + Len(body)
        /\ \A i \in 1..Len(id) : w[2 + i] = id[i]
        /\ \A i \in 1..Len(body) : w[k + 4 + i] = body[i]
    BY <2>2, <2>3, <2>5, <2>6
  <2> HIDE DEF w, k
  <2>10. Fields(id, body) = w
    BY <2>1 DEF w
  <2> QED BY <1>6, <2>7, <2>8, <2>9, <2>10, Zenon DEF k
<1> QED BY <1>5, <1>6

LEMMA CommandBuilt ==
  ASSUME NEW t \in Byte, NEW id \in Str, NEW body \in Str
  PROVE  LET p == Command(t, id, body)
             n == Len(Fields(id, body))
             k == 1 + DigitCount(n)
         IN /\ IsFrame(p) /\ p \in Seq(Byte) /\ Len(p) = k + n /\ p[1] = t
            /\ ReadRemainlen(p, 1) = [val |-> n, pos |-> k]
            /\ k \in Nat \ {0} /\ n = IF body = <<>> THEN 2 + Len(id) ELSE 6 + Len(id) + Len(body)
            /\ \A i \in 1..n : p[k + i] = Fields(id, body)[i]
<1> DEFINE c == Fields(id, body)
           n == Len(c)
           k == 1 + DigitCount(n)
           p == <<t>> \o WriteRemainlen(n) \o c
<1>1. c \in Seq(Byte) /\ n < Weight[5] /\ n = IF body = <<>> THEN 2 + Len(id) ELSE 6 + Len(id) + Len(body)
  <2>1. c \in Seq(Byte) /\ n < Weight[5]
        /\ n = IF body = <<>> THEN 2 + Len(id) ELSE 2 + Len(id) + 4 + Len(body)
    BY FieldsWritten
  <2>2. Len(id) \in Nat /\ Len(body) \in Nat
    BY DEF Str
  <2> HIDE DEF c
  <2> QED BY <2>1, <2>2
<1> HIDE DEF c
<1>2. n \in Nat
  BY <1>1
<1>3. DigitCount(n) \in 1..4
  BY <1>1, <1>2, FourDigits
<1>4. /\ IsFrame(p) /\ p \in Seq(Byte) /\ Len(p) = k + n /\ p[1] = t
      /\ Agrees(p, 1, WriteRemainlen(n))
      /\ \A i \in 1..n : p[k + i] = c[i]
  BY <1>1, FrameBuilt
<1>6. LastDigit(p, 1) = DigitCount(n) /\ Value(p, 1, DigitCount(n)) = n
  <2>1. 1 + DigitCount(n) <= Len(p)
    BY <1>2, <1>3, <1>4
  <2> HIDE DEF p, n
  <2> QED BY <1>1, <1>2, <1>4, <2>1, LengthRead
<1>7. ReadRemainlen(p, 1) = [val |-> n, pos |-> k]
  <2> HIDE DEF p
  <2> QED BY <1>3, <1>6 DEF ReadRemainlen
<1>8. Command(t, id, body) = p
  BY DEF Command, c
<1> HIDE DEF p
<1> QED BY <1>1, <1>3, <1>4, <1>7, <1>8 DEF c

LEMMA CutOut ==
  ASSUME NEW s \in Seq(Byte), NEW p \in Seq(Byte), NEW k \in Nat, k + Len(s) <= Len(p),
         \A i \in 1..Len(s) : p[k + i] = s[i]
  PROVE  SubSeq(p, k + 1, k + Len(s)) = s
<1> DEFINE u == SubSeq(p, k + 1, k + Len(s))
<1>1. Len(s) \in Nat /\ Len(p) \in Nat
  OBVIOUS
<1>2. \A i \in (k + 1)..(k + Len(s)) : p[i] \in Byte
  BY <1>1
<1>3. /\ u \in Seq(Byte)
      /\ Len(u) = IF k + 1 <= k + Len(s) THEN k + Len(s) - (k + 1) + 1 ELSE 0
      /\ \A i \in 1..(k + Len(s) - (k + 1) + 1) : u[i] = p[k + 1 + i - 1]
  BY <1>1, <1>2, SubSeqProperties
<1> HIDE DEF u
<1>4. Len(u) = Len(s) /\ \A i \in 1..Len(s) : u[i] = s[i]
  <2>1. k + Len(s) - (k + 1) + 1 = Len(s) /\ \A i \in 1..Len(s) : k + 1 + i - 1 = k + i
    BY <1>1
  <2> QED BY <1>1, <1>3, <2>1
<1>5. u = s
  BY <1>3, <1>4, SeqEqual
<1> QED BY <1>5 DEF u

\* What was written into a command or a response is read out of it; without a
\* body it is refused.
LEMMA CommandRead ==
  ASSUME NEW t \in Byte, NEW id \in Str, NEW body \in Str
  PROVE  UnpackCmdReq(Command(t, id, body)) =
           IF body = <<>> THEN [rc |-> -1, id |-> <<>>, body |-> <<>>]
           ELSE [rc |-> 0, id |-> id, body |-> body]
<1> DEFINE c == Fields(id, body)
           n == Len(c)
           k == 1 + DigitCount(n)
           p == Command(t, id, body)
           l == 2 + Len(id)
<1>1. /\ id \in Seq(Byte) /\ body \in Seq(Byte) /\ Len(id) \in Nat /\ Len(body) \in Nat
  BY DEF Str
<1>2. /\ p \in Seq(Byte) /\ Len(p) = k + n
      /\ ReadRemainlen(p, 1) = [val |-> n, pos |-> k]
      /\ k \in Nat \ {0} /\ n = IF body = <<>> THEN 2 + Len(id) ELSE 6 + Len(id) + Len(body)
      /\ \A i \in 1..n : p[k + i] = c[i]
  BY CommandBuilt
<1>3. /\ c[1] * 256 + c[2] = Len(id)
      /\ \A i \in 1..Len(id) : c[2 + i] = id[i]
      /\ body # <<>> => /\ c[l + 1] * 256 + c[l + 2] = 0
                        /\ c[l + 3] * 256 + c[l + 4] = Len(body)
                        /\ \A i \in 1..Len(body) : c[l + 4 + i] = body[i]
  BY FieldsWritten
<1> HIDE DEF c, p, k
<1>4. ReadUint16(p, k) = [val |-> Len(id), pos |-> k + 2]
  <2>1. p[k + 1] = c[1] /\ p[k + 2] = c[2] /\ k + 2 <= Len(p)
    BY <1>1, <1>2
  <2> QED BY <1>2, <1>3, <2>1 DEF ReadUint16
<1>5. ReadBytes(p, k + 2, Len(id)) = [val |-> id, pos |-> k + l]
  <2>1. k + 2 + Len(id) <= Len(p) /\ k + 2 \in Nat
    BY <1>1, <1>2
  <2>2. \A i \in 1..Len(id) : p[k + 2 + i] = id[i]
    <3> SUFFICES ASSUME NEW i \in 1..Len(id) PROVE p[k + 2 + i] = id[i]
      OBVIOUS
    <3>1. 2 + i \in 1..n /\ k + (2 + i) = k + 2 + i
      BY <1>1, <1>2
    <3> QED BY <1>2, <1>3, <3>1
  <2>3. SubSeq(p, k + 2 + 1, k + 2 + Len(id)) = id
    BY <1>1, <1>2, <2>1, <2>2, CutOut
  <2>4. ~(k + 2 + Len(id) > Len(p)) /\ k + 2 + Len(id) = k + l
    BY <1>1, <1>2, <2>1
  <2> QED BY <2>3, <2>4 DEF ReadBytes
<1>6. CASE body = <<>>
  <2>1. ReadUint32(p, k + l) = Failed
    <3>1. k + l = Len(p) /\ k + l \in Nat
      BY <1>1, <1>2, <1>6
    <3>2. k + l + 4 > Len(p)
      BY <3>1
    <3> QED BY <3>2 DEF ReadUint32
  <2> DEFINE rem   == ReadRemainlen(p, 1)
             idlen == ReadUint16(p, rem.pos)
             ident == ReadBytes(p, idlen.pos, idlen.val)
             len   == ReadUint32(p, ident.pos)
             text  == ReadBytes(p, len.pos, len.val)
  <2>2. rem.pos = k
    BY <1>2
  <2>3. idlen.pos = k + 2 /\ idlen.val = Len(id)
    BY <1>4, <2>2
  <2>4. ident.pos = k + l
    BY <1>5, <2>3
  <2>5. len.pos = -1
    BY <2>1, <2>4 DEF Failed
  <2>6. len.pos = -1 => UnpackCmdReq(p) = [rc |-> -1, id |-> <<>>, body |-> <<>>]
    BY DEF UnpackCmdReq
  <2> HIDE DEF rem, idlen, ident, len, text, l
  <2> QED BY <1>6, <2>5, <2>6 DEF p
<1>7. CASE body # <<>>
  <2>0. k + l + 4 + Len(body) <= Len(p) /\ k + l \in Nat /\ k + l + 4 \in Nat
    BY <1>1, <1>2, <1>7
  <2>1. ReadUint32(p, k + l) = [val |-> Len(body), pos |-> k + l + 4]
    <3>1. /\ p[k + l + 1] = c[l + 1] /\ p[k + l + 2] = c[l + 2]
          /\ p[k + l + 3] = c[l + 3] /\ p[k + l + 4] = c[l + 4]
      <4>1. /\ l + 1 \in 1..n /\ l + 2 \in 1..n /\ l + 3 \in 1..n /\ l + 4 \in 1..n
            /\ k + (l + 1) = k + l + 1 /\ k + (l + 2) = k + l + 2
            /\ k + (l + 3) = k + l + 3 /\ k + (l + 4) = k + l + 4
        BY <1>1, <1>2, <1>7
      <4> QED BY <1>2, <4>1
    <3>2. ReadUint16(p, k + l) = [val |-> 0, pos |-> k + l + 2]
      BY <1>1, <1>2, <1>3, <1>7, <2>0, <3>1, SMTT(30) DEF ReadUint16
    <3>3. ReadUint16(p, k + l + 2) = [val |-> Len(body), pos |-> k + l + 4]
      BY <1>1, <1>2, <1>3, <1>7, <2>0, <3>1, SMTT(30) DEF ReadUint16
    <3>4. ~(k + l + 4 > Len(p)) /\ 0 * 65536 + Len(body) = Len(body)
      BY <1>1, <2>0
    <3> QED BY <3>2, <3>3, <3>4 DEF ReadUint32
  <2>2. ReadBytes(p, k + l + 4, Len(body)) = [val |-> body, pos |-> k + l + 4 + Len(body)]
    <3>1. \A i \in 1..Len(body) : p[k + l + 4 + i] = body[i]
      <4> SUFFICES ASSUME NEW i \in 1..Len(body) PROVE p[k + l + 4 + i] = body[i]
        OBVIOUS
      <4>1. l + 4 + i \in 1..n /\ k + (l + 4 + i) = k + l + 4 + i
        BY <1>1, <1>2, <1>7
      <4> QED BY <1>2, <1>3, <1>7, <4>1
    <3>2. SubSeq(p, k + l + 4 + 1, k + l + 4 + Len(body)) = body
      BY <1>1, <1>2, <2>0, <3>1, CutOut
    <3>3. ~(k + l + 4 + Len(body) > Len(p))
      BY <1>1, <1>2, <2>0
    <3> QED BY <3>2, <3>3 DEF ReadBytes
  <2>3. k # -1 /\ k + 2 # -1 /\ k + l # -1 /\ k + l + 4 # -1 /\ k + l + 4 + Len(body) # -1
    BY <1>1, <1>2
  <2> DEFINE rem   == ReadRemainlen(p, 1)
             idlen == ReadUint16(p, rem.pos)
             ident == ReadBytes(p, idlen.pos, idlen.val)
             len   == ReadUint32(p, ident.pos)
             text  == ReadBytes(p, len.pos, len.val)
  <2>4. rem.pos = k
    BY <1>2
  <2>5. idlen.pos = k + 2 /\ idlen.val = Len(id)
    BY <1>4, <2>4
  <2>6. ident.pos = k + l /\ ident.val = id
    BY <1>5, <2>5
  <2>7. len.pos = k + l + 4 /\ len.val = Len(body)
    BY <2>1, <2>6
  <2>8. text.pos = k + l + 4 + Len(body) /\ text.val = body
    BY <2>2, <2>7
  <2>9. UnpackCmdReq(p) =
          IF rem.pos = -1 \/ idlen.pos = -1 \/ ident.pos = -1 \/ len.pos = -1 \/ text.pos = -1
          THEN [rc |-> -1, id |-> <<>>, body |-> <<>>]
          ELSE [rc |-> 0, id |-> ident.val, body |-> text.val]
    BY DEF UnpackCmdReq
  <2> HIDE DEF rem, idlen, ident, len, text, l
  <2>10. UnpackCmdReq(p) = [rc |-> 0, id |-> id, body |-> body]
    BY <2>3, <2>4, <2>5, <2>6, <2>7, <2>8, <2>9
  <2> QED BY <1>7, <2>10 DEF p
<1> QED BY <1>6, <1>7
-----------------------------------------------------------------------------
(* The packets of the device and of the cloud *)

LEMMA Strings == Ids \subseteq Str /\ Bodies \subseteq Str /\ src_dev \in Str /\ dst_dev \in Str
BY CodecAssumption DEF Str

\* A response is laid out like a command.
LEMMA ResponseIsCommand ==
  ASSUME NEW id \in Str, NEW resp \in Str
  PROVE  PacketCmdResp(id, resp) = Command(CMDRESP, id, resp)
<1> DEFINE c == Fields(id, resp)
           s == WriteStr(id)
           v == IF resp = <<>> THEN <<>> ELSE WriteUint32(Len(resp)) \o resp
<1>1. /\ Len(c) = IF resp = <<>> THEN 2 + Len(id) ELSE 2 + Len(id) + 4 + Len(resp)
      /\ c \in Seq(Byte) /\ Len(c) < Weight[5]
  BY FieldsWritten
<1>2. Len(id) \in Nat /\ Len(resp) \in Nat /\ resp \in Seq(Byte)
  BY DEF Str
<1>3. Len(id) + Len(resp) + (IF resp = <<>> THEN 2 ELSE 6) = Len(c)
  <2> HIDE DEF c
  <2> QED BY <1>1, <1>2
<1> DEFINE h == <<CMDRESP>> \o WriteRemainlen(Len(c))
<1>4. h \in Seq(Byte)
  <2>1. WriteRemainlen(Len(c)) \in Seq(Byte)
    BY <1>1, FourDigits
  <2>2. <<CMDRESP>> \in Seq(Byte)
    BY DEF CMDRESP, Byte
  <2> QED BY <2>1, <2>2, Glued
<1>5. s \in Seq(Byte)
  BY StrWritten
<1>6. v \in Seq(Byte)
  <2>1. WriteUint32(Len(resp)) \in Seq(Byte)
    BY <1>2, Uint32 DEF Str
  <2>2. WriteUint32(Len(resp)) \o resp \in Seq(Byte)
    BY <1>2, <2>1, Glued
  <2> QED BY <2>2
<1>7. PacketCmdResp(id, resp) = (h \o s) \o v
  BY <1>3 DEF PacketCmdResp
<1>8. Command(CMDRESP, id, resp) = h \o (s \o v)
  BY DEF Command, Fields
<1> HIDE DEF h, s, v
<1> QED BY <1>4, <1>5, <1>6, <1>7, <1>8, ConcatAssociative, SMTT(30)

LEMMA ShortFrames ==
  /\ <<CONNRESP, 2, 0, 0>> \in Seq(Byte) /\ IsFrame(<<CONNRESP, 2, 0, 0>>)
  /\ <<PINGRESP, 0>> \in Seq(Byte) /\ IsFrame(<<PINGRESP, 0>>)
  /\ PacketPing \in Seq(Byte) /\ IsFrame(PacketPing)
<1>1. \A n \in 0..2 : DigitCount(n) = 1 /\ WriteRemainlen(n) \in Seq(Byte)
                      /\ Len(WriteRemainlen(n)) = 1 /\ WriteRemainlen(n)[1] = n
  <2> SUFFICES ASSUME NEW n \in 0..2
               PROVE  /\ DigitCount(n) = 1 /\ WriteRemainlen(n) \in Seq(Byte)
                      /\ Len(WriteRemainlen(n)) = 1 /\ WriteRemainlen(n)[1] = n
    OBVIOUS
  <2>1. n < Weight[2] /\ n < Weight[5] /\ n \div Weight[1] = n /\ n % 128 = n
    BY Weights
  <2>2. DigitCount(n) \in 1..4
    BY <2>1, FourDigits
  <2>3. DigitCount(n) = 1
    BY <2>1, <2>2, DigitCountOf, Weights
  <2>4. WriteRemainlen(n)[1] = n
    BY <2>1, <2>3 DEF WriteRemainlen
  <2>5. n \in Nat
    OBVIOUS
  <2>6. WriteRemainlen(n) \in Seq(Byte) /\ Len(WriteRemainlen(n)) = DigitCount(n)
    BY <2>1, <2>5, FourDigits
  <2> QED BY <2>3, <2>4, <2>6
<1>2. ASSUME NEW f \in Seq(Byte), NEW n \in 0..2, Len(f) = 2 + n, f[2] = n
      PROVE  IsFrame(f)
  BY <1>1, <1>2, Weights, SMTT(30) DEF IsFrame, Agrees
<1>3. <<CONNRESP, 2, 0, 0>> \in Seq(Byte) /\ IsFrame(<<CONNRESP, 2, 0, 0>>)
  <2>1. <<CONNRESP, 2, 0, 0>> \in Seq(Byte)
    BY DEF CONNRESP, Byte
  <2>2. Len(<<CONNRESP, 2, 0, 0>>) = 2 + 2 /\ <<CONNRESP, 2, 0, 0>>[2] = 2 /\ 2 \in 0..2
    OBVIOUS
  <2> DEFINE g == <<CONNRESP, 2, 0, 0>>
  <2> HIDE DEF g
  <2>3. g \in Seq(Byte) /\ Len(g) = 2 + 2 /\ g[2] = 2
    BY <2>1, <2>2 DEF g
  <2>4. g \in Seq(Byte) /\ IsFrame(g)
    BY <1>2, <2>2, <2>3
  <2> QED BY <2>4 DEF g
<1>4. <<PINGRESP, 0>> \in Seq(Byte) /\ IsFrame(<<PINGRESP, 0>>)
  <2>1. <<PINGRESP, 0>> \in Seq(Byte)
    BY DEF PINGRESP, Byte
  <2>2. Len(<<PINGRESP, 0>>) = 2 + 0 /\ <<PINGRESP, 0>>[2] = 0 /\ 0 \in 0..2
    OBVIOUS
  <2> DEFINE g == <<PINGRESP, 0>>
  <2> HIDE DEF g
  <2>3. g \in Seq(Byte) /\ Len(g) = 2 + 0 /\ g[2] = 0
    BY <2>1, <2>2 DEF g
  <2>4. g \in Seq(Byte) /\ IsFrame(g)
    BY <1>2, <2>2, <2>3
  <2> QED BY <2>4 DEF g
<1>5. PacketPing \in Seq(Byte) /\ IsFrame(PacketPing)
  <2> DEFINE w == WriteRemainlen(0)
  <2>1. <<PINGREQ>> \in Seq(Byte) /\ Len(<<PINGREQ>>) = 1
    BY DEF PINGREQ, Byte
  <2>2. w \in Seq(Byte) /\ Len(w) = 1 /\ w[1] = 0
    BY <1>1
  <2>3. PacketPing = <<PINGREQ>> \o w
    BY DEF PacketPing
  <2> HIDE DEF w
  <2>4. PacketPing \in Seq(Byte) /\ Len(PacketPing) = 2 /\ PacketPing[2] = 0
    BY <2>1, <2>2, <2>3, Glued
  <2> QED BY <1>2, <2>4
<1> QED BY <1>3, <1>4, <1>5

LEMMA Attached ==
  ASSUME NEW h \in Seq(Byte), NEW x \in Seq(Byte), NEW y \in Seq(Byte)
  PROVE  /\ x \o y \in Seq(Byte) /\ Len(x \o y) = Len(x) + Len(y)
         /\ (h \o x) \o y = h \o (x \o y)
BY Glued, ConcatAssociative

LEMMA LoginIsFrame ==
  /\ PacketConnect1(src_dev, dst_dev) \in Seq(Byte) /\ IsFrame(PacketConnect1(src_dev, dst_dev))
  /\ PacketConnect1(src_dev, dst_dev)[1] = CONNREQ
<1> DEFINE a == WriteStr(PROTOCOL_NAME)
           b == <<1, 64>>
           c == WriteUint16(300)
           d == WriteStr(src_dev)
           e == WriteStr(dst_dev)
           rest == (((a \o b) \o c) \o d) \o e
           n == (2 + 3) + 1 + 1 + 2 + (2 + Len(src_dev)) + (2 + Len(dst_dev))
           h == <<CONNREQ>> \o WriteRemainlen(n)
<1>0. /\ Len(src_dev) \in Nat /\ Len(src_dev) <= 65535
      /\ Len(dst_dev) \in Nat /\ Len(dst_dev) <= 65535
  BY Strings DEF Str
<1>1. a \in Seq(Byte) /\ Len(a) = 5
  <2>1. PROTOCOL_NAME \in Str /\ Len(PROTOCOL_NAME) = 3
    BY DEF PROTOCOL_NAME, Str, Byte
  <2>2. Len(a) = 2 + Len(PROTOCOL_NAME) /\ a \in Seq(Byte)
    BY <2>1, StrWritten
  <2> QED BY <2>1, <2>2
<1>2. b \in Seq(Byte) /\ Len(b) = 2
  BY DEF Byte
<1>3. c \in Seq(Byte) /\ Len(c) = 2
  BY Uint16
<1>4. d \in Seq(Byte) /\ Len(d) = 2 + Len(src_dev) /\ e \in Seq(Byte) /\ Len(e) = 2 + Len(dst_dev)
  BY Strings, StrWritten
<1>5. n \in Nat /\ n < Weight[5]
  BY <1>0, Weights
<1>6. h \in Seq(Byte)
  <2>1. <<CONNREQ>> \in Seq(Byte)
    BY DEF CONNREQ, Byte
  <2>2. WriteRemainlen(n) \in Seq(Byte)
    BY <1>5, FourDigits
  <2> QED BY <2>1, <2>2, Glued
<1>7. PacketConnect1(src_dev, dst_dev) = ((((h \o a) \o b) \o c) \o d) \o e
  BY DEF PacketConnect1
<1>8. CONNREQ \in Byte
  BY DEF CONNREQ, Byte
<1> HIDE DEF a, b, c, d, e, n
<1>9. /\ a \o b \in Seq(Byte) /\ Len(a \o b) = 7
      /\ (h \o a) \o b = h \o (a \o b)
  <2> HIDE DEF h
  <2>1. a \in Seq(Byte) /\ b \in Seq(Byte)
    BY <1>1, <1>2, <1>6
  <2>2. /\ a \o b \in Seq(Byte) /\ Len(a \o b) = Len(a) + Len(b)
        /\ (h \o a) \o b = h \o (a \o b)
    BY <1>6, <2>1, Attached
  <2> QED BY <1>1, <1>2, <1>6, <2>2
<1>10. /\ (a \o b) \o c \in Seq(Byte) /\ Len((a \o b) \o c) = 9
       /\ (h \o (a \o b)) \o c = h \o ((a \o b) \o c)
  <2> HIDE DEF h
  <2>1. (a \o b) \in Seq(Byte) /\ c \in Seq(Byte)
    BY <1>3, <1>6, <1>9
  <2>2. /\ (a \o b) \o c \in Seq(Byte) /\ Len((a \o b) \o c) = Len((a \o b)) + Len(c)
        /\ (h \o (a \o b)) \o c = h \o ((a \o b) \o c)
    BY <1>6, <2>1, Attached
  <2> QED BY <1>3, <1>6, <1>9, <2>2
<1>11. /\ ((a \o b) \o c) \o d \in Seq(Byte) /\ Len(((a \o b) \o c) \o d) = 11 + Len(src_dev)
       /\ (h \o ((a \o b) \o c)) \o d = h \o (((a \o b) \o c) \o d)
  <2> HIDE DEF h
  <2>1. ((a \o b) \o c) \in Seq(Byte) /\ d \in Seq(Byte)
    BY <1>0, <1>4, <1>6, <1>10
  <2>2. /\ ((a \o b) \o c) \o d \in Seq(Byte) /\ Len(((a \o b) \o c) \o d) = Len(((a \o b) \o c)) + Len(d)
        /\ (h \o ((a \o b) \o c)) \o d = h \o (((a \o b) \o c) \o d)
    BY <1>6, <2>1, Attached
  <2> QED BY <1>0, <1>4, <1>6, <1>10, <2>2
<1>12. /\ rest \in Seq(Byte) /\ Len(rest) = 13 + Len(src_dev) + Len(dst_dev)
       /\ (h \o (((a \o b) \o c) \o d)) \o e = h \o rest
  <2> HIDE DEF h
  <2>1. (((a \o b) \o c) \o d) \in Seq(Byte) /\ e \in Seq(Byte)
    BY <1>0, <1>4, <1>6, <1>11
  <2>2. /\ (((a \o b) \o c) \o d) \o e \in Seq(Byte) /\ Len((((a \o b) \o c) \o d) \o e) = Len((((a \o b) \o c) \o d)) + Len(e)
        /\ (h \o (((a \o b) \o c) \o d)) \o e = h \o ((((a \o b) \o c) \o d) \o e)
    BY <1>6, <2>1, Attached
  <2> QED BY <1>0, <1>4, <1>6, <1>11, <2>2
<1>13. PacketConnect1(src_dev, dst_dev) = h \o rest
  BY <1>7, <1>9, <1>10, <1>11, <1>12
<1>14. n = Len(rest)
  BY <1>0, <1>12 DEF n
<1> HIDE DEF rest
<1>15. /\ <<CONNREQ>> \o WriteRemainlen(Len(rest)) \o rest \in Seq(Byte)
       /\ IsFrame(<<CONNREQ>> \o WriteRemainlen(Len(rest)) \o rest)
       /\ (<<CONNREQ>> \o WriteRemainlen(Len(rest)) \o rest)[1] = CONNREQ
  BY <1>5, <1>8, <1>12, <1>14, FrameBuilt
<1> QED BY <1>13, <1>14, <1>15

LEMMA CommandIsFrame ==
  ASSUME NEW t \in Byte, NEW id \in Str, NEW body \in Str
  PROVE  /\ Command(t, id, body) \in Seq(Byte) /\ IsFrame(Command(t, id, body))
         /\ Command(t, id, body) # <<>> /\ Command(t, id, body)[1] = t
<1> DEFINE p == Command(t, id, body)
           n == Len(Fields(id, body))
           k == 1 + DigitCount(n)
<1>1. /\ IsFrame(p) /\ p \in Seq(Byte) /\ Len(p) = k + n /\ p[1] = t /\ k \in Nat \ {0}
  BY CommandBuilt
<1>2. Fields(id, body) \in Seq(Byte)
  BY FieldsWritten
<1>3. n \in Nat
  BY <1>2
<1> HIDE DEF p, k, n
<1>4. p # <<>>
  BY <1>1, <1>3
<1> QED BY <1>1, <1>4 DEF p

\* What the cloud writes is a frame and says what it is.
LEMMA EncodedIsFrame ==
  ASSUME NEW m \in Message
  PROVE  /\ Encode(m) \in Seq(Byte) /\ IsFrame(Encode(m))
         /\ Encode(m) # <<>> /\ Encode(m)[1] = m.type
         /\ m.type = CMDREQ => /\ m.id \in Ids /\ m.body \in Bodies
                               /\ Encode(m) = Command(CMDREQ, m.id, m.body)
<1>1. CASE m.type = CONNRESP
  BY <1>1, ShortFrames DEF Encode, CONNRESP, CMDREQ
<1>2. CASE m.type = PINGRESP
  BY <1>2, ShortFrames DEF Encode, CONNRESP, CMDREQ, PINGRESP
<1>3. CASE m.type = CMDREQ
  <2>1. m.id \in Ids /\ m.body \in Bodies
    BY <1>3 DEF Message, CONNRESP, CMDREQ, PINGRESP
  <2>2. Encode(m) = Command(CMDREQ, m.id, m.body)
    <3>1. m.type # CONNRESP /\ m.type # PINGRESP
      BY <1>3 DEF CONNRESP, CMDREQ, PINGRESP
    <3> QED BY <1>3, <3>1, Zenon DEF Encode, Command, Fields
  <2>3. CMDREQ \in Byte /\ m.id \in Str /\ m.body \in Str
    BY <2>1, Strings DEF CMDREQ, Byte
  <2>4. /\ Command(CMDREQ, m.id, m.body) \in Seq(Byte)
        /\ IsFrame(Command(CMDREQ, m.id, m.body))
        /\ Command(CMDREQ, m.id, m.body) # <<>>
        /\ Command(CMDREQ, m.id, m.body)[1] = CMDREQ
    BY <2>3, CommandIsFrame
  <2> QED BY <1>3, <2>1, <2>2, <2>4
<1>4. m.type \in {CMDREQ, CONNRESP, PINGRESP}
  BY DEF Message
<1> QED BY <1>1, <1>2, <1>3, <1>4
-----------------------------------------------------------------------------
(* The stream: recv_buf and wire together hold the packets that are left *)

\* s is the packets q, one after the other; r[i] is what is left of s from the
\* i-th packet on.
Laid(s, q, r) ==
  /\ r \in [1..(Len(q) + 1) -> Seq(Byte)]
  /\ r[1] = s /\ r[Len(q) + 1] = <<>>
  /\ \A i \in 1..Len(q) : r[i] = Encode(q[i]) \o r[i + 1]

\* The inductive invariant.
IInv == /\ TypeOK
        /\ out # <<>> => IsFrame(out)
        /\ \E r : Laid(recv_buf \o wire, sent, r)

LEMMA LaidNothing == Laid(<<>>, <<>>, [i \in {1} |-> <<>>])
<1> DEFINE r == [i \in {1} |-> <<>>]
<1>1. Len(<<>>) = 0 /\ 1..1 = {1}
  OBVIOUS
<1>2. r \in [1..1 -> Seq(Byte)] /\ r[1] = <<>>
  BY <1>1
<1> HIDE DEF r
<1>3. Laid(<<>>, <<>>, r)
  BY <1>1, <1>2 DEF Laid
<1> QED BY <1>3 DEF r

\* The packet at the front of the stream.
LEMMA FrontLaid ==
  ASSUME NEW s, NEW q \in Seq(Message), NEW r, Laid(s, q, r)
  PROVE  /\ q = <<>> => s = <<>>
         /\ q # <<>> => /\ Head(q) \in Message /\ r[2] \in Seq(Byte)
                        /\ s = Encode(Head(q)) \o r[2]
<1>1. Len(q) \in Nat /\ (q = <<>> <=> Len(q) = 0)
  OBVIOUS
<1>2. CASE q = <<>>
  BY <1>1, <1>2 DEF Laid
<1>3. CASE q # <<>>
  <2>1. 1 \in 1..Len(q) /\ 2 \in 1..(Len(q) + 1)
    BY <1>1, <1>3
  <2>2. Head(q) = q[1] /\ q[1] \in Message
    BY <1>3, <2>1
  <2>3. r[1] = s /\ r[1] = Encode(q[1]) \o r[1 + 1] /\ r[2] \in Seq(Byte)
    BY <2>1 DEF Laid
  <2>4. s = Encode(q[1]) \o r[2]
    BY <2>3
  <2>5. Head(q) \in Message /\ Encode(Head(q)) = Encode(q[1])
    BY <2>2
  <2> QED BY <1>3, <2>3, <2>4, <2>5
<1> QED BY <1>2, <1>3

\* A buffer with the first bytes of the stream: the first packet is found in it
\* when it is complete and not before.
LEMMA FrontFound ==
  ASSUME NEW s \in Seq(Byte), NEW q \in Seq(Message), NEW r, Laid(s, q, r),
         NEW b \in Seq(Byte), Len(b) <= Len(s), \A i \in 1..Len(b) : b[i] = s[i]
  PROVE  IsPkgComplete(b) = IF q # <<>> /\ Len(Encode(Head(q))) <= Len(b)
                            THEN Len(Encode(Head(q))) ELSE 0
<1>0. Len(b) \in Nat /\ Len(s) \in Nat
  OBVIOUS
<1>1. CASE q = <<>>
  <2>1. Len(b) = 0
    <3>1. s = <<>>
      BY <1>1, FrontLaid
    <3>2. Len(s) = 0
      BY <3>1
    <3> QED BY <1>0, <3>2
  <2>2. LastDigit(b, 1) = 5
    <3>1. LastDigit(b, 1) \in 1..5
      BY LastDigitOf
    <3>2. LastDigit(b, 1) # 5 => 1 + LastDigit(b, 1) <= Len(b)
      BY LastDigitOf
    <3> QED BY <2>1, <3>1, <3>2
  <2> QED BY <1>1, <2>1, <2>2 DEF IsPkgComplete
<1>2. CASE q # <<>>
  <2> DEFINE f == Encode(Head(q))
  <2>1. Head(q) \in Message /\ r[2] \in Seq(Byte) /\ s = f \o r[2]
    BY <1>2, FrontLaid
  <2>2. f \in Seq(Byte) /\ IsFrame(f)
    BY <2>1, EncodedIsFrame
  <2> HIDE DEF f
  <2>3. \A i \in 1..Len(f) : s[i] = f[i]
    BY <2>1, <2>2, Glued
  <2>4. \A i \in 1..Len(f) : i <= Len(b) => b[i] = f[i]
    BY <1>0, <2>2, <2>3
  <2>5. IsPkgComplete(b) = IF Len(f) <= Len(b) THEN Len(f) ELSE 0
    BY <2>2, <2>4, FrameIsFound
  <2> QED BY <1>2, <2>5 DEF f
<1> QED BY <1>1, <1>2

\* One more packet at the end of the stream.
LEMMA LaidMore ==
  ASSUME NEW s \in Seq(Byte), NEW q \in Seq(Message), NEW r, Laid(s, q, r), NEW m \in Message
  PROVE  \E u : Laid(s \o Encode(m), Append(q, m), u)
<1> DEFINE e == Encode(m)
           u == [i \in 1..(Len(q) + 2) |-> IF i <= Len(q) + 1 THEN r[i] \o e ELSE <<>>]
           a == Append(q, m)
<1>1. e \in Seq(Byte)
  BY EncodedIsFrame
<1>2. Len(q) \in Nat
  OBVIOUS
<1>3. Len(a) = Len(q) + 1 /\ a[Len(q) + 1] = m /\ \A i \in 1..Len(q) : a[i] = q[i]
  OBVIOUS
<1> HIDE DEF e, a
<1>4. \A i \in 1..(Len(q) + 1) : r[i] \in Seq(Byte) /\ u[i] = r[i] \o e /\ u[i] \in Seq(Byte)
  <2> SUFFICES ASSUME NEW i \in 1..(Len(q) + 1)
               PROVE  r[i] \in Seq(Byte) /\ u[i] = r[i] \o e /\ u[i] \in Seq(Byte)
    OBVIOUS
  <2>1. r[i] \in Seq(Byte)
    BY DEF Laid
  <2>2. r[i] \o e \in Seq(Byte)
    BY <1>1, <2>1, Glued
  <2>3. u[i] = r[i] \o e
    BY <1>2
  <2> QED BY <2>1, <2>2, <2>3
<1>5. u[Len(q) + 2] = <<>>
  BY <1>2
<1>6. u \in [1..(Len(q) + 2) -> Seq(Byte)]
  <2>1. \A i \in 1..(Len(q) + 2) : u[i] \in Seq(Byte)
    <3> SUFFICES ASSUME NEW i \in 1..(Len(q) + 2) PROVE u[i] \in Seq(Byte)
      OBVIOUS
    <3>1. CASE i = Len(q) + 2
      <4>1. <<>> \in Seq(Byte)
        OBVIOUS
      <4> HIDE DEF u
      <4> QED BY <1>5, <3>1, <4>1
    <3>2. CASE i # Len(q) + 2
      <4>1. i \in 1..(Len(q) + 1)
        BY <1>2, <3>2
      <4> HIDE DEF u
      <4> QED BY <1>4, <4>1
    <3> QED BY <3>1, <3>2
  <2>2. u = [i \in 1..(Len(q) + 2) |-> u[i]]
    OBVIOUS
  <2> HIDE DEF u
  <2> QED BY <2>1, <2>2
<1>7. \A i \in 1..(Len(q) + 1) : u[i] = Encode(a[i]) \o u[i + 1]
  <2> SUFFICES ASSUME NEW i \in 1..(Len(q) + 1) PROVE u[i] = Encode(a[i]) \o u[i + 1]
    OBVIOUS
  <2> HIDE DEF u
  <2>1. CASE i = Len(q) + 1
    <3>1. u[i] = <<>> \o e /\ a[i] = m
      BY <1>3, <1>4, <2>1 DEF Laid
    <3>2. u[i + 1] = <<>>
      BY <1>2, <1>5, <2>1
    <3>3. <<>> \o e = e /\ e \o <<>> = e
      BY <1>1, ConcatEmptySeq
    <3> QED BY <3>1, <3>2, <3>3 DEF e
  <2>2. CASE i # Len(q) + 1
    <3>1. i \in 1..Len(q) /\ i + 1 \in 1..(Len(q) + 1)
      BY <1>2, <2>2
    <3>2. a[i] = q[i] /\ q[i] \in Message
      BY <1>3, <3>1
    <3>3. Encode(q[i]) \in Seq(Byte)
      BY <3>2, EncodedIsFrame
    <3>4. r[i] = Encode(q[i]) \o r[i + 1] /\ r[i + 1] \in Seq(Byte)
      BY <1>4, <3>1 DEF Laid
    <3>5. u[i] = (Encode(q[i]) \o r[i + 1]) \o e /\ u[i + 1] = r[i + 1] \o e
      BY <1>4, <3>1, <3>4
    <3>6. (Encode(q[i]) \o r[i + 1]) \o e = Encode(q[i]) \o (r[i + 1] \o e)
      BY <1>1, <3>3, <3>4, Attached
    <3> QED BY <3>2, <3>5, <3>6
  <2> QED BY <2>1, <2>2
<1>8. u[1] = s \o e
  <2>1. 1 \in 1..(Len(q) + 1) /\ r[1] = s
    BY <1>2 DEF Laid
  <2> HIDE DEF u
  <2> QED BY <1>4, <2>1
<1> HIDE DEF u
<1>9. Len(a) + 1 = Len(q) + 2
  BY <1>2, <1>3
<1>10. Laid(s \o e, a, u)
  BY <1>3, <1>5, <1>6, <1>7, <1>8, <1>9 DEF Laid
<1> QED BY <1>10 DEF a, e

\* The packet at the front is taken.
LEMMA LaidLess ==
  ASSUME NEW s \in Seq(Byte), NEW q \in Seq(Message), q # <<>>, NEW r, Laid(s, q, r)
  PROVE  \E u : Laid(r[2], SubSeq(q, 2, Len(q)), u)
<1> DEFINE t == SubSeq(q, 2, Len(q))
           u == [i \in 1..Len(q) |-> r[i + 1]]
<1>1. Len(q) \in Nat \ {0}
  OBVIOUS
<1>2. t \in Seq(Message) /\ Len(t) = Len(q) - 1 /\ \A i \in 1..Len(t) : t[i] = q[i + 1]
  <2>1. t = Tail(q)
    BY TailIsSubSeq
  <2>2. /\ Tail(q) \in Seq(Message) /\ Len(Tail(q)) = Len(q) - 1
        /\ \A i \in 1..Len(Tail(q)) : Tail(q)[i] = q[i + 1]
    BY HeadTailProperties
  <2> HIDE DEF t
  <2> QED BY <2>1, <2>2
<1> HIDE DEF t
<1>3. \A i \in 1..Len(q) : u[i] = r[i + 1] /\ u[i] \in Seq(Byte)
  <2> SUFFICES ASSUME NEW i \in 1..Len(q) PROVE u[i] = r[i + 1] /\ u[i] \in Seq(Byte)
    OBVIOUS
  <2>1. i + 1 \in 1..(Len(q) + 1) /\ u[i] = r[i + 1]
    BY <1>1
  <2> HIDE DEF u
  <2> QED BY <2>1 DEF Laid
<1>4. u \in [1..Len(q) -> Seq(Byte)]
  <2>1. u = [i \in 1..Len(q) |-> u[i]]
    OBVIOUS
  <2> HIDE DEF u
  <2> QED BY <1>3, <2>1
<1> HIDE DEF u
<1>5. u[1] = r[2] /\ u[Len(q)] = <<>>
  BY <1>1, <1>3 DEF Laid
<1>6. \A i \in 1..Len(t) : u[i] = Encode(t[i]) \o u[i + 1]
  <2> SUFFICES ASSUME NEW i \in 1..Len(t) PROVE u[i] = Encode(t[i]) \o u[i + 1]
    OBVIOUS
  <2>1. i \in 1..Len(q) /\ i + 1 \in 1..Len(q)
    BY <1>1, <1>2
  <2>2. r[i + 1] = Encode(q[i + 1]) \o r[i + 1 + 1]
    BY <2>1 DEF Laid
  <2> QED BY <1>2, <1>3, <2>1, <2>2
<1>7. Len(t) + 1 = Len(q)
  BY <1>1, <1>2
<1>8. Laid(r[2], t, u)
  BY <1>4, <1>5, <1>6, <1>7 DEF Laid
<1> QED BY <1>8 DEF t

\* recv_buf with a segment is a beginning of the stream.
LEMMA AppendedIsFront ==
  ASSUME TypeOK, NEW n \in Nat, n <= Len(wire)
  PROVE  /\ recv_buf \o wire \in Seq(Byte) /\ Len(recv_buf \o wire) = Len(recv_buf) + Len(wire)
         /\ Appended(n) \in Seq(Byte) /\ Len(Appended(n)) = Len(recv_buf) + n
         /\ Len(Appended(n)) <= Len(recv_buf \o wire)
         /\ \A i \in 1..Len(Appended(n)) : Appended(n)[i] = (recv_buf \o wire)[i]
<1> DEFINE u == SubSeq(wire, 1, n)
           b == recv_buf \o u
           s == recv_buf \o wire
<1>1. /\ recv_buf \in Seq(Byte) /\ wire \in Seq(Byte)
      /\ Len(recv_buf) \in Nat /\ Len(wire) \in Nat
  BY DEF TypeOK
<1>2. \A i \in 1..n : wire[i] \in Byte
  BY <1>1
<1>3. u \in Seq(Byte) /\ Len(u) = n /\ \A i \in 1..n : u[i] = wire[i]
  <2>1. /\ u \in Seq(Byte) /\ Len(u) = IF 1 <= n THEN n - 1 + 1 ELSE 0
        /\ \A i \in 1..(n - 1 + 1) : u[i] = wire[1 + i - 1]
    BY <1>2, SubSeqProperties
  <2>2. n - 1 + 1 = n /\ \A i \in 1..n : 1 + i - 1 = i
    OBVIOUS
  <2> HIDE DEF u
  <2> QED BY <2>1, <2>2
<1> HIDE DEF u
<1>4. /\ b \in Seq(Byte) /\ Len(b) = Len(recv_buf) + Len(u)
      /\ \A i \in 1..Len(recv_buf) : b[i] = recv_buf[i]
      /\ \A i \in 1..Len(u) : b[Len(recv_buf) + i] = u[i]
  BY <1>1, <1>3, Glued
<1>5. /\ s \in Seq(Byte) /\ Len(s) = Len(recv_buf) + Len(wire)
      /\ \A i \in 1..Len(recv_buf) : s[i] = recv_buf[i]
      /\ \A i \in 1..Len(wire) : s[Len(recv_buf) + i] = wire[i]
  BY <1>1, Glued
<1>6. Appended(n) = b
  BY DEF Appended, u
<1> HIDE DEF b, s
<1>7. \A i \in 1..Len(b) : b[i] = s[i]
  <2> SUFFICES ASSUME NEW i \in 1..Len(b) PROVE b[i] = s[i]
    OBVIOUS
  <2>1. CASE i <= Len(recv_buf)
    BY <1>1, <1>4, <1>5, <2>1
  <2>2. CASE i > Len(recv_buf)
    <3> DEFINE j == i - Len(recv_buf)
    <3>1. j \in 1..n /\ Len(recv_buf) + j = i
      BY <1>1, <1>3, <1>4, <2>2
    <3> HIDE DEF j
    <3>2. b[Len(recv_buf) + j] = u[j] /\ s[Len(recv_buf) + j] = wire[j]
      BY <1>1, <1>3, <1>4, <1>5, <3>1
    <3> QED BY <1>3, <3>1, <3>2
  <2> QED BY <1>1, <1>4, <2>1, <2>2
<1>8. Len(b) <= Len(s) /\ Len(b) = Len(recv_buf) + n
  BY <1>1, <1>3, <1>4, <1>5
<1> QED BY <1>4, <1>5, <1>6, <1>7, <1>8 DEF s

LEMMA FramesFound == IInv => FrameFound
<1> SUFFICES ASSUME IInv, NEW n \in {0} \cup Segments, n <= Len(wire)
             PROVE  IsPkgComplete(Appended(n)) =
                      IF sent # <<>> /\ Len(Encode(Head(sent))) <= Len(Appended(n))
                      THEN Len(Encode(Head(sent))) ELSE 0
  BY DEF FrameFound
<1>1. n \in Nat
  BY CodecAssumption
<1>2. TypeOK /\ sent \in Seq(Message)
  BY DEF IInv, TypeOK
<1>3. PICK r : Laid(recv_buf \o wire, sent, r)
  BY DEF IInv
<1> QED BY <1>1, <1>2, <1>3, AppendedIsFront, FrontFound

LEMMA Suffix ==
  ASSUME NEW s \in Seq(Byte), NEW k \in Nat, k <= Len(s)
  PROVE  LET u == SubSeq(s, k + 1, Len(s))
         IN /\ u \in Seq(Byte) /\ Len(u) = Len(s) - k
            /\ \A i \in 1..Len(u) : u[i] = s[k + i]
<1> DEFINE u == SubSeq(s, k + 1, Len(s))
<1>1. Len(s) \in Nat
  OBVIOUS
<1>2. \A i \in (k + 1)..Len(s) : s[i] \in Byte
  BY <1>1
<1>3. /\ u \in Seq(Byte)
      /\ Len(u) = IF k + 1 <= Len(s) THEN Len(s) - (k + 1) + 1 ELSE 0
      /\ \A i \in 1..(Len(s) - (k + 1) + 1) : u[i] = s[k + 1 + i - 1]
  BY <1>1, <1>2, SubSeqProperties
<1> HIDE DEF u
<1>4. Len(u) = Len(s) - k /\ Len(s) - (k + 1) + 1 = Len(s) - k
  BY <1>1, <1>3
<1>5. \A i \in 1..Len(u) : u[i] = s[k + i]
  <2> SUFFICES ASSUME NEW i \in 1..Len(u) PROVE u[i] = s[k + i]
    OBVIOUS
  <2>1. i \in 1..(Len(s) - (k + 1) + 1) /\ k + 1 + i - 1 = k + i
    BY <1>1, <1>4
  <2> QED BY <1>3, <2>1
<1> QED BY <1>3, <1>4, <1>5 DEF u

\* When a packet is found, it is the first one that is left, and what is left
\* after it stays.
LEMMA TakenIsFirst ==
  ASSUME TypeOK, NEW n \in Nat, n <= Len(wire), NEW r, Laid(recv_buf \o wire, sent, r),
         IsPkgComplete(Appended(n)) > 0
  PROVE  LET b    == Appended(n)
             flag == IsPkgComplete(b)
             rest == SubSeq(b, flag + 1, Len(b))
             more == SubSeq(wire, n + 1, Len(wire))
         IN /\ sent # <<>> /\ Head(sent) \in Message
            /\ SubSeq(b, 1, flag) = Encode(Head(sent))
            /\ rest \in Seq(Byte) /\ more \in Seq(Byte) /\ Len(rest) <= Len(b)
            /\ rest \o more = r[2] /\ r[2] \in Seq(Byte)
<1> DEFINE b    == Appended(n)
           flag == IsPkgComplete(b)
           rest == SubSeq(b, flag + 1, Len(b))
           more == SubSeq(wire, n + 1, Len(wire))
           s    == recv_buf \o wire
           f    == Encode(Head(sent))
           v    == r[2]
<1>1. /\ recv_buf \in Seq(Byte) /\ wire \in Seq(Byte) /\ sent \in Seq(Message)
      /\ Len(recv_buf) \in Nat /\ Len(wire) \in Nat
  BY DEF TypeOK
<1>2. /\ s \in Seq(Byte) /\ Len(s) = Len(recv_buf) + Len(wire)
      /\ b \in Seq(Byte) /\ Len(b) = Len(recv_buf) + n
      /\ Len(b) <= Len(s) /\ \A i \in 1..Len(b) : b[i] = s[i]
  BY AppendedIsFront
<1>3. flag = IF sent # <<>> /\ Len(f) <= Len(b) THEN Len(f) ELSE 0
  <2> HIDE DEF b, s
  <2> QED BY <1>1, <1>2, FrontFound DEF s
<1>4. sent # <<>> /\ flag = Len(f) /\ Len(f) <= Len(b)
  <2> HIDE DEF f, flag, b
  <2>1. flag > 0
    BY DEF flag, b
  <2> QED BY <1>3, <2>1
<1>5. Head(sent) \in Message /\ v \in Seq(Byte) /\ s = f \o v
  BY <1>1, <1>4, FrontLaid
<1>6. f \in Seq(Byte)
  BY <1>5, EncodedIsFrame
<1> HIDE DEF b, flag, s, f, v
<1>7. /\ Len(f) \in Nat /\ Len(v) \in Nat /\ Len(s) = Len(f) + Len(v)
      /\ \A i \in 1..Len(f) : s[i] = f[i]
      /\ \A i \in 1..Len(v) : s[Len(f) + i] = v[i]
  BY <1>5, <1>6, Glued
<1>8. SubSeq(b, 1, flag) = f
  <2>1. \A i \in 1..Len(f) : b[0 + i] = f[i]
    BY <1>1, <1>2, <1>4, <1>7
  <2>2. SubSeq(b, 0 + 1, 0 + Len(f)) = f
    <3>1. 0 + Len(f) <= Len(b)
      BY <1>4, <1>7
    <3> QED BY <1>2, <1>6, <2>1, <3>1, CutOut
  <2>3. 0 + 1 = 1 /\ 0 + Len(f) = flag
    BY <1>4, <1>7
  <2> QED BY <2>2, <2>3
<1>9. /\ rest \in Seq(Byte) /\ Len(rest) = Len(b) - flag
      /\ \A i \in 1..Len(rest) : rest[i] = b[flag + i]
  <2>1. flag \in Nat /\ flag <= Len(b)
    BY <1>4, <1>7
  <2> QED BY <1>2, <2>1, Suffix
<1>10. /\ more \in Seq(Byte) /\ Len(more) = Len(wire) - n
       /\ \A i \in 1..Len(more) : more[i] = wire[n + i]
  BY <1>1, Suffix
<1> HIDE DEF rest, more
<1>11. /\ rest \o more \in Seq(Byte) /\ Len(rest \o more) = Len(rest) + Len(more)
       /\ \A i \in 1..Len(rest) : (rest \o more)[i] = rest[i]
       /\ \A i \in 1..Len(more) : (rest \o more)[Len(rest) + i] = more[i]
  BY <1>9, <1>10, Glued
<1>12. /\ Len(rest \o more) = Len(v) /\ Len(rest) + Len(more) = Len(v)
       /\ Len(rest) \in Nat /\ Len(more) \in Nat
  <2>1. /\ Len(s) = Len(recv_buf) + Len(wire) /\ Len(b) = Len(recv_buf) + n
        /\ Len(s) = Len(f) + Len(v) /\ flag = Len(f)
        /\ Len(rest) = Len(b) - flag /\ Len(more) = Len(wire) - n
        /\ Len(rest \o more) = Len(rest) + Len(more)
    BY <1>2, <1>4, <1>7, <1>9, <1>10, <1>11
  <2>2. Len(rest) \in Nat /\ Len(more) \in Nat
    BY <1>9, <1>10
  <2>3. Len(recv_buf) \in Nat /\ Len(wire) \in Nat /\ Len(f) \in Nat /\ Len(v) \in Nat
    BY <1>1, <1>7
  <2>4. Len(rest) + Len(more) = Len(v)
    BY <2>1, <2>3
  <2> QED BY <2>1, <2>2, <2>4
<1>13. \A i \in 1..Len(wire) : s[Len(recv_buf) + i] = wire[i]
  BY <1>1, Glued DEF s
<1>14. \A i \in 1..Len(v) : (rest \o more)[i] = v[i]
  <2> SUFFICES ASSUME NEW i \in 1..Len(v) PROVE (rest \o more)[i] = v[i]
    OBVIOUS
  <2>1. v[i] = s[flag + i]
    BY <1>4, <1>7
  <2>2. CASE i <= Len(rest)
    <3>1. (rest \o more)[i] = b[flag + i]
      <4>1. i \in 1..Len(rest)
        BY <1>12, <2>2
      <4> QED BY <1>9, <1>11, <4>1
    <3>2. flag + i \in 1..Len(b)
      BY <1>1, <1>2, <1>4, <1>7, <1>9, <2>2
    <3> QED BY <1>2, <2>1, <3>1, <3>2
  <2>3. CASE i > Len(rest)
    <3> DEFINE j == i - Len(rest)
    <3>1. /\ j \in 1..Len(more) /\ Len(rest) + j = i
          /\ n + j \in 1..Len(wire) /\ Len(recv_buf) + (n + j) = flag + i
      <4>1. /\ Len(b) = Len(recv_buf) + n /\ Len(rest) = Len(b) - flag
            /\ Len(more) = Len(wire) - n /\ Len(rest) + Len(more) = Len(v)
            /\ Len(recv_buf) \in Nat /\ Len(wire) \in Nat /\ Len(v) \in Nat
            /\ Len(rest) \in Nat /\ Len(more) \in Nat /\ flag \in Nat
        BY <1>1, <1>2, <1>4, <1>7, <1>9, <1>10, <1>12
      <4>2. j \in 1..Len(more) /\ Len(rest) + j = i
        BY <2>3, <4>1
      <4>3. n + j \in 1..Len(wire)
        BY <4>1, <4>2
      <4>4. Len(recv_buf) + (n + j) = flag + i
        BY <4>1, <4>2
      <4> QED BY <4>2, <4>3, <4>4
    <3> HIDE DEF j
    <3>2. (rest \o more)[i] = wire[n + j]
      BY <1>10, <1>11, <3>1
    <3>3. s[flag + i] = wire[n + j]
      BY <1>13, <3>1
    <3> QED BY <2>1, <3>2, <3>3
  <2> QED BY <1>12, <2>2, <2>3
<1>15. rest \o more = v
  BY <1>5, <1>11, <1>12, <1>14, SeqEqual
<1>16. Len(rest) <= Len(b)
  BY <1>1, <1>2, <1>4, <1>7, <1>9
<1> QED BY <1>4, <1>5, <1>8, <1>9, <1>10, <1>15, <1>16 DEF b, flag, rest, more, f, v
-----------------------------------------------------------------------------
(* The steps *)

\* The body of a response.
Ok == <<111, 107>>

LEMMA OkIsStr == Ok \in Str /\ Ok # <<>>
BY DEF Ok, Str, Byte

Kinds == {"CONNRESP", "PINGRESP", "on", "off", "other", "badreq"}

LEMMA KindType == \A m \in Message : KindOf(m) \in Kinds
<1> SUFFICES ASSUME NEW m \in Message PROVE KindOf(m) \in Kinds
  OBVIOUS
<1>1. m.type \in {CMDREQ, CONNRESP, PINGRESP}
  BY DEF Message
<1> QED BY <1>1, Zenon DEF KindOf, Kinds

\* What the device does with a packet of the cloud: it obeys and answers a
\* command to switch, and leaves light and line alone otherwise.
LEMMA Dealt ==
  ASSUME NEW m \in Message, Deal(Encode(m))
  PROVE  \/ /\ KindOf(m) \in Switches /\ light' = KindOf(m)
            /\ m.id \in Str /\ out' = PacketCmdResp(m.id, Ok)
         \/ KindOf(m) \notin Switches /\ UNCHANGED <<light, out>>
<1> DEFINE p == Encode(m)
           cmd == UnpackCmdReq(p)
           req == IF p[1] = CMDREQ /\ cmd.rc = 0 THEN OneNet_GPIO_Control(cmd.body) ELSE "none"
<1>1. IF req \in Switches
      THEN light' = req /\ out' = PacketCmdResp(cmd.id, Ok)
      ELSE UNCHANGED <<light, out>>
  BY DEF Deal, Ok
<1>2. p[1] = m.type
  BY EncodedIsFrame
<1>3. CASE m.type = CMDREQ /\ m.body # <<>>
  <2>1. m.id \in Str /\ m.body \in Str /\ p = Command(CMDREQ, m.id, m.body) /\ CMDREQ \in Byte
    BY <1>3, EncodedIsFrame, Strings DEF CMDREQ, Byte
  <2>2. cmd = [rc |-> 0, id |-> m.id, body |-> m.body]
    <3> HIDE DEF p
    <3> QED BY <1>3, <2>1, CommandRead
  <2>3. cmd.rc = 0 /\ cmd.id = m.id /\ cmd.body = m.body
    BY <2>2
  <2>4. req = OneNet_GPIO_Control(m.body)
    BY <1>2, <1>3, <2>3
  <2>5. KindOf(m) = OneNet_GPIO_Control(m.body)
    <3>1. m.type # CONNRESP /\ m.type # PINGRESP
      BY <1>3 DEF CMDREQ, CONNRESP, PINGRESP
    <3>2. KindOf(m) = IF m.body[9] = One THEN "on" ELSE IF m.body[9] = Zero THEN "off" ELSE "other"
      BY <1>3, <3>1 DEF KindOf
    <3>3. One # Zero
      BY DEF One, Zero
    <3> QED BY <3>2, <3>3 DEF OneNet_GPIO_Control
  <2> HIDE DEF req, cmd
  <2> QED BY <1>1, <2>1, <2>3, <2>4, <2>5
<1>4. CASE m.type = CMDREQ /\ m.body = <<>>
  <2>1. m.id \in Str /\ m.body \in Str /\ p = Command(CMDREQ, m.id, m.body) /\ CMDREQ \in Byte
    BY <1>4, EncodedIsFrame, Strings DEF CMDREQ, Byte
  <2>2. cmd = [rc |-> -1, id |-> <<>>, body |-> <<>>]
    <3> HIDE DEF p
    <3> QED BY <1>4, <2>1, CommandRead
  <2>3. cmd.rc # 0
    BY <2>2
  <2>4. req = "none" /\ req \notin Switches
    BY <2>3 DEF Switches
  <2>5. KindOf(m) \notin Switches
    BY <1>4 DEF KindOf, CMDREQ, CONNRESP, PINGRESP, Switches
  <2> HIDE DEF req
  <2> QED BY <1>1, <2>4, <2>5
<1>5. CASE m.type # CMDREQ
  <2>1. req = "none" /\ req \notin Switches
    BY <1>2, <1>5 DEF Switches
  <2>2. m.type = CONNRESP \/ m.type = PINGRESP
    BY <1>5 DEF Message
  <2>3. KindOf(m) \notin Switches
    BY <2>2 DEF KindOf, CMDREQ, CONNRESP, PINGRESP, Switches
  <2> HIDE DEF req
  <2> QED BY <1>1, <2>1, <2>3
<1> QED BY <1>3, <1>4, <1>5

\* A segment restarts the device or hands over the first packet that is left.
LEMMA Received ==
  ASSUME IInv, NEW n \in Segments, Receive(n)
  PROVE  \/ Restart
         \/ /\ sent # <<>> /\ Head(sent) \in Message /\ Deal(Encode(Head(sent)))
            /\ sent' = SubSeq(sent, 2, Len(sent))
            /\ recv_buf' \in Seq(Byte) /\ Len(recv_buf') <= BUFFER_SIZE /\ wire' \in Seq(Byte)
            /\ \E r : Laid(recv_buf' \o wire', sent', r)
<1> DEFINE b    == Appended(n)
           flag == IsPkgComplete(b)
<1>1. n \in Nat /\ n <= Len(wire)
  BY CodecAssumption DEF Receive
<1>2. TypeOK /\ sent \in Seq(Message)
  BY DEF IInv, TypeOK
<1>3. PICK r : Laid(recv_buf \o wire, sent, r)
  BY DEF IInv
<1>4. CASE Len(b) > BUFFER_SIZE \/ flag <= 0
  BY <1>4 DEF Receive
<1>5. CASE ~(Len(b) > BUFFER_SIZE \/ flag <= 0)
  <2>1. /\ Deal(SubSeq(b, 1, flag))
        /\ recv_buf' = SubSeq(b, flag + 1, Len(b))
        /\ wire' = SubSeq(wire, n + 1, Len(wire))
        /\ sent' = SubSeq(sent, 2, Len(sent))
    BY <1>5 DEF Receive
  <2>2. recv_buf \o wire \in Seq(Byte) /\ b \in Seq(Byte)
    BY <1>1, <1>2, AppendedIsFront
  <2>3. flag > 0 /\ Len(b) <= BUFFER_SIZE
    <3>1. flag \in Int
      BY <1>2, <1>3, <1>1, TakenIsFirst, FramesFound DEF FrameFound
    <3> QED BY <1>5, <2>2, <3>1, CodecAssumption
  <2>4. /\ sent # <<>> /\ Head(sent) \in Message
        /\ SubSeq(b, 1, flag) = Encode(Head(sent))
        /\ SubSeq(b, flag + 1, Len(b)) \in Seq(Byte) /\ SubSeq(wire, n + 1, Len(wire)) \in Seq(Byte)
        /\ Len(SubSeq(b, flag + 1, Len(b))) <= Len(b)
        /\ SubSeq(b, flag + 1, Len(b)) \o SubSeq(wire, n + 1, Len(wire)) = r[2]
    BY <1>1, <1>2, <1>3, <2>3, TakenIsFirst
  <2>5. \E u : Laid(r[2], SubSeq(sent, 2, Len(sent)), u)
    BY <1>2, <1>3, <2>2, <2>4, LaidLess
  <2>6. recv_buf' \o wire' = r[2] /\ recv_buf' \in Seq(Byte) /\ wire' \in Seq(Byte)
    BY <2>1, <2>4
  <2>7. Len(recv_buf') <= BUFFER_SIZE
    <3>1. Len(recv_buf') <= Len(b) /\ Len(b) \in Nat /\ Len(recv_buf') \in Nat
      BY <2>1, <2>2, <2>4, <2>6
    <3> QED BY <2>3, <3>1, CodecAssumption
  <2>8. Deal(Encode(Head(sent)))
    BY <2>1, <2>4
  <2> HIDE DEF b, flag
  <2> QED BY <2>1, <2>4, <2>5, <2>6, <2>7, <2>8
<1> QED BY <1>4, <1>5

\* Nothing is left to lay out before the first packet and after a loss.
LEMMA NothingLeft == \E r : Laid(<<>> \o <<>>, <<>>, r)
<1>1. <<>> \in Seq(Byte)
  OBVIOUS
<1>2. <<>> \o <<>> = <<>>
  BY <1>1, ConcatEmptySeq
<1> QED BY <1>2, LaidNothing

LEMMA InitIInv == Init => IInv
<1> SUFFICES ASSUME Init PROVE IInv
  OBVIOUS
<1>1. TypeOK
  BY CodecAssumption DEF Init, TypeOK
<1>2. \E r : Laid(recv_buf \o wire, sent, r)
  BY NothingLeft DEF Init
<1> QED BY <1>1, <1>2 DEF Init, IInv

\* Whatever ends the connection leaves nothing behind.
LEMMA LossIInv ==
  ASSUME sent' = <<>>, wire' = <<>>, recv_buf' = <<>>, light' \in Switches,
         out' \in Seq(Byte), out' # <<>> => IsFrame(out')
  PROVE  IInv'
<1>1. TypeOK'
  BY CodecAssumption DEF TypeOK
<1>2. \E r : Laid(recv_buf' \o wire', sent', r)
  BY NothingLeft
<1> QED BY <1>1, <1>2 DEF IInv, Laid, IsFrame, Agrees

\* A packet the cloud writes comes after those that are left.
LEMMA WriteIInv ==
  ASSUME IInv, NEW m \in Message, CloudWrites(m)
  PROVE  IInv'
<1>1. /\ sent' = Append(sent, m) /\ wire' = wire \o Encode(m)
      /\ UNCHANGED <<recv_buf, light, out>>
  BY DEF CloudWrites
<1>2. sent \in Seq(Message) /\ wire \in Seq(Byte) /\ recv_buf \in Seq(Byte)
  BY DEF IInv, TypeOK
<1>3. Encode(m) \in Seq(Byte)
  BY EncodedIsFrame
<1>4. sent' \in Seq(Message)
  BY <1>1, <1>2, AppendProperties
<1>5. wire' \in Seq(Byte) /\ recv_buf' \o wire' = (recv_buf \o wire) \o Encode(m)
  BY <1>1, <1>2, <1>3, Attached
<1>6. recv_buf \o wire \in Seq(Byte)
  BY <1>2, Glued
<1>7. PICK r : Laid(recv_buf \o wire, sent, r)
  BY DEF IInv
<1>8. \E u : Laid(recv_buf' \o wire', sent', u)
  BY <1>1, <1>2, <1>5, <1>6, <1>7, LaidMore
<1>9. TypeOK'
  BY <1>1, <1>4, <1>5 DEF IInv, TypeOK
<1> QED BY <1>1, <1>8, <1>9 DEF IInv, Laid, IsFrame, Agrees

\* The response the device builds is a command for a reader.
LEMMA AnswerBuilt ==
  ASSUME NEW id \in Str
  PROVE  /\ PacketCmdResp(id, Ok) \in Seq(Byte) /\ IsFrame(PacketCmdResp(id, Ok))
         /\ PacketCmdResp(id, Ok)[1] = CMDRESP
         /\ UnpackCmdReq(PacketCmdResp(id, Ok)) = [rc |-> 0, id |-> id, body |-> Ok]
<1>1. CMDRESP \in Byte
  BY DEF CMDRESP, Byte
<1>2. Ok \in Str /\ Ok # <<>>
  BY OkIsStr
<1>3. PacketCmdResp(id, Ok) = Command(CMDRESP, id, Ok)
  BY <1>2, ResponseIsCommand
<1>4. UnpackCmdReq(Command(CMDRESP, id, Ok)) = [rc |-> 0, id |-> id, body |-> Ok]
  BY <1>1, <1>2, CommandRead
<1> QED BY <1>1, <1>2, <1>3, <1>4, CommandIsFrame

LEMMA ReceiveIInv ==
  ASSUME IInv, NEW n \in Segments, Receive(n)
  PROVE  IInv'
<1>1. CASE Restart
  <2>1. /\ sent' = <<>> /\ wire' = <<>> /\ recv_buf' = <<>> /\ light' \in Switches
        /\ out' = <<>> /\ out' \in Seq(Byte)
    BY <1>1 DEF Restart
  <2> QED BY <2>1, LossIInv
<1>2. CASE ~Restart
  <2>1. /\ sent # <<>> /\ Head(sent) \in Message /\ Deal(Encode(Head(sent)))
        /\ sent' = SubSeq(sent, 2, Len(sent))
        /\ recv_buf' \in Seq(Byte) /\ Len(recv_buf') <= BUFFER_SIZE /\ wire' \in Seq(Byte)
        /\ \E r : Laid(recv_buf' \o wire', sent', r)
    BY <1>2, Received
  <2>2. light \in Switches /\ out \in Seq(Byte) /\ (out # <<>> => IsFrame(out))
        /\ sent \in Seq(Message)
    BY DEF IInv, TypeOK
  <2>3. light' \in Switches /\ out' \in Seq(Byte) /\ (out' # <<>> => IsFrame(out'))
    <3>1. CASE UNCHANGED <<light, out>>
      BY <2>2, <3>1
    <3>2. CASE ~UNCHANGED <<light, out>>
      <4>1. /\ KindOf(Head(sent)) \in Switches /\ light' = KindOf(Head(sent))
            /\ Head(sent).id \in Str /\ out' = PacketCmdResp(Head(sent).id, Ok)
        BY <2>1, <3>2, Dealt
      <4> QED BY <4>1, AnswerBuilt
    <3> QED BY <3>1, <3>2
  <2>4. sent' \in Seq(Message)
    <3>1. Tail(sent) \in Seq(Message) /\ Tail(sent) = sent'
      BY <2>1, <2>2, HeadTailProperties, TailIsSubSeq
    <3> QED BY <3>1
  <2>5. TypeOK'
    BY <2>1, <2>3, <2>4 DEF TypeOK
  <2> QED BY <2>1, <2>3, <2>5 DEF IInv, Laid, IsFrame, Agrees
<1> QED BY <1>1, <1>2

LEMMA StepIInv == IInv /\ [Next]_vars => IInv'
<1> SUFFICES ASSUME IInv, [Next]_vars PROVE IInv'
  OBVIOUS
<1>0. CASE Connect
  <2>1. /\ sent' = <<>> /\ wire' = <<>> /\ recv_buf' = <<>> /\ light' \in Switches
        /\ out' = PacketConnect1(src_dev, dst_dev)
    BY <1>0 DEF Connect, Switches
  <2>2. out' \in Seq(Byte) /\ IsFrame(out')
    BY <2>1, LoginIsFrame
  <2> QED BY <2>1, <2>2, LossIInv
<1>1. ASSUME NEW m \in Message, CloudWrites(m) PROVE IInv'
  BY <1>1, WriteIInv
<1>2. ASSUME NEW n \in Segments, Receive(n) PROVE IInv'
  BY <1>2, ReceiveIInv
<1>3. CASE OneNet_Tcp_Cline_HeartBeat
  <2>1. UNCHANGED <<sent, wire, recv_buf, light>> /\ out' = PacketPing
    BY <1>3 DEF OneNet_Tcp_Cline_HeartBeat
  <2>2. out' \in Seq(Byte) /\ IsFrame(out')
    BY <2>1, ShortFrames
  <2> QED BY <2>1, <2>2 DEF IInv, TypeOK, Laid, IsFrame, Agrees
<1>4. CASE Restart
  <2>1. /\ sent' = <<>> /\ wire' = <<>> /\ recv_buf' = <<>> /\ light' \in Switches
        /\ out' = <<>> /\ out' \in Seq(Byte)
    BY <1>4 DEF Restart
  <2> QED BY <2>1, LossIInv
<1>5. CASE UNCHANGED vars
  BY <1>5 DEF vars, IInv, TypeOK, Laid, IsFrame, Agrees
<1>6. CASE LinkLost
  <2>1. /\ sent' = <<>> /\ wire' = <<>> /\ recv_buf' = <<>> /\ light' \in Switches
        /\ out' = <<>> /\ out' \in Seq(Byte)
    BY <1>6 DEF LinkLost, IInv, TypeOK
  <2> QED BY <2>1, LossIInv
<1> QED BY <1>0, <1>1, <1>2, <1>3, <1>4, <1>5, <1>6 DEF Next

LEMMA CodecInvariant == Spec => []IInv
BY InitIInv, StepIInv, PTL DEF Spec

\* In every state the device finds the packet the cloud wrote first as soon as
\* it is all in recv_buf and not before, for every length a packet can have and
\* wherever the segments are cut.
THEOREM Frames == Spec => []FrameInv
<1>1. IInv => FrameInv
  BY FramesFound DEF FrameInv, IInv
<1> QED BY <1>1, CodecInvariant, PTL

\* Every packet the device sends, its login, its heartbeat and its responses, is
\* as long as its length field says, for every identifier.
THEOREM OneFrameSent == Spec => []SendsOneFrame
<1>1. IInv => SendsOneFrame
  <2> SUFFICES ASSUME IInv, out # <<>> PROVE IsPkgComplete(out) = Len(out)
    BY DEF SendsOneFrame
  <2>1. out \in Seq(Byte) /\ IsFrame(out) /\ Len(out) \in Nat
    BY DEF IInv, TypeOK
  <2>2. IsPkgComplete(out) = IF Len(out) <= Len(out) THEN Len(out) ELSE 0
    BY <2>1, FrameIsFound
  <2> QED BY <2>1, <2>2
<1> QED BY <1>1, CodecInvariant, PTL

\* A packet has at least its type.
LEMMA FrameNotEmpty == ASSUME NEW f, IsFrame(f) PROVE f # <<>>
<1>1. PICK n \in Nat : n < Weight[5] /\ f \in Seq(Byte) /\ Len(f) = 1 + DigitCount(n) + n
  BY DEF IsFrame
<1>2. DigitCount(n) \in 1..4
  BY <1>1, FourDigits
<1> QED BY <1>1, <1>2

\* A command is answered with its own identifier and "ok" and moves the light to
\* what it says, whatever the identifier is and whatever else is in recv_buf, and
\* no other packet does either.
THEOREM Answers == Spec => AnswersTheCommand
<1> DEFINE m == Head(sent)
           Answered ==
             out # <<>> /\ out' # <<>> /\ Len(sent') < Len(sent)
             => IF KindOf(m) \in Switches
                THEN /\ light' = KindOf(m)
                     /\ out'[1] = CMDRESP
                     /\ UnpackCmdReq(out') = [rc |-> 0, id |-> m.id, body |-> Ok]
                ELSE UNCHANGED <<light, out>>
<1>1. IInv /\ [Next]_vars => [Answered]_vars
  <2> SUFFICES ASSUME IInv, [Next]_vars, out # <<>>, out' # <<>>, Len(sent') < Len(sent)
               PROVE  IF KindOf(m) \in Switches
                      THEN /\ light' = KindOf(m)
                           /\ out'[1] = CMDRESP
                           /\ UnpackCmdReq(out') = [rc |-> 0, id |-> m.id, body |-> Ok]
                      ELSE UNCHANGED <<light, out>>
    OBVIOUS
  <2>1. Len(sent) \in Nat /\ sent \in Seq(Message)
    BY DEF IInv, TypeOK
  <2>2. sent' # sent
    BY <2>1
  <2>3. ~ UNCHANGED vars /\ ~ OneNet_Tcp_Cline_HeartBeat
    BY <2>2 DEF vars, OneNet_Tcp_Cline_HeartBeat
  <2>4. ~ \E w \in Message : CloudWrites(w)
    <3> SUFFICES ASSUME NEW w \in Message, CloudWrites(w) PROVE FALSE
      OBVIOUS
    <3>1. Len(sent') = Len(sent) + 1
      BY <2>1, AppendProperties DEF CloudWrites
    <3> QED BY <2>1, <3>1
  <2>5. ~ Restart /\ ~ LinkLost /\ ~ Connect
    BY DEF Restart, LinkLost, Connect
  <2>6. PICK n \in Segments : Receive(n)
    BY <2>3, <2>4, <2>5 DEF Next
  <2>7. m \in Message /\ Deal(Encode(m))
    BY <2>5, <2>6, Received
  <2> HIDE DEF m
  <2>8. CASE KindOf(m) \in Switches
    <3>1. light' = KindOf(m) /\ m.id \in Str /\ out' = PacketCmdResp(m.id, Ok)
      BY <2>7, <2>8, Dealt
    <3> QED BY <2>8, <3>1, AnswerBuilt
  <2>9. CASE KindOf(m) \notin Switches
    BY <2>7, <2>9, Dealt
  <2> QED BY <2>8, <2>9
<1>2. Spec => [][Answered]_vars
  BY <1>1, CodecInvariant, PTL DEF Spec
<1> QED BY <1>2 DEF AnswersTheCommand, Ok
-----------------------------------------------------------------------------
(* The abstract channel *)

\* The kinds of the packets of q.
KindsOf(q) == [i \in DOMAIN q |-> KindOf(q[i])]

LEMMA KindsSeq ==
  ASSUME NEW q \in Seq(Message)
  PROVE  /\ KindsOf(q) \in Seq(Kinds) /\ Len(KindsOf(q)) = Len(q)
         /\ \A i \in 1..Len(q) : KindsOf(q)[i] = KindOf(q[i])
<1>1. DOMAIN q = 1..Len(q) /\ Len(q) \in Nat /\ \A i \in 1..Len(q) : q[i] \in Message
  OBVIOUS
<1>2. KindsOf(q) = [i \in 1..Len(q) |-> KindOf(q[i])]
  BY <1>1 DEF KindsOf
<1>3. \A i \in 1..Len(q) : KindOf(q[i]) \in Kinds
  BY <1>1, KindType
<1> QED BY <1>1, <1>2, <1>3

\* The kinds of a written packet and of a taken one.
LEMMA KindsGrow ==
  ASSUME NEW q \in Seq(Message), NEW m \in Message
  PROVE  KindsOf(Append(q, m)) = Append(KindsOf(q), KindOf(m))
<1> DEFINE a == Append(q, m)
           k == KindsOf(q)
           b == Append(k, KindOf(m))
<1>1. KindOf(m) \in Kinds
  BY KindType
<1>2. k \in Seq(Kinds) /\ Len(k) = Len(q) /\ \A i \in 1..Len(q) : k[i] = KindOf(q[i])
  BY KindsSeq
<1>3. /\ a \in Seq(Message) /\ Len(a) = Len(q) + 1 /\ a[Len(q) + 1] = m
      /\ \A i \in 1..Len(q) : a[i] = q[i]
  BY AppendProperties
<1> HIDE DEF a, k
<1>4. /\ b \in Seq(Kinds) /\ Len(b) = Len(q) + 1 /\ b[Len(q) + 1] = KindOf(m)
      /\ \A i \in 1..Len(q) : b[i] = k[i]
  BY <1>1, <1>2, AppendProperties
<1>5. /\ KindsOf(a) \in Seq(Kinds) /\ Len(KindsOf(a)) = Len(q) + 1
      /\ \A i \in 1..(Len(q) + 1) : KindsOf(a)[i] = KindOf(a[i])
  BY <1>3, KindsSeq
<1> HIDE DEF b
<1>6. \A i \in 1..(Len(q) + 1) : KindsOf(a)[i] = b[i]
  <2> SUFFICES ASSUME NEW i \in 1..(Len(q) + 1) PROVE KindsOf(a)[i] = b[i]
    OBVIOUS
  <2>1. i \in 1..Len(q) \/ i = Len(q) + 1
    OBVIOUS
  <2> QED BY <1>2, <1>3, <1>4, <1>5, <2>1
<1>7. KindsOf(a) = b
  BY <1>4, <1>5, <1>6, SeqEqual
<1> QED BY <1>7 DEF a, b, k

LEMMA KindsShrink ==
  ASSUME NEW q \in Seq(Message), q # <<>>
  PROVE  /\ KindsOf(q) # <<>> /\ Head(KindsOf(q)) = KindOf(Head(q))
         /\ KindsOf(SubSeq(q, 2, Len(q))) = Tail(KindsOf(q))
<1> DEFINE t == SubSeq(q, 2, Len(q))
           k == KindsOf(q)
<1>1. Len(q) \in Nat \ {0}
  OBVIOUS
<1>2. k \in Seq(Kinds) /\ Len(k) = Len(q) /\ \A i \in 1..Len(q) : k[i] = KindOf(q[i])
  BY KindsSeq
<1>3. t \in Seq(Message) /\ Len(t) = Len(q) - 1 /\ \A i \in 1..Len(t) : t[i] = q[i + 1]
  <2>1. t = Tail(q)
    BY TailIsSubSeq
  <2> HIDE DEF t
  <2> QED BY <2>1, HeadTailProperties
<1> HIDE DEF t, k
<1>4. k # <<>> /\ Head(k) = KindOf(Head(q))
  BY <1>1, <1>2
<1>5. /\ Tail(k) \in Seq(Kinds) /\ Len(Tail(k)) = Len(q) - 1
      /\ \A i \in 1..Len(Tail(k)) : Tail(k)[i] = k[i + 1]
  BY <1>2, <1>4, HeadTailProperties
<1>6. /\ KindsOf(t) \in Seq(Kinds) /\ Len(KindsOf(t)) = Len(q) - 1
      /\ \A i \in 1..Len(t) : KindsOf(t)[i] = KindOf(t[i])
  BY <1>3, KindsSeq
<1>7. \A i \in 1..(Len(q) - 1) : KindsOf(t)[i] = Tail(k)[i]
  <2> SUFFICES ASSUME NEW i \in 1..(Len(q) - 1) PROVE KindsOf(t)[i] = Tail(k)[i]
    OBVIOUS
  <2>1. i \in 1..Len(q) /\ i + 1 \in 1..Len(q)
    BY <1>1
  <2> QED BY <1>2, <1>3, <1>5, <1>6, <2>1
<1>8. KindsOf(t) = Tail(k)
  BY <1>5, <1>6, <1>7, SeqEqual
<1> QED BY <1>4, <1>8 DEF t, k

LEMMA KindsNone == KindsOf(<<>>) = <<>>
<1>1. <<>> \in Seq(Message) /\ Len(<<>>) = 0
  OBVIOUS
<1>2. KindsOf(<<>>) \in Seq(Kinds) /\ Len(KindsOf(<<>>)) = 0
  BY <1>1, KindsSeq
<1> QED BY <1>2, EmptySeq

LEMMA InitChannel == Init => Channel!Init
<1> SUFFICES ASSUME Init PROVE Channel!Init
  OBVIOUS
<1>1. KindsOf(sent) = <<>> /\ light \in Channel!Switches /\ out = <<>>
  BY KindsNone DEF Init, Switches, Channel!Switches
<1> QED BY <1>1 DEF Channel!Init, KindsOf

LEMMA StepChannel == IInv /\ [Next]_vars => [Channel!Next]_(Channel!cvars)
<1> SUFFICES ASSUME IInv, [Next]_vars PROVE [Channel!Next]_(Channel!cvars)
  OBVIOUS
<1>0. sent \in Seq(Message)
  BY DEF IInv, TypeOK
<1>1. ASSUME Restart PROVE Channel!Next
  <2>1. KindsOf(sent') = <<>> /\ light' \in Channel!Switches /\ out' = <<>>
    BY <1>1, KindsNone DEF Restart, Switches, Channel!Switches
  <2> QED BY <2>1 DEF Channel!Next, Channel!Restart, KindsOf
<1>2. ASSUME NEW m \in Message, CloudWrites(m) PROVE Channel!Next
  <2>1. KindOf(m) \in Kinds
    BY KindType
  <2>2. /\ KindsOf(sent') = Append(KindsOf(sent), KindOf(m)) /\ light' = light
        /\ out # <<>> /\ out' = out
    BY <1>0, <1>2, KindsGrow DEF CloudWrites
  <2>3. Channel!Write(KindOf(m))
    BY <2>2 DEF Channel!Write, KindsOf
  <2> QED BY <2>1, <2>3 DEF Channel!Next, Kinds
<1>3. ASSUME NEW n \in Segments, Receive(n), ~Restart PROVE Channel!Next
  <2>1. /\ sent # <<>> /\ Head(sent) \in Message /\ Deal(Encode(Head(sent)))
        /\ sent' = SubSeq(sent, 2, Len(sent))
    BY <1>3, Received
  <2>2. /\ KindsOf(sent) # <<>> /\ Head(KindsOf(sent)) = KindOf(Head(sent))
        /\ KindsOf(sent') = Tail(KindsOf(sent))
    BY <1>0, <2>1, KindsShrink
  <2>3. light' = Channel!Moved(KindOf(Head(sent)))
    BY <2>1, Dealt DEF Channel!Moved, Channel!Switches, Switches
  <2>4. out # <<>> /\ out' # <<>>
    <3>1. out # <<>>
      BY <1>3 DEF Receive
    <3>2. out' = out \/ IsFrame(out')
      <4>1. CASE KindOf(Head(sent)) \in Switches
        <5>1. Head(sent).id \in Str /\ out' = PacketCmdResp(Head(sent).id, Ok)
          BY <2>1, <4>1, Dealt
        <5> QED BY <5>1, AnswerBuilt
      <4>2. CASE KindOf(Head(sent)) \notin Switches
        BY <2>1, <4>2, Dealt
      <4> QED BY <4>1, <4>2
    <3> QED BY <3>1, <3>2, FrameNotEmpty
  <2>5. Channel!Handle
    BY <2>2, <2>3, <2>4 DEF Channel!Handle, KindsOf
  <2> QED BY <2>5 DEF Channel!Next
<1>4. CASE Connect
  <2>1. KindsOf(sent') = <<>> /\ light' = "off" /\ out = <<>> /\ out' = PacketConnect1(src_dev, dst_dev)
    BY <1>4, KindsNone DEF Connect
  <2>2. out' # <<>>
    BY <2>1, LoginIsFrame, FrameNotEmpty
  <2> QED BY <2>1, <2>2 DEF Channel!Next, Channel!Open, KindsOf
<1>5. CASE LinkLost
  <2>1. KindsOf(sent') = <<>> /\ light' = light /\ out' = <<>>
    BY <1>5, KindsNone DEF LinkLost
  <2> QED BY <2>1 DEF Channel!Next, Channel!Close, KindsOf
<1>6. CASE OneNet_Tcp_Cline_HeartBeat
  <2>1. sent' = sent /\ light' = light /\ out # <<>> /\ out' = PacketPing
    BY <1>6 DEF OneNet_Tcp_Cline_HeartBeat
  <2>2. out' # <<>>
    BY <2>1, ShortFrames, FrameNotEmpty
  <2> QED BY <2>1, <2>2 DEF Channel!cvars
<1>7. CASE UNCHANGED vars
  BY <1>7 DEF vars, Channel!cvars
<1> QED BY <1>1, <1>2, <1>3, <1>4, <1>5, <1>6, <1>7 DEF Next

\* Byte by byte the codec implements the abstract channel: every packet the cloud
\* wrote is handled as what it was, in order and at most once, and the light
\* moves when it is.
THEOREM Refinement == Spec => ImplementsChannel
<1> QED BY InitChannel, CodecInvariant, StepChannel, PTL DEF Spec, ImplementsChannel, Channel!Spec
=============================================================================
