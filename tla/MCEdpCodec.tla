----------------------------- MODULE MCEdpCodec -----------------------------
EXTENDS EdpCodec

\* {"LED1":c} and, for a length field of two digits, the same with n bytes of
\* other fields behind it.
Body(c)    == <<123, 34, 76, 69, 68, 49, 34, 58, c, 125>>
Long(c, n) == SubSeq(Body(c), 1, 9) \o [i \in 1..n |-> 44]

\* Two identifiers of one length: only their content tells them apart.
MCIds     == {<<54, 52>>, <<55, 57>>}
MCBodies  == {<<>>, Body(48), Body(49), Body(50), Long(49, 110), Long(48, 111)}
\* A remaining length is read back as it was written exactly if it has at most
\* four digits; a longer one is refused, not misread.
Lengths == {0, 1, 127, 128, 129, 16383, 16384, 2097151, 2097152, 268435455, 268435456, 2147483647}

ASSUME LengthsSurvive ==
  \A n \in Lengths : LET b == WriteRemainlen(n) IN
    ReadRemainlen(b, 0) = IF n < 128^4 THEN [val |-> n, pos |-> Len(b)] ELSE Failed

\* Cuts inside the length field, inside and at the end of each packet, and
\* behind several packets.
MCSegments == {1, 2, 3, 4, 6, 19, 20, 21, 22, 24, 40, 127, 129, 131, 133}

MCsrc_dev == [i \in 1..8 |-> 50]
MCdst_dev == [i \in 1..28 |-> 110]
=============================================================================
