--------------------------- MODULE ChatTunnelProof ---------------------------
(***************************************************************************)
(* Who is in the room, and what the members were told of it, for every set *)
(* of tunnels and every bound.                                             *)
(*                                                                         *)
(* RoomKnown rests on Arrivals: the post that puts a tunnel in the room is *)
(* on its way before the tunnel is in it, and never after.  TotalsAgree    *)
(* rests on LastTold: in calm the last push that carries a total carries   *)
(* that of the room as it is, to those who are in it.                      *)
(***************************************************************************)
EXTENDS ChatTunnel, FiniteSetTheorems, TLAPS

Connect(t) == [type |-> "connect", id |-> t]

\* Only tunnels that were opened are in the room or spoken of; of a member no
\* connect is on its way any more.
Arrivals ==
  /\ \A p \in posts : tunnel[p.id] \in {"open", "closed"}
  /\ \A t \in Ids(connectedTunnelIds) :
       tunnel[t] \in {"open", "closed"} /\ Connect(t) \notin posts

\* The inductive invariant of RoomInv.
RoomIInv == TypeOK /\ RoomKnown /\ Arrivals

\* Of the pushes on their way the last one with a total agrees with the room;
\* without one, the members were told.
Last(c, i) == c[i].total # 0 /\ \A j \in 1..Len(c) : i < j => c[j].total = 0
Agrees(c, s) ==
  \A i \in 1..Len(c) : Last(c, i) => c[i].to = Ids(s) /\ c[i].total = Len(s)
Told(c, s, h, st) ==
  (\A i \in 1..Len(c) : c[i].total = 0) =>
    \A t \in Ids(s) : st[t] = "open" => h[t] = Len(s)
LastTold ==
  calm /\ connectedTunnelIds # <<>> =>
    /\ Agrees(casts, connectedTunnelIds)
    /\ Told(casts, connectedTunnelIds, heard, tunnel)

\* The inductive invariant of TotalsAgree.
ToldIInv == RoomIInv /\ LastTold
-----------------------------------------------------------------------------
(* Lists without repetitions *)

Distinct(s) == \A i, j \in 1..Len(s) : s[i] = s[j] => i = j

LEMMA IdsOf ==
  ASSUME NEW S, NEW s \in Seq(S)
  PROVE  /\ Ids(s) \subseteq S
         /\ \A i \in 1..Len(s) : s[i] \in Ids(s)
         /\ s = <<>> <=> Ids(s) = {}
<1>1. Len(s) \in Nat /\ (s = <<>> <=> Len(s) = 0) /\ \A i \in 1..Len(s) : s[i] \in S
  OBVIOUS
<1>2. Len(s) # 0 => 1 \in 1..Len(s)
  BY <1>1
<1>3. Len(s) = 0 => 1..Len(s) = {}
  BY <1>1
<1> QED
  BY <1>1, <1>2, <1>3 DEF Ids

LEMMA SpliceOf ==
  ASSUME NEW S, NEW s \in Seq(S), NEW i \in 1..Len(s)
  PROVE  /\ splice(s, i) \in Seq(S)
         /\ Len(splice(s, i)) = Len(s) - 1
         /\ \A j \in 1..Len(s) - 1 : splice(s, i)[j] = IF j < i THEN s[j] ELSE s[j + 1]
<1>1. Len(s) - 1 \in Nat /\ \A j \in 1..Len(s) : s[j] \in S
  OBVIOUS
<1>2. splice(s, i) \in [1..Len(s) - 1 -> S]
  BY <1>1 DEF splice
<1>3. splice(s, i) \in Seq(S)
  BY <1>1, <1>2
<1>4. DOMAIN splice(s, i) = 1..Len(s) - 1
  BY DEF splice
<1>5. Len(splice(s, i)) = Len(s) - 1
  BY <1>1, <1>3, <1>4
<1> QED
  BY <1>3, <1>5 DEF splice

LEMMA AppendOf ==
  ASSUME NEW S, NEW s \in Seq(S), NEW t \in S
  PROVE  /\ Append(s, t) \in Seq(S) /\ Append(s, t) # <<>>
         /\ Ids(Append(s, t)) = Ids(s) \cup {t}
         /\ Distinct(s) /\ t \notin Ids(s) => Distinct(Append(s, t))
<1> DEFINE a == Append(s, t)
<1>1. /\ a \in Seq(S) /\ Len(a) = Len(s) + 1 /\ Len(s) \in Nat
      /\ a[Len(s) + 1] = t /\ \A i \in 1..Len(s) : a[i] = s[i]
  OBVIOUS
<1>2. 1..Len(a) = 1..Len(s) \cup {Len(s) + 1}
  BY <1>1
<1> HIDE DEF a
<1>3. Ids(a) = Ids(s) \cup {t}
  BY <1>1, <1>2 DEF Ids
<1>4. ASSUME Distinct(s), t \notin Ids(s) PROVE Distinct(a)
  BY <1>1, <1>2, <1>4 DEF Distinct, Ids
<1>5. a # <<>>
  BY <1>1
<1> QED
  BY <1>1, <1>3, <1>4, <1>5 DEF a

\* splice takes out the identifier at i, and only that.
LEMMA Spliced ==
  ASSUME NEW S, NEW s \in Seq(S), Distinct(s), NEW i \in 1..Len(s)
  PROVE  Ids(splice(s, i)) = Ids(s) \ {s[i]} /\ Distinct(splice(s, i))
<1> DEFINE w == splice(s, i)
<1>1. /\ w \in Seq(S) /\ Len(w) = Len(s) - 1 /\ Len(s) \in Nat
      /\ \A j \in 1..Len(s) - 1 : w[j] = IF j < i THEN s[j] ELSE s[j + 1]
  BY SpliceOf
<1> HIDE DEF w
<1>2. Distinct(w)
  <2> DEFINE at(j) == IF j < i THEN j ELSE j + 1
  <2>1. \A j \in 1..Len(w) : at(j) \in 1..Len(s) /\ w[j] = s[at(j)]
    BY <1>1
  <2>2. \A j, k \in 1..Len(w) : at(j) = at(k) => j = k
    BY <1>1
  <2> HIDE DEF at
  <2> QED BY <2>1, <2>2 DEF Distinct
<1>3. ASSUME NEW j \in 1..Len(w) PROVE w[j] \in Ids(s) \ {s[i]}
  <2>1. CASE j < i
    <3>1. j \in 1..Len(s) /\ j # i /\ w[j] = s[j]
      BY <1>1, <1>3, <2>1
    <3> QED BY <3>1 DEF Distinct, Ids
  <2>2. CASE ~ (j < i)
    <3>1. j + 1 \in 1..Len(s) /\ j + 1 # i /\ w[j] = s[j + 1]
      BY <1>1, <1>3, <2>2
    <3> QED BY <3>1 DEF Distinct, Ids
  <2> QED BY <2>1, <2>2
<1>4. ASSUME NEW k \in 1..Len(s), s[k] # s[i] PROVE s[k] \in Ids(w)
  <2>1. k # i
    BY <1>4
  <2>2. CASE k < i
    BY <1>1, <2>2 DEF Ids
  <2>3. CASE k > i
    <3>1. k - 1 \in 1..Len(w) /\ w[k - 1] = s[k]
      BY <1>1, <2>3
    <3> QED BY <3>1 DEF Ids
  <2> QED BY <2>1, <2>2, <2>3
<1>5. Ids(w) = Ids(s) \ {s[i]}
  BY <1>3, <1>4 DEF Ids
<1> QED BY <1>2, <1>5 DEF w

LEMMA WithoutOf ==
  ASSUME NEW S, NEW s \in Seq(S), Distinct(s), NEW t
  PROVE  /\ Without(s, t) \in Seq(S) /\ Distinct(Without(s, t))
         /\ Ids(Without(s, t)) = Ids(s) \ {t}
<1>1. CASE t \notin Ids(s)
  BY <1>1 DEF Without
<1>2. CASE t \in Ids(s)
  <2> DEFINE First(i) == s[i] = t /\ \A j \in 1..i - 1 : s[j] # t
             i0 == CHOOSE i \in 1..Len(s) : First(i)
  <2>1. PICK i \in 1..Len(s) : s[i] = t
    BY <1>2 DEF Ids
  <2>2. \A j \in 1..i - 1 : j \in 1..Len(s) /\ j # i
    BY <2>1
  <2>3. First(i)
    BY <2>1, <2>2 DEF Distinct
  <2>4. i0 \in 1..Len(s) /\ s[i0] = t
    BY <2>3
  <2>5. Without(s, t) = splice(s, i0)
    BY <1>2 DEF Without
  <2>6. splice(s, i0) \in Seq(S)
    BY <2>4, SpliceOf
  <2>7. Ids(splice(s, i0)) = Ids(s) \ {s[i0]} /\ Distinct(splice(s, i0))
    BY <2>4, Spliced
  <2> HIDE DEF i0
  <2> QED BY <2>4, <2>5, <2>6, <2>7
<1> QED BY <1>1, <1>2

\* What an answer leaves: the others, each once.
LEMMA PurgedOf ==
  ASSUME NEW S, NEW s \in Seq(S), Distinct(s), NEW gone, NEW r \in Purged(s, gone)
  PROVE  r \in Seq(S) /\ Distinct(r) /\ Ids(r) = Ids(s) \ gone
<1> DEFINE K == {i \in 1..Len(s) : s[i] \notin gone}
           n == Cardinality(K)
<1>1. n \in Nat
  <2>1. IsFiniteSet(1..Len(s))
    BY FS_Interval
  <2>2. IsFiniteSet(K)
    BY <2>1, FS_Subset
  <2> QED BY <2>2, FS_CardinalityType
<1>2. PICK h \in [1..n -> K] :
        /\ \A j, k \in 1..n : j < k => h[j] < h[k]
        /\ \A i \in K : \E j \in 1..n : h[j] = i
        /\ r = [j \in 1..n |-> s[h[j]]]
  BY DEF Purged
<1>3. K \subseteq 1..Len(s) /\ \A i \in K : s[i] \in S /\ s[i] \notin gone
  OBVIOUS
<1>4. \A i \in 1..Len(s) : s[i] \notin gone => i \in K
  OBVIOUS
<1> HIDE DEF K, n
<1>5. r \in [1..n -> S]
  BY <1>2, <1>3
<1>6. r \in Seq(S) /\ Len(r) = n
  BY <1>1, <1>5
<1>7. \A j \in 1..n : h[j] \in K /\ r[j] = s[h[j]]
  BY <1>2
<1>8. Distinct(r)
  <2> SUFFICES ASSUME NEW j \in 1..n, NEW k \in 1..n, r[j] = r[k] PROVE j = k
    BY <1>6 DEF Distinct
  <2>0. h[j] \in 1..Len(s) /\ h[k] \in 1..Len(s) /\ s[h[j]] = s[h[k]]
    BY <1>3, <1>7
  <2>1. h[j] = h[k]
    BY <2>0 DEF Distinct
  <2>2. h[j] \in Nat /\ h[k] \in Nat
    BY <2>0
  <2>3. ~ (h[j] < h[k]) /\ ~ (h[k] < h[j])
    BY <2>1, <2>2
  <2> QED BY <1>1, <1>2, <2>3
<1>9. Ids(r) = Ids(s) \ gone
  <2>1. ASSUME NEW j \in 1..n PROVE r[j] \in Ids(s) \ gone
    BY <1>3, <1>7 DEF Ids
  <2>2. ASSUME NEW i \in 1..Len(s), s[i] \notin gone PROVE \E j \in 1..n : r[j] = s[i]
    <3>1. PICK j \in 1..n : h[j] = i
      BY <1>2, <1>4, <2>2
    <3> QED BY <1>7, <3>1
  <2> QED BY <1>6, <2>1, <2>2 DEF Ids
<1> QED BY <1>6, <1>8, <1>9
-----------------------------------------------------------------------------
(* Who is in the room *)

LEMMA RoomInit == Init => RoomIInv
<1> SUFFICES ASSUME Init PROVE RoomIInv
  OBVIOUS
<1>1. TypeOK
  BY DEF Init, TypeOK
<1>2. Ids(connectedTunnelIds) = {} /\ Len(connectedTunnelIds) = 0
  BY DEF Init, Ids
<1> QED BY <1>1, <1>2 DEF Init, RoomIInv, RoomKnown, Arrivals

\* The tunnel service acts, or a packet is lost: the room stays as it is.
LEMMA ServiceStep ==
  ASSUME RoomIInv, NEW t \in Tunnels,
         get(t) \/ Connects(t) \/ Speaks(t) \/ Leaves(t) \/ closeTunnel(t)
         \/ \E p \in posts : PostLost(p)
  PROVE  RoomIInv'
<1> USE DEF RoomIInv, TypeOK, RoomKnown, Arrivals, room, network, history
<1>0. \A ty \in {"connect", "message", "close"} : [type |-> ty, id |-> t] \in Packet
  BY DEF Packet
<1>1. CASE get(t)
  BY <1>1 DEF get, Packet
<1>2. CASE Connects(t)
  <2>1. t \notin Ids(connectedTunnelIds) /\ \A p \in posts : p.id # t
    BY <1>2 DEF Connects
  <2>2. \A u \in Tunnels : u # t => tunnel'[u] = tunnel[u] /\ Connect(u) # Connect(t)
    BY <1>2 DEF Connects, Connect
  <2>3. tunnel'[t] = "open" /\ posts' = posts \cup {Connect(t)} /\ Connect(t).id = t
    BY <1>2 DEF Connects, Connect
  <2>4. UNCHANGED <<room, casts, answers, closes, heard, history>>
    BY <1>2 DEF Connects
  <2>5. TypeOK'
    BY <1>0, <1>2 DEF Connects
  <2>6. \A p \in posts' : tunnel'[p.id] \in {"open", "closed"}
    BY <2>1, <2>2, <2>3 DEF Packet
  <2>7. \A u \in Ids(connectedTunnelIds) :
          tunnel'[u] \in {"open", "closed"} /\ Connect(u) \notin posts'
    BY <2>1, <2>2, <2>3
  <2> QED BY <2>4, <2>5, <2>6, <2>7
<1>3. CASE Speaks(t)
  <2>1. \A u \in Tunnels : Connect(u) # [type |-> "message", id |-> t]
    BY DEF Connect
  <2> QED BY <1>0, <1>3, <2>1 DEF Speaks
<1>4. ASSUME tunnel[t] = "open", tunnel' = [tunnel EXCEPT ![t] = "closed"],
             posts' \in {posts, posts \cup {[type |-> "close", id |-> t]}}
      PROVE  Arrivals' \/ connectedTunnelIds' # connectedTunnelIds
  <2>1. \A u \in Tunnels : Connect(u) # [type |-> "close", id |-> t]
    BY DEF Connect
  <2>2. \A u \in Tunnels : tunnel[u] \in {"open", "closed"} => tunnel'[u] \in {"open", "closed"}
    BY <1>4
  <2>3. \A p \in posts' : p \in posts \/ p.id = t
    BY <1>4
  <2>4. \A p \in posts' : tunnel'[p.id] \in {"open", "closed"}
    BY <1>4, <2>2, <2>3 DEF Packet
  <2> QED BY <1>4, <2>1, <2>2, <2>4
<1>5. CASE Leaves(t)
  <2>1. Arrivals'
    BY <1>4, <1>5 DEF Leaves
  <2>2. TypeOK' /\ RoomKnown'
    BY <1>0, <1>5 DEF Leaves
  <2> QED BY <2>1, <2>2
<1>6. CASE closeTunnel(t)
  <2>1. Arrivals'
    BY <1>4, <1>6 DEF closeTunnel
  <2>2. TypeOK' /\ RoomKnown'
    BY <1>0, <1>6 DEF closeTunnel
  <2> QED BY <2>1, <2>2
<1>7. CASE \E p \in posts : PostLost(p)
  BY <1>7 DEF PostLost, Packet
<1> QED BY <1>1, <1>2, <1>3, <1>5, <1>6, <1>7

LEMMA CastType ==
  ASSUME NEW c \in Seq(Cast), NEW s \in Seq(Tunnels), NEW n \in Nat
  PROVE  broadcast(c, s, n) \in Seq(Cast)
<1>1. [to |-> Ids(s), total |-> n] \in Cast
  BY IdsOf DEF Cast
<1> QED BY <1>1 DEF broadcast

\* A packet is handled.
LEMMA PostStep ==
  ASSUME RoomIInv, NEW p \in posts, post(p)
  PROVE  RoomIInv'
<1> DEFINE s == connectedTunnelIds
           t == p.id
<1>0. /\ TypeOK /\ s \in Seq(Tunnels) /\ Distinct(s) /\ Ids(s) \subseteq userMap
      /\ t \in Tunnels /\ p \in Packet
  BY DEF RoomIInv, TypeOK, RoomKnown, Distinct, Packet
<1>1. /\ posts' \subseteq posts /\ tunnel' = tunnel /\ p \notin posts'
      /\ UNCHANGED <<answers, heard, calm, lost>>
  BY DEF post, history
<1>2. CASE t \in userMap /\ p.type = "connect"
  <2>1. /\ connectedTunnelIds' = Append(s, t) /\ userMap' = userMap /\ closes' = closes
        /\ casts' = broadcast(casts, Append(s, t), Len(Append(s, t)))
    BY <1>2 DEF post, onConnect
  <2>2. p = Connect(t)
    BY <1>0, <1>2 DEF Packet, Connect
  <2>3. t \notin Ids(s)
    BY <2>2 DEF RoomIInv, Arrivals
  <2>4. /\ Append(s, t) \in Seq(Tunnels) /\ Len(Append(s, t)) \in Nat
        /\ Ids(Append(s, t)) = Ids(s) \cup {t} /\ Distinct(Append(s, t))
    BY <1>0, <2>3, AppendOf
  <2>5. casts' \in Seq(Cast)
    BY <1>0, <2>1, <2>4, CastType DEF TypeOK
  <2>6. TypeOK'
    BY <1>0, <1>1, <2>1, <2>4, <2>5 DEF TypeOK
  <2>7. RoomKnown'
    BY <1>0, <1>2, <2>1, <2>4 DEF RoomKnown, Distinct
  <2>8. Arrivals'
    BY <1>1, <2>1, <2>2, <2>4 DEF RoomIInv, Arrivals
  <2> QED BY <2>6, <2>7, <2>8 DEF RoomIInv
<1>3. CASE t \in userMap /\ p.type = "message"
  <2>1. UNCHANGED <<userMap, connectedTunnelIds, closes>> /\ casts' = broadcast(casts, s, 0)
    BY <1>3 DEF post, onMessage, room
  <2>2. casts' \in Seq(Cast)
    BY <1>0, <2>1, CastType DEF TypeOK
  <2>3. TypeOK' /\ RoomKnown' /\ Arrivals'
    BY <1>0, <1>1, <2>1, <2>2 DEF RoomIInv, TypeOK, RoomKnown, Arrivals
  <2> QED BY <2>3 DEF RoomIInv
<1>4. CASE t \in userMap /\ p.type = "close"
  <2> DEFINE w == Without(s, t)
  <2>1. /\ connectedTunnelIds' = w /\ userMap' = userMap \ {t} /\ closes' = closes
        /\ casts' = IF w = <<>> THEN casts ELSE broadcast(casts, w, Len(w))
    BY <1>4 DEF post, onClose
  <2>2. w \in Seq(Tunnels) /\ Distinct(w) /\ Ids(w) = Ids(s) \ {t}
    BY <1>0, WithoutOf
  <2> HIDE DEF w
  <2>3. casts' \in Seq(Cast)
    <3>1. Len(w) \in Nat
      BY <2>2
    <3> QED BY <1>0, <2>1, <2>2, <3>1, CastType DEF TypeOK
  <2>4. TypeOK' /\ RoomKnown' /\ Arrivals'
    BY <1>0, <1>1, <2>1, <2>2, <2>3 DEF RoomIInv, TypeOK, RoomKnown, Arrivals, Distinct
  <2> QED BY <2>4 DEF RoomIInv
<1>5. CASE t \notin userMap
  <2>1. UNCHANGED <<userMap, connectedTunnelIds, casts>> /\ closes' = closes \cup {t}
    BY <1>0, <1>5 DEF post, onConnect, onMessage, onClose, room, Packet
  <2>2. TypeOK' /\ RoomKnown' /\ Arrivals'
    BY <1>0, <1>1, <2>1 DEF RoomIInv, TypeOK, RoomKnown, Arrivals
  <2> QED BY <2>2 DEF RoomIInv
<1> QED BY <1>0, <1>2, <1>3, <1>4, <1>5 DEF Packet

\* A push reaches the service or fails.
LEMMA PushStep ==
  ASSUME RoomIInv, NEW i \in 1..Len(casts), Push(i) \/ PushFails(i)
  PROVE  RoomIInv'
<1>0. TypeOK /\ casts[i] \in Cast /\ splice(casts, i) \in Seq(Cast)
  BY SpliceOf DEF RoomIInv, TypeOK
<1>1. casts' = splice(casts, i) /\ UNCHANGED <<tunnel, room, posts, closes, lost>>
  BY DEF Push, PushFails
<1>2. calm' \in BOOLEAN
  BY <1>0 DEF Push, PushFails, TypeOK
<1>3. heard' \in [Tunnels -> Nat] /\ answers' \in Seq(SUBSET Tunnels)
  <2>1. CASE Push(i)
    <3> DEFINE invalid == {t \in casts[i].to : tunnel[t] # "open"}
    <3>1. invalid \in SUBSET Tunnels /\ casts[i].total \in Nat
      BY <1>0 DEF Cast
    <3>2. /\ heard' = [t \in Tunnels |-> IF t \in casts[i].to \ invalid /\ casts[i].total # 0
                                         THEN casts[i].total ELSE heard[t]]
          /\ answers' = IF invalid = {} THEN answers ELSE Append(answers, invalid)
      BY <2>1 DEF Push
    <3> HIDE DEF invalid
    <3> QED BY <1>0, <3>1, <3>2 DEF TypeOK
  <2>2. CASE PushFails(i)
    BY <1>0, <2>2 DEF PushFails, TypeOK
  <2> QED BY <2>1, <2>2
<1>4. TypeOK' /\ RoomKnown' /\ Arrivals'
  BY <1>0, <1>1, <1>2, <1>3 DEF RoomIInv, TypeOK, RoomKnown, Arrivals, room
<1> QED BY <1>4 DEF RoomIInv

\* The answer of a push, or the end of the process.
LEMMA AnswerStep ==
  ASSUME RoomIInv, Restart \/ \E i \in 1..Len(answers) : BroadcastAnswered(i)
  PROVE  RoomIInv'
<1>0. /\ TypeOK /\ connectedTunnelIds \in Seq(Tunnels) /\ Distinct(connectedTunnelIds)
      /\ answers \in Seq(SUBSET Tunnels)
  BY DEF RoomIInv, TypeOK, RoomKnown, Distinct
<1>1. CASE Restart
  <2>1. /\ connectedTunnelIds' = <<>> /\ Ids(<<>>) = {} /\ 1..Len(<<>>) = {}
        /\ <<>> \in Seq(Tunnels) /\ <<>> \in Seq(SUBSET Tunnels)
    BY <1>1 DEF Restart, Ids
  <2>2. userMap' = {} /\ answers' = <<>> /\ UNCHANGED <<tunnel, posts, casts, closes, heard, lost>>
        /\ calm' = FALSE
    BY <1>1 DEF Restart
  <2>3. TypeOK'
    BY <1>0, <2>1, <2>2 DEF TypeOK
  <2>4. RoomKnown' /\ Arrivals'
    BY <2>1, <2>2 DEF RoomIInv, RoomKnown, Arrivals
  <2> QED BY <2>3, <2>4 DEF RoomIInv
<1>2. ASSUME NEW i \in 1..Len(answers), BroadcastAnswered(i) PROVE RoomIInv'
  <2> DEFINE r == connectedTunnelIds'
  <2>1. /\ userMap' = userMap \ answers[i] /\ answers' = splice(answers, i)
        /\ r \in Purged(connectedTunnelIds, answers[i])
        /\ calm' = (calm /\ r = connectedTunnelIds)
        /\ UNCHANGED <<tunnel, posts, casts, closes, heard, lost>>
    BY <1>2 DEF BroadcastAnswered
  <2>2. r \in Seq(Tunnels) /\ Distinct(r) /\ Ids(r) = Ids(connectedTunnelIds) \ answers[i]
    BY <1>0, <2>1, PurgedOf
  <2>3. answers' \in Seq(SUBSET Tunnels)
    BY <1>0, <2>1, SpliceOf
  <2>4. TypeOK' /\ RoomKnown' /\ Arrivals'
    BY <1>0, <2>1, <2>2, <2>3 DEF RoomIInv, TypeOK, RoomKnown, Arrivals, Distinct
  <2> QED BY <2>4 DEF RoomIInv
<1> QED BY <1>1, <1>2

LEMMA RoomStep == RoomIInv /\ [Next]_vars => RoomIInv'
<1> SUFFICES ASSUME RoomIInv, [Next]_vars PROVE RoomIInv'
  OBVIOUS
<1>1. CASE UNCHANGED vars
  BY <1>1 DEF RoomIInv, TypeOK, RoomKnown, Arrivals, vars, room, network, history
<1>2. ASSUME NEW t \in Tunnels,
             get(t) \/ Connects(t) \/ Speaks(t) \/ Leaves(t) \/ closeTunnel(t)
      PROVE  RoomIInv'
  BY <1>2, ServiceStep
<1>3. ASSUME NEW p \in posts, post(p) \/ PostLost(p) PROVE RoomIInv'
  <2>1. p.id \in Tunnels
    BY DEF RoomIInv, TypeOK, Packet
  <2> QED BY <1>3, <2>1, PostStep, ServiceStep
<1> QED BY <1>1, <1>2, <1>3, PushStep, AnswerStep DEF Next

\* Every packet, push and answer keeps who is in the room known, and in it once,
\* in whatever order they arrive (tunnel.js:21-35, 57, 82 and 109-115).
THEOREM RoomIsKnown == Spec => []RoomInv
<1>1. RoomIInv => RoomInv
  BY DEF RoomIInv, RoomInv
<1> QED BY <1>1, RoomInit, RoomStep, PTL DEF Spec
-----------------------------------------------------------------------------
(* What the members were told *)

\* A new total agrees with the room it tells of, whatever went before.
LEMMA TotalTold ==
  ASSUME NEW c \in Seq(Cast), NEW s \in Seq(Tunnels), s # <<>>, NEW h, NEW st
  PROVE  Agrees(broadcast(c, s, Len(s)), s) /\ Told(broadcast(c, s, Len(s)), s, h, st)
<1> DEFINE q == [to |-> Ids(s), total |-> Len(s)]
           d == Append(c, q)
<1>1. /\ Len(d) = Len(c) + 1 /\ Len(c) \in Nat /\ d[Len(c) + 1] = q
      /\ q.to = Ids(s) /\ q.total = Len(s)
  OBVIOUS
<1>2. Len(s) # 0 /\ d = broadcast(c, s, Len(s))
  BY DEF broadcast
<1> HIDE DEF d, q
<1>3. Len(d) \in 1..Len(d) /\ d[Len(d)].total # 0
  BY <1>1, <1>2
<1>4. \A i \in 1..Len(d) : Last(d, i) => i = Len(d)
  BY <1>1, <1>3 DEF Last
<1>5. Agrees(d, s)
  BY <1>1, <1>4 DEF Agrees
<1>6. Told(d, s, h, st)
  BY <1>3 DEF Told
<1> QED BY <1>2, <1>5, <1>6

\* Somebody's words carry no total.
LEMMA WordsTold ==
  ASSUME NEW c \in Seq(Cast), NEW s \in Seq(Tunnels), NEW h, NEW st,
         Agrees(c, s), Told(c, s, h, st)
  PROVE  Agrees(broadcast(c, s, 0), s) /\ Told(broadcast(c, s, 0), s, h, st)
<1> DEFINE q == [to |-> Ids(s), total |-> 0]
           d == Append(c, q)
<1>1. /\ Len(d) = Len(c) + 1 /\ Len(c) \in Nat /\ d[Len(c) + 1] = q
      /\ q.total = 0 /\ \A i \in 1..Len(c) : d[i] = c[i]
  OBVIOUS
<1>2. d = broadcast(c, s, 0)
  BY DEF broadcast
<1> HIDE DEF d, q
<1>3. 1..Len(c) \subseteq 1..Len(d) /\ \A i \in 1..Len(d) : i \in 1..Len(c) \/ d[i].total = 0
  BY <1>1
<1>4. \A i \in 1..Len(d) : Last(d, i) => i \in 1..Len(c) /\ Last(c, i)
  BY <1>1, <1>3 DEF Last
<1>5. Agrees(d, s)
  BY <1>1, <1>4 DEF Agrees
<1>6. Told(d, s, h, st)
  BY <1>1, <1>3 DEF Told
<1> QED BY <1>2, <1>5, <1>6

\* The first push arrives: what it says is heard, and the others stay.
LEMMA PushTold ==
  ASSUME ToldIInv, calm, connectedTunnelIds # <<>>, Len(casts) # 0, Push(1)
  PROVE  Agrees(casts', connectedTunnelIds) /\ Told(casts', connectedTunnelIds, heard', tunnel)
<1> DEFINE s == connectedTunnelIds
           c == casts[1]
           d == splice(casts, 1)
<1>1. /\ casts \in Seq(Cast) /\ s \in Seq(Tunnels) /\ 1 \in 1..Len(casts) /\ Len(casts) \in Nat
      /\ heard \in [Tunnels -> Nat]
  BY DEF ToldIInv, RoomIInv, TypeOK
<1>2. /\ Agrees(casts, s) /\ Told(casts, s, heard, tunnel)
  BY DEF ToldIInv, LastTold
<1>3. /\ Len(d) = Len(casts) - 1 /\ \A j \in 1..Len(casts) - 1 : d[j] = casts[j + 1]
  <2>1. \A j \in 1..Len(casts) - 1 : d[j] = IF j < 1 THEN casts[j] ELSE casts[j + 1]
    BY <1>1, SpliceOf
  <2>2. Len(d) = Len(casts) - 1
    BY <1>1, SpliceOf
  <2> HIDE DEF d
  <2> QED BY <1>1, <2>1, <2>2
<1>4. /\ casts' = d
      /\ heard' = [t \in Tunnels |-> IF t \in c.to \ {u \in c.to : tunnel[u] # "open"} /\ c.total # 0
                                     THEN c.total ELSE heard[t]]
  BY DEF Push
<1> HIDE DEF d
<1>5. \A i \in 2..Len(casts) : i - 1 \in 1..Len(d) /\ d[i - 1] = casts[i]
  BY <1>1, <1>3
<1>6. Agrees(d, s)
  <2> SUFFICES ASSUME NEW i \in 1..Len(d), Last(d, i)
               PROVE  d[i].to = Ids(s) /\ d[i].total = Len(s)
    BY DEF Agrees
  <2>1. i + 1 \in 1..Len(casts) /\ d[i] = casts[i + 1]
    BY <1>1, <1>3
  <2>2. ASSUME NEW j \in 1..Len(casts), i + 1 < j PROVE casts[j].total = 0
    <3>1. j \in 2..Len(casts) /\ i < j - 1
      BY <2>1, <2>2
    <3> QED BY <1>5, <3>1 DEF Last
  <2>3. Last(casts, i + 1)
    BY <2>1, <2>2 DEF Last
  <2> QED BY <1>2, <2>1, <2>3 DEF Agrees
<1>7. Told(d, s, heard', tunnel)
  <2> SUFFICES ASSUME \A i \in 1..Len(d) : d[i].total = 0,
                      NEW t \in Ids(s), tunnel[t] = "open"
               PROVE  heard'[t] = Len(s)
    BY DEF Told
  <2>1. \A i \in 2..Len(casts) : casts[i].total = 0
    BY <1>5
  <2>2. t \in Tunnels
    BY <1>1, IdsOf
  <2>3. CASE c.total = 0
    <3>1. \A i \in 1..Len(casts) : casts[i].total = 0
      BY <1>1, <2>1, <2>3
    <3>2. heard[t] = Len(s)
      BY <1>2, <3>1 DEF Told
    <3> QED BY <1>4, <2>2, <2>3, <3>2
  <2>4. CASE c.total # 0
    <3>1. \A j \in 1..Len(casts) : 1 < j => j \in 2..Len(casts)
      BY <1>1
    <3>2. Last(casts, 1)
      BY <2>1, <2>4, <3>1 DEF Last
    <3>3. c.to = Ids(s) /\ c.total = Len(s)
      BY <1>1, <1>2, <3>2 DEF Agrees
    <3> QED BY <1>4, <2>2, <2>4, <3>3
  <2> QED BY <2>3, <2>4
<1> QED BY <1>4, <1>6, <1>7

LEMMA ToldStep == ToldIInv /\ [Next]_vars => ToldIInv'
<1> SUFFICES ASSUME ToldIInv, [Next]_vars PROVE ToldIInv'
  OBVIOUS
<1> DEFINE s == connectedTunnelIds
<1>0. /\ RoomIInv /\ s \in Seq(Tunnels) /\ Distinct(s) /\ casts \in Seq(Cast) /\ Ids(s) \subseteq Tunnels
      /\ calm \in BOOLEAN /\ tunnel \in [Tunnels -> {"none", "given", "open", "closed"}]
      /\ heard \in [Tunnels -> Nat] /\ posts \subseteq Packet
  BY IdsOf DEF ToldIInv, RoomIInv, TypeOK, RoomKnown, Distinct
<1>00. RoomIInv'
  BY <1>0, RoomStep
<1> SUFFICES ASSUME calm', s' # <<>>
             PROVE  Agrees(casts', s') /\ Told(casts', s', heard', tunnel')
  BY <1>00 DEF ToldIInv, LastTold
<1>1. ASSUME calm, s' = s, casts' = casts, heard' = heard,
             \A t \in Ids(s) : tunnel'[t] = "open" => tunnel[t] = "open"
      PROVE  Agrees(casts', s') /\ Told(casts', s', heard', tunnel')
  BY <1>1 DEF ToldIInv, LastTold, Told
<1>2. CASE UNCHANGED vars
  BY <1>1, <1>2 DEF vars, room, network, history
<1>3. ASSUME NEW t \in Tunnels,
             get(t) \/ Connects(t) \/ Speaks(t) \/ Leaves(t) \/ closeTunnel(t)
      PROVE  Agrees(casts', s') /\ Told(casts', s', heard', tunnel')
  <2>1. calm' = calm /\ s' = s /\ casts' = casts /\ heard' = heard
    BY <1>3 DEF get, Connects, Speaks, Leaves, closeTunnel, room, network, history
  <2>2. \A u \in Ids(s) : tunnel[u] \in {"open", "closed"}
    BY <1>0 DEF RoomIInv, Arrivals
  <2>3. \A u \in Ids(s) : tunnel'[u] = "open" => tunnel[u] = "open"
    <3>1. CASE tunnel' = tunnel
      BY <3>1
    <3>2. CASE tunnel[t] \notin {"open", "closed"} /\ \E v : tunnel' = [tunnel EXCEPT ![t] = v]
      BY <1>0, <2>2, <3>2
    <3>3. CASE tunnel' = [tunnel EXCEPT ![t] = "closed"]
      BY <1>0, <3>3
    <3> QED BY <1>3, <3>1, <3>2, <3>3 DEF get, Connects, Speaks, Leaves, closeTunnel
  <2> QED BY <1>1, <2>1, <2>3
<1>4. ASSUME NEW p \in posts, PostLost(p)
      PROVE  Agrees(casts', s') /\ Told(casts', s', heard', tunnel')
  BY <1>1, <1>4 DEF PostLost, room
<1>5. ASSUME NEW p \in posts, post(p)
      PROVE  Agrees(casts', s') /\ Told(casts', s', heard', tunnel')
  <2>1. calm /\ heard' = heard /\ tunnel' = tunnel /\ s' \in Seq(Tunnels)
        /\ p.type \in {"connect", "message", "close"}
    BY <1>0, <1>00, <1>5 DEF post, history, RoomIInv, TypeOK, Packet
  <2>2. CASE casts' = broadcast(casts, s', Len(s'))
    BY <1>0, <2>1, <2>2, TotalTold
  <2>3. CASE s' = s /\ casts' = casts
    BY <1>1, <2>1, <2>3
  <2>4. CASE s' = s /\ casts' = broadcast(casts, s, 0)
    <3>1. Agrees(casts, s) /\ Told(casts, s, heard, tunnel)
      BY <2>1, <2>4 DEF ToldIInv, LastTold
    <3>2. Agrees(casts', s) /\ Told(casts', s, heard, tunnel)
      BY <1>0, <2>4, <3>1, WordsTold
    <3> QED BY <2>1, <2>4, <3>2
  <2>5. CASE p.type = "connect"
    BY <1>5, <2>2, <2>3, <2>5 DEF post, onConnect, room
  <2>6. CASE p.type = "message"
    BY <1>5, <2>3, <2>4, <2>6 DEF post, onMessage, room
  <2>7. CASE p.type = "close"
    BY <1>5, <2>2, <2>3, <2>7 DEF post, onClose, room
  <2> QED BY <2>1, <2>5, <2>6, <2>7
<1>6. ASSUME NEW i \in 1..Len(casts), Push(i) \/ PushFails(i)
      PROVE  Agrees(casts', s') /\ Told(casts', s', heard', tunnel')
  <2>1. calm /\ i = 1 /\ Push(1)
    BY <1>6 DEF Push, PushFails
  <2>2. s' = s /\ tunnel' = tunnel /\ Len(casts) # 0
    BY <1>6, <2>1 DEF Push, room
  <2> QED BY <2>1, <2>2, PushTold
<1>7. ASSUME NEW i \in 1..Len(answers), BroadcastAnswered(i)
      PROVE  Agrees(casts', s') /\ Told(casts', s', heard', tunnel')
  BY <1>1, <1>7 DEF BroadcastAnswered
<1>8. CASE Restart
  BY <1>8 DEF Restart
<1> QED BY <1>2, <1>3, <1>4, <1>5, <1>6, <1>7, <1>8 DEF Next

\* With no push on its way every member was told how many there are, as long as
\* pushes arrive in order and none fails (tunnel.js:60, 120 and 29).
THEOREM MembersKnowTheirNumber == Spec => []TotalsAgree
<1>1. Init => ToldIInv
  BY RoomInit DEF Init, ToldIInv, LastTold
<1>2. ToldIInv => TotalsAgree
  <2> SUFFICES ASSUME ToldIInv, calm, casts = <<>>, NEW t \in Ids(connectedTunnelIds),
                      tunnel[t] = "open"
               PROVE  heard[t] = Len(connectedTunnelIds)
    BY DEF TotalsAgree
  <2>1. connectedTunnelIds # <<>>
    BY DEF Ids
  <2>2. \A i \in 1..Len(casts) : casts[i].total = 0
    OBVIOUS
  <2> QED BY <2>1, <2>2 DEF ToldIInv, LastTold, Told
<1> QED BY <1>1, <1>2, ToldStep, PTL DEF Spec
=============================================================================
