------------------------------ MODULE ChatTunnel ------------------------------
(***************************************************************************)
(* The chat room of the mini-program's server, server/controllers/         *)
(* tunnel.js.  The tunnel service (external) holds the WebSockets; it      *)
(* posts what happens on them, and the room asks it to push messages.      *)
(*                                                                         *)
(* userMap and connectedTunnelIds live in the memory of the node process.  *)
(* Every post and every push is an HTTP request of its own: they overtake  *)
(* one another, and the answer of a push, which names the tunnels that are *)
(* gone, changes lists that have moved on.                                 *)
(***************************************************************************)
EXTENDS Naturals, Sequences, FiniteSets

CONSTANTS Tunnels,     \* identifiers the service hands out, each once
          MaxCasts,    \* bound: pushes a member's words may add to
          MaxAnswers   \* bound: answers that name tunnels, on their way

ASSUME TunnelAssumption == MaxCasts \in Nat /\ MaxAnswers \in Nat

VARIABLES
  tunnel,              \* service: "none", "given", "open" or "closed"
  userMap,             \* the tunnels a user is known for
  connectedTunnelIds,  \* the room, in order of arrival
  posts,               \* packets on their way to post
  casts,               \* pushes on their way to the service
  answers,             \* sets of invalid tunnels on their way back
  closes,              \* closeTunnel requests on their way
  heard,               \* client: the last total it was told, 0 before
  calm,                \* history: pushes arrive in order, nobody left silently
  lost                 \* history: tunnels a packet about which was lost

room    == <<userMap, connectedTunnelIds>>
network == <<posts, casts, answers, closes>>
history == <<calm, lost>>
vars    == <<tunnel, room, network, heard, history>>

Packet == [type : {"connect", "message", "close"}, id : Tunnels]
Cast   == [to : SUBSET Tunnels, total : Nat]  \* total 0: somebody's words

Ids(s) == {s[i] : i \in 1..Len(s)}

\* Array.splice(i, 1).
splice(s, i) == [j \in 1..Len(s) - 1 |-> IF j < i THEN s[j] ELSE s[j + 1]]

\* indexOf and splice: the first occurrence goes, if there is one.
Without(s, t) ==
  IF t \in Ids(s)
  THEN splice(s, CHOOSE i \in 1..Len(s) :
                   s[i] = t /\ \A j \in 1..i - 1 : s[j] # t)
  ELSE s

\* The then of $broadcast: forEach of the tunnels named, indexOf and splice.  No
\* identifier is in the list twice (RoomKnown), so that what is left is s read at
\* the places of the others, in their order: one list.
Purged(s, gone) ==
  LET K == {i \in 1..Len(s) : s[i] \notin gone}
      N == 1..Cardinality(K)
      Places == {h \in [N -> K] : /\ \A j, k \in N : j < k => h[j] < h[k]
                                  /\ \A i \in K : \E j \in N : h[j] = i}
  IN  {[j \in N |-> s[h[j]]] : h \in Places}

\* The list is serialised when $broadcast is called.
broadcast(c, s, total) == Append(c, [to |-> Ids(s), total |-> total])

Init ==
  /\ tunnel = [t \in Tunnels |-> "none"]
  /\ userMap = {} /\ connectedTunnelIds = <<>>
  /\ posts = {} /\ casts = <<>> /\ answers = <<>> /\ closes = {}
  /\ heard = [t \in Tunnels |-> 0]
  /\ calm = TRUE /\ lost = {}
-----------------------------------------------------------------------------
\* get: the service has made a tunnel, the user is remembered, the client gets
\* the address.  If getTunnelUrl fails nothing is remembered.
get(t) ==
  /\ tunnel[t] = "none"
  /\ tunnel' = [tunnel EXCEPT ![t] = "given"]
  /\ userMap' = userMap \cup {t}
  /\ UNCHANGED <<connectedTunnelIds, network, heard, history>>

\* The client opens its tunnel, says something, or is gone: the service posts.
Connects(t) ==
  /\ tunnel[t] = "given"
  /\ tunnel' = [tunnel EXCEPT ![t] = "open"]
  /\ posts' = posts \cup {[type |-> "connect", id |-> t]}
  /\ UNCHANGED <<room, casts, answers, closes, heard, history>>

Speaks(t) ==
  /\ tunnel[t] = "open"
  /\ Len(casts) + Cardinality({p \in posts : p.type = "message"}) < MaxCasts
  /\ posts' = posts \cup {[type |-> "message", id |-> t]}
  /\ UNCHANGED <<tunnel, room, casts, answers, closes, heard, history>>

Leaves(t) ==
  /\ tunnel[t] = "open"
  /\ tunnel' = [tunnel EXCEPT ![t] = "closed"]
  /\ posts' = posts \cup {[type |-> "close", id |-> t]}
  /\ UNCHANGED <<room, casts, answers, closes, heard, history>>

PostLost(p) ==
  /\ p \in posts
  /\ posts' = posts \ {p}
  /\ lost' = lost \cup {p.id}
  /\ UNCHANGED <<tunnel, room, casts, answers, closes, heard, calm>>

\* The newcomer is announced before it is in the list.
onConnect_CastFirst(t) ==
  IF t \in userMap
  THEN /\ casts' = broadcast(casts, connectedTunnelIds, Len(connectedTunnelIds) + 1)
       /\ connectedTunnelIds' = Append(connectedTunnelIds, t)
       /\ UNCHANGED <<userMap, closes>>
  ELSE closes' = closes \cup {t} /\ UNCHANGED <<room, casts>>

onConnect(t) ==
  IF t \in userMap
  THEN /\ connectedTunnelIds' = Append(connectedTunnelIds, t)
       /\ casts' = broadcast(casts, connectedTunnelIds', Len(connectedTunnelIds'))
       /\ UNCHANGED <<userMap, closes>>
  ELSE closes' = closes \cup {t} /\ UNCHANGED <<room, casts>>

onMessage(t) ==
  IF t \in userMap
  THEN casts' = broadcast(casts, connectedTunnelIds, 0) /\ UNCHANGED <<room, closes>>
  ELSE closes' = closes \cup {t} /\ UNCHANGED <<room, casts>>

\* The user is forgotten, the tunnel stays in the list.
onClose_NoSplice(t) ==
  IF t \in userMap
  THEN /\ userMap' = userMap \ {t}
       /\ UNCHANGED <<connectedTunnelIds, casts, closes>>
  ELSE closes' = closes \cup {t} /\ UNCHANGED <<room, casts>>

onClose(t) ==
  IF t \in userMap
  THEN /\ userMap' = userMap \ {t}
       /\ connectedTunnelIds' = Without(connectedTunnelIds, t)
       /\ casts' = IF connectedTunnelIds' = <<>> THEN casts
                   ELSE broadcast(casts, connectedTunnelIds', Len(connectedTunnelIds'))
       /\ UNCHANGED closes
  ELSE closes' = closes \cup {t} /\ UNCHANGED <<room, casts>>

\* post, after onTunnelMessage has checked and parsed the body: the packets of
\* one tunnel may have overtaken one another by now.
post(p) ==
  /\ p \in posts
  /\ posts' = posts \ {p}
  /\ CASE p.type = "connect" -> onConnect(p.id)
       [] p.type = "message" -> onMessage(p.id)
       [] p.type = "close"   -> onClose(p.id)
  /\ UNCHANGED <<tunnel, answers, heard, history>>

\* The i-th push reaches the service: open tunnels hear it, the others are
\* named in the answer.
Push(i) ==
  /\ i \in 1..Len(casts)
  /\ LET c == casts[i]
         invalid == {t \in c.to : tunnel[t] # "open"} IN
     /\ heard' = [t \in Tunnels |-> IF t \in c.to \ invalid /\ c.total # 0
                                    THEN c.total ELSE heard[t]]
     /\ answers' = IF invalid = {} THEN answers ELSE Append(answers, invalid)
     /\ Len(answers') <= MaxAnswers
  /\ casts' = splice(casts, i)
  /\ calm' = (calm /\ i = 1)
  /\ UNCHANGED <<tunnel, room, posts, closes, lost>>

\* The request fails: no then, and nobody catches it.
PushFails(i) ==
  /\ i \in 1..Len(casts)
  /\ casts' = splice(casts, i)
  /\ calm' = FALSE
  /\ UNCHANGED <<tunnel, room, posts, answers, closes, heard, lost>>

\* Only the user is forgotten.
BroadcastAnswered_KeepsPlace(i) ==
  /\ i \in 1..Len(answers)
  /\ userMap' = userMap \ answers[i]
  /\ answers' = splice(answers, i)
  /\ UNCHANGED <<tunnel, connectedTunnelIds, posts, casts, closes, heard, history>>

\* The tunnels an answer names are taken out of both.
BroadcastAnswered(i) ==
  /\ i \in 1..Len(answers)
  /\ userMap' = userMap \ answers[i]
  /\ connectedTunnelIds' \in Purged(connectedTunnelIds, answers[i])
  /\ answers' = splice(answers, i)
  /\ calm' = (calm /\ connectedTunnelIds' = connectedTunnelIds)
  /\ UNCHANGED <<tunnel, posts, casts, closes, heard, lost>>

\* $close: the service closes the tunnel, and may or may not post about it.
closeTunnel(t) ==
  /\ t \in closes
  /\ closes' = closes \ {t}
  /\ IF tunnel[t] = "open"
     THEN /\ tunnel' = [tunnel EXCEPT ![t] = "closed"]
          /\ posts' \in {posts, posts \cup {[type |-> "close", id |-> t]}}
     ELSE UNCHANGED <<tunnel, posts>>
  /\ UNCHANGED <<room, casts, answers, heard, history>>

\* The node process ends and starts again: what the lists held is gone.
Restart ==
  /\ userMap' = {} /\ connectedTunnelIds' = <<>> /\ answers' = <<>>
  /\ calm' = FALSE
  /\ UNCHANGED <<tunnel, posts, casts, closes, heard, lost>>

Next ==
  \/ \E t \in Tunnels : \/ get(t) \/ Connects(t) \/ Speaks(t) \/ Leaves(t)
                        \/ closeTunnel(t)
  \/ \E p \in posts : post(p) \/ PostLost(p)
  \/ \E i \in 1..Len(casts) : Push(i) \/ PushFails(i)
  \/ \E i \in 1..Len(answers) : BroadcastAnswered(i)
  \/ Restart

\* A packet that is not lost is handled.
Spec == Init /\ [][Next]_vars /\ \A p \in Packet : WF_vars(post(p))
-----------------------------------------------------------------------------
\* Types of the room, of what is on its way, and of the clients.
TypeOK ==
  /\ tunnel \in [Tunnels -> {"none", "given", "open", "closed"}]
  /\ userMap \subseteq Tunnels /\ connectedTunnelIds \in Seq(Tunnels)
  /\ posts \subseteq Packet /\ casts \in Seq(Cast)
  /\ answers \in Seq(SUBSET Tunnels) /\ closes \subseteq Tunnels
  /\ heard \in [Tunnels -> Nat]
  /\ calm \in BOOLEAN /\ lost \subseteq Tunnels

\* Whoever is in the room is known, and is in it once, however packets and the
\* answers of pushes overtake one another: 'who' and 'leave' always name a
\* user, and taking out the first occurrence takes out all (tunnel.js:21-35,
\* 57, 82 and 109-115).
RoomKnown ==
  /\ Ids(connectedTunnelIds) \subseteq userMap
  /\ \A i, j \in 1..Len(connectedTunnelIds) :
       connectedTunnelIds[i] = connectedTunnelIds[j] => i = j

\* Types, and who is in the room.
RoomInv == TypeOK /\ RoomKnown

\* With nothing on its way, every member was last told how many there are;
\* unless pushes overtook one another or failed, or a member was taken out by
\* the answer of a push, which tells nobody (tunnel.js:60, 120 and 29).
TotalsAgree ==
  calm /\ casts = <<>> =>
    \A t \in Ids(connectedTunnelIds) :
      tunnel[t] = "open" => heard[t] = Len(connectedTunnelIds)

\* A tunnel that is closed leaves the room, if the packet about it arrives:
\* also when it arrives before the one that says it is open (tunnel.js:57, 103).
ClosedLeaves ==
  \A t \in Tunnels :
    tunnel[t] = "closed" ~> (t \notin Ids(connectedTunnelIds) \/ t \in lost)
=============================================================================
