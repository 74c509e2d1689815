-------------------------- MODULE SoftApServerProof --------------------------
(***************************************************************************)
(* What SoftApServer keeps true for any number of browsers and any limit.  *)
(***************************************************************************)
EXTENDS SoftApServer, FiniteSetTheorems, TLAPS

\* As long as the listener's espconn leads to a node, it leads to the
\* connection accepted last, and no other has ended since.
PointsToNewest == remote \in Active(node) => remote = newest /\ ~ended

\* SlotsComeBack, and what Cardinality needs.
Slots == SlotsComeBack /\ IsFiniteSet(Active(node))

\* The inductive invariant.
IInv == TypeOK /\ Slots /\ ConfirmationNeverLeaves /\ PointsToNewest
-----------------------------------------------------------------------------
\* One send: the buffers keep their type, and at most the buffer of the node
\* the listener leads to is filled, if it was free.
LEMMA OneSend ==
  ASSUME TypeOK, NEW b \in [Peers -> Reply \cup {"none"}], NEW m \in Reply
  PROVE  /\ espconn_sent(b, m) \in [Peers -> Reply \cup {"none"}]
         /\ \A p \in Peers : espconn_sent(b, m)[p] # b[p] =>
              /\ remote \in Active(node) /\ p = remote
              /\ b[p] = "none" /\ espconn_sent(b, m)[p] = m
         /\ remote \in Active(node) => espconn_sent(b, m)[remote] # "none"
<1>1. "none" # m
  BY DEF Reply
<1> QED BY <1>1 DEF espconn_sent, Found, Active, Reply

\* The three sends of a callback fill one buffer at most, and with the page.
LEMMA Callback ==
  ASSUME TypeOK, NEW p \in Peers, espconn_server_recv(p)
  PROVE  /\ pbuf' \in [Peers -> Reply \cup {"none"}]
         /\ \A q \in Peers : pbuf'[q] # pbuf[q] =>
              remote \in Active(node) /\ q = remote /\ pbuf[q] = "none" /\ pbuf'[q] = "http_res"
<1> DEFINE page == espconn_sent(pbuf, "http_res")
           first == espconn_sent(page, "Http_ret")
           second == espconn_sent(first, "Http_ret")
<1>1. pbuf' = (IF req[p] = "FORM" THEN second ELSE page) \/ pbuf' = pbuf
  BY DEF espconn_server_recv, espconn_ESP_server_recv_cb
<1>2. pbuf \in [Peers -> Reply \cup {"none"}] /\ "http_res" \in Reply /\ "Http_ret" \in Reply
  BY DEF TypeOK, Reply
<1>3. /\ page \in [Peers -> Reply \cup {"none"}]
      /\ \A q \in Peers : page[q] # pbuf[q] =>
           remote \in Active(node) /\ q = remote /\ pbuf[q] = "none" /\ page[q] = "http_res"
      /\ remote \in Active(node) => page[remote] # "none"
  BY <1>2, OneSend
<1>4. first = page
  BY <1>3 DEF espconn_sent, Found
<1>5. second = page
  BY <1>4
<1> HIDE DEF page, first, second
<1> QED BY <1>1, <1>2, <1>3, <1>5

\* The peer closed, and there is no memory for the FIN.
HalfClosed(p) ==
  /\ node[p] = "open" /\ node' = [node EXCEPT ![p] = "half"]
  /\ waiting' = waiting \ {p}
  /\ UNCHANGED <<listener, remote, queue, pbuf, req, history>>

\* The cases of a step.
LEMMA Steps ==
  ASSUME [Next]_vars
  PROVE  \/ Create \/ espconn_Task \/ Reboot \/ UNCHANGED vars
         \/ \E p \in Peers :
              \/ espconn_tcp_accept(p) \/ espconn_server_recv(p) \/ espconn_server_sent(p)
              \/ HalfClosed(p)
              \/ \E s \in {"closing", "lost"} : node[p] \in {"open", "half"} /\ Ends(p, s)
              \/ \E r \in Request : Browse(p, r)
<1>1. ASSUME NEW p \in Peers, PeerCloses(p)
      PROVE  HalfClosed(p) \/ (node[p] \in {"open", "half"} /\ Ends(p, "closing"))
  BY <1>1 DEF PeerCloses, HalfClosed
<1>2. ASSUME NEW p \in Peers, espconn_server_poll(p)
      PROVE  node[p] \in {"open", "half"} /\ Ends(p, "closing")
  BY <1>2 DEF espconn_server_poll
<1>3. ASSUME NEW p \in Peers, esponn_server_err(p)
      PROVE  node[p] \in {"open", "half"} /\ Ends(p, "lost")
  BY <1>3 DEF esponn_server_err
<1> QED BY <1>1, <1>2, <1>3, Zenon DEF Next

\* What a restart leaves is well typed.
LEMMA FreshTypes ==
  /\ <<>> \in Seq(Peers)
  /\ [p \in Peers |-> "none"] \in [Peers -> {"none", "open", "half", "closing", "lost"}]
  /\ [p \in Peers |-> "none"] \in [Peers -> Reply \cup {"none"}]
  /\ [p \in Peers |-> "none"] \in [Peers -> Request \cup {"none"}]
OBVIOUS

\* Types are kept.
LEMMA TypeStep == ASSUME TypeOK, [Next]_vars PROVE TypeOK'
<1> USE DEF TypeOK
<1>1. CASE Create
  BY <1>1 DEF Create, history
<1>2. CASE espconn_Task
  <2>1. Head(queue) \in Peers /\ Tail(queue) \in Seq(Peers)
    BY <1>2 DEF espconn_Task
  <2> QED BY <1>2, <2>1 DEF espconn_Task
<1>3. CASE Reboot
  BY <1>3, FreshTypes DEF Reboot
<1>4. ASSUME NEW p \in Peers, espconn_tcp_accept(p) PROVE TypeOK'
  BY <1>3, <1>4 DEF espconn_tcp_accept
<1>5. ASSUME NEW p \in Peers, espconn_server_recv(p) PROVE TypeOK'
  <2>1. pbuf' \in [Peers -> Reply \cup {"none"}]
    BY <1>5, Callback
  <2>2. waiting' \subseteq Peers
    BY <1>5 DEF espconn_server_recv
  <2> QED BY <1>5, <2>1, <2>2 DEF espconn_server_recv, conn, history
<1>6. ASSUME NEW p \in Peers, espconn_server_sent(p) PROVE TypeOK'
  BY <1>6 DEF espconn_server_sent, conn, history
<1>7. ASSUME NEW p \in Peers, NEW s \in {"closing", "lost"}, Ends(p, s) PROVE TypeOK'
  BY <1>7 DEF Ends, history
<1>8. ASSUME NEW p \in Peers, NEW r \in Request, Browse(p, r) PROVE TypeOK'
  BY <1>8 DEF Browse, conn, history
<1>9. CASE UNCHANGED vars
  BY <1>9 DEF vars, conn, history
<1>10. ASSUME NEW p \in Peers, HalfClosed(p) PROVE TypeOK'
  BY <1>10 DEF HalfClosed, history
<1> QED BY <1>1, <1>2, <1>3, <1>4, <1>5, <1>6, <1>7, <1>8, <1>9, <1>10, Steps

\* Steps that leave list and queue alone keep Slots.
LEMMA SlotsUnchanged == ASSUME Slots, UNCHANGED <<node, queue>> PROVE Slots'
BY DEF Slots, SlotsComeBack, Active

\* An accept takes a slot only below the limit.
LEMMA SlotsAccept ==
  ASSUME TypeOK, Slots, NEW p \in Peers, espconn_tcp_accept(p), ~Reboot
  PROVE  Slots'
<1>1. /\ node' = [node EXCEPT ![p] = "open"] /\ queue' = queue
      /\ node[p] = "none" /\ Cardinality(Active(node)) < MaxCon
  BY DEF espconn_tcp_accept
<1>2. Active(node') = Active(node) \cup {p} /\ p \notin Active(node)
  BY <1>1 DEF Active, TypeOK
<1>3. IsFiniteSet(Active(node'))
      /\ Cardinality(Active(node')) = Cardinality(Active(node)) + 1
  BY <1>2, FS_AddElement DEF Slots
<1>4. Cardinality(Active(node)) \in Nat
  BY FS_CardinalityType DEF Slots
<1>5. Cardinality(Active(node')) <= MaxCon
  BY <1>1, <1>3, <1>4, ServerAssumption
<1>6. \A q \in Peers : node'[q] \in {"closing", "lost"} <=> node[q] \in {"closing", "lost"}
  BY <1>1 DEF TypeOK
<1> QED BY <1>1, <1>3, <1>5, <1>6 DEF Slots, SlotsComeBack

\* The end of a connection puts its one signal at the end of the queue.
LEMMA SlotsEnds ==
  ASSUME TypeOK, Slots, NEW p \in Peers, NEW s \in {"closing", "lost"},
         node[p] \in {"open", "half"}, Ends(p, s)
  PROVE  Slots'
<1>1. /\ node[p] \in {"open", "half"} /\ node' = [node EXCEPT ![p] = s]
      /\ queue' = Append(queue, p) /\ queue \in Seq(Peers)
  BY DEF Ends, TypeOK
<1>2. Active(node') = Active(node)
  BY <1>1 DEF Active, TypeOK
<1>3. /\ \A q \in Peers : node[q] \in {"closing", "lost"} <=> \E i \in 1..Len(queue) : queue[i] = q
      /\ \A i, j \in 1..Len(queue) : queue[i] = queue[j] => i = j
  BY DEF Slots, SlotsComeBack
<1>4. /\ Len(queue') = Len(queue) + 1 /\ Len(queue) \in Nat
      /\ \A i \in 1..Len(queue) : queue'[i] = queue[i]
      /\ queue'[Len(queue) + 1] = p
  BY <1>1
<1>5. \A i \in 1..Len(queue) : queue[i] # p
  BY <1>1, <1>3
<1>6. \A q \in Peers : node'[q] \in {"closing", "lost"} <=> \E i \in 1..Len(queue') : queue'[i] = q
  <2> SUFFICES ASSUME NEW q \in Peers
               PROVE  node'[q] \in {"closing", "lost"} <=> \E i \in 1..Len(queue') : queue'[i] = q
    OBVIOUS
  <2>1. CASE q = p
    <3>1. node'[q] \in {"closing", "lost"}
      BY <1>1, <2>1 DEF TypeOK
    <3> QED BY <1>4, <2>1, <3>1
  <2>2. CASE q # p
    <3>1. node'[q] = node[q]
      BY <1>1, <2>2 DEF TypeOK
    <3> QED BY <1>3, <1>4, <2>2, <3>1
  <2> QED BY <2>1, <2>2
<1>7. \A i, j \in 1..Len(queue') : queue'[i] = queue'[j] => i = j
  BY <1>3, <1>4, <1>5
<1> QED BY <1>2, <1>6, <1>7 DEF Slots, SlotsComeBack

\* A connection that could not be closed yet keeps its slot and has no signal.
LEMMA SlotsHalf ==
  ASSUME TypeOK, Slots, NEW p \in Peers, HalfClosed(p)
  PROVE  Slots'
<1>1. /\ node[p] = "open" /\ node' = [node EXCEPT ![p] = "half"] /\ queue' = queue
  BY DEF HalfClosed
<1>2. Active(node') = Active(node)
  BY <1>1 DEF Active, TypeOK
<1>3. \A q \in Peers : node'[q] \in {"closing", "lost"} <=> node[q] \in {"closing", "lost"}
  BY <1>1 DEF TypeOK
<1> QED BY <1>1, <1>2, <1>3 DEF Slots, SlotsComeBack

\* The task frees the slot of the node at the head of the queue.
LEMMA SlotsTask ==
  ASSUME TypeOK, Slots, espconn_Task
  PROVE  Slots'
<1> DEFINE p == Head(queue)
<1>1. /\ queue # <<>> /\ queue \in Seq(Peers) /\ queue' = Tail(queue)
      /\ node' = [node EXCEPT ![p] = "none"]
  BY DEF espconn_Task, TypeOK
<1>2. /\ Len(queue') = Len(queue) - 1 /\ Len(queue) \in Nat \ {0}
      /\ \A i \in 1..Len(queue') : queue'[i] = queue[i + 1]
      /\ p = queue[1] /\ p \in Peers
  BY <1>1
<1>3. /\ \A q \in Peers : node[q] \in {"closing", "lost"} <=> \E i \in 1..Len(queue) : queue[i] = q
      /\ \A i, j \in 1..Len(queue) : queue[i] = queue[j] => i = j
  BY DEF Slots, SlotsComeBack
<1> HIDE DEF p
<1>4. node[p] # "none"
  BY <1>2, <1>3
<1>5. Active(node') = Active(node) \ {p} /\ p \in Active(node)
  BY <1>1, <1>2, <1>4 DEF Active, TypeOK
<1>6. IsFiniteSet(Active(node'))
      /\ Cardinality(Active(node')) = Cardinality(Active(node)) - 1
  BY <1>5, FS_RemoveElement DEF Slots
<1>7. Cardinality(Active(node')) <= MaxCon
  <2>1. Cardinality(Active(node)) \in Nat /\ Cardinality(Active(node)) <= MaxCon
    BY FS_CardinalityType DEF Slots, SlotsComeBack
  <2> QED BY <1>6, <2>1, ServerAssumption
<1>8. \A q \in Peers : node'[q] \in {"closing", "lost"} <=> \E i \in 1..Len(queue') : queue'[i] = q
  <2> SUFFICES ASSUME NEW q \in Peers
               PROVE  node'[q] \in {"closing", "lost"} <=> \E i \in 1..Len(queue') : queue'[i] = q
    OBVIOUS
  <2>1. CASE q = p
    <3>1. node'[q] = "none"
      BY <1>1, <2>1 DEF TypeOK
    <3>2. \A i \in 1..Len(queue') : queue'[i] # q
      BY <1>2, <1>3, <2>1
    <3> QED BY <3>1, <3>2
  <2>2. CASE q # p
    <3>1. node'[q] = node[q]
      BY <1>1, <2>2 DEF TypeOK
    <3>2. (\E i \in 1..Len(queue') : queue'[i] = q) <=> \E i \in 1..Len(queue) : queue[i] = q
      <4>1. ASSUME NEW i \in 1..Len(queue'), queue'[i] = q
            PROVE  \E j \in 1..Len(queue) : queue[j] = q
        <5>1. i + 1 \in 1..Len(queue) /\ queue[i + 1] = q
          BY <1>2, <4>1
        <5> QED BY <5>1
      <4>2. ASSUME NEW j \in 1..Len(queue), queue[j] = q
            PROVE  \E i \in 1..Len(queue') : queue'[i] = q
        <5>1. j # 1
          BY <1>2, <2>2, <4>2
        <5>2. j - 1 \in 1..Len(queue') /\ queue'[j - 1] = queue[(j - 1) + 1]
          BY <1>2, <5>1
        <5> QED BY <4>2, <5>2
      <4> QED BY <4>1, <4>2
    <3> QED BY <1>3, <3>1, <3>2
  <2> QED BY <2>1, <2>2
<1>9. \A i, j \in 1..Len(queue') : queue'[i] = queue'[j] => i = j
  BY <1>2, <1>3
<1> QED BY <1>6, <1>7, <1>8, <1>9 DEF Slots, SlotsComeBack

LEMMA SlotsStep == ASSUME TypeOK, Slots, [Next]_vars PROVE Slots'
<1>1. CASE Create
  BY <1>1, SlotsUnchanged DEF Create
<1>2. CASE Reboot
  <2>1. Active(node') = {} /\ queue' = <<>> /\ \A p \in Peers : node'[p] = "none"
    BY <1>2 DEF Reboot, Active
  <2>2. IsFiniteSet(Active(node')) /\ Cardinality(Active(node')) = 0
    BY <2>1, FS_EmptySet
  <2>3. 0 <= MaxCon /\ Len(<<>>) = 0
    BY ServerAssumption
  <2> QED BY <2>1, <2>2, <2>3 DEF Slots, SlotsComeBack
<1>3. ASSUME NEW p \in Peers, espconn_server_recv(p) PROVE Slots'
  BY <1>3, SlotsUnchanged DEF espconn_server_recv, conn
<1>4. ASSUME NEW p \in Peers, espconn_server_sent(p) PROVE Slots'
  BY <1>4, SlotsUnchanged DEF espconn_server_sent, conn
<1>5. ASSUME NEW p \in Peers, NEW r \in Request, Browse(p, r) PROVE Slots'
  BY <1>5, SlotsUnchanged DEF Browse, conn
<1>6. CASE UNCHANGED vars
  BY <1>6, SlotsUnchanged DEF vars, conn
<1>7. ASSUME NEW p \in Peers, espconn_tcp_accept(p) PROVE Slots'
  BY <1>2, <1>7, SlotsAccept
<1>8. ASSUME NEW p \in Peers, NEW s \in {"closing", "lost"}, node[p] \in {"open", "half"},
             Ends(p, s)
      PROVE  Slots'
  BY <1>8, SlotsEnds
<1>9. ASSUME NEW p \in Peers, HalfClosed(p) PROVE Slots'
  BY <1>9, SlotsHalf
<1>10. CASE espconn_Task
  BY <1>10, SlotsTask
<1> QED BY <1>1, <1>2, <1>3, <1>4, <1>5, <1>6, <1>7, <1>8, <1>9, <1>10, Steps

\* The page goes first and fills the buffer: a confirmation finds it full.
LEMMA ConfirmationStep ==
  ASSUME TypeOK, ConfirmationNeverLeaves, [Next]_vars PROVE ConfirmationNeverLeaves'
<1> USE DEF ConfirmationNeverLeaves, TypeOK
<1>1. CASE Create
  BY <1>1 DEF Create
<1>2. CASE espconn_Task
  BY <1>2 DEF espconn_Task
<1>3. CASE Reboot
  BY <1>3 DEF Reboot
<1>4. ASSUME NEW p \in Peers, espconn_tcp_accept(p) PROVE ConfirmationNeverLeaves'
  BY <1>3, <1>4 DEF espconn_tcp_accept
<1>5. ASSUME NEW p \in Peers, espconn_server_recv(p) PROVE ConfirmationNeverLeaves'
  BY <1>5, Callback
<1>6. ASSUME NEW p \in Peers, espconn_server_sent(p) PROVE ConfirmationNeverLeaves'
  BY <1>6 DEF espconn_server_sent
<1>7. ASSUME NEW p \in Peers, NEW s \in {"closing", "lost"}, Ends(p, s)
      PROVE  ConfirmationNeverLeaves'
  BY <1>7 DEF Ends
<1>8. ASSUME NEW p \in Peers, NEW r \in Request, Browse(p, r) PROVE ConfirmationNeverLeaves'
  BY <1>8 DEF Browse
<1>9. CASE UNCHANGED vars
  BY <1>9 DEF vars
<1>10. ASSUME NEW p \in Peers, HalfClosed(p) PROVE ConfirmationNeverLeaves'
  BY <1>10 DEF HalfClosed
<1> QED BY <1>1, <1>2, <1>3, <1>4, <1>5, <1>6, <1>7, <1>8, <1>9, <1>10, Steps

\* Only an accept gives the listener an address that leads anywhere.
LEMMA NewestStep == ASSUME TypeOK, PointsToNewest, [Next]_vars PROVE PointsToNewest'
<1> USE DEF PointsToNewest, Active, TypeOK
<1>1. CASE Create
  BY <1>1 DEF Create, history
<1>2. CASE espconn_Task
  BY <1>2 DEF espconn_Task
<1>3. CASE Reboot
  BY <1>3, ServerAssumption DEF Reboot
<1>4. ASSUME NEW p \in Peers, espconn_tcp_accept(p) PROVE PointsToNewest'
  BY <1>3, <1>4 DEF espconn_tcp_accept
<1>5. ASSUME NEW p \in Peers, espconn_server_recv(p) PROVE PointsToNewest'
  BY <1>5 DEF espconn_server_recv, conn, history
<1>6. ASSUME NEW p \in Peers, espconn_server_sent(p) PROVE PointsToNewest'
  BY <1>6 DEF espconn_server_sent, conn, history
<1>7. ASSUME NEW p \in Peers, NEW s \in {"closing", "lost"}, node[p] \in {"open", "half"},
             Ends(p, s)
      PROVE  PointsToNewest'
  BY <1>7 DEF Ends, history
<1>8. ASSUME NEW p \in Peers, NEW r \in Request, Browse(p, r) PROVE PointsToNewest'
  BY <1>8 DEF Browse, conn, history
<1>9. CASE UNCHANGED vars
  BY <1>9 DEF vars, conn, history
<1>10. ASSUME NEW p \in Peers, HalfClosed(p) PROVE PointsToNewest'
  BY <1>10 DEF HalfClosed, history
<1> QED BY <1>1, <1>2, <1>3, <1>4, <1>5, <1>6, <1>7, <1>8, <1>9, <1>10, Steps

LEMMA Initially == Init => IInv
<1> SUFFICES ASSUME Init PROVE IInv
  OBVIOUS
<1>1. TypeOK
  BY FreshTypes DEF Init, TypeOK
<1>2. Active(node) = {} /\ queue = <<>>
  BY DEF Init, Active
<1>3. Slots
  <2>1. IsFiniteSet(Active(node)) /\ Cardinality(Active(node)) = 0
    BY <1>2, FS_EmptySet
  <2>2. 0 <= MaxCon /\ Len(queue) = 0
    BY <1>2, ServerAssumption
  <2>3. \A p \in Peers : node[p] = "none"
    BY DEF Init
  <2> QED BY <2>1, <2>2, <2>3 DEF Slots, SlotsComeBack
<1>4. ConfirmationNeverLeaves /\ PointsToNewest
  BY <1>2 DEF Init, ConfirmationNeverLeaves, PointsToNewest
<1> QED BY <1>1, <1>3, <1>4 DEF IInv

LEMMA Inductive == IInv /\ [Next]_vars => IInv'
BY TypeStep, SlotsStep, ConfirmationStep, NewestStep DEF IInv

\* The invariant holds in every reachable state.
THEOREM ServerInvariant == Spec => []IInv
BY Initially, Inductive, PTL DEF Spec

\* The server's variables keep their types (every handler of TCP_server.c and
\* of espconn's server side).
THEOREM TypeCorrect == Spec => []TypeOK
<1>1. IInv => TypeOK
  BY DEF IInv
<1> QED BY <1>1, ServerInvariant, PTL

\* Never more nodes than the limit, and one signal for each node that ended,
\* whatever the limit and however many browsers there are (espconn_tcp_accept,
\* espconn_Task).
THEOREM SlotsReturned == Spec => []SlotsComeBack
<1>1. IInv => SlotsComeBack
  BY DEF IInv, Slots
<1> QED BY <1>1, ServerInvariant, PTL

\* No browser ever gets the confirmation page (espconn_ESP_server_recv_cb).
THEOREM NoConfirmation == Spec => []ConfirmationNeverLeaves
<1>1. IInv => ConfirmationNeverLeaves
  BY DEF IInv
<1> QED BY <1>1, ServerInvariant, PTL

\* A page is handed to the connection accepted last or to nobody
\* (espconn_find_connection with the address espconn keeps in the listener).
THEOREM NewestGetsThePage == Spec => RepliesGoToNewest
<1> DEFINE Act == \A p \in Peers : pbuf[p] = "none" /\ pbuf'[p] # "none" => p = newest /\ ~ended
<1>1. IInv /\ [Next]_vars => [Act]_vars
  <2> SUFFICES ASSUME IInv, [Next]_vars, NEW p \in Peers, pbuf[p] = "none", pbuf'[p] # "none"
               PROVE  p = newest /\ ~ended
    OBVIOUS
  <2>1. ~ UNCHANGED pbuf
    OBVIOUS
  <2>2. PICK q \in Peers : espconn_server_recv(q)
    <3>1. ~Create /\ ~UNCHANGED vars
      BY <2>1 DEF Create, vars
    <3>2. ~espconn_Task /\ ~Reboot
      BY DEF espconn_Task, Reboot, IInv, TypeOK
    <3>3. \A x \in Peers : /\ ~espconn_tcp_accept(x) /\ ~HalfClosed(x)
                           /\ \A s \in {"closing", "lost"} : ~Ends(x, s)
      BY <2>1, <3>2 DEF espconn_tcp_accept, HalfClosed, Ends
    <3>4. \A x \in Peers : ~espconn_server_sent(x) /\ \A r \in Request : ~Browse(x, r)
      BY <2>1 DEF espconn_server_sent, Browse, IInv, TypeOK
    <3> QED BY <3>1, <3>2, <3>3, <3>4, Steps
  <2>3. remote \in Active(node) /\ p = remote
    BY <2>2, Callback DEF IInv
  <2> QED BY <2>3 DEF IInv, PointsToNewest
<1>2. Spec => [][Act]_vars
  BY <1>1, ServerInvariant, PTL DEF Spec
<1> QED BY <1>2 DEF RepliesGoToNewest
=============================================================================
