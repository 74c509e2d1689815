----------------------------- MODULE SoftApServer -----------------------------
(***************************************************************************)
(* The server behind the configuration page: TCP_server.c on the access    *)
(* point, and the server side of espconn (espconn_tcp_accept,              *)
(* espconn_server_recv, espconn_sent, espconn_Task).                       *)
(*                                                                         *)
(* Every connection has an espconn of its own, but the callback answers on *)
(* the listener's, whose remote address espconn fills in: with the peer    *)
(* accepted last, and, after a connection ended, with the one that ended.  *)
(* One event task runs every callback to completion; a signal waits in its *)
(* queue between the end of a connection and the removal of its node.      *)
(* A node is "open", "half" when its peer closed and the answering FIN     *)
(* could not be sent yet, or "closing" or "lost" with its signal posted.   *)
(***************************************************************************)
EXTENDS Naturals, Sequences, FiniteSets

CONSTANTS Peers,     \* remote addresses and ports of browser connections
          MaxCon,    \* count_opt: connections this server may hold
          NoPeer

ASSUME ServerAssumption == MaxCon \in Nat \ {0} /\ NoPeer \notin Peers

VARIABLES
  listener,   \* "timer": T_ESP_ser_timer armed, "up", or "failed" for good
  remote,     \* ESP_tcp_ser->proto.tcp->remote_ip and remote_port
  node,       \* the connection's node in plink_active
  queue,      \* signals posted to espconn_Task, by node
  pbuf,       \* the node's espconn_buf list: at most one message
  req,        \* the request a browser has on its way
  waiting,    \* browsers whose request was answered and that got nothing yet
  alone,      \* history: no connection was accepted beside another
  newest,     \* history: the connection accepted last
  ended       \* history: some connection ended since then

conn    == <<listener, remote, node, queue>>
history == <<alone, newest, ended>>
vars    == <<conn, pbuf, req, waiting, history>>

Request == {"GET", "FORM"}
Reply   == {"http_res", "Http_ret"}

\* plink_active: the nodes whose preverse is the listener.
Active(n) == {p \in Peers : n[p] # "none"}

Init ==
  /\ listener = "timer" /\ remote = NoPeer
  /\ node = [p \in Peers |-> "none"]
  /\ queue = <<>>
  /\ pbuf = [p \in Peers |-> "none"]
  /\ req = [p \in Peers |-> "none"]
  /\ waiting = {}
  /\ alone = TRUE /\ newest = NoPeer /\ ended = FALSE
-----------------------------------------------------------------------------
\* espconn_ESP_tcp_server_creat: without an address the timer is armed again;
\* a listen that fails is not tried again.
Create ==
  /\ listener = "timer"
  /\ listener' \in {"timer", "up", "failed"}
  /\ UNCHANGED <<remote, node, queue, pbuf, req, waiting, history>>

\* system_restart after a form was stored, a fatal exception or a loss of power.
Reboot ==
  /\ listener' = "timer" /\ remote' = NoPeer
  /\ node' = [p \in Peers |-> "none"] /\ queue' = <<>>
  /\ pbuf' = [p \in Peers |-> "none"] /\ req' = [p \in Peers |-> "none"]
  /\ waiting' = {}
  /\ alone' = TRUE /\ newest' = NoPeer /\ ended' = FALSE

\* Mutant: an accept that does not tell the listener whom it accepted.
espconn_tcp_accept_NoCopy(p) ==
  /\ listener = "up" /\ node[p] = "none"
  /\ Cardinality(Active(node)) < MaxCon
  /\ node' = [node EXCEPT ![p] = "open"]
  /\ newest' = p /\ ended' = FALSE
  /\ alone' = (alone /\ Active(node) = {})
  /\ UNCHANGED <<listener, remote, queue, pbuf, req, waiting>>

\* A connection beyond the limit, or without memory for its node, is aborted by
\* lwIP and leaves no trace here.  Without memory for the espconn of a node that
\* is already in the list, lwIP aborts it as well, and esponn_server_err then
\* follows a NULL pointer: a fatal exception.
espconn_tcp_accept(p) ==
  /\ listener = "up" /\ node[p] = "none"
  /\ Cardinality(Active(node)) < MaxCon
  /\ \/ /\ node' = [node EXCEPT ![p] = "open"]
        /\ remote' = p
        /\ newest' = p /\ ended' = FALSE
        /\ alone' = (alone /\ Active(node) = {})
        /\ UNCHANGED <<listener, queue, pbuf, req, waiting>>
     \/ Reboot

\* The browser asks for the page, or sends the form.
Browse(p, r) ==
  /\ node[p] = "open" /\ req[p] = "none"
  /\ req' = [req EXCEPT ![p] = r]
  /\ UNCHANGED <<conn, pbuf, waiting, history>>

\* espconn_find_connection on the listener's espconn: the node is looked up by
\* the address that is in it.
Found == remote \in Active(node)

\* Mutant: a message takes the buffer whether it is free or not.
espconn_sent_AnyTime(b, m) == IF Found THEN [b EXCEPT ![remote] = m] ELSE b

\* espconn_sent on the listener's espconn, as the new value of pbuf: one message
\* at a time is allowed.
espconn_sent(b, m) ==
  IF Found /\ b[remote] = "none" THEN [b EXCEPT ![remote] = m] ELSE b

\* espconn_ESP_server_recv_cb, as the new value of pbuf: the page first, then two
\* confirmations if it was a form, all on the listener's espconn.
espconn_ESP_server_recv_cb(r) ==
  LET page == espconn_sent(pbuf, "http_res") IN
  IF r = "FORM" THEN espconn_sent(espconn_sent(page, "Http_ret"), "Http_ret") ELSE page

\* espconn_server_recv with data.  A request without memory for its copy is
\* acknowledged and dropped; one without memory for a reply gets none.
espconn_server_recv(p) ==
  /\ node[p] = "open" /\ req[p] # "none"
  /\ req' = [req EXCEPT ![p] = "none"]
  /\ \/ /\ pbuf' = espconn_ESP_server_recv_cb(req[p])
        /\ waiting' = waiting \cup {p}
     \/ UNCHANGED <<pbuf, waiting>>
  /\ UNCHANGED <<conn, history>>

\* espconn_server_sent: the peer has acknowledged the whole message.
espconn_server_sent(p) ==
  /\ node[p] \in {"open", "half"} /\ pbuf[p] # "none"
  /\ pbuf' = [pbuf EXCEPT ![p] = "none"]
  /\ waiting' = waiting \ {p}
  /\ UNCHANGED <<conn, req, history>>

\* A signal to the task, after which no callback runs for this connection.
Ends(p, state) ==
  /\ node' = [node EXCEPT ![p] = state]
  /\ queue' = Append(queue, p)
  /\ req' = [req EXCEPT ![p] = "none"]
  /\ waiting' = waiting \ {p}
  /\ UNCHANGED <<listener, remote, pbuf, history>>

\* espconn_server_recv without data, the peer closed: the connection is closed
\* from this side too, unless there is no memory for the FIN.
PeerCloses(p) ==
  /\ node[p] = "open" /\ req[p] = "none"
  /\ \/ Ends(p, "closing")
     \/ /\ node' = [node EXCEPT ![p] = "half"]
        /\ waiting' = waiting \ {p}
        /\ UNCHANGED <<listener, remote, queue, pbuf, req, history>>

\* Mutant: what is not established is not closed either.
espconn_server_poll_Established(p) == node[p] = "half" /\ UNCHANGED vars

\* espconn_server_poll closes what is not established any more, until it
\* succeeds.  Others it leaves alone for ever, since espconn_regist_time gave
\* the listener a time of 0.
espconn_server_poll(p) == node[p] = "half" /\ Ends(p, "closing")

\* A reset, or too many retransmissions.
esponn_server_err(p) == node[p] \in {"open", "half"} /\ Ends(p, "lost")

\* Mutant: the task forgets to take the node out of the list.
espconn_Task_KeepsNode ==
  /\ queue # <<>>
  /\ LET p == Head(queue) IN
     /\ pbuf' = [pbuf EXCEPT ![p] = "none"]
     /\ remote' = p
  /\ queue' = Tail(queue)
  /\ ended' = TRUE
  /\ UNCHANGED <<listener, node, req, waiting, alone, newest>>

\* espconn_Task: the node leaves the list, its buffer is freed, and
\* espconn_copy_partial gives the listener the address of the connection that
\* is gone (espconn_tcp_reconnect, espconn_tcp_disconnect_successful).
espconn_Task ==
  /\ queue # <<>>
  /\ LET p == Head(queue) IN
     /\ node' = [node EXCEPT ![p] = "none"]
     /\ pbuf' = [pbuf EXCEPT ![p] = "none"]
     /\ remote' = p
  /\ queue' = Tail(queue)
  /\ ended' = TRUE
  /\ UNCHANGED <<listener, req, waiting, alone, newest>>

Next ==
  \/ Create \/ espconn_Task \/ Reboot
  \/ \E p \in Peers :
       \/ espconn_tcp_accept(p) \/ espconn_server_recv(p)
       \/ espconn_server_sent(p) \/ espconn_server_poll(p)
       \/ PeerCloses(p) \/ esponn_server_err(p)
       \/ \E r \in Request : Browse(p, r)

\* The task, the acknowledgements of a connection that lasts and, once there is
\* memory for a FIN, the periodic closing do happen.
Spec == /\ Init /\ [][Next]_vars
        /\ WF_vars(espconn_Task)
        /\ \A p \in Peers : WF_vars(espconn_server_sent(p)) /\ WF_vars(espconn_server_poll(p))
-----------------------------------------------------------------------------
\* Types of the server's own state, of the browsers' and of the history.
TypeOK ==
  /\ listener \in {"timer", "up", "failed"}
  /\ remote \in Peers \cup {NoPeer} /\ newest \in Peers \cup {NoPeer}
  /\ node \in [Peers -> {"none", "open", "half", "closing", "lost"}]
  /\ queue \in Seq(Peers)
  /\ pbuf \in [Peers -> Reply \cup {"none"}]
  /\ req \in [Peers -> Request \cup {"none"}]
  /\ waiting \subseteq Peers
  /\ alone \in BOOLEAN /\ ended \in BOOLEAN

\* Slots come back: there are never more nodes than the limit, and a node that
\* is not open is one the task has a signal for, exactly once (accept counts
\* nodes, the task removes them).
SlotsComeBack ==
  /\ Cardinality(Active(node)) <= MaxCon
  /\ \A p \in Peers : node[p] \in {"closing", "lost"} <=>
                        \E i \in 1..Len(queue) : queue[i] = p
  /\ \A i, j \in 1..Len(queue) : queue[i] = queue[j] => i = j

\* The one confirmation page the firmware has never leaves the device: the
\* page sent just before it holds the buffer (TCP_server.c:57, 63 and 64).
ConfirmationNeverLeaves == \A p \in Peers : pbuf[p] # "Http_ret"

\* A page is only ever handed to the connection accepted last, whoever asked,
\* and to nobody once a connection has ended after that accept.
RepliesGoToNewest ==
  [][\A p \in Peers : pbuf[p] = "none" /\ pbuf'[p] # "none"
        => p = newest /\ ~ended]_vars

\* What a peer gave up does not hold its slot for ever: a connection that was
\* closed or lost leaves the list, even when there was no memory for the FIN at
\* first (espconn_server_close, espconn_server_poll, espconn_Task).
EndedIsRemoved ==
  \A p \in Peers : node[p] \in {"half", "closing", "lost"} ~> node[p] = "none"

\* A browser that never has two connections at a time is served: after a
\* request was answered a page gets through, or the connection ends.
LoneBrowserServed ==
  \A p \in Peers : (p \in waiting /\ alone) ~> (p \notin waiting \/ ~alone)
=============================================================================
