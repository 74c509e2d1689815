------------------------------ MODULE DhcpServer ------------------------------
(***************************************************************************)
(* dhcpserver.c, which gives the phones on the access point an address.    *)
(*                                                                         *)
(* plist holds one dhcps_pool per MAC, sorted by ip.addr.  The server      *)
(* looks for the first gap in the list, updates the list for every packet  *)
(* before it looks at what the packet asks for, and counts the leases down *)
(* once a minute.  A station counts its own lease, from the answer on, and *)
(* the two counts need not end together.                                   *)
(*                                                                         *)
(* An address is the number the code compares, which has the last octet of *)
(* the address in its highest byte: 3 * octet + 1 in the access point's    *)
(* own network, + 0 and + 2 in networks that sort below and above it.      *)
(***************************************************************************)
EXTENDS Naturals, Sequences, FiniteSets

CONSTANTS Macs,            \* stations
          Half,            \* 0x80 of wifi_softap_init_dhcps_lease
          DHCPS_MAX_LEASE,
          LeaseTime,       \* dhcps_lease_time, in ticks of dhcps_coarse_tmr
          MAX_STATION_NUM,
          Locals,          \* last octets the access point may have
          Presented        \* bound: addresses a station brings along

ASSUME DhcpAssumption ==
  /\ Half \in Nat /\ LeaseTime \in Nat \ {0}
  /\ DHCPS_MAX_LEASE \in Nat \ {0} /\ DHCPS_MAX_LEASE < Half
  /\ MAX_STATION_NUM \in Nat /\ MAX_STATION_NUM > 1
  /\ Locals \subseteq 1..2 * Half - 2
  /\ Presented \subseteq Nat \ {0}

VARIABLES
  local,    \* last octet of the access point's own address
  plist,    \* the list of pools
  bound,    \* station: the address it has a lease for, 0 for none
  late,     \* station: the address it still uses when its lease ran out here
  want,     \* station: the address it was offered or remembers, 0 for none
  foreign,  \* history: a station presented an address out of the range
  killed    \* history: kill_oldest_dhcps_pool ran

vars == <<local, plist, bound, late, want, foreign, killed>>

ANY == 0

\* The address a station uses.
Uses(m) == IF late[m] # ANY THEN late[m] ELSE bound[m]

Own(octet) == 3 * octet + 1

\* wifi_softap_init_dhcps_lease with no configured range: the addresses next
\* to the server's own, above it or, from Half on, below it.
start_ip ==
  Own(IF local >= Half THEN local - DHCPS_MAX_LEASE ELSE local + 1)
end_ip == start_ip + 3 * (DHCPS_MAX_LEASE - 1)
Lease == {start_ip + 3 * k : k \in 0..DHCPS_MAX_LEASE - 1}

Pool(mac, ip, type) == [mac |-> mac, ip |-> ip, lease_timer |-> LeaseTime,
                        type |-> type, state |-> "ONLINE"]

\* The last node a test holds for, 0 if there is none.
MacNode(l, mac) ==
  IF \E i \in 1..Len(l) : l[i].mac = mac
  THEN CHOOSE i \in 1..Len(l) :
         l[i].mac = mac /\ \A j \in i + 1..Len(l) : l[j].mac # mac
  ELSE 0
IpNode(l, ip) ==
  IF \E i \in 1..Len(l) : l[i].ip = ip
  THEN CHOOSE i \in 1..Len(l) :
         l[i].ip = ip /\ \A j \in i + 1..Len(l) : l[j].ip # ip
  ELSE 0

node_remove_from_list(l, i) ==
  IF i = 0 THEN l ELSE SubSeq(l, 1, i - 1) \o SubSeq(l, i + 1, Len(l))

\* At the end, whatever the addresses.
node_insert_to_list_Unsorted(l, n) == Append(l, n)

\* In front of the first node with a higher address.
node_insert_to_list(l, n) ==
  LET k == CHOOSE k \in 0..Len(l) : /\ \A i \in 1..k : l[i].ip <= n.ip
                                    /\ k < Len(l) => n.ip < l[k + 1].ip
  IN  SubSeq(l, 1, k) \o <<n>> \o SubSeq(l, k + 1, Len(l))

\* The nodes in front of the station's own are compared with start_ip, one
\* after another, as long as they match.
Gap(l, mac) ==
  LET own   == MacNode(l, mac)
      front == IF own = 0 THEN Len(l) ELSE own - 1
      Match(k) == \A i \in 1..k : l[i].ip = start_ip + 3 * (i - 1)
  IN  start_ip + 3 * (CHOOSE k \in 0..front : Match(k) /\ (k < front => ~Match(k + 1)))

\* A station that presents no address: the first gap, also for a station that
\* has an address already.
NoAddress(l, mac) ==
  LET own == MacNode(l, mac)
      ip  == Gap(l, mac)
  IN  IF own = 0 /\ ip > end_ip
      THEN [list |-> l, ip |-> ANY, renew |-> FALSE]
      ELSE [list |-> node_insert_to_list(node_remove_from_list(l, own), Pool(mac, ip, "DYNAMIC")),
            ip |-> ip, renew |-> FALSE]

\* A pool that is in use is taken over as if its station had left.
WithAddress_AnyState(l, mac, ip) ==
  LET own   == MacNode(l, mac)
      taken == IpNode(l, ip)
      renew == own # 0 /\ taken = own
  IN  IF taken # 0
      THEN [list |-> IF renew THEN [l EXCEPT ![own] = Pool(mac, ip, "DYNAMIC")]
                     ELSE node_remove_from_list([l EXCEPT ![taken] = Pool(mac, ip, "STATIC")], own),
            ip |-> ip, renew |-> renew]
      ELSE IF own = 0 /\ ip > end_ip
      THEN [list |-> l, ip |-> ANY, renew |-> FALSE]
      ELSE [list |-> node_insert_to_list(node_remove_from_list(l, own), Pool(mac, ip, "STATIC")),
            ip |-> ip, renew |-> FALSE]

\* A station that presents an address: its own is renewed, one of a station
\* that left is taken over, one in use is refused; any other becomes its
\* static address, above the range only if the station is known.
WithAddress(l, mac, ip) ==
  LET own   == MacNode(l, mac)
      taken == IpNode(l, ip)
      renew == own # 0 /\ taken = own
      No    == [list |-> l, ip |-> ANY, renew |-> FALSE]
  IN  IF renew
      THEN [list |-> [l EXCEPT ![own] = Pool(mac, ip, "DYNAMIC")], ip |-> ip, renew |-> TRUE]
      ELSE IF taken # 0
      THEN IF l[taken].state # "OFFLINE" THEN No
           ELSE [list |-> node_remove_from_list([l EXCEPT ![taken] = Pool(mac, ip, "STATIC")], own),
                 ip |-> ip, renew |-> FALSE]
      ELSE IF own = 0 /\ ip > end_ip THEN No
      ELSE [list |-> node_insert_to_list(node_remove_from_list(l, own), Pool(mac, ip, "STATIC")),
            ip |-> ip, renew |-> FALSE]

client_update(l, mac, ip) ==
  IF ip = ANY THEN NoAddress(l, mac) ELSE WithAddress(l, mac, ip)

\* A station that leaves keeps its pool even if it is a static one.
client_leave_KeepsStatic(l, mac, ip, force) ==
  LET i == MacNode(l, mac) IN
  IF i = 0 \/ l[i].ip # ip THEN l
  ELSE IF force THEN node_remove_from_list(l, i)
  ELSE [l EXCEPT ![i].state = "OFFLINE"]

\* wifi_softap_dhcps_client_leave.
client_leave(l, mac, ip, force) ==
  LET i == MacNode(l, mac) IN
  IF i = 0 \/ l[i].ip # ip THEN l
  ELSE IF l[i].type = "STATIC" \/ force THEN node_remove_from_list(l, i)
  ELSE [l EXCEPT ![i].state = "OFFLINE"]

\* dhcps_start after a start of the access point.
Init ==
  /\ local \in Locals
  /\ plist = <<>>
  /\ bound = [m \in Macs |-> ANY] /\ late = [m \in Macs |-> ANY]
  /\ want = [m \in Macs |-> ANY]
  /\ foreign = FALSE /\ killed = FALSE
-----------------------------------------------------------------------------
\* DISCOVER: an offer with what client_update returns, which may be lost.
Discover(m) ==
  /\ Uses(m) = ANY
  /\ LET u == client_update(plist, m, ANY) IN
     /\ plist' = u.list
     /\ want' \in {want, [want EXCEPT ![m] = u.ip]}
  /\ UNCHANGED <<local, bound, late, foreign, killed>>

\* REQUEST for the address that was offered, or is remembered: the list is
\* updated as for a DISCOVER, then the two addresses are compared.
Request(m) ==
  /\ Uses(m) = ANY /\ want[m] # ANY
  /\ LET u == client_update(plist, m, ANY) IN
     /\ plist' = u.list
     /\ \/ UNCHANGED <<bound, want>>                  \* the answer is lost
        \/ /\ u.ip = want[m]                          \* ACK
           /\ bound' = [bound EXCEPT ![m] = want[m]]
           /\ UNCHANGED want
        \/ /\ u.ip # want[m]                          \* NAK
           /\ want' = [want EXCEPT ![m] = ANY]
           /\ UNCHANGED bound
  /\ UNCHANGED <<local, late, foreign, killed>>

\* The station stops using its address.
Unbound(m) == /\ bound' = [bound EXCEPT ![m] = ANY]
              /\ late' = [late EXCEPT ![m] = ANY]

\* REQUEST that presents the address in use: an ACK only if it was renewed.
Renew(m) ==
  /\ Uses(m) # ANY
  /\ LET u == client_update(plist, m, Uses(m)) IN
     /\ plist' = u.list
     /\ IF u.renew
        THEN /\ bound' = [bound EXCEPT ![m] = Uses(m)]
             /\ late' = [late EXCEPT ![m] = ANY]
             /\ UNCHANGED want
        ELSE \/ UNCHANGED <<bound, late, want>>       \* the NAK is lost
             \/ Unbound(m) /\ want' = [want EXCEPT ![m] = ANY]
  /\ UNCHANGED <<local, foreign, killed>>

\* INFORM, or any packet of a station that has set its address itself: no
\* answer.  A station that is refused, because it set an address the server
\* has given away, is not counted as a user of it.
Inform(m, ip) ==
  /\ Uses(m) = ANY /\ ip # Own(local)
  /\ LET u == client_update(plist, m, ip) IN
     /\ plist' = u.list
     /\ bound' = [bound EXCEPT ![m] = u.ip]
  /\ foreign' = (foreign \/ ip \notin Lease)
  /\ UNCHANGED <<local, late, want, killed>>

\* DECLINE: the station found the address in use; the list is updated and
\* nothing else happens.
Decline(m) ==
  /\ bound[m] # ANY
  /\ plist' = client_update(plist, m, ANY).list
  /\ Unbound(m) /\ want' = [want EXCEPT ![m] = ANY]
  /\ UNCHANGED <<local, foreign, killed>>

\* RELEASE: updated first, then forced out.
Release(m) ==
  /\ Uses(m) # ANY
  /\ plist' = client_leave(client_update(plist, m, Uses(m)).list, m, Uses(m), TRUE)
  /\ Unbound(m)
  /\ UNCHANGED <<local, want, foreign, killed>>

\* The station is gone; the SDK reports it with the address it has on record.
Leave(m) ==
  /\ LET i == MacNode(plist, m) IN
     plist' = IF i = 0 THEN plist ELSE client_leave(plist, m, plist[i].ip, FALSE)
  /\ Unbound(m)
  /\ UNCHANGED <<local, want, foreign, killed>>

\* The lease is over by the station's own count, which started with an answer:
\* it may have missed a later one.
LeaseEnds(m) ==
  /\ Uses(m) # ANY
  /\ Unbound(m)
  /\ UNCHANGED <<local, plist, want, foreign, killed>>

\* kill_oldest_dhcps_pool: of the nodes behind the head, the first with the
\* lowest timer goes; the last node of the list is marked OFFLINE, whether it
\* is that one or not.
kill_oldest(l) ==
  LET v == CHOOSE i \in 2..Len(l) :
             /\ \A j \in 2..Len(l) : l[i].lease_timer <= l[j].lease_timer
             /\ \A j \in 2..i - 1 : l[i].lease_timer < l[j].lease_timer
  IN  node_remove_from_list([l EXCEPT ![Len(l)].state = "OFFLINE"], v)

\* One minute less for every dynamic lease.
Aged(l) == [i \in 1..Len(l) |-> IF l[i].type = "DYNAMIC"
                                THEN [l[i] EXCEPT !.lease_timer = @ - 1] ELSE l[i]]

\* The leases that are over are removed: l read at the places of the others, in
\* their order, which is one list.
Running(l) ==
  LET K == {i \in 1..Len(l) : l[i].lease_timer # 0}
      N == 1..Cardinality(K)
      Places == {h \in [N -> K] : /\ \A j, k \in N : j < k => h[j] < h[k]
                                  /\ \A i \in K : \E j \in N : h[j] = i}
  IN  {[j \in N |-> l[h[j]]] : h \in Places}

\* dhcps_coarse_tmr.  The server counts from the packet on, to the next minute:
\* the station of a lease that is over may use it for up to a minute more.
dhcps_coarse_tmr ==
  /\ plist # <<>> /\ late = [m \in Macs |-> ANY]
  /\ LET aged == Aged(plist)
         over == {aged[i].mac : i \in {j \in 1..Len(aged) : aged[j].lease_timer = 0}}
     IN  \E left \in Running(aged) :
           /\ plist' = IF Len(left) >= MAX_STATION_NUM THEN kill_oldest(left) ELSE left
           /\ killed' = (killed \/ Len(left) >= MAX_STATION_NUM)
           /\ bound' = [m \in Macs |-> IF m \in over THEN ANY ELSE bound[m]]
           /\ late' = [m \in Macs |-> IF m \in over THEN bound[m] ELSE ANY]
  /\ UNCHANGED <<local, want, foreign>>

\* dhcps_stop and dhcps_start, when the access point goes down and up, or the
\* fatal exception of a client_update without memory for a pool or its node: the
\* stations are gone with it and remember their addresses.
Restart ==
  /\ plist' = <<>>
  /\ bound' = [m \in Macs |-> ANY] /\ late' = [m \in Macs |-> ANY]
  /\ foreign' = FALSE /\ killed' = FALSE
  /\ UNCHANGED <<local, want>>

Next ==
  \/ dhcps_coarse_tmr \/ Restart
  \/ \E m \in Macs :
       \/ Discover(m) \/ Request(m) \/ Renew(m) \/ Decline(m) \/ Release(m) \/ Leave(m)
       \/ LeaseEnds(m)
       \/ \E ip \in Presented : Inform(m, ip)

Spec == Init /\ [][Next]_vars
-----------------------------------------------------------------------------
\* Types of the list and of the stations; a MAC has one pool at most, and the
\* list is sorted.
TypeOK ==
  /\ local \in Locals
  /\ plist \in Seq([mac : Macs, ip : Nat \ {0}, lease_timer : 1..LeaseTime,
                    type : {"DYNAMIC", "STATIC"}, state : {"ONLINE", "OFFLINE"}])
  /\ \A i, j \in 1..Len(plist) : i < j => /\ plist[i].mac # plist[j].mac
                                          /\ plist[i].ip <= plist[j].ip
  /\ bound \in [Macs -> Nat] /\ late \in [Macs -> Nat] /\ want \in [Macs -> Nat]
  /\ foreign \in BOOLEAN /\ killed \in BOOLEAN

\* No address is given twice, none is the server's own and none is out of the
\* range: as long as no station presents an address out of it, whatever the
\* order in which pools are taken over, moved and let go (dhcpserver.c:1073,
\* 1112 and 1149).
PoolsAreApart ==
  ~foreign =>
    \A i, j \in 1..Len(plist) :
      /\ plist[i].ip \in Lease /\ plist[i].ip # Own(local)
      /\ plist[i].ip = plist[j].ip => i = j

\* Types and order of the list, and the addresses in it.
PoolsInv == TypeOK /\ PoolsAreApart

\* If two stations use the same address, the lease that one of them still counts
\* ran out at the last tick of the server: unless a pool was killed under its
\* station, or an address out of the range had hidden one from the search for a
\* gap (dhcpserver.c:883 and 1073).
NoDoubleLease ==
  ~foreign /\ ~killed =>
    \A m, n \in Macs : Uses(m) # ANY /\ Uses(m) = Uses(n)
                       => m = n \/ late[m] # ANY \/ late[n] # ANY

\* The pool of a station that left runs out: a static one, which would not,
\* is let go at once (dhcpserver.c:917 and 1013).  Not so for a static pool
\* that kill_oldest marked OFFLINE.
OfflineRunsOut ==
  ~killed => \A i \in 1..Len(plist) : plist[i].state = "OFFLINE" => plist[i].type = "DYNAMIC"
=============================================================================
