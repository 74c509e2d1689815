--------------------------- MODULE DhcpServerProof ---------------------------
(***************************************************************************)
(* The list of pools and the stations that use their addresses, for every  *)
(* set of stations, range, lease time and limit.                           *)
(*                                                                         *)
(* What a packet does to the list is stated of the set of its nodes: which *)
(* of them go and which one comes.  That the list stays sorted and holds a *)
(* station once is proved of the operators that keep it.                   *)
(***************************************************************************)
EXTENDS DhcpServer, FiniteSetTheorems, WellFoundedInduction, TLAPS

Node == [mac : Macs, ip : Nat \ {0}, lease_timer : 1..LeaseTime,
         type : {"DYNAMIC", "STATIC"}, state : {"ONLINE", "OFFLINE"}]

Nodes(l) == {l[i] : i \in 1..Len(l)}

Sorted(l) == \A i, j \in 1..Len(l) : i < j => l[i].ip <= l[j].ip

MacsOnce(l) == \A i, j \in 1..Len(l) : l[i].mac = l[j].mac => i = j

List(l) == l \in Seq(Node) /\ Sorted(l) /\ MacsOnce(l)

\* No address is given twice, and all are in the range R.
Apart(l, R) ==
  /\ \A x \in Nodes(l) : x.ip \in R
  /\ \A x, y \in Nodes(l) : x.ip = y.ip => x = y

\* As long as no station presents an address out of the range R.
InRange(l, R, b, f) ==
  ~f => Apart(l, R) /\ \A m \in Macs : b[m] \in R \cup {ANY}

LetGo(l, k) ==
  ~k => \A x \in Nodes(l) : x.state = "OFFLINE" => x.type = "DYNAMIC"

\* The address a station uses is that of its own pool, and nobody may take it.
Held(l, b, f, k) ==
  ~f /\ ~k =>
    \A m \in Macs : b[m] # ANY =>
      \E x \in Nodes(l) : x.mac = m /\ x.ip = b[m] /\ x.state = "ONLINE"

\* The invariant, of a list, the addresses in use and the two histories.
Good(l, R, b, f, k) ==
  /\ List(l) /\ b \in [Macs -> Nat] /\ f \in BOOLEAN /\ k \in BOOLEAN
  /\ InRange(l, R, b, f) /\ LetGo(l, k) /\ Held(l, b, f, k)

\* The list and the stations with a lease.
Pools ==
  /\ local \in Locals /\ want \in [Macs -> Nat]
  /\ Good(plist, Lease, bound, foreign, killed)

\* The stations whose lease ran out here.
LateIn ==
  /\ late \in [Macs -> Nat]
  /\ \A m \in Macs : late[m] # ANY => bound[m] = ANY /\ (~foreign => late[m] \in Lease)

\* The inductive invariant.
IInv == Pools /\ LateIn
-----------------------------------------------------------------------------
(* Smallest elements *)

Less == {p \in Nat \X Nat : p[1] < p[2]}

LEMMA LessIsWellFounded == IsWellFoundedOn(Less, Nat)
<1>1. OpToRel(<, Nat) = Less
  BY DEF OpToRel, Less
<1> QED BY <1>1, NatLessThanWellFounded, Zenon

LEMMA LeastElement ==
  ASSUME NEW T, T \subseteq Nat, T # {}
  PROVE  \E x \in T : \A y \in T : x <= y
<1>1. PICK x \in T : \A y \in T : ~ (<<y, x>> \in Less)
  BY LessIsWellFounded, WFMin, Zenon
<1>2. ASSUME NEW y \in T PROVE x <= y
  <2>1. x \in Nat /\ y \in Nat
    BY <1>1
  <2>2. y < x => <<y, x>> \in Less
    BY <2>1 DEF Less
  <2> QED BY <1>1, <2>1, <2>2
<1> QED BY <1>2

LEMMA GreatestElement ==
  ASSUME NEW n \in Nat, NEW T, T \subseteq 1..n, T # {}
  PROVE  \E x \in T : \A y \in T : y <= x
<1> DEFINE U == {n - x : x \in T}
<1>1. U \subseteq Nat /\ U # {}
  <2>1. \A x \in T : x \in Nat /\ x <= n
    OBVIOUS
  <2>2. \A x \in T : n - x \in Nat
    BY <2>1
  <2> QED BY <2>2
<1>2. PICK u \in U : \A v \in U : u <= v
  BY <1>1, LeastElement
<1>3. PICK x \in T : u = n - x
  BY <1>2
<1>4. ASSUME NEW y \in T PROVE y <= x
  <2>1. n - y \in U /\ n - x <= n - y
    BY <1>2, <1>3
  <2>2. x \in 1..n /\ y \in 1..n
    BY <1>3
  <2> HIDE DEF U
  <2> QED BY <2>1, <2>2
<1> QED BY <1>4
-----------------------------------------------------------------------------
(* The range *)

LEMMA LeaseRange ==
  ASSUME local \in Locals
  PROVE  /\ start_ip \in Nat \ {0} /\ end_ip = start_ip + 3 * (DHCPS_MAX_LEASE - 1)
         /\ Lease = {start_ip + 3 * k : k \in 0..DHCPS_MAX_LEASE - 1}
         /\ Lease \subseteq Nat \ {0} /\ Own(local) \notin Lease
         /\ DHCPS_MAX_LEASE \in Nat \ {0}
         /\ \A a \in Lease : start_ip <= a /\ a <= end_ip
<1>1. /\ Half \in Nat /\ DHCPS_MAX_LEASE \in Nat \ {0} /\ DHCPS_MAX_LEASE < Half
      /\ local \in Nat \ {0}
  BY DhcpAssumption
<1>2. start_ip \in Nat \ {0}
  BY <1>1 DEF start_ip, Own
<1>3. Own(local) \notin Lease
  <2> SUFFICES ASSUME NEW k \in 0..DHCPS_MAX_LEASE - 1 PROVE Own(local) # start_ip + 3 * k
    BY DEF Lease
  <2> QED BY <1>1 DEF start_ip, Own
<1>4. ASSUME NEW k \in 0..DHCPS_MAX_LEASE - 1
      PROVE  /\ start_ip + 3 * k \in Nat \ {0} /\ start_ip <= start_ip + 3 * k
             /\ start_ip + 3 * k <= end_ip
  BY <1>1, <1>2 DEF end_ip
<1> QED BY <1>1, <1>2, <1>3, <1>4 DEF Lease, end_ip
-----------------------------------------------------------------------------
(* Lists of nodes *)

LEMMA NodesOf ==
  ASSUME NEW l, List(l)
  PROVE  /\ Len(l) \in Nat /\ Nodes(l) \subseteq Node
         /\ \A i \in 1..Len(l) : l[i] \in Node /\ l[i] \in Nodes(l)
         /\ \A x, y \in Nodes(l) : x.mac = y.mac => x = y
BY DEF List, Nodes, MacsOnce

\* r is the sorted list l read at increasing places, each of another station.
Thins(r, l, n, h) ==
  /\ Sorted(l) /\ n \in Nat /\ h \in [1..n -> 1..Len(l)]
  /\ \A j, k \in 1..n : j < k => h[j] < h[k]
  /\ \A j, k \in 1..n : h[j] # h[k] => l[h[j]].mac # l[h[k]].mac
  /\ r \in [1..n -> Node] /\ \A j \in 1..n : r[j] = l[h[j]]

LEMMA Thinned ==
  ASSUME NEW r, NEW l, NEW n, NEW h, Thins(r, l, n, h)
  PROVE  List(r) /\ Len(r) = n
<1> USE DEF Thins
<1>1. r \in Seq(Node) /\ Len(r) = n
  OBVIOUS
<1>2. \A j \in 1..n : h[j] \in 1..Len(l)
  OBVIOUS
<1>3. Sorted(r)
  BY <1>1, <1>2 DEF Sorted
<1>4. MacsOnce(r)
  <2> SUFFICES ASSUME NEW j \in 1..n, NEW k \in 1..n, r[j].mac = r[k].mac PROVE j = k
    BY <1>1 DEF MacsOnce
  <2>1. h[j] = h[k] /\ h[j] \in 1..Len(l) /\ h[k] \in 1..Len(l)
    BY <1>2
  <2>2. ~ (h[j] < h[k]) /\ ~ (h[k] < h[j])
    BY <2>1
  <2>3. ~ (j < k) /\ ~ (k < j)
    BY <2>2
  <2> QED BY <2>3
<1> QED BY <1>1, <1>3, <1>4 DEF List

LEMMA RemovedAt ==
  ASSUME NEW S, NEW l \in Seq(S), NEW i \in 1..Len(l)
  PROVE  node_remove_from_list(l, i) =
           [j \in 1..Len(l) - 1 |-> l[IF j < i THEN j ELSE j + 1]]
<1> DEFINE a == SubSeq(l, 1, i - 1)
           b == SubSeq(l, i + 1, Len(l))
           r == a \o b
<1>1. Len(l) \in Nat /\ i \in Nat /\ i <= Len(l) /\ i # 0
  OBVIOUS
<1>2. a \in Seq(S) /\ Len(a) = i - 1 /\ \A j \in 1..i - 1 : a[j] = l[j]
  BY <1>1
<1>3. b \in Seq(S) /\ Len(b) = Len(l) - i /\ \A j \in 1..Len(l) - i : b[j] = l[i + j]
  BY <1>1
<1> HIDE DEF a, b
<1>4. /\ r \in Seq(S) /\ Len(r) = Len(l) - 1
      /\ \A j \in 1..Len(l) - 1 : r[j] = IF j < i THEN l[j] ELSE l[j + 1]
  <2>0. a \in Seq(S) /\ b \in Seq(S)
    BY <1>2, <1>3
  <2>1. r \in Seq(S) /\ Len(r) = Len(a) + Len(b)
    BY <2>0
  <2>2. \A j \in 1..Len(a) : r[j] = a[j]
    BY <1>2, <1>3
  <2>3. \A j \in Len(a) + 1..Len(r) : r[j] = b[j - Len(a)]
    BY <1>2, <1>3
  <2> HIDE DEF r
  <2>4. Len(r) = Len(l) - 1
    BY <1>1, <1>2, <1>3, <2>1
  <2>5. ASSUME NEW j \in 1..Len(l) - 1 PROVE r[j] = IF j < i THEN l[j] ELSE l[j + 1]
    <3>1. CASE j < i
      BY <1>1, <1>2, <2>2, <3>1
    <3>2. CASE ~ (j < i)
      <4>1. j \in Len(a) + 1..Len(r) /\ j - Len(a) = j + 1 - i /\ j + 1 - i \in 1..Len(l) - i
        BY <1>1, <1>2, <2>4, <3>2
      <4>2. r[j] = b[j + 1 - i] /\ b[j + 1 - i] = l[i + (j + 1 - i)]
        BY <1>3, <2>3, <4>1
      <4>3. i + (j + 1 - i) = j + 1
        BY <1>1
      <4> QED BY <3>2, <4>2, <4>3
    <3> QED BY <3>1, <3>2
  <2> QED BY <2>1, <2>4, <2>5
<1>5. r = node_remove_from_list(l, i)
  BY <1>1 DEF node_remove_from_list, a, b
<1> HIDE DEF r
<1>6. r = [j \in 1..Len(r) |-> r[j]]
  BY <1>4
<1> QED BY <1>1, <1>4, <1>5, <1>6

\* A node goes.  The list may hold a station twice, if one of the two goes.
LEMMA Removed ==
  ASSUME NEW l \in Seq(Node), Sorted(l), NEW i \in 1..Len(l),
         \A j, k \in 1..Len(l) : j # i /\ k # i /\ l[j].mac = l[k].mac => j = k
  PROVE  /\ List(node_remove_from_list(l, i))
         /\ Nodes(node_remove_from_list(l, i)) = {l[j] : j \in (1..Len(l)) \ {i}}
<1> DEFINE n == Len(l) - 1
           h == [j \in 1..n |-> IF j < i THEN j ELSE j + 1]
           r == [j \in 1..n |-> l[h[j]]]
<1>1. /\ n \in Nat /\ Len(l) \in Nat /\ h \in [1..n -> 1..Len(l)]
      /\ \A j, k \in 1..n : j < k => h[j] < h[k]
      /\ \A j \in 1..n : h[j] # i
  OBVIOUS
<1>2. \A k \in (1..Len(l)) \ {i} : \E j \in 1..n : h[j] = k
  <2> TAKE k \in (1..Len(l)) \ {i}
  <2>1. CASE k < i
    <3>1. k \in 1..n /\ h[k] = k
      BY <2>1
    <3> QED BY <3>1
  <2>2. CASE k > i
    <3>1. k - 1 \in 1..n /\ ~ (k - 1 < i) /\ (k - 1) + 1 = k
      BY <2>2
    <3>2. h[k - 1] = IF k - 1 < i THEN k - 1 ELSE (k - 1) + 1
      BY Zenon, <3>1
    <3>3. h[k - 1] = k
      BY <3>1, <3>2
    <3> QED BY Zenon, <3>1, <3>3
  <2> QED BY <2>1, <2>2
<1>3. r = node_remove_from_list(l, i)
  BY RemovedAt
<1>4. \A j \in 1..n : r[j] = l[h[j]]
  OBVIOUS
<1>5. r \in [1..n -> Node]
  <2> HIDE DEF h
  <2>1. \A j \in 1..n : l[h[j]] \in Node
    BY <1>1
  <2> QED BY <2>1
<1> HIDE DEF n, h, r
<1>6. \A j, k \in 1..n : h[j] # h[k] => l[h[j]].mac # l[h[k]].mac
  BY <1>1
<1>7. List(r) /\ Len(r) = n
  <2>1. Thins(r, l, n, h)
    BY <1>1, <1>4, <1>5, <1>6 DEF Thins
  <2> QED BY <2>1, Thinned
<1>8. Nodes(r) = {l[j] : j \in (1..Len(l)) \ {i}}
  <2>1. Nodes(r) = {r[j] : j \in 1..n}
    BY <1>7 DEF Nodes
  <2>2. \A j \in 1..n : h[j] \in (1..Len(l)) \ {i} /\ r[j] = l[h[j]]
    BY <1>1, <1>4
  <2> QED BY <2>1, <2>2, <1>2
<1> QED BY <1>3, <1>7, <1>8

\* A node of a new station comes, in front of the first higher address.
LEMMA Inserted ==
  ASSUME NEW l, List(l), NEW n \in Node, \A x \in Nodes(l) : x.mac # n.mac
  PROVE  /\ List(node_insert_to_list(l, n))
         /\ Nodes(node_insert_to_list(l, n)) = Nodes(l) \cup {n}
<1> DEFINE Place(k) == /\ \A i \in 1..k : l[i].ip <= n.ip
                       /\ k < Len(l) => n.ip < l[k + 1].ip
           k0 == CHOOSE k \in 0..Len(l) : Place(k)
           T == {k \in 0..Len(l) : k < Len(l) => n.ip < l[k + 1].ip}
<1>1. /\ Len(l) \in Nat /\ l \in Seq(Node) /\ n.ip \in Nat
      /\ \A i \in 1..Len(l) : l[i] \in Node /\ l[i].ip \in Nat /\ l[i].mac # n.mac
  BY NodesOf DEF List, Node
<1>2. k0 \in 0..Len(l) /\ Place(k0)
  <2>1. T \subseteq Nat /\ T # {}
    <3>1. Len(l) \in T
      BY <1>1
    <3> QED BY <1>1, <3>1
  <2>2. PICK k \in T : \A y \in T : k <= y
    BY <2>1, LeastElement
  <2>3. ASSUME NEW i \in 1..k PROVE l[i].ip <= n.ip
    <3>1. i - 1 \in 0..Len(l) /\ i - 1 < Len(l) /\ ~ (k <= i - 1) /\ (i - 1) + 1 = i /\ i \in 1..Len(l)
      BY <1>1, <2>2
    <3>2. ~ (n.ip < l[i].ip)
      BY <2>2, <3>1
    <3> QED BY <1>1, <3>1, <3>2
  <2>4. k \in 0..Len(l) /\ Place(k)
    BY <2>2, <2>3
  <2> HIDE DEF Place
  <2> QED BY <2>4
<1> HIDE DEF k0
<1> DEFINE a == SubSeq(l, 1, k0)
           b == SubSeq(l, k0 + 1, Len(l))
           c == <<n>>
           r == a \o c \o b
<1>3. r = node_insert_to_list(l, n)
  BY DEF node_insert_to_list, k0
<1>4. /\ a \in Seq(Node) /\ Len(a) = k0 /\ \A j \in 1..k0 : a[j] = l[j]
  BY <1>1, <1>2
<1>5. /\ b \in Seq(Node) /\ Len(b) = Len(l) - k0
      /\ \A j \in 1..Len(l) - k0 : b[j] = l[k0 + j]
  BY <1>1, <1>2
<1>6. c \in Seq(Node) /\ Len(c) = 1 /\ c[1] = n
  OBVIOUS
<1> HIDE DEF a, b, c
<1> DEFINE d == a \o c
<1>7. /\ d \in Seq(Node) /\ Len(d) = k0 + 1
      /\ \A j \in 1..k0 : d[j] = l[j]
      /\ d[k0 + 1] = n
  <2>0. a \in Seq(Node) /\ c \in Seq(Node)
    BY <1>4, <1>6
  <2>1. d \in Seq(Node) /\ Len(d) = Len(a) + Len(c)
    BY <2>0
  <2>2. \A j \in 1..Len(a) : d[j] = a[j]
    BY <1>4, <1>6
  <2>3. d[Len(a) + 1] = c[1]
    BY <1>4, <1>6
  <2> HIDE DEF d
  <2> QED BY <1>2, <1>4, <1>6, <2>1, <2>2, <2>3
<1>8. /\ r \in Seq(Node) /\ Len(r) = Len(l) + 1
      /\ \A j \in 1..Len(l) + 1 : r[j] = IF j <= k0 THEN l[j]
                                         ELSE IF j = k0 + 1 THEN n ELSE l[j - 1]
  <2> HIDE DEF d
  <2>1. r = d \o b
    BY DEF d
  <2> HIDE DEF r
  <2>0. d \in Seq(Node) /\ b \in Seq(Node)
    BY <1>5, <1>7
  <2>2. r \in Seq(Node) /\ Len(r) = Len(d) + Len(b)
    BY <2>0, <2>1
  <2>3. \A j \in 1..Len(d) : r[j] = d[j]
    BY <1>5, <1>7, <2>1
  <2>4. \A j \in Len(d) + 1..Len(r) : r[j] = b[j - Len(d)]
    BY <1>5, <1>7, <2>1
  <2>5. Len(r) = Len(l) + 1
    BY <1>1, <1>2, <1>5, <1>7, <2>2
  <2>6. ASSUME NEW j \in 1..Len(l) + 1
        PROVE  r[j] = IF j <= k0 THEN l[j] ELSE IF j = k0 + 1 THEN n ELSE l[j - 1]
    <3>1. CASE j <= k0
      BY <1>2, <1>7, <2>3, <3>1
    <3>2. CASE j = k0 + 1
      BY <1>2, <1>7, <2>3, <3>2
    <3>3. CASE j > k0 + 1
      <4>1. /\ j \in Len(d) + 1..Len(r) /\ j - Len(d) = j - 1 - k0
            /\ j - 1 - k0 \in 1..Len(l) - k0
        BY <1>1, <1>2, <1>7, <2>5, <3>3
      <4>2. r[j] = b[j - 1 - k0] /\ b[j - 1 - k0] = l[k0 + (j - 1 - k0)]
        BY <1>5, <2>4, <4>1
      <4>3. k0 + (j - 1 - k0) = j - 1
        BY <1>2
      <4> QED BY <1>2, <3>3, <4>2, <4>3
    <3> QED BY <1>2, <3>1, <3>2, <3>3
  <2> QED BY <2>2, <2>5, <2>6
<1>9. /\ \A j \in 1..k0 : l[j].ip <= n.ip
      /\ \A j \in k0 + 1..Len(l) : n.ip <= l[j].ip
  <2>1. ASSUME NEW j \in k0 + 1..Len(l) PROVE n.ip <= l[j].ip
    <3>1. k0 + 1 \in 1..Len(l) /\ j \in 1..Len(l) /\ k0 < Len(l)
      BY <1>1, <1>2
    <3>2. n.ip < l[k0 + 1].ip /\ (k0 + 1 < j => l[k0 + 1].ip <= l[j].ip)
      BY <1>2, <3>1 DEF List, Sorted
    <3> QED BY <1>1, <1>2, <3>1, <3>2
  <2> QED BY <1>2, <2>1
<1> HIDE DEF r
<1> DEFINE at(j) == IF j <= k0 THEN j ELSE j - 1
<1>10. \A j \in 1..Len(r) : j # k0 + 1 => at(j) \in 1..Len(l) /\ r[j] = l[at(j)]
  BY <1>1, <1>2, <1>8
<1>11. \A i, j \in 1..Len(r) : i # k0 + 1 /\ j # k0 + 1 /\ i < j => at(i) < at(j)
  BY <1>2
<1>12. k0 + 1 \in 1..Len(r) /\ r[k0 + 1] = n
  BY <1>1, <1>2, <1>8
<1>13. \A j \in 1..Len(r) : /\ j < k0 + 1 => at(j) \in 1..k0
                            /\ j > k0 + 1 => at(j) \in k0 + 1..Len(l)
  BY <1>1, <1>2, <1>8
<1>14. \A i \in 1..Len(l) : \E j \in 1..Len(r) : j # k0 + 1 /\ at(j) = i
  <2> TAKE i \in 1..Len(l)
  <2>1. CASE i <= k0
    <3>1. i \in 1..Len(r) /\ i # k0 + 1 /\ at(i) = i
      BY <1>1, <1>2, <1>8, <2>1
    <3> QED BY <3>1
  <2>2. CASE i > k0
    <3>1. i + 1 \in 1..Len(r) /\ i + 1 # k0 + 1 /\ at(i + 1) = i
      BY <1>1, <1>2, <1>8, <2>2
    <3> QED BY <3>1
  <2> QED BY <1>2, <2>1, <2>2
<1> HIDE DEF at
<1>15. Sorted(r)
  <2> SUFFICES ASSUME NEW i \in 1..Len(r), NEW j \in 1..Len(r), i < j
               PROVE  r[i].ip <= r[j].ip
    BY DEF Sorted
  <2>1. CASE i = k0 + 1
    <3>1. j > k0 + 1 /\ j # k0 + 1
      BY <1>2, <2>1
    <3> QED BY <1>9, <1>10, <1>12, <1>13, <2>1, <3>1
  <2>2. CASE j = k0 + 1
    <3>1. i < k0 + 1 /\ i # k0 + 1
      BY <1>2, <2>2
    <3> QED BY <1>9, <1>10, <1>12, <1>13, <2>2, <3>1
  <2>3. CASE i # k0 + 1 /\ j # k0 + 1
    BY <1>10, <1>11, <2>3 DEF List, Sorted
  <2> QED BY <2>1, <2>2, <2>3
<1>16. MacsOnce(r)
  <2> SUFFICES ASSUME NEW i \in 1..Len(r), NEW j \in 1..Len(r), r[i].mac = r[j].mac
               PROVE  i = j
    BY DEF MacsOnce
  <2>1. i = k0 + 1 <=> j = k0 + 1
    BY <1>1, <1>10, <1>12
  <2>2. CASE i # k0 + 1 /\ j # k0 + 1
    <3>1. at(i) = at(j) /\ at(i) \in 1..Len(l) /\ at(j) \in 1..Len(l)
      BY <1>10, <2>2 DEF List, MacsOnce
    <3>2. ~ (at(i) < at(j)) /\ ~ (at(j) < at(i))
      BY <3>1
    <3>3. ~ (i < j) /\ ~ (j < i)
      BY <1>11, <2>2, <3>2
    <3> QED BY <3>3
  <2> QED BY <2>1, <2>2
<1>17. Nodes(r) = Nodes(l) \cup {n}
  <2>1. \A j \in 1..Len(r) : r[j] \in Nodes(l) \cup {n}
    BY <1>10, <1>12 DEF Nodes
  <2>2. \A i \in 1..Len(l) : \E j \in 1..Len(r) : r[j] = l[i]
    BY <1>10, <1>14
  <2> QED BY <1>12, <2>1, <2>2, SMTT(30) DEF Nodes
<1> QED BY <1>3, <1>8, <1>15, <1>16, <1>17 DEF List

\* A node is rewritten in its place.
Rewrites(e, l, i, n) ==
  /\ List(l) /\ i \in 1..Len(l) /\ n \in Node /\ n.ip = l[i].ip
  /\ e = [l EXCEPT ![i] = n]

LEMMA Rewritten ==
  ASSUME NEW e, NEW l, NEW i, NEW n, Rewrites(e, l, i, n)
  PROVE  /\ e \in Seq(Node) /\ Sorted(e) /\ Len(e) = Len(l)
         /\ \A j \in 1..Len(l) : e[j] = IF j = i THEN n ELSE l[j]
         /\ (\A j \in 1..Len(l) : l[j].mac = n.mac => j = i) =>
              List(e) /\ Nodes(e) = (Nodes(l) \ {l[i]}) \cup {n}
<1> USE DEF Rewrites
<1>1. l \in Seq(Node) /\ Len(l) \in Nat
  BY DEF List
<1>2. /\ e \in Seq(Node) /\ Len(e) = Len(l)
      /\ \A j \in 1..Len(l) : e[j] = IF j = i THEN n ELSE l[j]
  BY <1>1
<1>3. \A j \in 1..Len(l) : e[j].ip = l[j].ip
  BY <1>2
<1>4. Sorted(e)
  BY <1>2, <1>3 DEF List, Sorted
<1>5. ASSUME \A j \in 1..Len(l) : l[j].mac = n.mac => j = i
      PROVE  List(e) /\ Nodes(e) = (Nodes(l) \ {l[i]}) \cup {n}
  <2>1. MacsOnce(e)
    BY <1>2, <1>5 DEF List, MacsOnce
  <2>2. \A j \in 1..Len(l) : j # i => l[j] # l[i]
    BY DEF List, MacsOnce
  <2>3. Nodes(e) = (Nodes(l) \ {l[i]}) \cup {n}
    BY <1>2, <2>2 DEF Nodes
  <2> QED BY <1>2, <1>4, <2>1, <2>3 DEF List
<1> QED BY <1>2, <1>4, <1>5
-----------------------------------------------------------------------------
(* What is looked for in the list *)

LEMMA MacNodeOf ==
  ASSUME NEW l, List(l), NEW mac
  PROVE  \/ MacNode(l, mac) = 0 /\ \A x \in Nodes(l) : x.mac # mac
         \/ /\ MacNode(l, mac) \in 1..Len(l)
            /\ \A j \in 1..Len(l) : l[j].mac = mac <=> j = MacNode(l, mac)
<1>1. CASE ~ \E i \in 1..Len(l) : l[i].mac = mac
  BY <1>1 DEF MacNode, Nodes
<1>2. ASSUME NEW i \in 1..Len(l), l[i].mac = mac
      PROVE  /\ MacNode(l, mac) \in 1..Len(l)
             /\ \A j \in 1..Len(l) : l[j].mac = mac <=> j = MacNode(l, mac)
  <2> DEFINE Is(k) == l[k].mac = mac /\ \A j \in k + 1..Len(l) : l[j].mac # mac
             k0 == CHOOSE k \in 1..Len(l) : Is(k)
  <2>1. \A j \in 1..Len(l) : l[j].mac = mac => j = i
    BY <1>2 DEF List, MacsOnce
  <2>2. \A j \in i + 1..Len(l) : j \in 1..Len(l) /\ j # i
    OBVIOUS
  <2>3. Is(i)
    BY <1>2, <2>1, <2>2
  <2>4. k0 \in 1..Len(l) /\ Is(k0)
    BY <2>3
  <2>5. MacNode(l, mac) = k0
    BY <1>2 DEF MacNode
  <2> HIDE DEF k0
  <2>6. k0 = i
    BY <2>1, <2>4
  <2> QED BY <1>2, <2>1, <2>4, <2>5, <2>6
<1> QED BY <1>1, <1>2

LEMMA IpNodeOf ==
  ASSUME NEW l, List(l), NEW ip
  PROVE  \/ IpNode(l, ip) = 0 /\ \A x \in Nodes(l) : x.ip # ip
         \/ IpNode(l, ip) \in 1..Len(l) /\ l[IpNode(l, ip)].ip = ip
<1>1. CASE ~ \E i \in 1..Len(l) : l[i].ip = ip
  BY <1>1 DEF IpNode, Nodes
<1>2. CASE \E i \in 1..Len(l) : l[i].ip = ip
  <2> DEFINE T == {i \in 1..Len(l) : l[i].ip = ip}
             Is(k) == l[k].ip = ip /\ \A j \in k + 1..Len(l) : l[j].ip # ip
             k0 == CHOOSE k \in 1..Len(l) : Is(k)
  <2>1. Len(l) \in Nat
    BY DEF List
  <2>2. PICK k \in T : \A y \in T : y <= k
    <3>1. T \subseteq 1..Len(l) /\ T # {}
      BY <1>2
    <3> QED BY <2>1, <3>1, GreatestElement
  <2>3. \A j \in k + 1..Len(l) : j \in 1..Len(l) /\ ~ (j <= k)
    BY <2>1, <2>2
  <2>4. k \in 1..Len(l) /\ Is(k)
    BY <2>2, <2>3
  <2>5. k0 \in 1..Len(l) /\ Is(k0)
    BY <2>4
  <2>6. IpNode(l, ip) = k0
    BY <1>2 DEF IpNode
  <2> HIDE DEF k0
  <2> QED BY <2>5, <2>6
<1> QED BY <1>1, <1>2

\* Whether the station is in the list or not, its node is out of it then.
LEMMA OwnRemoved ==
  ASSUME NEW l, List(l), NEW mac,
         NEW b, b = node_remove_from_list(l, MacNode(l, mac))
  PROVE  List(b) /\ Nodes(b) = {x \in Nodes(l) : x.mac # mac}
<1> DEFINE own == MacNode(l, mac)
<1>1. CASE own = 0
  <2>1. \A x \in Nodes(l) : x.mac # mac
    BY <1>1, MacNodeOf
  <2> QED BY <1>1, <2>1 DEF node_remove_from_list
<1>2. CASE own \in 1..Len(l)
  <2>1. \A j \in 1..Len(l) : l[j].mac = mac <=> j = own
    BY <1>2, MacNodeOf
  <2>2. List(b) /\ Nodes(b) = {l[j] : j \in (1..Len(l)) \ {own}}
    <3>1. /\ l \in Seq(Node) /\ Sorted(l)
          /\ \A j, k \in 1..Len(l) : j # own /\ k # own /\ l[j].mac = l[k].mac => j = k
      BY DEF List, MacsOnce
    <3> HIDE DEF own
    <3>2. /\ List(node_remove_from_list(l, own))
          /\ Nodes(node_remove_from_list(l, own)) = {l[j] : j \in (1..Len(l)) \ {own}}
      BY <1>2, <3>1, Removed
    <3> QED BY <3>2 DEF own
  <2> HIDE DEF own
  <2>3. {l[j] : j \in (1..Len(l)) \ {own}} = {x \in Nodes(l) : x.mac # mac}
    BY <2>1 DEF Nodes
  <2> QED BY <2>2, <2>3
<1> QED BY <1>1, <1>2, MacNodeOf

\* The search returns an address nobody has, if all that are given are in the
\* range: behind those of the nodes in front, up to the station's own.
LEMMA GapOf ==
  ASSUME NEW l, List(l), NEW mac, local \in Locals
  PROVE  /\ Gap(l, mac) \in Nat \ {0}
         /\ Apart(l, Lease) =>
              /\ \A x \in Nodes(l) : x.mac # mac => x.ip # Gap(l, mac)
              /\ MacNode(l, mac) # 0 \/ Gap(l, mac) <= end_ip => Gap(l, mac) \in Lease
<1> DEFINE own   == MacNode(l, mac)
           front == IF own = 0 THEN Len(l) ELSE own - 1
           Match(k) == \A i \in 1..k : l[i].ip = start_ip + 3 * (i - 1)
           Is(k) == Match(k) /\ (k < front => ~Match(k + 1))
           k0 == CHOOSE k \in 0..front : Is(k)
           T == {k \in 0..front : k < front => ~Match(k + 1)}
<1>1. /\ Len(l) \in Nat /\ front \in 0..Len(l) /\ start_ip \in Nat \ {0}
      /\ own = 0 \/ (own \in 1..Len(l) /\ l[own].mac = mac /\ front = own - 1)
      /\ own = 0 => front = Len(l) /\ \A x \in Nodes(l) : x.mac # mac
  <2>1. Len(l) \in Nat /\ start_ip \in Nat \ {0}
    BY LeaseRange DEF List
  <2>2. \/ own = 0 /\ \A x \in Nodes(l) : x.mac # mac
        \/ own \in 1..Len(l) /\ l[own].mac = mac
    BY MacNodeOf
  <2> HIDE DEF own
  <2>3. CASE own = 0 /\ \A x \in Nodes(l) : x.mac # mac
    BY <2>1, <2>3
  <2>4. CASE own \in 1..Len(l) /\ l[own].mac = mac
    <3>1. own # 0 /\ front = own - 1 /\ own - 1 \in 0..Len(l)
      BY <2>1, <2>4
    <3> HIDE DEF front
    <3> QED BY <2>1, <2>4, <3>1
  <2> QED BY <2>2, <2>3, <2>4
<1>2. Gap(l, mac) = start_ip + 3 * k0
  BY DEF Gap
<1> HIDE DEF front, own
<1>3. k0 \in 0..front /\ Is(k0)
  <2>1. T \subseteq Nat /\ T # {}
    <3> HIDE DEF Match
    <3>1. front \in Nat /\ front \in T
      BY <1>1
    <3>2. \A k \in T : k \in Nat
      BY <3>1
    <3> HIDE DEF T
    <3> QED BY <3>1, <3>2
  <2>2. PICK k \in T : \A y \in T : k <= y
    BY <2>1, LeastElement
  <2>3. Match(k)
    <3>1. CASE k = 0
      BY <3>1
    <3>2. CASE k # 0
      <4>1. k - 1 \in 0..front /\ k - 1 < front /\ ~ (k <= k - 1) /\ (k - 1) + 1 = k
        BY <1>1, <2>2, <3>2
      <4> HIDE DEF Match
      <4>2. ~~Match((k - 1) + 1)
        BY <2>2, <4>1
      <4> QED BY <4>1, <4>2
    <3> QED BY <3>1, <3>2
  <2>4. k \in 0..front /\ Is(k)
    BY <2>2, <2>3
  <2> HIDE DEF Is
  <2> QED BY <2>4
<1> HIDE DEF k0
<1> DEFINE g == start_ip + 3 * k0
<1>4. g \in Nat \ {0}
  BY <1>1, <1>3
<1>5. ASSUME Apart(l, Lease)
      PROVE  /\ \A x \in Nodes(l) : x.mac # mac => x.ip # g
             /\ own # 0 \/ g <= end_ip => g \in Lease
  <2>1. /\ \A i \in 1..Len(l) : l[i].ip \in Nat /\ l[i].ip \in Lease
        /\ \A i, j \in 1..Len(l) : i < j => l[i].ip < l[j].ip
    <3>1. \A i \in 1..Len(l) : l[i] \in Nodes(l) /\ l[i].ip \in Nat
      BY NodesOf DEF Node
    <3>2. ASSUME NEW i \in 1..Len(l), NEW j \in 1..Len(l), i < j PROVE l[i].ip < l[j].ip
      <4>1. l[i].ip <= l[j].ip
        BY <3>2 DEF List, Sorted
      <4>2. l[i].ip # l[j].ip
        <5>1. l[i].mac # l[j].mac
          BY <3>2 DEF List, MacsOnce
        <5> QED BY <1>5, <3>1, <5>1 DEF Apart
      <4> QED BY <3>1, <4>1, <4>2
    <3> QED BY <1>5, <3>1, <3>2 DEF Apart
  \* The nodes in front are below the gap.
  <2>2. \A i \in 1..k0 : l[i].ip = start_ip + 3 * (i - 1) /\ l[i].ip < g
    BY <1>1, <1>3
  \* The next one is not at it, and so above it.
  <2>3. ASSUME NEW i \in 1..Len(l), i = k0 + 1 PROVE g <= l[i].ip
    <3>1. PICK q \in 0..DHCPS_MAX_LEASE - 1 : l[i].ip = start_ip + 3 * q
      BY <2>1, LeaseRange
    <3>2. k0 <= q
      <4>1. CASE k0 = 0
        BY <3>1, <4>1, LeaseRange
      <4>2. CASE k0 # 0
        <5>1. k0 \in 1..k0 /\ k0 \in 1..Len(l) /\ k0 < i
          BY <1>1, <1>3, <2>3, <4>2
        <5>2. l[k0].ip = start_ip + 3 * (k0 - 1) /\ l[k0].ip < l[i].ip
          BY <2>1, <2>2, <5>1
        <5>3. q \in Nat /\ k0 \in Nat
          BY <1>1, <1>3, <3>1, LeaseRange
        <5> QED BY <1>1, <3>1, <5>2, <5>3
      <4> QED BY <4>1, <4>2
    <3>3. q \in Nat /\ k0 \in Nat
      BY <1>1, <1>3, <3>1, LeaseRange
    <3> QED BY <1>1, <3>1, <3>2, <3>3
  <2>4. ASSUME NEW i \in 1..Len(l), i = k0 + 1, k0 < front PROVE l[i].ip # g
    <3>1. ~ Match(k0 + 1)
      BY <1>3, <2>4
    <3>2. PICK j \in 1..k0 + 1 : l[j].ip # start_ip + 3 * (j - 1)
      BY <3>1
    <3>3. j = k0 + 1
      BY <1>1, <1>3, <2>2, <3>2
    <3> QED BY <1>1, <1>3, <2>4, <3>2, <3>3
  <2>5. ASSUME NEW i \in 1..Len(l), l[i].mac # mac PROVE l[i].ip # g
    <3>1. CASE i <= k0
      BY <2>2, <3>1, <1>1, <1>3, <2>1, <1>4
    <3>2. CASE i = k0 + 1
      <4>1. CASE k0 < front
        BY <2>4, <3>2, <4>1
      <4>2. CASE k0 = front
        <5>1. own = 0 \/ i = own
          BY <1>1, <3>2, <4>2
        <5>2. own # 0
          BY <1>1, <1>3, <3>2, <4>2
        <5> QED BY <1>1, <2>5, <5>1, <5>2
      <4> QED BY <1>1, <1>3, <4>1, <4>2
    <3>3. CASE i > k0 + 1
      <4>1. k0 + 1 \in 1..Len(l) /\ k0 + 1 < i
        BY <1>1, <1>3, <3>3
      <4>2. g <= l[k0 + 1].ip /\ l[k0 + 1].ip < l[i].ip /\ l[k0 + 1].ip \in Nat /\ l[i].ip \in Nat
        BY <2>1, <2>3, <4>1
      <4> QED BY <1>4, <4>2
    <3> QED BY <1>1, <1>3, <3>1, <3>2, <3>3
  <2>6. ASSUME own # 0 \/ g <= end_ip PROVE g \in Lease
    <3>1. g <= end_ip
      <4>1. CASE own # 0
        <5>1. k0 + 1 \in 1..Len(l)
          BY <1>1, <1>3, <4>1
        <5>2. g <= l[k0 + 1].ip /\ l[k0 + 1].ip \in Lease /\ l[k0 + 1].ip \in Nat
          BY <2>1, <2>3, <5>1
        <5>3. l[k0 + 1].ip <= end_ip /\ end_ip \in Int
          BY <5>2, LeaseRange
        <5> QED BY <1>4, <5>2, <5>3
      <4> QED BY <2>6, <4>1
    <3>2. k0 \in Nat /\ k0 <= DHCPS_MAX_LEASE - 1
      BY <1>1, <1>3, <3>1, LeaseRange
    <3>3. k0 \in 0..DHCPS_MAX_LEASE - 1
      BY <3>2, LeaseRange
    <3> QED BY <3>3, LeaseRange
  <2> QED BY <2>5, <2>6 DEF Nodes
<1> QED BY <1>2, <1>4, <1>5 DEF own
-----------------------------------------------------------------------------
(* What a packet does to the list *)

\* The nodes of gone go and n comes: those of its station, and otherwise only
\* of stations that left.
Updated(l, r, n, gone) ==
  /\ List(r) /\ n \in Node /\ n.state = "ONLINE" /\ n.type \in {"DYNAMIC", "STATIC"}
  /\ gone \subseteq Nodes(l)
  /\ \A x \in Nodes(l) : x.mac = n.mac => x \in gone
  /\ \A x \in gone : x.mac = n.mac \/ x.state = "OFFLINE"
  /\ Nodes(r) = (Nodes(l) \ gone) \cup {n}

\* Nothing happens, or a node comes for the station that keeps addresses apart.
Effect(l, u, mac, ip) ==
  \/ u.list = l /\ u.ip = ANY /\ ~u.renew
  \/ \E n \in Node, gone \in SUBSET Nodes(l) :
       /\ Updated(l, u.list, n, gone)
       /\ n.mac = mac /\ n.ip = u.ip
       /\ ip # ANY => u.ip = ip
       /\ Apart(l, Lease) /\ (ip = ANY \/ ip \in Lease) =>
            n.ip \in Lease /\ \A x \in Nodes(l) \ gone : x.ip # n.ip

LEMMA PoolType ==
  ASSUME NEW mac \in Macs, NEW ip \in Nat \ {0}, NEW type \in {"DYNAMIC", "STATIC"}
  PROVE  /\ Pool(mac, ip, type) \in Node
         /\ Pool(mac, ip, type).mac = mac /\ Pool(mac, ip, type).ip = ip
         /\ Pool(mac, ip, type).state = "ONLINE" /\ Pool(mac, ip, type).type = type
<1>1. LeaseTime \in 1..LeaseTime
  BY DhcpAssumption
<1> QED BY <1>1 DEF Pool, Node

\* The station's node moves to another address, or a new one comes.
LEMMA Moved ==
  ASSUME NEW l, List(l), NEW n \in Node, n.state = "ONLINE",
         NEW r, r = node_insert_to_list(node_remove_from_list(l, MacNode(l, n.mac)), n)
  PROVE  Updated(l, r, n, {x \in Nodes(l) : x.mac = n.mac})
<1> DEFINE b == node_remove_from_list(l, MacNode(l, n.mac))
<1>1. List(b) /\ Nodes(b) = {x \in Nodes(l) : x.mac # n.mac}
  BY OwnRemoved
<1>2. r = node_insert_to_list(b, n)
  OBVIOUS
<1> HIDE DEF b
<1>3. List(r) /\ Nodes(r) = Nodes(b) \cup {n}
  BY <1>1, <1>2, Inserted
<1>4. n.type \in {"DYNAMIC", "STATIC"}
  BY DEF Node
<1> QED BY <1>1, <1>3, <1>4 DEF Updated

LEMMA NoAddressEffect ==
  ASSUME NEW l, List(l), NEW mac \in Macs, local \in Locals
  PROVE  Effect(l, NoAddress(l, mac), mac, ANY)
<1> DEFINE u == NoAddress(l, mac)
           own == MacNode(l, mac)
           g == Gap(l, mac)
           n == Pool(mac, g, "DYNAMIC")
           gone == {x \in Nodes(l) : x.mac = mac}
<1>1. CASE own = 0 /\ g > end_ip
  BY <1>1 DEF NoAddress, Effect
<1>2. CASE ~ (own = 0 /\ g > end_ip)
  <2>1. g \in Nat \ {0}
    BY GapOf
  <2>2. n \in Node /\ n.mac = mac /\ n.ip = g /\ n.state = "ONLINE"
    BY <2>1, PoolType
  <2>3. u = [list |-> node_insert_to_list(node_remove_from_list(l, own), n),
             ip |-> g, renew |-> FALSE]
    BY <1>2 DEF NoAddress
  <2>4. Updated(l, u.list, n, gone)
    <3> HIDE DEF n
    <3>1. u.list = node_insert_to_list(node_remove_from_list(l, MacNode(l, n.mac)), n)
      BY <2>2, <2>3
    <3>2. Updated(l, u.list, n, {x \in Nodes(l) : x.mac = n.mac})
      BY <2>2, <3>1, Moved
    <3> QED BY <2>2, <3>2
  <2>5. end_ip \in Int
    BY LeaseRange
  <2>6. Apart(l, Lease) => g \in Lease /\ \A x \in Nodes(l) : x.mac # mac => x.ip # g
    BY <1>2, <2>1, <2>5, GapOf
  <2>7. u.ip = g
    BY <2>3
  <2> HIDE DEF n, u, g
  <2>8. gone \in SUBSET Nodes(l) /\ \A x \in Nodes(l) \ gone : x.mac # mac
    OBVIOUS
  <2> HIDE DEF gone
  <2>9. Effect(l, u, mac, ANY)
    BY <2>2, <2>4, <2>6, <2>7, <2>8 DEF Effect
  <2> QED BY <2>9 DEF u
<1> QED BY <1>1, <1>2

\* The pool of a station that left is taken over by another station.
LEMMA TakenOver ==
  ASSUME NEW l, List(l), NEW n \in Node, n.state = "ONLINE",
         NEW t \in 1..Len(l), l[t].ip = n.ip, l[t].state = "OFFLINE", t # MacNode(l, n.mac),
         NEW r, r = node_remove_from_list([l EXCEPT ![t] = n], MacNode(l, n.mac))
  PROVE  Updated(l, r, n, {x \in Nodes(l) : x.mac = n.mac} \cup {l[t]})
<1> DEFINE own == MacNode(l, n.mac)
           e == [l EXCEPT ![t] = n]
           gone == {x \in Nodes(l) : x.mac = n.mac} \cup {l[t]}
<1>1. /\ e \in Seq(Node) /\ Sorted(e) /\ Len(e) = Len(l)
      /\ \A j \in 1..Len(l) : e[j] = IF j = t THEN n ELSE l[j]
      /\ (\A j \in 1..Len(l) : l[j].mac = n.mac => j = t) =>
            List(e) /\ Nodes(e) = (Nodes(l) \ {l[t]}) \cup {n}
  <2>1. Rewrites(e, l, t, n)
    BY DEF Rewrites
  <2> HIDE DEF e
  <2> QED BY <2>1, Rewritten
<1>2. /\ n.type \in {"DYNAMIC", "STATIC"} /\ l[t] \in Nodes(l)
      /\ gone \subseteq Nodes(l)
  BY NodesOf DEF Node
<1>3. CASE own = 0
  <2>1. \A x \in Nodes(l) : x.mac # n.mac
    BY <1>3, MacNodeOf
  <2>2. \A j \in 1..Len(l) : l[j].mac # n.mac
    BY <2>1, NodesOf
  <2>3. r = e
    BY <1>3 DEF node_remove_from_list
  <2>4. List(r) /\ Nodes(r) = (Nodes(l) \ {l[t]}) \cup {n}
    BY <1>1, <2>2, <2>3
  <2>5. gone = {l[t]}
    BY <2>1
  <2> QED BY <1>2, <2>1, <2>4, <2>5 DEF Updated
<1>4. CASE own \in 1..Len(l) /\ \A j \in 1..Len(l) : l[j].mac = n.mac <=> j = own
  <2> HIDE DEF own, e
  <2>0. r = node_remove_from_list(e, own)
    BY DEF e, own
  <2>1. own \in 1..Len(e)
    BY <1>1, <1>4
  <2>2. \A j, k \in 1..Len(e) : j # own /\ k # own /\ e[j].mac = e[k].mac => j = k
    <3> SUFFICES ASSUME NEW j \in 1..Len(l), NEW k \in 1..Len(l),
                        j # own, k # own, e[j].mac = e[k].mac
                 PROVE  j = k
      BY <1>1
    <3>1. CASE j = t
      BY <1>1, <1>4, <3>1
    <3>2. CASE k = t
      BY <1>1, <1>4, <3>2
    <3>3. CASE j # t /\ k # t
      BY <1>1, <3>3 DEF List, MacsOnce
    <3> QED BY <3>1, <3>2, <3>3
  <2>3. List(r) /\ Nodes(r) = {e[j] : j \in (1..Len(e)) \ {own}}
    BY <1>1, <2>0, <2>1, <2>2, Removed
  <2>4. {e[j] : j \in (1..Len(e)) \ {own}} = {l[j] : j \in (1..Len(l)) \ {own, t}} \cup {n}
    <3>1. t # own
      BY DEF own
    <3> QED BY <1>1, <3>1
  <2>5. {l[j] : j \in (1..Len(l)) \ {own, t}} = Nodes(l) \ gone
    <3>1. \A j \in 1..Len(l) : l[j] = l[t] => j = t
      BY DEF List, MacsOnce
    <3>2. \A j \in 1..Len(l) : l[j] \in gone <=> j \in {own, t}
      BY <1>4, <3>1 DEF Nodes
    <3> HIDE DEF gone
    <3> QED BY <3>2 DEF Nodes
  <2>6. Nodes(r) = (Nodes(l) \ gone) \cup {n}
    BY <2>3, <2>4, <2>5
  <2> QED BY <1>2, <2>3, <2>6 DEF Updated
<1> QED BY <1>3, <1>4, MacNodeOf

LEMMA WithAddressEffect ==
  ASSUME NEW l, List(l), NEW mac \in Macs, NEW ip \in Nat \ {0}
  PROVE  Effect(l, WithAddress(l, mac, ip), mac, ip)
<1> DEFINE own == MacNode(l, mac)
           taken == IpNode(l, ip)
           u == WithAddress(l, mac, ip)
           N(type) == Pool(mac, ip, type)
           mine == {x \in Nodes(l) : x.mac = mac}
<1>1. \A type \in {"DYNAMIC", "STATIC"} :
        N(type) \in Node /\ N(type).mac = mac /\ N(type).ip = ip /\ N(type).state = "ONLINE"
  BY PoolType
<1>2. \/ own = 0 /\ mine = {}
      \/ own \in 1..Len(l) /\ \A j \in 1..Len(l) : l[j].mac = mac <=> j = own
  BY MacNodeOf
<1>3. \/ taken = 0 /\ \A x \in Nodes(l) : x.ip # ip
      \/ taken \in 1..Len(l) /\ l[taken].ip = ip
  BY IpNodeOf
<1>4. \A i \in 1..Len(l) : l[i] \in Nodes(l)
  BY NodesOf
<1>5. ip # ANY
  BY DEF ANY
<1> DEFINE renew == own # 0 /\ taken = own
           No == u.list = l /\ u.ip = ANY /\ ~u.renew
           Comes(n, gone) ==
             /\ n \in Node /\ n.mac = mac /\ n.ip = u.ip /\ u.ip = ip
             /\ Updated(l, u.list, n, gone)
             /\ Apart(l, Lease) => \A x \in Nodes(l) \ gone : x.ip # ip
<1>6. ASSUME NEW n, NEW gone, Comes(n, gone) PROVE Effect(l, u, mac, ip)
  <2>1. gone \in SUBSET Nodes(l)
    BY <1>6 DEF Updated
  <2> HIDE DEF u
  <2> QED BY <1>5, <1>6, <2>1 DEF Effect
<1>7. ASSUME No PROVE Effect(l, u, mac, ip)
  BY <1>7 DEF Effect
<1>8. CASE renew
  <2> DEFINE n == N("DYNAMIC")
             e == [l EXCEPT ![own] = n]
  <2>1. u.list = e /\ u.ip = ip
    BY <1>8 DEF WithAddress
  <2>2. n \in Node /\ n.mac = mac /\ n.ip = ip /\ n.state = "ONLINE"
        /\ n.type \in {"DYNAMIC", "STATIC"}
    BY <1>1 DEF Node
  <2> HIDE DEF n, own, taken, u
  <2>3. own \in 1..Len(l) /\ l[own].ip = ip /\ \A j \in 1..Len(l) : l[j].mac = mac <=> j = own
    BY <1>2, <1>3, <1>8
  <2>4. Rewrites(e, l, own, n)
    BY <2>2, <2>3 DEF Rewrites
  <2> HIDE DEF e
  <2>5. List(e) /\ Nodes(e) = (Nodes(l) \ {l[own]}) \cup {n}
    BY <2>2, <2>3, <2>4, Rewritten
  <2>6. mine = {l[own]}
    BY <2>3 DEF Nodes
  <2>7. Updated(l, e, n, mine)
    BY <1>4, <2>2, <2>3, <2>5, <2>6 DEF Updated
  <2>8. Apart(l, Lease) => \A x \in Nodes(l) \ mine : x.ip # ip
    BY <1>4, <2>3, <2>6 DEF Apart
  <2>9. Comes(n, mine)
    BY <2>1, <2>2, <2>7, <2>8
  <2> QED BY <1>6, <2>9 DEF u
<1>9. CASE ~renew /\ taken # 0 /\ l[taken].state # "OFFLINE"
  <2>1. No
    BY <1>9 DEF WithAddress
  <2> QED BY <1>7, <2>1
<1>10. CASE ~renew /\ taken # 0 /\ l[taken].state = "OFFLINE"
  <2> DEFINE n == N("STATIC")
             r == node_remove_from_list([l EXCEPT ![taken] = n], own)
             gone == mine \cup {l[taken]}
  <2>1. u.list = r /\ u.ip = ip
    BY <1>10 DEF WithAddress
  <2>2. n \in Node /\ n.mac = mac /\ n.ip = ip /\ n.state = "ONLINE"
    BY <1>1
  <2>3. taken \in 1..Len(l) /\ l[taken].ip = ip /\ taken # own
    BY <1>3, <1>10
  <2> HIDE DEF n, taken
  <2>4. taken # MacNode(l, n.mac) /\ r = node_remove_from_list([l EXCEPT ![taken] = n], MacNode(l, n.mac))
    BY <2>2, <2>3
  <2> HIDE DEF r
  <2>5. Updated(l, r, n, {x \in Nodes(l) : x.mac = n.mac} \cup {l[taken]})
    BY <1>10, <2>2, <2>3, <2>4, TakenOver
  <2>6. Updated(l, r, n, gone)
    BY <2>2, <2>5
  <2>7. Apart(l, Lease) => \A x \in Nodes(l) \ gone : x.ip # ip
    BY <1>4, <2>3 DEF Apart
  <2> HIDE DEF u, gone
  <2>8. Comes(n, gone)
    BY <2>1, <2>2, <2>6, <2>7
  <2> QED BY <1>6, <2>8 DEF u
<1>11. CASE taken = 0 /\ own = 0 /\ ip > end_ip
  <2>1. No
    BY <1>11 DEF WithAddress
  <2> QED BY <1>7, <2>1
<1>12. CASE taken = 0 /\ ~ (own = 0 /\ ip > end_ip)
  <2> DEFINE n == N("STATIC")
             r == node_insert_to_list(node_remove_from_list(l, own), n)
  <2>1. u.list = r /\ u.ip = ip
    BY <1>12 DEF WithAddress
  <2>2. n \in Node /\ n.mac = mac /\ n.ip = ip /\ n.state = "ONLINE"
    BY <1>1
  <2> HIDE DEF n
  <2>3. r = node_insert_to_list(node_remove_from_list(l, MacNode(l, n.mac)), n)
    BY <2>2
  <2> HIDE DEF r
  <2>4. Updated(l, r, n, {x \in Nodes(l) : x.mac = n.mac})
    BY <2>2, <2>3, Moved
  <2>5. Updated(l, r, n, mine)
    BY <2>2, <2>4
  <2>6. \A x \in Nodes(l) : x.ip # ip
    BY <1>3, <1>12
  <2> HIDE DEF u, mine
  <2>7. Comes(n, mine)
    BY <2>1, <2>2, <2>5, <2>6
  <2> QED BY <1>6, <2>7 DEF u
<1>13. ~renew \/ renew
  OBVIOUS
<1>14. renew => taken # 0
  OBVIOUS
<1> HIDE DEF renew, taken, own
<1> QED BY <1>8, <1>9, <1>10, <1>11, <1>12, <1>13, <1>14

\* The address a station has is renewed.
LEMMA Renewed ==
  ASSUME NEW l, List(l), NEW mac \in Macs, NEW ip \in Nat \ {0}, Apart(l, Lease),
         NEW x \in Nodes(l), x.mac = mac, x.ip = ip
  PROVE  WithAddress(l, mac, ip).renew /\ WithAddress(l, mac, ip).ip = ip
<1> DEFINE own == MacNode(l, mac)
           taken == IpNode(l, ip)
<1>1. own \in 1..Len(l) /\ l[own].mac = mac
  BY MacNodeOf
<1>2. taken \in 1..Len(l) /\ l[taken].ip = ip
  BY IpNodeOf
<1>3. own # 0 /\ taken = own
  <2> HIDE DEF own, taken
  <2>1. l[own] = x /\ l[taken] = x
    BY <1>1, <1>2, NodesOf DEF Apart
  <2> QED BY <1>1, <1>2, <2>1 DEF List, MacsOnce
<1> QED BY <1>3 DEF WithAddress

LEMMA UpdateEffect ==
  ASSUME NEW l, List(l), NEW mac \in Macs, NEW ip \in Nat, local \in Locals
  PROVE  Effect(l, client_update(l, mac, ip), mac, ip)
<1>1. CASE ip = ANY
  BY <1>1, NoAddressEffect DEF client_update
<1>2. CASE ip # ANY
  <2>1. ip \in Nat \ {0}
    BY <1>2 DEF ANY
  <2> QED BY <1>2, <2>1, WithAddressEffect DEF client_update
<1> QED BY <1>1, <1>2

LEMMA ApartKept ==
  ASSUME NEW l, NEW r, NEW R, List(r), Apart(l, R),
         \A y \in Nodes(r) : \E x \in Nodes(l) : x.mac = y.mac /\ x.ip = y.ip
  PROVE  Apart(r, R)
<1>1. ASSUME NEW y \in Nodes(r), NEW z \in Nodes(r), y.ip = z.ip PROVE y = z
  <2>1. PICK x \in Nodes(l) : x.mac = y.mac /\ x.ip = y.ip
    OBVIOUS
  <2>2. PICK w \in Nodes(l) : w.mac = z.mac /\ w.ip = z.ip
    OBVIOUS
  <2>3. x = w
    BY <1>1, <2>1, <2>2 DEF Apart
  <2> QED BY <2>1, <2>2, <2>3, NodesOf
<1>2. ASSUME NEW y \in Nodes(r) PROVE y.ip \in R
  BY DEF Apart
<1> QED BY <1>1, <1>2 DEF Apart

\* What a packet leaves of the invariant's view of the list.
LEMMA EffectKeeps ==
  ASSUME NEW l, List(l), NEW u, NEW mac, NEW ip, Effect(l, u, mac, ip)
  PROVE  /\ List(u.list)
         /\ Apart(l, Lease) /\ (ip = ANY \/ ip \in Lease) =>
              Apart(u.list, Lease) /\ (u.ip # ANY => u.ip \in Lease)
         /\ \A x \in Nodes(u.list) : x \in Nodes(l) \/ x.state = "ONLINE"
         /\ \A x \in Nodes(l) : x.mac # mac /\ x.state = "ONLINE" => x \in Nodes(u.list)
         /\ u.ip # ANY =>
              \E x \in Nodes(u.list) : x.mac = mac /\ x.ip = u.ip /\ x.state = "ONLINE"
         /\ u.ip \in Nat
<1>1. CASE u.list = l /\ u.ip = ANY /\ ~u.renew
  BY <1>1 DEF ANY
<1>2. CASE ~ (u.list = l /\ u.ip = ANY /\ ~u.renew)
  <2>1. PICK n \in Node, gone \in SUBSET Nodes(l) :
       /\ Updated(l, u.list, n, gone)
       /\ n.mac = mac /\ n.ip = u.ip
       /\ ip # ANY => u.ip = ip
       /\ Apart(l, Lease) /\ (ip = ANY \/ ip \in Lease) =>
            n.ip \in Lease /\ \A x \in Nodes(l) \ gone : x.ip # n.ip
    BY <1>2 DEF Effect
  <2>2. /\ List(u.list) /\ n.state = "ONLINE" /\ n \in Nodes(u.list)
        /\ \A x \in gone : x.mac = n.mac \/ x.state = "OFFLINE"
        /\ Nodes(u.list) = (Nodes(l) \ gone) \cup {n}
    BY <2>1 DEF Updated
  <2>3. ASSUME Apart(l, Lease), ip = ANY \/ ip \in Lease
        PROVE  Apart(u.list, Lease) /\ u.ip \in Lease
    <3>1. n.ip \in Lease /\ \A x \in Nodes(l) \ gone : x.ip # n.ip
      BY <2>1, <2>3
    <3> QED BY <2>1, <2>2, <2>3, <3>1 DEF Apart
  <2>4. u.ip \in Nat
    BY <2>1 DEF Node
  <2>5. \A x \in Nodes(l) : x.mac # mac /\ x.state = "ONLINE" => x \in Nodes(u.list)
    BY <2>1, <2>2
  <2> QED BY <2>1, <2>2, <2>3, <2>4, <2>5
<1> QED BY <1>1, <1>2

\* A station leaves: its node goes, or is marked if it is a dynamic one.
Left(l, r, mac) ==
  /\ List(r)
  /\ \A x \in Nodes(l) : x.mac # mac => x \in Nodes(r)
  /\ \A y \in Nodes(r) :
       \/ y \in Nodes(l)
       \/ /\ y.state = "OFFLINE" /\ y.type = "DYNAMIC"
          /\ \E x \in Nodes(l) : x.mac = y.mac /\ x.ip = y.ip

LEMMA ClientLeft ==
  ASSUME NEW l, List(l), NEW mac, NEW ip, NEW force \in BOOLEAN
  PROVE  Left(l, client_leave(l, mac, ip, force), mac)
<1> DEFINE i == MacNode(l, mac)
           r == client_leave(l, mac, ip, force)
<1>1. \/ i = 0
      \/ i \in 1..Len(l) /\ \A j \in 1..Len(l) : l[j].mac = mac <=> j = i
  BY MacNodeOf
<1>2. CASE i = 0 \/ l[i].ip # ip
  BY <1>2 DEF client_leave, Left
<1>3. CASE ~ (i = 0 \/ l[i].ip # ip) /\ (l[i].type = "STATIC" \/ force)
  <2>1. r = node_remove_from_list(l, MacNode(l, mac))
    BY <1>3 DEF client_leave
  <2> HIDE DEF r
  <2>2. List(r) /\ Nodes(r) = {x \in Nodes(l) : x.mac # mac}
    BY <2>1, OwnRemoved
  <2> QED BY <2>2 DEF Left, r
<1>4. CASE ~ (i = 0 \/ l[i].ip # ip) /\ ~ (l[i].type = "STATIC" \/ force)
  <2> DEFINE n == [l[i] EXCEPT !.state = "OFFLINE"]
             e == [l EXCEPT ![i] = n]
  <2>1. r = [l EXCEPT ![i].state = "OFFLINE"]
    BY <1>4 DEF client_leave
  <2>2. r = e
    BY <2>1
  <2> HIDE DEF i, r
  <2>3. i \in 1..Len(l) /\ l[i] \in Node /\ l[i] \in Nodes(l)
        /\ \A j \in 1..Len(l) : l[j].mac = mac <=> j = i
    BY <1>1, <1>4, NodesOf
  <2>4. n \in Node /\ n.mac = l[i].mac /\ n.ip = l[i].ip /\ n.type = l[i].type
        /\ n.state = "OFFLINE"
    BY <2>3 DEF Node
  <2>5. n.type = "DYNAMIC"
    BY <1>4, <2>3, <2>4 DEF Node
  <2> HIDE DEF n
  <2>6. Rewrites(e, l, i, n)
    BY <2>3, <2>4 DEF Rewrites
  <2> HIDE DEF e
  <2>7. List(e) /\ Nodes(e) = (Nodes(l) \ {l[i]}) \cup {n}
    BY <2>3, <2>4, <2>6, Rewritten
  <2>8. Left(l, e, mac)
    BY <2>3, <2>4, <2>5, <2>7 DEF Left
  <2> QED BY <2>2, <2>8 DEF r
<1> QED BY <1>2, <1>3, <1>4

\* A minute passes: nodes go whose time is up, and the others keep all but their
\* time.
Same(x, y) == x.mac = y.mac /\ x.ip = y.ip /\ x.type = y.type /\ x.state = y.state

LEMMA AgedAt ==
  ASSUME NEW l, List(l), NEW i \in 1..Len(l)
  PROVE  /\ Same(Aged(l)[i], l[i]) /\ Aged(l)[i].lease_timer \in Nat
         /\ Aged(l)[i].lease_timer # 0 => Aged(l)[i] \in Node
<1>1. l[i] \in Node /\ l[i].lease_timer \in 1..LeaseTime
  BY NodesOf DEF Node
<1>2. Aged(l)[i] = IF l[i].type = "DYNAMIC"
                   THEN [l[i] EXCEPT !.lease_timer = @ - 1] ELSE l[i]
  BY DEF Aged
<1>3. LeaseTime \in Nat
  BY DhcpAssumption
<1>4. CASE l[i].type = "DYNAMIC"
  <2> DEFINE a == [l[i] EXCEPT !.lease_timer = l[i].lease_timer - 1]
  <2>1. Aged(l)[i] = a
    BY <1>2, <1>4
  <2>2. a.mac = l[i].mac /\ a.ip = l[i].ip /\ a.type = l[i].type /\ a.state = l[i].state
        /\ a.lease_timer = l[i].lease_timer - 1
    BY <1>1 DEF Node
  <2>3. a.lease_timer \in Nat /\ (a.lease_timer # 0 => a.lease_timer \in 1..LeaseTime)
    BY <1>1, <1>3, <2>2
  <2>4. l[i].lease_timer - 1 \in 1..LeaseTime => a \in Node
    BY <1>1 DEF Node
  <2> HIDE DEF a
  <2> QED BY <2>1, <2>2, <2>3, <2>4 DEF Same
<1>5. CASE l[i].type # "DYNAMIC"
  BY <1>1, <1>2, <1>3, <1>5 DEF Same
<1> QED BY <1>4, <1>5

LEMMA RunningOf ==
  ASSUME NEW l, List(l), NEW r, r \in Running(Aged(l))
  PROVE  /\ List(r)
         /\ \A y \in Nodes(r) : \E x \in Nodes(l) : Same(y, x)
         /\ \A i \in 1..Len(l) : Aged(l)[i].lease_timer # 0 =>
              \E y \in Nodes(r) : Same(y, l[i])
<1> DEFINE a == Aged(l)
           K == {i \in 1..Len(a) : a[i].lease_timer # 0}
           n == Cardinality(K)
<1>1. Len(l) \in Nat /\ Len(a) = Len(l)
  <2>1. Len(l) \in Nat
    BY DEF List
  <2>2. a \in [1..Len(l) -> {a[i] : i \in 1..Len(l)}]
    BY DEF Aged
  <2>3. a \in Seq({a[i] : i \in 1..Len(l)}) /\ DOMAIN a = 1..Len(l)
    BY <2>1, <2>2
  <2> QED BY <2>1, <2>3
<1>2. n \in Nat
  <2>1. IsFiniteSet(1..Len(a))
    BY <1>1, FS_Interval
  <2>2. IsFiniteSet(K)
    BY <2>1, FS_Subset
  <2> QED BY <2>2, FS_CardinalityType
<1>3. PICK h \in [1..n -> K] :
        /\ \A j, k \in 1..n : j < k => h[j] < h[k]
        /\ \A i \in K : \E j \in 1..n : h[j] = i
        /\ r = [j \in 1..n |-> a[h[j]]]
  BY DEF Running
<1>4. \A i \in K : i \in 1..Len(l) /\ a[i].lease_timer # 0
  BY <1>1
<1>5. \A i \in 1..Len(l) : a[i].lease_timer # 0 => i \in K
  BY <1>1
<1>6. \A i \in 1..Len(l) : Same(a[i], l[i]) /\ (a[i].lease_timer # 0 => a[i] \in Node)
  BY AgedAt
<1> HIDE DEF K, n, a
<1>7. \A j \in 1..n : /\ h[j] \in K /\ h[j] \in 1..Len(l) /\ r[j] = a[h[j]]
                      /\ a[h[j]] \in Node
  BY <1>3, <1>4, <1>6
<1>8. Thins(r, a, n, h)
  <2>1. Sorted(a)
    <3>1. \A i \in 1..Len(l) : a[i].ip = l[i].ip
      BY <1>6 DEF Same
    <3> QED BY <1>1, <3>1 DEF Sorted, List
  <2>2. h \in [1..n -> 1..Len(a)]
    BY <1>1, <1>3, <1>7
  <2>3. \A j, k \in 1..n : h[j] # h[k] => a[h[j]].mac # a[h[k]].mac
    <3>1. \A i \in 1..Len(l) : a[i].mac = l[i].mac
      BY <1>6 DEF Same
    <3>2. \A i, j \in 1..Len(l) : i # j => a[i].mac # a[j].mac
      BY <3>1 DEF List, MacsOnce
    <3> QED BY <1>7, <3>2
  <2>4. r \in [1..n -> Node]
    BY <1>3, <1>7
  <2> QED BY <1>2, <1>3, <1>7, <2>1, <2>2, <2>3, <2>4 DEF Thins
<1>9. List(r) /\ Len(r) = n
  BY <1>8, Thinned
<1>10. ASSUME NEW y \in Nodes(r) PROVE \E x \in Nodes(l) : Same(y, x)
  <2>1. PICK j \in 1..n : y = r[j]
    BY <1>9 DEF Nodes
  <2>2. l[h[j]] \in Nodes(l) /\ Same(y, l[h[j]])
    BY <1>6, <1>7, <2>1, NodesOf
  <2> QED BY <2>2
<1>11. ASSUME NEW i \in 1..Len(l), a[i].lease_timer # 0
       PROVE  \E y \in Nodes(r) : Same(y, l[i])
  <2>1. PICK j \in 1..n : h[j] = i
    BY <1>3, <1>5, <1>11
  <2>2. r[j] \in Nodes(r) /\ Same(r[j], l[i])
    BY <1>6, <1>7, <1>9, <2>1 DEF Nodes
  <2> QED BY <2>2
<1> QED BY <1>9, <1>10, <1>11 DEF a
-----------------------------------------------------------------------------
(* What the minute timer leaves is one list *)

\* The walks through K: all its places, each once, in their order.
Walks(K) ==
  LET N == 1..Cardinality(K)
  IN  {h \in [N -> K] : /\ \A j, k \in N : j < k => h[j] < h[k]
                        /\ \A i \in K : \E j \in N : h[j] = i}

\* Two walks first differ nowhere: the one that is ahead there has missed a place.
LEMMA NoneAhead ==
  ASSUME NEW K \in SUBSET Nat, NEW n \in Nat, NEW h \in [1..n -> K], NEW g \in [1..n -> K],
         \A j, k \in 1..n : j < k => h[j] < h[k],
         \A j, k \in 1..n : j < k => g[j] < g[k],
         \A i \in K : \E j \in 1..n : g[j] = i,
         NEW j \in 1..n, \A k \in 1..n : k < j => h[k] = g[k]
  PROVE  ~ (h[j] < g[j])
<1> SUFFICES ASSUME h[j] < g[j] PROVE FALSE
  OBVIOUS
<1>1. PICK k \in 1..n : g[k] = h[j]
  OBVIOUS
<1>2. h[j] \in Nat /\ g[j] \in Nat /\ g[k] \in Nat /\ h[k] \in Nat
  OBVIOUS
<1>3. ~ (k = j) /\ ~ (j < k)
  BY <1>1, <1>2
<1>4. k < j
  BY <1>3
<1>5. h[k] = g[k] /\ h[k] < h[j]
  BY <1>4
<1> QED BY <1>1, <1>2, <1>5

LEMMA OneWalk ==
  ASSUME NEW K \in SUBSET Nat, IsFiniteSet(K), NEW h \in Walks(K), NEW g \in Walks(K)
  PROVE  h = g
<1> DEFINE n == Cardinality(K)
           D == {j \in 1..n : h[j] # g[j]}
<1>1. n \in Nat
  BY FS_CardinalityType
<1>2. /\ h \in [1..n -> K] /\ g \in [1..n -> K]
      /\ \A j, k \in 1..n : j < k => h[j] < h[k]
      /\ \A j, k \in 1..n : j < k => g[j] < g[k]
      /\ \A i \in K : \E j \in 1..n : h[j] = i
      /\ \A i \in K : \E j \in 1..n : g[j] = i
  BY DEF Walks
<1> HIDE DEF n
<1>3. D = {}
  <2> SUFFICES ASSUME D # {} PROVE FALSE
    OBVIOUS
  <2>1. D \subseteq Nat
    OBVIOUS
  <2>2. PICK j \in D : \A k \in D : j <= k
    BY <2>1, LeastElement
  <2>3. j \in 1..n /\ h[j] # g[j] /\ h[j] \in Nat /\ g[j] \in Nat
    BY <1>2
  <2>4. \A k \in 1..n : k < j => h[k] = g[k]
    BY <2>2
  <2> HIDE DEF D
  <2>5. ~ (h[j] < g[j])
    BY <1>1, <1>2, <2>3, <2>4, NoneAhead
  <2>6. ~ (g[j] < h[j])
    <3>1. \A k \in 1..n : k < j => g[k] = h[k]
      BY <2>4
    <3> QED BY <1>1, <1>2, <2>3, <3>1, NoneAhead
  <2> QED BY <2>3, <2>5, <2>6
<1>4. \A j \in 1..n : h[j] = g[j]
  BY <1>3
<1> HIDE DEF D
<1>5. h = [j \in 1..n |-> h[j]] /\ g = [j \in 1..n |-> g[j]]
  BY <1>2
<1> QED BY <1>4, <1>5, Zenon

\* A walk goes on to a place behind all of its own.
LEMMA WalkOn ==
  ASSUME NEW m \in Nat, NEW K \in SUBSET (1..m), NEW h \in Walks(K)
  PROVE  \E g : g \in Walks(K \cup {m + 1})
<1> DEFINE n == Cardinality(K)
           M == K \cup {m + 1}
           g == [j \in 1..(n + 1) |-> IF j <= n THEN h[j] ELSE m + 1]
<1>1. IsFiniteSet(K) /\ n \in Nat /\ Cardinality(M) = n + 1
  <2>1. IsFiniteSet(1..m)
    BY FS_Interval
  <2>2. IsFiniteSet(K)
    BY <2>1, FS_Subset
  <2>3. m + 1 \notin K
    OBVIOUS
  <2> QED BY <2>2, <2>3, FS_CardinalityType, FS_AddElement
<1>2. /\ h \in [1..n -> K]
      /\ \A j, k \in 1..n : j < k => h[j] < h[k]
      /\ \A i \in K : \E j \in 1..n : h[j] = i
  BY DEF Walks
<1> HIDE DEF n
<1>3. \A j \in 1..n : h[j] \in K /\ h[j] \in 1..m
  BY <1>2
<1>4. /\ \A j \in 1..n : j \in 1..(n + 1) /\ g[j] = h[j]
      /\ n + 1 \in 1..(n + 1) /\ g[n + 1] = m + 1
      /\ \A j \in 1..(n + 1) : j \in 1..n \/ j = n + 1
  BY <1>1
<1>5. g \in [1..(n + 1) -> M]
  BY <1>1, <1>3
<1> HIDE DEF g
<1>6. \A j, k \in 1..(n + 1) : j < k => g[j] < g[k]
  <2> SUFFICES ASSUME NEW j \in 1..(n + 1), NEW k \in 1..(n + 1), j < k PROVE g[j] < g[k]
    OBVIOUS
  <2>1. j \in 1..n
    BY <1>1
  <2>2. CASE k \in 1..n
    BY <1>2, <1>4, <2>1, <2>2
  <2>3. CASE k = n + 1
    BY <1>3, <1>4, <2>1, <2>3
  <2> QED BY <1>4, <2>2, <2>3
<1>7. \A i \in M : \E j \in 1..(n + 1) : g[j] = i
  BY <1>2, <1>4
<1>8. g \in Walks(M)
  <2> HIDE DEF M
  <2> QED BY <1>1, <1>5, <1>6, <1>7 DEF Walks
<1> QED BY <1>8

\* There is a walk through every set of places: none is the least without one.
LEMMA SomeWalk == \A m \in Nat : \A K \in SUBSET (1..m) : Walks(K) # {}
<1> DEFINE B == {m \in Nat : \E K \in SUBSET (1..m) : Walks(K) = {}}
<1>1. B = {}
  <2> SUFFICES ASSUME B # {} PROVE FALSE
    OBVIOUS
  <2>1. PICK m \in B : \A k \in B : m <= k
    <3>1. B \subseteq Nat
      OBVIOUS
    <3> HIDE DEF B
    <3> QED BY <3>1, LeastElement
  <2>2. PICK K \in SUBSET (1..m) : Walks(K) = {}
    BY <2>1
  <2>3. m \in Nat
    OBVIOUS
  <2>4. m # 0
    <3> SUFFICES ASSUME m = 0 PROVE FALSE
      OBVIOUS
    <3>1. K = {} /\ Cardinality({}) = 0
      BY FS_EmptySet
    <3>2. 1..0 = {}
      OBVIOUS
    <3>3. <<>> \in [{} -> K]
      OBVIOUS
    <3>4. <<>> \in Walks(K)
      BY <3>1, <3>2, <3>3 DEF Walks
    <3> QED BY <2>2, <3>4
  <2>5. m - 1 \in Nat /\ (m - 1) + 1 = m /\ ~ (m <= m - 1)
    BY <2>3, <2>4
  <2>6. m - 1 \notin B
    BY <2>1, <2>5
  <2>7. \A J \in SUBSET (1..(m - 1)) : Walks(J) # {}
    BY <2>5, <2>6
  <2>8. CASE m \notin K
    <3>1. K \in SUBSET (1..(m - 1))
      BY <2>3, <2>8
    <3> QED BY <2>2, <2>7, <3>1
  <2>9. CASE m \in K
    <3> DEFINE J == K \ {m}
    <3>1. J \in SUBSET (1..(m - 1)) /\ J \cup {m} = K
      BY <2>3, <2>9
    <3> HIDE DEF J, B
    <3>2. PICK h : h \in Walks(J)
      BY <2>7, <3>1
    <3>3. \E g : g \in Walks(J \cup {(m - 1) + 1})
      BY <2>5, <3>1, <3>2, WalkOn
    <3> QED BY <2>2, <2>5, <3>1, <3>3
  <2> QED BY <2>8, <2>9
<1> QED BY <1>1

\* Whatever the list, what the minute timer leaves is one list.
THEOREM OneListRuns == \A S : \A l \in Seq(S) : \E r : Running(l) = {r}
<1> SUFFICES ASSUME NEW S, NEW l \in Seq(S) PROVE \E r : Running(l) = {r}
  OBVIOUS
<1> DEFINE K == {i \in 1..Len(l) : l[i].lease_timer # 0}
           L(h) == [j \in 1..Cardinality(K) |-> l[h[j]]]
<1>1. Len(l) \in Nat /\ K \in SUBSET (1..Len(l)) /\ K \in SUBSET Nat
  OBVIOUS
<1>2. Running(l) = {L(h) : h \in Walks(K)}
  BY DEF Running, Walks
<1> HIDE DEF K, L
<1>3. IsFiniteSet(K)
  <2>1. IsFiniteSet(1..Len(l))
    BY <1>1, FS_Interval
  <2> QED BY <1>1, <2>1, FS_Subset
<1>4. PICK h : h \in Walks(K)
  BY <1>1, SomeWalk
<1>5. Walks(K) = {h}
  BY <1>1, <1>3, <1>4, OneWalk
<1>6. Running(l) = {L(h)}
  BY <1>2, <1>5
<1> QED BY <1>6
-----------------------------------------------------------------------------
(* The oldest pool *)

\* The pool that is killed is one of the list, and the one that is marked keeps
\* its place.
LEMMA OldestKilled ==
  ASSUME NEW l, List(l), Len(l) > 1
  PROVE  /\ List(kill_oldest(l))
         /\ \A y \in Nodes(kill_oldest(l)) : \E x \in Nodes(l) : x.mac = y.mac /\ x.ip = y.ip
<1> DEFINE Lowest(i) == \A j \in 2..Len(l) : l[i].lease_timer <= l[j].lease_timer
           First(i) == \A j \in 2..i - 1 : l[i].lease_timer < l[j].lease_timer
           v == CHOOSE i \in 2..Len(l) : Lowest(i) /\ First(i)
           last == Len(l)
           n == [l[last] EXCEPT !.state = "OFFLINE"]
           e == [l EXCEPT ![last] = n]
           T == {l[i].lease_timer : i \in 2..Len(l)}
           U == {i \in 2..Len(l) : Lowest(i)}
<1>1. /\ Len(l) \in Nat /\ 2 \in 2..Len(l) /\ last \in 1..Len(l)
      /\ \A i \in 2..Len(l) : i \in 1..Len(l) /\ l[i].lease_timer \in Nat
      /\ l[last] \in Node
  <2>1. Len(l) \in Nat /\ \A i \in 1..Len(l) : l[i] \in Node
    BY NodesOf
  <2>2. \A i \in 1..Len(l) : l[i].lease_timer \in Nat
    BY <2>1, DhcpAssumption DEF Node
  <2> QED BY <2>1, <2>2
<1>2. v \in 2..Len(l)
  <2>1. PICK t \in T : \A s \in T : t <= s
    <3>1. T \subseteq Nat /\ T # {}
      BY <1>1
    <3> QED BY <3>1, LeastElement
  <2>2. PICK i \in 2..Len(l) : t = l[i].lease_timer
    BY <2>1
  <2>3. Lowest(i)
    BY <2>1, <2>2
  <2>4. PICK k \in U : \A j \in U : k <= j
    <3> HIDE DEF Lowest
    <3>1. i \in U /\ \A j \in U : j \in Nat
      BY <1>1, <2>2, <2>3
    <3> HIDE DEF U
    <3>2. U \subseteq Nat /\ U # {}
      BY <3>1
    <3> QED BY <3>2, LeastElement
  <2>5. First(k)
    <3> SUFFICES ASSUME NEW j \in 2..k - 1 PROVE l[k].lease_timer < l[j].lease_timer
      OBVIOUS
    <3>1. j \in 2..Len(l) /\ k \in 2..Len(l) /\ ~ (k <= j)
      BY <1>1, <2>4
    <3>2. Lowest(k) /\ ~Lowest(j)
      BY <2>4, <3>1
    <3>3. PICK m \in 2..Len(l) : ~ (l[j].lease_timer <= l[m].lease_timer)
      BY <3>2
    <3>4. l[k].lease_timer <= l[m].lease_timer
      BY <3>2
    <3> QED BY <1>1, <3>1, <3>3, <3>4
  <2>6. k \in 2..Len(l) /\ Lowest(k) /\ First(k)
    BY <2>4, <2>5
  <2> HIDE DEF Lowest, First
  <2> QED BY <2>6
<1>3. kill_oldest(l) = node_remove_from_list(e, v)
  <2>1. [l EXCEPT ![Len(l)].state = "OFFLINE"] = e
    OBVIOUS
  <2> QED BY <2>1 DEF kill_oldest
<1>4. n \in Node /\ n.mac = l[last].mac /\ n.ip = l[last].ip
  BY <1>1 DEF Node
<1> HIDE DEF v, n
<1>5. Rewrites(e, l, last, n)
  BY <1>1, <1>4 DEF Rewrites
<1>6. \A j \in 1..Len(l) : l[j].mac = n.mac => j = last
  BY <1>1, <1>4 DEF List, MacsOnce
<1>7. List(e) /\ Len(e) = Len(l) /\ \A j \in 1..Len(l) : e[j] = IF j = last THEN n ELSE l[j]
  <2> HIDE DEF e
  <2> QED BY <1>5, <1>6, Rewritten
<1> DEFINE r == node_remove_from_list(e, v)
<1> HIDE DEF e
<1>8. List(r) /\ Nodes(r) = {e[j] : j \in (1..Len(e)) \ {v}}
  <2>1. e \in Seq(Node) /\ Sorted(e) /\ v \in 1..Len(e)
        /\ \A j, k \in 1..Len(e) : j # v /\ k # v /\ e[j].mac = e[k].mac => j = k
    BY <1>1, <1>2, <1>7 DEF List, MacsOnce
  <2> QED BY <2>1, Removed
<1>9. \A j \in 1..Len(l) : l[j] \in Nodes(l) /\ l[j].mac = e[j].mac /\ l[j].ip = e[j].ip
  BY <1>4, <1>7, NodesOf
<1>10. \A y \in Nodes(r) : \E x \in Nodes(l) : x.mac = y.mac /\ x.ip = y.ip
  BY <1>7, <1>8, <1>9
<1> QED BY <1>3, <1>8, <1>10
-----------------------------------------------------------------------------
(* The steps *)

LEMMA EmptyGood ==
  ASSUME NEW R, NEW b, b = [m \in Macs |-> ANY]
  PROVE  Good(<<>>, R, b, FALSE, FALSE)
<1>1. Nodes(<<>>) = {} /\ List(<<>>)
  BY DEF Nodes, List, Sorted, MacsOnce
<1>2. b \in [Macs -> Nat] /\ \A m \in Macs : b[m] = ANY
  BY DEF ANY
<1> QED BY <1>1, <1>2 DEF Good, InRange, Apart, LetGo, Held

\* What becomes of the addresses in use when station m sends a packet.
Answered(b, c, m, u, f, k) ==
  /\ c \in [Macs -> Nat] /\ \A n \in Macs : n # m => c[n] = b[n]
  /\ \/ c[m] \in {ANY, u.ip}
     \/ c[m] = b[m] /\ (~f /\ ~k => u.ip = b[m])

LEMMA UpdateGood ==
  ASSUME NEW l, NEW b, NEW f, NEW k, Good(l, Lease, b, f, k), local \in Locals,
         NEW m \in Macs, NEW ip, NEW u, Effect(l, u, m, ip),
         NEW c, Answered(b, c, m, u, f, k),
         NEW g \in BOOLEAN, ~g => ~f /\ (ip = ANY \/ ip \in Lease)
  PROVE  Good(u.list, Lease, c, g, k)
<1>1. /\ List(l) /\ InRange(l, Lease, b, f) /\ LetGo(l, k) /\ Held(l, b, f, k) /\ k \in BOOLEAN
      /\ c \in [Macs -> Nat] /\ \A n \in Macs : n # m => c[n] = b[n]
  BY DEF Good, Answered
<1>2. /\ List(u.list)
      /\ Apart(l, Lease) /\ (ip = ANY \/ ip \in Lease) =>
           Apart(u.list, Lease) /\ (u.ip # ANY => u.ip \in Lease)
      /\ \A x \in Nodes(u.list) : x \in Nodes(l) \/ x.state = "ONLINE"
      /\ \A x \in Nodes(l) : x.mac # m /\ x.state = "ONLINE" => x \in Nodes(u.list)
      /\ u.ip # ANY =>
           \E x \in Nodes(u.list) : x.mac = m /\ x.ip = u.ip /\ x.state = "ONLINE"
  BY <1>1, EffectKeeps
<1>3. InRange(u.list, Lease, c, g)
  <2> SUFFICES ASSUME ~g
               PROVE  Apart(u.list, Lease) /\ \A n \in Macs : c[n] \in Lease \cup {ANY}
    BY DEF InRange
  <2>1. Apart(l, Lease) /\ (\A n \in Macs : b[n] \in Lease \cup {ANY})
    BY <1>1 DEF InRange
  <2>2. Apart(u.list, Lease) /\ u.ip \in Lease \cup {ANY}
    BY <1>2, <2>1
  <2>3. c[m] \in Lease \cup {ANY}
    BY <2>1, <2>2 DEF Answered
  <2> QED BY <1>1, <2>1, <2>2, <2>3
<1>4. LetGo(u.list, k)
  BY <1>1, <1>2 DEF LetGo
<1>5. Held(u.list, c, g, k)
  <2> SUFFICES ASSUME ~g, ~k, NEW n \in Macs, c[n] # ANY
               PROVE  \E x \in Nodes(u.list) : x.mac = n /\ x.ip = c[n] /\ x.state = "ONLINE"
    BY DEF Held
  <2>1. CASE n = m
    <3>1. c[n] = u.ip
      BY <2>1 DEF Answered
    <3> QED BY <1>2, <2>1, <3>1
  <2>2. CASE n # m
    <3>1. PICK x \in Nodes(l) : x.mac = n /\ x.ip = b[n] /\ x.state = "ONLINE"
      BY <1>1, <2>2 DEF Held
    <3> QED BY <1>1, <1>2, <2>2, <3>1
  <2> QED BY <2>1, <2>2
<1> QED BY <1>1, <1>2, <1>3, <1>4, <1>5 DEF Good

LEMMA LeaveGood ==
  ASSUME NEW l, NEW R, NEW b, NEW f, NEW k, Good(l, R, b, f, k), NEW m \in Macs,
         NEW r, Left(l, r, m), NEW c, c = [b EXCEPT ![m] = ANY]
  PROVE  Good(r, R, c, f, k)
<1>1. /\ List(l) /\ InRange(l, R, b, f) /\ LetGo(l, k) /\ Held(l, b, f, k)
      /\ f \in BOOLEAN /\ k \in BOOLEAN
      /\ c \in [Macs -> Nat] /\ c[m] = ANY /\ \A n \in Macs : n # m => c[n] = b[n]
  BY DEF Good, ANY
<1>2. /\ List(r) /\ \A x \in Nodes(l) : x.mac # m => x \in Nodes(r)
      /\ \A y \in Nodes(r) : y \in Nodes(l) \/ (y.state = "OFFLINE" /\ y.type = "DYNAMIC")
      /\ \A y \in Nodes(r) : \E x \in Nodes(l) : x.mac = y.mac /\ x.ip = y.ip
  BY DEF Left
<1>3. InRange(r, R, c, f)
  BY <1>1, <1>2, ApartKept DEF InRange
<1>4. LetGo(r, k)
  BY <1>1, <1>2 DEF LetGo
<1>5. Held(r, c, f, k)
  <2> SUFFICES ASSUME ~f, ~k, NEW n \in Macs, c[n] # ANY
               PROVE  \E x \in Nodes(r) : x.mac = n /\ x.ip = c[n] /\ x.state = "ONLINE"
    BY DEF Held
  <2>1. n # m
    BY <1>1
  <2>2. PICK x \in Nodes(l) : x.mac = n /\ x.ip = b[n] /\ x.state = "ONLINE"
    BY <1>1, <2>1 DEF Held
  <2> QED BY <1>1, <1>2, <2>1, <2>2
<1> QED BY <1>1, <1>2, <1>3, <1>4, <1>5 DEF Good

LEMMA LeaseStays == ASSUME local' = local PROVE Lease' = Lease
BY DEF Lease, start_ip, Own

\* Packets that only update the list: station m presents ip.
LEMMA PacketStep ==
  ASSUME Pools, NEW m \in Macs, NEW ip \in Nat,
         plist' = client_update(plist, m, ip).list,
         Answered(bound, bound', m, client_update(plist, m, ip), foreign, killed),
         foreign' \in BOOLEAN, ~foreign' => ~foreign /\ (ip = ANY \/ ip \in Lease),
         local' = local, killed' = killed, want' \in [Macs -> Nat]
  PROVE  Pools'
<1>1. local \in Locals /\ List(plist) /\ Good(plist, Lease, bound, foreign, killed)
  BY DEF Pools, Good
<1>2. Effect(plist, client_update(plist, m, ip), m, ip)
  BY <1>1, UpdateEffect
<1>3. Good(plist', Lease, bound', foreign', killed)
  BY <1>1, <1>2, UpdateGood
<1> QED BY <1>1, <1>3, LeaseStays DEF Pools

LEMMA UsesIn ==
  ASSUME IInv, NEW m \in Macs
  PROVE  /\ Uses(m) \in Nat
         /\ ~foreign => Uses(m) = ANY \/ Uses(m) \in Lease
         /\ late[m] # ANY => bound[m] = ANY
         /\ Uses(m) = ANY <=> bound[m] = ANY /\ late[m] = ANY
<1>1. /\ bound \in [Macs -> Nat] /\ late \in [Macs -> Nat]
      /\ ~foreign => bound[m] \in Lease \cup {ANY}
      /\ late[m] # ANY => bound[m] = ANY /\ (~foreign => late[m] \in Lease)
  BY DEF IInv, Pools, LateIn, Good, InRange
<1> QED BY <1>1 DEF Uses

LEMMA RenewIp ==
  ASSUME Pools, NEW m \in Macs, bound[m] # ANY, ~foreign, ~killed
  PROVE  client_update(plist, m, bound[m]).renew /\ client_update(plist, m, bound[m]).ip = bound[m]
<1>1. List(plist) /\ Apart(plist, Lease) /\ bound[m] \in Nat \ {0}
  BY DEF Pools, Good, InRange, ANY
<1>2. PICK x \in Nodes(plist) : x.mac = m /\ x.ip = bound[m]
  BY DEF Pools, Good, Held
<1> QED BY <1>1, <1>2, Renewed DEF client_update, ANY

LEMMA MinuteStep == ASSUME Pools, dhcps_coarse_tmr PROVE Pools'
<1> DEFINE a == Aged(plist)
           over == {a[i].mac : i \in {j \in 1..Len(a) : a[j].lease_timer = 0}}
<1>1. PICK left \in Running(a) :
        /\ plist' = IF Len(left) >= MAX_STATION_NUM THEN kill_oldest(left) ELSE left
        /\ killed' = (killed \/ Len(left) >= MAX_STATION_NUM)
        /\ bound' = [m \in Macs |-> IF m \in over THEN ANY ELSE bound[m]]
  BY DEF dhcps_coarse_tmr
<1>2. local' = local /\ want' = want /\ foreign' = foreign
  BY DEF dhcps_coarse_tmr
<1>3. /\ local \in Locals /\ want \in [Macs -> Nat] /\ List(plist) /\ bound \in [Macs -> Nat]
      /\ foreign \in BOOLEAN /\ killed \in BOOLEAN
      /\ InRange(plist, Lease, bound, foreign) /\ LetGo(plist, killed)
      /\ Held(plist, bound, foreign, killed)
  BY DEF Pools, Good
<1>4. /\ List(left)
      /\ \A y \in Nodes(left) : \E x \in Nodes(plist) : Same(y, x)
      /\ \A i \in 1..Len(plist) : a[i].lease_timer # 0 => \E y \in Nodes(left) : Same(y, plist[i])
  BY <1>3, RunningOf
<1>5. /\ List(plist')
      /\ \A y \in Nodes(plist') : \E x \in Nodes(plist) : x.mac = y.mac /\ x.ip = y.ip
  <2>1. CASE Len(left) >= MAX_STATION_NUM
    <3>1. Len(left) > 1
      BY <1>4, <2>1, DhcpAssumption, NodesOf
    <3>2. /\ List(plist')
          /\ \A y \in Nodes(plist') : \E x \in Nodes(left) : x.mac = y.mac /\ x.ip = y.ip
      BY <1>1, <1>4, <2>1, <3>1, OldestKilled
    <3> QED BY <1>4, <3>2 DEF Same
  <2>2. CASE ~ (Len(left) >= MAX_STATION_NUM)
    BY <1>1, <1>4, <2>2 DEF Same
  <2> QED BY <2>1, <2>2
<1>6. bound' \in [Macs -> Nat] /\ killed' \in BOOLEAN
      /\ \A m \in Macs : bound'[m] = IF m \in over THEN ANY ELSE bound[m]
  <2> HIDE DEF over
  <2> QED BY <1>1, <1>3 DEF ANY
<1>7. InRange(plist', Lease, bound', foreign')
  <2> SUFFICES ASSUME ~foreign
               PROVE  Apart(plist', Lease) /\ \A m \in Macs : bound'[m] \in Lease \cup {ANY}
    BY <1>2 DEF InRange
  <2>1. Apart(plist, Lease) /\ \A m \in Macs : bound[m] \in Lease \cup {ANY}
    BY <1>3 DEF InRange
  <2>2. Apart(plist', Lease)
    BY <1>5, <2>1, ApartKept
  <2> QED BY <1>6, <2>1, <2>2
<1>8. ~killed' => ~killed /\ plist' = left
  BY <1>1
<1>9. LetGo(plist', killed')
  BY <1>3, <1>4, <1>8 DEF LetGo, Same
<1>10. Held(plist', bound', foreign', killed')
  <2> SUFFICES ASSUME ~foreign, ~killed', NEW m \in Macs, bound'[m] # ANY
               PROVE  \E x \in Nodes(left) : x.mac = m /\ x.ip = bound'[m] /\ x.state = "ONLINE"
    BY <1>2, <1>8 DEF Held
  <2>1. m \notin over /\ bound'[m] = bound[m]
    BY <1>6
  <2>2. PICK x \in Nodes(plist) : x.mac = m /\ x.ip = bound[m] /\ x.state = "ONLINE"
    BY <1>3, <1>8, <2>1 DEF Held
  <2>3. PICK i \in 1..Len(plist) : x = plist[i]
    BY DEF Nodes
  <2>4. Len(a) = Len(plist)
    <3>1. Len(plist) \in Nat
      BY <1>3, NodesOf
    <3>2. a \in [1..Len(plist) -> {a[j] : j \in 1..Len(plist)}] /\ DOMAIN a = 1..Len(plist)
      BY DEF Aged
    <3>3. a \in Seq({a[j] : j \in 1..Len(plist)})
      BY <3>1, <3>2
    <3> QED BY <3>1, <3>2, <3>3
  <2>5. a[i].mac = m
    BY <1>3, <2>2, <2>3, AgedAt DEF Same
  <2>6. a[i].lease_timer # 0
    BY <2>1, <2>4, <2>5
  <2>7. PICK y \in Nodes(left) : Same(y, plist[i])
    BY <1>4, <2>6
  <2> QED BY <2>1, <2>2, <2>3, <2>7 DEF Same
<1> QED BY <1>2, <1>3, <1>5, <1>6, <1>7, <1>9, <1>10, LeaseStays DEF Pools, Good

LEMMA ReleaseStep == ASSUME IInv, NEW m \in Macs, Release(m) PROVE Pools'
<1> DEFINE u == client_update(plist, m, Uses(m))
           c == [bound EXCEPT ![m] = ANY]
<1>1. /\ plist' = client_leave(u.list, m, Uses(m), TRUE) /\ bound' = c
      /\ UNCHANGED <<local, want, foreign, killed>> /\ Uses(m) # ANY
  BY DEF Release, Unbound
<1>2. /\ local \in Locals /\ want \in [Macs -> Nat] /\ List(plist) /\ bound \in [Macs -> Nat]
      /\ foreign \in BOOLEAN /\ Good(plist, Lease, bound, foreign, killed)
  BY DEF IInv, Pools, Good
<1>6. Uses(m) \in Nat /\ (~foreign => ~foreign /\ (Uses(m) = ANY \/ Uses(m) \in Lease))
  BY UsesIn
<1>3. Effect(plist, u, m, Uses(m))
  BY <1>2, <1>6, UpdateEffect
<1> HIDE DEF u
<1>4. c \in [Macs -> Nat] /\ c[m] = ANY /\ \A n \in Macs : n # m => c[n] = bound[n]
  BY <1>2 DEF ANY
<1> HIDE DEF c
<1>5. Answered(bound, c, m, u, foreign, killed)
  BY <1>4 DEF Answered
<1>7. Good(u.list, Lease, c, foreign, killed)
  BY <1>2, <1>3, <1>5, <1>6, UpdateGood
<1>8. List(u.list)
  BY <1>7 DEF Good
<1>9. Left(u.list, plist', m)
  BY <1>1, <1>8, ClientLeft
<1>10. bound' = [c EXCEPT ![m] = ANY]
  BY <1>1, <1>4
<1>11. Good(plist', Lease, bound', foreign, killed)
  BY <1>7, <1>9, <1>10, LeaveGood
<1> QED BY <1>1, <1>2, <1>11, LeaseStays DEF Pools

LEMMA LeaveStep == ASSUME Pools, NEW m \in Macs, Leave(m) PROVE Pools'
<1> DEFINE i == MacNode(plist, m)
<1>1. /\ plist' = IF i = 0 THEN plist ELSE client_leave(plist, m, plist[i].ip, FALSE)
      /\ bound' = [bound EXCEPT ![m] = ANY]
      /\ UNCHANGED <<local, want, foreign, killed>>
  BY DEF Leave, Unbound
<1>2. /\ local \in Locals /\ want \in [Macs -> Nat] /\ List(plist)
      /\ Good(plist, Lease, bound, foreign, killed)
  BY DEF Pools, Good
<1>3. Left(plist, plist', m)
  <2>1. CASE i = 0
    BY <1>1, <1>2, <2>1 DEF Left
  <2>2. CASE i # 0
    <3>1. plist' = client_leave(plist, m, plist[i].ip, FALSE)
      BY <1>1, <2>2
    <3> HIDE DEF i
    <3> QED BY <1>2, <3>1, ClientLeft
  <2> QED BY <2>1, <2>2
<1>4. Good(plist', Lease, bound', foreign, killed)
  BY <1>1, <1>2, <1>3, LeaveGood
<1> QED BY <1>1, <1>2, <1>4, LeaseStays DEF Pools

\* A station that stops using its address.
LEMMA EndStep == ASSUME Pools, NEW m \in Macs, LeaseEnds(m) PROVE Pools'
<1>1. /\ bound' = [bound EXCEPT ![m] = ANY]
      /\ UNCHANGED <<local, plist, want, foreign, killed>>
  BY DEF LeaseEnds, Unbound
<1>2. /\ local \in Locals /\ want \in [Macs -> Nat] /\ List(plist)
      /\ Good(plist, Lease, bound, foreign, killed)
  BY DEF Pools, Good
<1>3. Left(plist, plist', m)
  BY <1>1, <1>2 DEF Left
<1>4. Good(plist', Lease, bound', foreign, killed)
  BY <1>1, <1>2, <1>3, LeaveGood
<1> QED BY <1>1, <1>2, <1>4, LeaseStays DEF Pools

\* A station is late only with an address it had a lease for, and has none then.
LEMMA LateStep == ASSUME IInv, [Next]_vars PROVE LateIn'
<1>1. /\ bound \in [Macs -> Nat] /\ late \in [Macs -> Nat]
      /\ \A m \in Macs : ~foreign => bound[m] \in Lease \cup {ANY}
      /\ \A m \in Macs : late[m] # ANY => bound[m] = ANY /\ (~foreign => late[m] \in Lease)
      /\ ANY \in Nat
  BY DEF IInv, Pools, LateIn, Good, InRange, ANY
<1>2. ASSUME NEW m \in Macs, local' = local, ~foreign' => ~foreign,
             \A n \in Macs : n # m => bound'[n] = bound[n] /\ late'[n] = late[n],
             late' \in [Macs -> Nat], late'[m] = ANY \/ UNCHANGED <<bound, late>>
      PROVE  LateIn'
  <2>1. Lease' = Lease
    BY <1>2, LeaseStays
  <2> SUFFICES ASSUME NEW n \in Macs, late'[n] # ANY
               PROVE  bound'[n] = ANY /\ (~foreign' => late'[n] \in Lease)
    BY <1>2, <2>1 DEF LateIn
  <2>2. bound'[n] = bound[n] /\ late'[n] = late[n]
    BY <1>2
  <2> QED BY <1>1, <1>2, <2>2
<1>3. CASE UNCHANGED vars
  <2>1. Lease' = Lease
    BY <1>3, LeaseStays DEF vars
  <2> QED BY <1>1, <1>3, <2>1 DEF LateIn, vars
<1>4. CASE dhcps_coarse_tmr
  <2>1. PICK over : /\ bound' = [m \in Macs |-> IF m \in over THEN ANY ELSE bound[m]]
                    /\ late' = [m \in Macs |-> IF m \in over THEN bound[m] ELSE ANY]
                    /\ local' = local /\ foreign' = foreign
    BY <1>4, Zenon DEF dhcps_coarse_tmr
  <2>2. Lease' = Lease
    BY <2>1, LeaseStays
  <2> QED BY <1>1, <2>1, <2>2 DEF LateIn
<1>5. CASE Restart
  BY <1>1, <1>5 DEF Restart, LateIn
<1>6. ASSUME NEW m \in Macs, Discover(m) PROVE LateIn'
  BY <1>1, <1>2, <1>6 DEF Discover
<1>7. ASSUME NEW m \in Macs, Request(m) PROVE LateIn'
  <2>1. late[m] = ANY
    BY <1>7, UsesIn DEF Request
  <2>2. /\ UNCHANGED <<local, late, foreign>>
        /\ \A n \in Macs : n # m => bound'[n] = bound[n]
    BY <1>1, <1>7 DEF Request
  <2> QED BY <1>1, <1>2, <2>1, <2>2
<1>8. ASSUME NEW m \in Macs, UNCHANGED <<local, foreign>>, Unbound(m) PROVE LateIn'
  <2>1. /\ \A n \in Macs : n # m => bound'[n] = bound[n] /\ late'[n] = late[n]
        /\ late' \in [Macs -> Nat] /\ late'[m] = ANY
    BY <1>1, <1>8 DEF Unbound
  <2> QED BY <1>2, <1>8, <2>1
<1>9. ASSUME NEW m \in Macs, Renew(m) PROVE LateIn'
  <2>1. UNCHANGED <<local, foreign>>
    BY <1>9 DEF Renew
  <2>2. CASE UNCHANGED <<bound, late>>
    BY <1>1, <1>2, <2>1, <2>2
  <2>3. CASE bound' = [bound EXCEPT ![m] = Uses(m)] /\ late' = [late EXCEPT ![m] = ANY]
    <3>1. /\ \A n \in Macs : n # m => bound'[n] = bound[n] /\ late'[n] = late[n]
          /\ late' \in [Macs -> Nat] /\ late'[m] = ANY
      BY <1>1, <2>3
    <3> QED BY <1>2, <2>1, <3>1
  <2>4. CASE Unbound(m)
    BY <1>8, <2>1, <2>4
  <2> QED BY <1>9, <2>2, <2>3, <2>4 DEF Renew
<1>10. ASSUME NEW m \in Macs, NEW ip \in Presented, Inform(m, ip) PROVE LateIn'
  <2>1. late[m] = ANY
    BY <1>10, UsesIn DEF Inform
  <2>2. /\ UNCHANGED <<local, late>> /\ (~foreign' => ~foreign)
        /\ \A n \in Macs : n # m => bound'[n] = bound[n]
    BY <1>1, <1>10 DEF Inform
  <2> QED BY <1>1, <1>2, <2>1, <2>2
<1>11. ASSUME NEW m \in Macs, Decline(m) \/ Release(m) \/ Leave(m) \/ LeaseEnds(m)
       PROVE  LateIn'
  BY <1>8, <1>11 DEF Decline, Release, Leave, LeaseEnds
<1> QED BY <1>3, <1>4, <1>5, <1>6, <1>7, <1>9, <1>10, <1>11 DEF Next

LEMMA PoolsStep == ASSUME IInv, [Next]_vars PROVE Pools'
<1>0. /\ local \in Locals /\ want \in [Macs -> Nat] /\ List(plist) /\ bound \in [Macs -> Nat]
      /\ foreign \in BOOLEAN /\ killed \in BOOLEAN
      /\ Good(plist, Lease, bound, foreign, killed) /\ InRange(plist, Lease, bound, foreign)
  BY DEF IInv, Pools, Good
<1>1. ASSUME NEW m \in Macs, NEW ip \in Nat
      PROVE  client_update(plist, m, ip).ip \in Nat
  <2>1. Effect(plist, client_update(plist, m, ip), m, ip)
    BY <1>0, UpdateEffect
  <2> QED BY <1>0, <2>1, EffectKeeps
<1>2. ANY \in Nat
  BY DEF ANY
<1>3. CASE UNCHANGED vars
  BY <1>0, <1>3, LeaseStays DEF Pools, vars
<1>4. CASE dhcps_coarse_tmr
  BY <1>4, MinuteStep DEF IInv
<1>5. CASE Restart
  <2>1. plist' = <<>> /\ bound' = [m \in Macs |-> ANY] /\ ~foreign' /\ ~killed'
        /\ foreign' = FALSE /\ killed' = FALSE /\ local' = local /\ want' = want
    BY <1>5 DEF Restart
  <2>2. Good(plist', Lease, bound', foreign', killed')
    BY <2>1, EmptyGood
  <2> QED BY <1>0, <2>1, <2>2, LeaseStays DEF Pools
<1>6. ASSUME NEW m \in Macs, Discover(m) PROVE Pools'
  <2> DEFINE u == client_update(plist, m, ANY)
  <2>1. /\ plist' = u.list /\ want' \in {want, [want EXCEPT ![m] = u.ip]}
        /\ UNCHANGED <<local, bound, foreign, killed>> /\ bound[m] = ANY
    BY <1>6, UsesIn DEF Discover
  <2>2. want' \in [Macs -> Nat]
    BY <1>0, <1>1, <1>2, <2>1
  <2>3. Answered(bound, bound', m, u, foreign, killed)
    BY <1>0, <2>1 DEF Answered
  <2> QED BY <1>0, <1>2, <2>1, <2>2, <2>3, PacketStep DEF IInv
<1>7. ASSUME NEW m \in Macs, Request(m) PROVE Pools'
  <2> DEFINE u == client_update(plist, m, ANY)
  <2>1. /\ plist' = u.list /\ UNCHANGED <<local, foreign, killed>> /\ bound[m] = ANY
        /\ \/ UNCHANGED <<bound, want>>
           \/ u.ip = want[m] /\ bound' = [bound EXCEPT ![m] = want[m]] /\ UNCHANGED want
           \/ want' = [want EXCEPT ![m] = ANY] /\ UNCHANGED bound
    BY <1>7, UsesIn DEF Request
  <2>2. want' \in [Macs -> Nat]
    BY <1>0, <1>2, <2>1
  <2>3. Answered(bound, bound', m, u, foreign, killed)
    BY <1>0, <2>1 DEF Answered
  <2> QED BY <1>0, <1>2, <2>1, <2>2, <2>3, PacketStep DEF IInv
<1>8. ASSUME NEW m \in Macs, Renew(m) PROVE Pools'
  <2> DEFINE u == client_update(plist, m, Uses(m))
  <2>1. /\ plist' = u.list /\ UNCHANGED <<local, foreign, killed>> /\ Uses(m) # ANY
        /\ \/ UNCHANGED <<bound, want>> /\ ~u.renew
           \/ bound' = [bound EXCEPT ![m] = Uses(m)] /\ UNCHANGED want /\ u.renew
           \/ bound' = [bound EXCEPT ![m] = ANY] /\ want' = [want EXCEPT ![m] = ANY]
    BY <1>8 DEF Renew, Unbound
  <2>2. want' \in [Macs -> Nat]
    BY <1>0, <1>2, <2>1
  <2>3. bound[m] # ANY /\ ~foreign /\ ~killed => u.ip = bound[m]
    <3> SUFFICES ASSUME bound[m] # ANY, ~foreign, ~killed PROVE u.ip = bound[m]
      OBVIOUS
    <3>1. Uses(m) = bound[m]
      BY UsesIn DEF Uses
    <3> QED BY <3>1, RenewIp DEF IInv
  <2>4. Uses(m) \in Nat /\ (~foreign => Uses(m) = ANY \/ Uses(m) \in Lease)
    BY UsesIn
  <2>6. u.renew => u.ip = Uses(m)
    BY <2>1 DEF client_update, WithAddress
  <2> HIDE DEF u
  <2>7. bound' \in [Macs -> Nat] /\ \A n \in Macs : n # m => bound'[n] = bound[n]
    BY <1>0, <1>2, <2>1, <2>4
  <2>8. bound'[m] \in {ANY, u.ip} \/ (bound'[m] = bound[m] /\ (~foreign /\ ~killed => u.ip = bound[m]))
    BY <1>0, <2>1, <2>3, <2>6
  <2>5. Answered(bound, bound', m, u, foreign, killed)
    BY <2>7, <2>8 DEF Answered
  <2> QED BY <1>0, <2>1, <2>2, <2>4, <2>5, PacketStep DEF u, IInv
<1>9. ASSUME NEW m \in Macs, Decline(m) PROVE Pools'
  <2> DEFINE u == client_update(plist, m, ANY)
  <2>1. /\ plist' = u.list /\ UNCHANGED <<local, foreign, killed>>
        /\ bound' = [bound EXCEPT ![m] = ANY] /\ want' = [want EXCEPT ![m] = ANY]
    BY <1>9 DEF Decline, Unbound
  <2>2. want' \in [Macs -> Nat]
    BY <1>0, <1>2, <2>1
  <2>3. Answered(bound, bound', m, u, foreign, killed)
    BY <1>0, <1>2, <2>1 DEF Answered
  <2> QED BY <1>0, <1>2, <2>1, <2>2, <2>3, PacketStep DEF IInv
<1>10. ASSUME NEW m \in Macs, NEW ip \in Presented, Inform(m, ip) PROVE Pools'
  <2> DEFINE u == client_update(plist, m, ip)
  <2>1. /\ plist' = u.list /\ UNCHANGED <<local, want, killed>>
        /\ bound' = [bound EXCEPT ![m] = u.ip] /\ foreign' = (foreign \/ ip \notin Lease)
    BY <1>10 DEF Inform
  <2>2. ip \in Nat /\ u.ip \in Nat
    BY <1>1, DhcpAssumption
  <2>3. Answered(bound, bound', m, u, foreign, killed)
    BY <1>0, <2>1, <2>2 DEF Answered
  <2>4. foreign' \in BOOLEAN /\ (~foreign' => ~foreign /\ (ip = ANY \/ ip \in Lease))
    BY <2>1
  <2> QED BY <1>0, <2>1, <2>2, <2>3, <2>4, PacketStep DEF IInv
<1>11. ASSUME NEW m \in Macs, Release(m) \/ Leave(m) \/ LeaseEnds(m) PROVE Pools'
  BY <1>11, ReleaseStep, LeaveStep, EndStep DEF IInv
<1> QED BY <1>3, <1>4, <1>5, <1>6, <1>7, <1>8, <1>9, <1>10, <1>11 DEF Next

LEMMA Inductive == IInv /\ [Next]_vars => IInv'
BY PoolsStep, LateStep DEF IInv

LEMMA Initially == Init => IInv
<1> SUFFICES ASSUME Init PROVE IInv
  OBVIOUS
<1>1. Good(plist, Lease, bound, foreign, killed)
  BY EmptyGood DEF Init
<1> QED BY <1>1 DEF Init, IInv, Pools, LateIn, ANY

\* Whatever the order in which pools are taken over, moved, let go and killed,
\* the list is sorted and holds a station once; and no address is given twice
\* or out of the range as long as no station presents one (dhcpserver.c:1073,
\* 1112 and 1149).
THEOREM PoolsStayApart == Spec => []PoolsInv
<1>1. IInv => PoolsInv
  <2> SUFFICES ASSUME IInv PROVE PoolsInv
    OBVIOUS
  <2>0. /\ local \in Locals /\ want \in [Macs -> Nat] /\ List(plist) /\ bound \in [Macs -> Nat]
        /\ foreign \in BOOLEAN /\ killed \in BOOLEAN /\ InRange(plist, Lease, bound, foreign)
        /\ late \in [Macs -> Nat]
    BY DEF IInv, Pools, LateIn, Good
  <2>1. TypeOK
    <3>1. Len(plist) \in Nat
      BY <2>0, NodesOf
    <3>2. \A i, j \in 1..Len(plist) : i < j => /\ plist[i].mac # plist[j].mac
                                               /\ plist[i].ip <= plist[j].ip
      BY <2>0, <3>1 DEF List, MacsOnce, Sorted
    <3> QED BY <2>0, <3>2 DEF TypeOK, List, Node
  <2>2. PoolsAreApart
    <3> SUFFICES ASSUME ~foreign, NEW i \in 1..Len(plist), NEW j \in 1..Len(plist)
                 PROVE  /\ plist[i].ip \in Lease /\ plist[i].ip # Own(local)
                        /\ plist[i].ip = plist[j].ip => i = j
      BY DEF PoolsAreApart
    <3>1. plist[i] \in Nodes(plist) /\ plist[j] \in Nodes(plist) /\ Apart(plist, Lease)
      BY <2>0, NodesOf DEF InRange
    <3>2. plist[i].ip \in Lease /\ plist[i].ip # Own(local)
      BY <2>0, <3>1, LeaseRange DEF Apart
    <3>3. plist[i].ip = plist[j].ip => plist[i].mac = plist[j].mac
      BY <3>1 DEF Apart
    <3> QED BY <2>0, <3>2, <3>3 DEF List, MacsOnce
  <2> QED BY <2>1, <2>2 DEF PoolsInv
<1> QED BY <1>1, Initially, Inductive, PTL DEF Spec

\* If two stations use the same address, one of them still counts a lease that ran
\* out at the last tick, unless a pool was killed under its station or an address
\* out of the range hid one (dhcpserver.c:883 and 1073).
THEOREM OneUserEach == Spec => []NoDoubleLease
<1>1. IInv => NoDoubleLease
  <2> SUFFICES ASSUME IInv, ~foreign, ~killed, NEW m \in Macs, NEW n \in Macs,
                      Uses(m) # ANY, Uses(m) = Uses(n), late[m] = ANY, late[n] = ANY
               PROVE  m = n
    BY DEF NoDoubleLease
  <2>4. bound[m] # ANY /\ bound[m] = bound[n]
    BY DEF Uses
  <2>1. Apart(plist, Lease) /\ Held(plist, bound, foreign, killed)
    BY DEF IInv, Pools, Good, InRange
  <2>2. PICK x \in Nodes(plist) : x.mac = m /\ x.ip = bound[m]
    BY <2>1, <2>4 DEF Held
  <2>3. PICK y \in Nodes(plist) : y.mac = n /\ y.ip = bound[n]
    BY <2>1, <2>4 DEF Held
  <2> QED BY <2>1, <2>2, <2>3, <2>4 DEF Apart
<1> QED BY <1>1, Initially, Inductive, PTL DEF Spec

\* The pool of a station that left is a dynamic one, whose time runs out
\* (dhcpserver.c:917 and 1013), unless kill_oldest marked it.
THEOREM LeftPoolsRunOut == Spec => []OfflineRunsOut
<1>1. IInv => OfflineRunsOut
  BY NodesOf DEF IInv, Pools, Good, LetGo, OfflineRunsOut
<1> QED BY <1>1, Initially, Inductive, PTL DEF Spec
=============================================================================
