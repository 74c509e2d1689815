# Remote_Light: a TLA+ model of the cloud light

Remote_Light is a light that is switched from a WeChat mini-program through the
OneNET cloud. The repository holds the ESP8266 firmware
(`src/Source/ESP8266/app`), the part of the vendor's TCP library it is built on
(`src/Source/ESP8266/examples/lwip_open_src_template_proj/lwip/app`, "espconn",
with the DHCP server of the access point), and the mini-program with its server
(`src/Source/WeAPP`). This directory models both ends: how the device gets its
network, keeps its link to the cloud and turns a stream of bytes into a light
that is on or off; and how the mini-program adds, shows, deletes and switches a
device, with the chat room its server carries.

## 1. Inventory

Paths without a directory are under `src/Source/ESP8266/app/user/`; "espconn" is
`espconn.c` and `espconn_tcp.c` of the lwIP template project, `dhcpserver.c` is
beside them.

| component | state it keeps | operations | talks to | correct if | modelled |
|---|---|---|---|---|---|
| **OneNET link** (`OneNet.c`, `user_main.c`, `WIFI.c`, espconn) | `TCP_timer`, `recon_timer`, `T_OneNet_HeartTime`, `Cli_stat`, `WIFI_connect_Flag`; espconn's node in `plink_active`, its posted signal, its list of unacknowledged buffers | boot timer, connect, connect callback (login, heartbeat timer), heartbeat, error and close callbacks, `espconn_Task` | the cloud; the page server (same link limit); the receive path | the login comes first, one owner of the link, an attempt ends, the states in which nobody retries are known | yes |
| **EDP packets** (`EdpKit.c`) | `EdpPacket` with `_data`, `_write_pos`, `_read_pos` | read and write 1, 2, 4 bytes and strings; the length field; `PacketConnect1`, `PacketPing`, `PacketCmdResp`; `IsPkgComplete`, `GetEdpPacket`, `UnpackCmdReq` | receive path | what is written is read back, a packet ends where its length field says | yes |
| **EDP receive path** (`OneNet.c`, `EdpKit.c`) | `recv_buf`, the light's pins, the heap | receive callback, `OneNet_Tcp_RecvData_Analy`, `OneNet_Deal_CMDREQ`, `OneNet_GPIO_Control` | espconn (segments in, responses out), pins | never parses from the middle of a packet, obeys in order, loses a packet only with its segment or its link | yes |
| **OneNET client** | both of the above | their composition | one espconn for login, heartbeat and responses | responses match commands, no late response | yes |
| **Wi-Fi set-up** (`TCP_server.c`, `WIFI.c`, `IO.c`) | `s_WIFI_Info`, `get_WIFI_Set_Flag`, the configuration in flash, GPIO 12 | a request of the page, the five-second poll, restart | the user, the station, the OneNET link (`WIFI_connect_Flag`, `Init_led`) | the name typed is the name used, the light tells the truth | yes |
| **Configuration page server** (`TCP_server.c`, espconn) | accepted connections, their buffers, the listener's `espconn` the replies go to | listen, accept, receive, reply, acknowledgement, both ends of a connection, `espconn_Task` | Wi-Fi set-up, link limit | a reply reaches who asked, slots come back | yes |
| **DHCP server** (`dhcpserver.c`) | `plist` (one pool per MAC), the addresses phones use | DISCOVER, REQUEST, INFORM, DECLINE, RELEASE, leaving, minute timer, stop and start | phones on the access point | no address is used twice, pools run out | partly |
| **Light and pins** (`IO.c`) | GPIO 5, 2, 4; GPIO 12 | `Init_led`, on, off | receive path, poll | see the modules that use it | partly |
| **UART driver** (`app/driver/uart.c`) | ring of received bytes | interrupt, `RcvData` | station TCP server | | no: `UART_BUFF_EN` is 0 |
| **Station TCP server and client** (`TCP_server.c`, `TCP_client.c`) | | | | | no: `TCP_SERVER`, `TCP_CLINE` are 0 |
| **Device registry** (`WeAPP/server/controllers/demo.js`, `client/pages/{adddev,mydev,index}`) | table `UserDev`; page globals | select, insert, delete; the pages' requests and what their answers do; the switch request to OneNET | database, OneNET REST interface | one row per device, a page shows and switches the device it says it does | yes |
| **Chat tunnel** (`WeAPP/server/controllers/tunnel.js`) | `userMap`, `connectedTunnelIds` | get, connect, message, close, broadcast and its late answer | wafer tunnel service | who is in the room is known, who is gone is not in it | yes |
| tunnel client library, login, upload, message endpoints | none of the program's own | | wafer SDK | | no |
| cJSON, SDK, lwIP, hardware, documents | | | | third-party, external or not code | no |

### How the parts interact

All firmware code runs in one non-preemptive event task: timers, espconn
callbacks and `espconn_Task` each run to completion, so a handler is one
action. What interleaves is *between* handlers:

* between lwIP reporting an error and `espconn_Task` removing the node and
  calling the application (the node still takes messages);
* between `espconn_send` and the acknowledgement: a second message is refused
  (`ESPCONN_MAXNUM`), and no caller looks at the result;
* while a timer is armed: the heartbeat timer is never disarmed and outlives
  the link it was started for;
* between two segments: `recv_buf` may hold part of a packet or several;
* between a form, the requests that follow it and the poll that uses it;
* between a browser's request and the accept or the end of another's
  connection: the listener's `espconn` is shared by all of them;
* anywhere: power loss, `system_restart`, or the fatal exceptions the code
  itself runs into, which restart the device.

On the mini-program's side every request is asked, executed and answered in
three steps that may be late, overtake one another or never come; the pages'
globals, the table and the lists of the chat room change in between.

### What is hard here

`PROJECT.json` lists the hazards at their lines. In short: who retries the link
after which kind of loss; a heartbeat of an old link overtaking the login of a
new one; refusals nobody notices; one packet per callback against TCP's freedom
to cut and join; a buffer and a heap without a capacity test; a
segment acknowledged before there is memory for it; the previous
session's characters in an array and lengths nobody checks; a status that is copied only sometimes; a
form that is overwritten before it is used; replies addressed through a shared
structure; a slot whose FIN found no memory; pools taken over, killed and hidden,
and leases counted in two places. On the mini-program's side:
requests answered out of order, a check and the act it allows as two requests,
a switch that moves before its command is
asked for, page globals read when the answer arrives, errors answered as successes, packets
about one tunnel overtaking one another.

## 2. Modules

| module | models | state | one action per |
|---|---|---|---|
| `LinkLifecycle` | what the link promises: waiting, trying, online, stranded; the login first | `phase`, `heard` | change of phase |
| `OneNetLink` | the link in detail, with espconn | timers, node, posted signal, the one buffer, flags | timer, callback, espconn event |
| `CommandChannel` | what the path from cloud to light promises: a queue handled in order | `state`, `queue`, `light` | open, write, handle; packets dropped, the link torn, garbled, closed; restart |
| `EdpStream` | the receive path; packets are offsets in the stream | `stream`, `rcvd`, `from`, `taken`, `torn`, `light`, `heap`, `fault` | segment outcome (dropped ones included), link change |
| `EdpCodec` | the same path on bytes: the packets of `EdpKit.c` | `sent`, `wire`, `recv_buf`, `light`, `out` | segment, packet built |
| `OneNetClient` | `OneNetLink` and `EdpStream` as the firmware runs them | both, and which command is answered | handler; shared handlers are joint steps |
| `Provision` | the form, the poll, flash, the status light | two adjacent arrays, flags, flash, pins | kind of request, poll |
| `SoftApServer` | the sockets of the configuration page | `remote`, nodes, task queue, buffers, requests | accept, callback, acknowledgement, each way to end, poll, task |
| `DhcpServer` | the address pools of the access point | `plist`, what each station uses and remembers | kind of packet, leaving, minute, end of a lease at the station, restart |
| `DeviceRegistry` | table, server and the three pages | rows, requests in flight, page globals, the switch | tap, execution, answer |
| `ChatTunnel` | the chat room and the tunnel service around it | the two lists, posts, pushes, answers, closes | post, push, answer, loss, restart |
| `EdpStreamProof`, `EdpCodecProof`, `OneNetClientProof` (with those of `OneNetLink`), `ProvisionProof`, `SoftApServerProof`, `DeviceRegistryProof`, `ChatTunnelProof`, `DhcpServerProof` | theorems about the module they are named after | | |

`MC*` modules give the constants values for TLC. Operators named `X_Y` in front
of `X` are variations of `X` that a plausible mistake would produce; no
specification uses them. They document which mistake each property excludes.

### Correspondence

`PROJECT.json` maps every definition to its lines. The points where the
correspondence is not name for name:

**OneNetLink.** `node` is this link's `espconn_msg` in `plink_active`: "syn"
until `espconn_client_connect`, "open" after it, "lost" for a node kept although
`tcp_connect` failed with an error other than memory or route (nothing will ever
call back for it). `sig` is the event posted to `espconn_Task`. `pbuf` is the
list of unacknowledged `espconn_buf`: the limit of one makes it a message and a
place. `heard` is what the cloud saw first; "GARBLED" stands for a message whose
buffer was freed (login, response) before lwIP sent it again. Link slots taken
by the configuration page are a number, `apLinks`.

**EdpStream.** A packet is a kind and two offsets in the stream of its
connection. `recv_buf` is `from..rcvd`. `heap` counts the blocks that stay
behind: the buffers of earlier links, the fields of commands, the copies of
segments. A packet that does not find memory, overflows `recv_buf`, or leaves
`GetEdpPacket` with nothing sets `fault`, after which only `Restart` is
possible. `cuts` records how the network has cut the stream so far; no action
looks at it except to update it, and the properties use it to say what holds
for which cuts. `os_free` of a moved pointer reads payload as a block header:
the model lets it be ignored or trap.
`espconn_client_recv` acknowledges a segment (`tcp_recved`), and if the copy it
then makes finds no memory, `pbuf_copy_partial` returns 0 and the callback is not
called: `ReceiveDropped`, at any time, since the copy is the largest block there
is. A segment of whole packets is taken out of `stream` and counted in `dropped`
(`DropPackets`). A segment that begins or ends inside a packet leaves a hole
(`DropPart`): the link is `torn`, `stream` ends with the packets in front of the
hole, and once they are taken (`Garbled`) a segment can be parsed as a packet of
any kind and any length, starve the parser or exhaust the heap. Behind a hole the
model says nothing of which packet it is, because the bytes say nothing either.
Only a failed allocation *inside* the callback is fatal (`ReceiveNoMem`).

**EdpCodec.** `_read_pos` and `_write_pos` become a position argument and the
length of the sequence. The loops of `ReadRemainlen`, `WriteRemainlen` and
`IsPkgComplete` become the position of the digit they stop at (`LastDigit`,
`DigitCount`) and the sum of the digits up to it (`Value`); `Weight` is the
multiplier of the loops, a table because five digits are all there are. A command body is as
the mini-program writes it, `{"LED1":c`: a non-empty body shorter than nine
bytes, which `OneNet_GPIO_Control` would read past, is excluded by assumption.

**OneNetClient.** It extends `OneNetLink`, whose state is its own, and takes
`EdpStream` as an instance; the conjunction of the two modules' actions where a handler
belongs to both (`Connected`, `Receive` with its answer, `Reboot`, `LinkEnds`),
one module's action and UNCHANGED of the other elsewhere. `AckedBefore` states
a fact of TCP: data written after our message arrived acknowledges it. A response
to what was parsed behind a hole is about no command of the cloud (`Unknown`).

**Provision.** `s_WIFI_Info` is an array of `2*N` cells, `ssid` then `pass`, so
that a name without a terminator runs into the password as it does in C. Names
and passwords have any length: neither the page nor `get_Post_Par` checks one.
What is written behind `pass` sets `spilled`; of the memory there the model
follows `WIFI_connect_Flag`, which the write may change at once, the copy of the
configuration, with which the poll may compare wrongly from then on, and the
poll's timer, which is no longer fair. What is *read* from there is one of
`Behind`, up to the next NUL. `flash` is what the station stores: a name is cut at
`SSID_SIZE`, where the password is copied over the rest (`Stored`); read back, a
name that fills the field runs into the password (`ConfigName`). `len`,
uninitialised when the form is cut before `&`, is any value: up to `2*N`, which
stands for all that are larger, or an exception. Values are kept as
they arrive; the code does not decode the URL encoding either. That GPIO 12 high
means lit is taken from the poll, which drives it high for a connected station.
What the sockets do to a request is `SoftApServer`; what a request does to the
configuration is here.

**SoftApServer.** `remote` is the remote address in the listener's `espconn`,
which `espconn_tcp_accept` overwrites with the peer accepted and `espconn_Task`
with the peer that ended: replies are sent through it and looked up by it.
`queue` holds the task's signals; a node that is "closing" or "lost" has one. A
node is "half" while its browser has closed and there was no memory for the FIN:
`espconn_server_close` gives up and lwIP's poll tries again. Missing memory is a
choice in every handler that allocates: no node (the connection is aborted), no
`espconn` for the node (`esponn_server_err` then follows a NULL pointer), no copy
of the request (acknowledged and gone), no buffer for the reply. `req` and
`waiting` are the browser's side; `newest`, `ended` and `alone` are history.

**DhcpServer.** An address is the number the code compares (the octets in
memory order), so that "above the range" means what it means there. `bound` and
`want` are the stations' side: what they have a lease for, and what they were
offered or remember. The server counts leases by its own minute timer, the
station from the answer on, so that neither end comes first: `LeaseEnds` is the
station's, at any time, and an address whose pool ran out is used on (`late`)
until the next tick, by which the station's own count has ended too: it started
less than a minute after the server's. Every packet first updates the list (`client_update`, as
`wifi_softap_dhcps_client_update` is called before the packet's kind is looked
at), then takes its own course; offers, ACKs and NAKs may be lost. The loop of
the minute timer that unlinks expired nodes is `Running`, stated by what it
leaves rather than as a walk: the nodes with time left, read at increasing
places. That is one list; the timer takes "a list of `Running`", of which there
is never another.

**DeviceRegistry.** The table is a bag of rows per account: there is no schema,
no unique key and no ORDER BY, so `.first()` is any row. A request occupies a
slot through three steps: asked with the values the page held at the tap,
executed by the server or cloud, answered with what the page's globals are
*then*. The switch of the page is `widget`: it moves by itself at the tap
(`switch2Change`), the buttons leave it alone, and an answer gives it the value of
`data.checked`, or leaves it where it is if that value has not changed (`Moves`). `calm` is history: no request of the account met another one and none
failed; the properties use it to say what is true of one user with one finger.

**ChatTunnel.** A push is serialised when `$broadcast` is called: `to` are the
members then. The tunnel service (external) knows which tunnels are open; its
answer names those that are not, and is applied to lists that have moved on:
`Purged` is what it leaves of the room, again the one list that keeps the others
in their order.

## 3. Runs

| run | question | bounds, and why they are enough |
|---|---|---|
| `link` | one owner, login first, attempts end, life cycle | `MaxCon = 2`: one slot for the page, one for us, so both "full" and "free" occur. Everything else is finite. |
| `stream` | framing, order, backlog, heap | packets of 2, 3, 4 bytes, `recv_buf` and segments of 7: a segment can hold parts of two packets, one whole and part of another, or three; `recv_buf` can overflow by one byte or be filled exactly. 3 packets per link: one taken, one waiting, one arriving. 13 blocks: a link with three commands fits, on the next one memory runs out. Any segment may be dropped, the first, one between two others or a part of a packet. |
| `codec` | the framing on bytes | two packets in flight, with two identifiers of one length; bodies around the switch from one to two digits of the length field; cuts inside the type, the length field, the identifier, at the end, and behind the next packet. The module also evaluates the length field at 0, 1 and both sides of 128, 128^2, 128^3, 128^4 and 2^31. |
| `client` | who is answered | `MaxCon = 1`, which makes a refused connect common; 3 packets: the login's answer and two commands, the second arriving while the answer to the first is on its way; segments of 3 bytes in a buffer of 6, heap for one link and what it leaves. |
| `provision` | name, password, flash, light | arrays of 2 cells, a name field of 3 in flash: names of 0, 1 (just fits), 2 (no terminator) and 3 characters (runs into the password, and fills the field in flash); passwords of 1 (fits) and 2 (written behind the arrays); behind the arrays a NUL or a character; the user's network is one of the combinations. |
| `softap` | who gets which page, slots | four browser connections and three slots: the limit is reached with one browser left outside, and the task's queue can hold three signals in any order. Liveness is one of its questions, so the browsers are not made symmetric. |
| `dhcps` | addresses, pools | three stations, three addresses, leases of two minutes, `MAX_STATION_NUM = 3` so that `kill_oldest` runs; the server's own address in the lower and in the upper half; stations that bring an address of the range or one of a network that sorts in front of it. With leases of two minutes a station can be a tick ahead of or behind the server. |
| `registry` | who owns, shows, switches what | two phones on one account or two, one device, two slots, three taps, whose follow-up requests are not counted: two checks that meet and their two insertions, or an addition, a deletion and a refresh. The device's number and the blank of an untouched field give four different rows; `MaxRows = 2` tells a duplicate from one row. A command needs a device, which takes some of the taps, so that few commands follow one another here; the theorem `SwitchIsRight` has no such bound. |
| `tunnel` | who is in the room | two visitors, two pushes and two answers on their way: enough for a push to overtake another and for the answer of one to arrive after a connect. |
| `partial_packet`, `unanswered`, `retyped_name` | see Findings | as the run of their module; `unanswered` with 2 packets |

What the passing runs show:

* `link`: the login is the message in flight until the cloud has heard it, even
  with a heartbeat timer of an earlier link firing at any moment. Boot timer,
  retry timer and node exclude each other, so `ESPCONN_ISCONN` never happens. An
  attempt ends online or stranded; stranded is left by a restart only. That the
  device *can* be stranded is part of `LinkLifecycle`: after a clean close by
  the cloud, after a connect refused at once, after a `tcp_connect` error.
* `stream`: whatever the cuts, and whatever segments of whole packets are dropped,
  the parser is aligned and obeys in order; after a part of a packet is lost this
  holds for the packets in front of it, and for nothing behind. With one packet
  per segment nothing waits, and each packet is handled or was dropped; with
  several the device lags by as many packets for as long as the link lasts. A
  device that runs out of heap has handled a link or a packet for every three
  blocks of it.
* `codec`: what `EdpStream` assumes of a packet's end is what `IsPkgComplete`
  computes, and every packet the device builds has the length it announces. Both
  modules are shown to implement the same `CommandChannel`. A response carries the
  identifier of its own command and not the other one.
* `client`: both halves agree on when there is a connection; responses belong to
  commands taken on this connection (or to what was parsed behind a hole), keep
  their order, and are never late.
* `provision`: as long as nothing was written behind `s_WIFI_Info`, flash only ever
  gets the password of the last complete form, and its name if that is the longest
  one so far and ends inside its array; a form with a new name is used. A lit
  status light proves the configuration right, whatever was written where.
* `softap`: a page goes to the connection accepted last, whoever asked, and to
  nobody once a connection has ended since; the confirmation page never leaves,
  because the page sent just before it holds the one buffer; every node that is
  no longer open is removed exactly once, and also when there was no memory for
  its FIN at first; a browser with one connection at a
  time is served.
* `dhcps`: the list stays sorted with one pool per station; without addresses
  from outside the range and without a killed pool, two stations use the same
  address at most while one of them counts a lease that ran out at the server's
  last tick, and no pool is the server's own; a station that left keeps only a
  pool that runs out.
* `registry`: an account never sees, inserts or switches a device nobody of it
  entered, in any interleaving. In calm, one device is added once, a device shown
  is in the table, and the switch, wherever it was moved to by the tap, shows what
  the cloud executed once the answer is there.
* `tunnel`: whoever is in the room is known and in it once; members agree on
  their number when nothing is on its way; a tunnel that is closed leaves.

`LinkInv`, `FrameInv`, `ClientInv`, `SetupInv`, `PoolsInv`, `RegistryInv` and
`RoomInv` are conjunctions of named parts, types among them; the comment at each
part says what it is about.

Deadlock is checked in every run but `registry`, whose users stop after
`MaxRequests` requests: there the bound ends a behaviour, not the program.

### Fairness

* Periodic timers (`get_WIFI_state`, `Begin_TCP`, `Reconnect`) and
  `espconn_Task` are weakly fair: the event loop serves armed timers and posted
  events.
* `Connected` is strongly fair in `OneNetLink`: `AttemptEnds` says that the
  device does not give a reachable cloud up by itself; without an assumption on
  the network it would retry for ever, as it should. It is used for nothing else.
* In `EdpStream` and `OneNetClient`, TCP delivers while the link lasts (weak
  fairness of `Receive`, `PeerReceives`, `AckArrives`); every property that
  rests on it has "or the link ends" as a way out, so no fairness of `LinkLost`
  is needed. To be dropped counts as delivered; on a torn link of `EdpStream`
  nothing is assumed. `Connect` and the restart after a fault are weakly fair.
* In `Provision` the poll is weakly fair, and a station without an address keeps
  trying; the poll only as long as its timer was not written over. Nothing is assumed of users, pages, power or the access point.
* In `SoftApServer` the task is weakly fair, an acknowledgement arrives while
  its connection lasts, and the poll of lwIP finds memory for a FIN at last. Nothing is assumed of browsers: not that they ask, not
  that they close.
* In `ChatTunnel` a packet that is on its way and not lost is handled. Nothing is
  assumed of pushes and their answers.
* `DhcpServer` and `DeviceRegistry` state no fairness and claim no liveness.

### Findings

Three runs check a sentence of a comment or of the manual and find it violated:

| run | what is said | what happens |
|---|---|---|
| `partial_packet` | an incomplete packet: "continue receive", "need more bytes..." (`EdpKit.c:316`, `OneNet.c:200`) | the NULL packet is dereferenced (`OneNet.c:203`): restart |
| `unanswered` | a command is processed and answered (`OneNet.c:234`) | refused while the heartbeat or another message is unacknowledged |
| `retyped_name` | the name entered is the network to connect to (manual, step 1) | a shorter name keeps one character of the longer name before it |

Behaviour the models contain and a reader of the code may not expect, without a
run of its own:

* Link and receive path: every command leaves a heap block behind, its moved
  body at `OneNet.c:252` never freed, an unknown command two (`CmdLeak`); each
  link leaves the two packets of the one before (`OneNet.c:264-266`, although
  `EdpKit.h:107,118` pair every `NewBuffer` with a `DeleteBuffer`);
  `EdpKit.h:125-133` documents `CheckCapacity`, which no function implements.
* Receive path: a segment for which there is no memory is acknowledged and gone
  (`espconn_tcp.c:687-717`); if it was not made of whole packets, everything the
  cloud sends on this link from then on is misread.
* Set-up: a name or a password that does not fit is written over what follows
  (`TCP_server.c:179-185`). A form with the name in use is ignored, whatever its password
  (`WIFI.c:116`); the status light stays lit when the network goes away without
  `STATION_CONNECT_FAIL` (`WIFI.c:91`).
* Page server: a silent connection keeps its slot for ever
  (`espconn_regist_time(…, 0, 0)`); a connection that ends makes the listener
  point to it, and the next page goes nowhere (`espconn_tcp.c:323`).
* DHCP: `kill_oldest_dhcps_pool` marks the *last* node of the list offline, not
  the one it removes, and never considers the head (`dhcpserver.c:902`); an
  address outside the range in the sorted list ends the search for a gap too
  early (`:1077`), so that a used address is offered; after a DECLINE the pool
  stays and the same address is offered again; a known station can be moved to
  a lower gap, which its own REQUEST then meets as a NAK. `PoolsInv`, `NoDoubleLease`
  and `OfflineRunsOut` say nothing of executions with a foreign address or a
  killed pool: those two hazards are modelled and no property covers them.
* Registry: no file of the repository ever writes the `OPENID` the pages read, so
  on a real phone all users may share one account: the model lets phones share
  one or not. The pages report success also when the server failed
  (`response.js:23` answers with status 200). After a scanned second device each
  further scan may insert duplicates. Before its first answer `index` sends
  commands to the device "undefined". Two insertions that met, a refresh that was
  overtaken, switch requests answered out of order and errors reported as success
  all happen in the model; the properties about one calm user exclude them, and
  `PROJECT.json` lists each as a hazard no property covers.
* Tunnel: a member taken out by the answer of a push is never announced as having
  left; a restart of node forgets everyone; a tunnel that was handed out and
  never opened stays in `userMap`; an "enter" push goes to the newcomer too;
  pushes that overtake one another leave members with wrong totals.

## 4. Proofs

`OneNetClientProof`, of the link, for every `MaxCon \in Nat \ {0}`:

| theorem | states |
|---|---|
| `LinkInvariant`, `TypeCorrect` | the inductive invariant (`LinkInv`), and types |
| `LoginComesFirst` | `LoginFirst`, `LoginNotDropped` |
| `SingleOwner` | `OneOwner` |
| `Refinement` | the link implements `LinkLifecycle` |
| `StrandedStays` | only a restart leaves "stranded" |

`LoginFirst` is not inductive: a heartbeat in `pbuf` before the login would make
the next step violate it. `LoginNotDropped` excludes that for an open node, and
needs in turn that nothing is buffered and nothing heard before the handshake
ends, and that a signal is only ever posted for a node that can have one. Those
conjuncts together are `LinkInv`, which the run `link` checks as well. The
refinement uses `LinkInv` for the steps that would otherwise leave a phase by a
way the abstract module does not have (a greeting that is a heartbeat; a retry
with a node still there).

`EdpStreamProof`, for every size of buffer, segment, packet (two bytes or
more) and heap, and every bound on the number of packets:

| theorem | states |
|---|---|
| `StreamInvariant` | the inductive invariant |
| `HeapSuffices` | `HeapLasts` |
| `NeverMisaligned` | `Aligned` |
| `LightObeys` | `LightFollows` |
| `OneByOne` | `NeverBehind`, assuming every kind of packet fits `recv_buf` |
| `LagForGood` | `LagStays` |
| `Refinement` | the receive path implements `CommandChannel` |

`Aligned` alone is not inductive: it says nothing behind a hole, and the stream's
bounds there are needed when the next link begins (`Front`). `ReceivePacket` takes *the* packet that starts
at `from`; that it is the one behind the last taken needs `EndToEnd`: each packet
starts where the one before it ended, and none is empty. `IInv` is types,
`EndToEnd` and `Front`. That a dropped segment leaves such a stream, shorter by
whole packets or cut in front of the hole, is `DroppedPackets` and `DropKeepsOrder`,
and `TornStream`. `NeverBehind` needs two facts more: packets have the
size of their kind (`Sized`), and while every segment was one packet `recv_buf`
is empty between callbacks (`Prompt`). The assumption of `OneByOne` is needed:
a packet longer than `recv_buf` overflows it on its own. `LagStays` compares two
cardinalities: the packet a whole segment ends with was not in the backlog
before it, and at most one packet leaves the backlog; that the parser does not
starve follows since the packet at the front ends no later than that one. The
refinement writes the abstract queue as a sequence of the packets behind
`taken`, and shows that a write appends to it and a taken packet is its head; a
fault keeps it, a restart or a new link empties it, a dropped segment takes
packets out of it (`DropMaps`) or cuts it short (`TearMaps`). The channel lets the
light move by handling, by a new connection, which puts it out, and by a restart;
besides these only behind a hole, on an empty queue (`Garble`).

`EdpCodecProof`, for every set of identifiers and bodies of at most 65535 bytes,
every set of segment lengths and every size of `recv_buf` (an identifier's
length has 16 bits, and `recv_buf` has 256 bytes, so that no longer body is handled):

| theorem | states |
|---|---|
| `LengthFieldSurvives` | whatever number `WriteRemainlen` writes, `ReadRemainlen` reads it back with the number of its digits, unless it takes five, which it refuses |
| `Frames` | `FrameInv` |
| `OneFrameSent` | `SendsOneFrame` |
| `Answers` | `AnswersTheCommand` |
| `Refinement` | the codec implements `CommandChannel` |

The length field is written as digits (`Written`) and its value is their sum
(`SumOfDigits`); where a reader stops is the least position without a top bit
(`LastDigitOf`), which exists or not according to how much of the field has
arrived (`LengthRead`, `LengthNotRead`). A frame is a packet whose field counts
the bytes behind it (`IsFrame`); a buffer that agrees with a frame as far as it
goes is found complete exactly when it is as long as the frame (`FrameIsFound`),
whatever comes after it. All packets the two sides build are frames, and a command
taken apart is what was put into it (`CommandRead`). `FrameFound` looks at the
packet in front only, and says nothing of what is behind it: not inductive. `IInv`
adds that `recv_buf` followed by `wire` is what is left of the stream, packet for
packet. Without recursion this is stated with a witness: there is an `r` such that
`r[i]`, the bytes from the `i`-th packet on, is that packet followed by `r[i + 1]`
(`Laid`). A packet written extends every `r[i]`, a packet taken drops `r[1]`; a cut
moves bytes from `wire` to `recv_buf` and leaves the sequence alone. `IInv` also says
that what was sent last is a frame. With `recv_buf` and `out` so described, one
step of the device is what the channel says of one packet (`Dealt`).

`OneNetClientProof`, of the client, for the constants of both halves:

| theorem | states |
|---|---|
| `ClientIsChannel` | the whole client implements `CommandChannel` |
| `ClientLivesOneLife` | its link implements `LinkLifecycle` |
| `HalvesStaySafe` | `Aligned`, `LightFollows`, `LoginFirst`, `OneOwner` of the composition |
| `AnswersRight` | `ClientInv` |
| `NeverLate` | `NoLateAnswer` |

Every step of the client is a step of each half or leaves its variables alone
(`StepLink`, `StepStream`; so by the way the composition is written, and not
claimed as a result); so the inductive invariants of both halves hold in the client without being
proved again (`LinkHolds`, `StreamHolds`). With them the two refinements carry over step by step: what the
cloud may count on, of the channel and of the link, it may count on with both on
one socket. The answers need one fact of each: nothing is buffered before the
handshake is over, and a packet is taken in its turn, so that the command
answered now is later than all that were answered. Unlike the invariants of the
halves, `ClientInv` is inductive given these, but for the bound on the packets.

`ProvisionProof`, for every size of the arrays from 2 on that is no larger than the
name field of the configuration, every set of names and passwords of any length
without a NUL, and any memory behind the arrays:

| theorem | states |
|---|---|
| `ProvisionInvariant` | the inductive invariant: what the cells hold |
| `LightIsTrue` | `SetupInv` |
| `FlashIsAsTyped` | `StoredAsTyped` |

`StoredAsTyped` speaks of C strings: where the first NUL behind a cell is. The
invariant says which cells are NUL (`Erased`: from the end of the longest name
stored since boot to the end of `ssid`, as long as that name fits) and what the
others hold after a complete form, as long as nothing was written behind them
(`Kept`); `String` is then determined (`StringIs`), which rests on the existence
of a least cell with a NUL (`LeastElement`, from the well-foundedness of `<` on
`Nat`, since induction itself is out of reach). `LitMeansRightConfig` needs
`Online`: a station with an address, or a pad that was routed since boot, implies
that flash holds the user's network, because flash changes only together with a
restart, which undoes both. This does not need `spilled`: whatever the flags are
overwritten with, only the poll stores a configuration, and it restarts.

`SoftApServerProof`, for every set of browsers and every limit:

| theorem | states |
|---|---|
| `ServerInvariant`, `TypeCorrect` | the inductive invariant, and types |
| `SlotsReturned` | `SlotsComeBack` |
| `NoConfirmation` | `ConfirmationNeverLeaves` |
| `NewestGetsThePage` | `RepliesGoToNewest` |

`ConfirmationNeverLeaves` holds because a first send either takes the free buffer
or finds it taken, or finds no node at all: in each case the second one fails
(`Callback`). `RepliesGoToNewest` needs `PointsToNewest`: if the listener points
to a node that takes data, that is the connection accepted last and none has
ended since.

`DeviceRegistryProof`, for every set of phones, accounts, devices and slots and
every bound:

| theorem | states |
|---|---|
| `OwnDevices` | `OwnDevicesOnly` |
| `OneRowInCalm` | `RegistryInv` |
| `PagesAreRight` | `ShownIsThere` |
| `SwitchIsRight` | `SwitchShowsLight` |

`OwnDevicesOnly` holds in *every* interleaving; its invariant `OwnInv` adds that
what a button was pressed for stood in the fields (`Wishes`), and that in calm a
request that may still insert finds in the fields what they held at the tap
(`Fields`). `KnownGrows` says that what counts as known of an account only
grows, since calm only ends. The properties in calm rest on `CalmInv`: a calm
account has one request out at most (`Single`), whoever is about to insert saw an
empty table that is still empty (`Checked`), hence one row (`AtMostOne`); what
`mydev` shows is in the table or about to be refreshed (`ShownInv`), and what the
page wants the switch to be agrees with the cloud or an answer that will make it
agree is out (`SwitchInv`). The switch itself is `WidgetInv`: in calm it stands
where the page wants it, or where the command on its way will put it.

`ChatTunnelProof`, for every set of tunnels and every bound on pushes and
answers:

| theorem | states |
|---|---|
| `RoomIsKnown` | `RoomInv` |
| `MembersKnowTheirNumber` | `TotalsAgree` |

`RoomKnown` is not inductive: a second connect of a tunnel that is in the room
would put it there twice. `Arrivals` excludes it: the service posts one connect
when a tunnel opens, so none is on its way for a member. What the lists hold
after a packet or an answer is stated of the set of their members (`Spliced`,
`PurgedOf`). `TotalsAgree` speaks of a moment at which nothing is on its way;
what holds at every moment of a calm room is `LastTold`: the last push on its way
that carries a total carries that of the room as it is now, to those who are in
it now, and if there is none, the members were told. An answer that takes a
member out changes the room without a push, and ends calm.

`DhcpServerProof`, for every set of stations, every size of the range, lease
time, limit and place of the server's address:

| theorem | states |
|---|---|
| `PoolsStayApart` | `PoolsInv` |
| `OneUserEach` | `NoDoubleLease` |
| `LeftPoolsRunOut` | `OfflineRunsOut` |
| `OneListRuns` | whatever the list, what the minute timer leaves is one list: `Running` holds exactly one |

The list operators are first characterised by the set of nodes they return
(`Removed`, `Inserted`, `Rewritten`, `RunningOf`) and by the order they keep.
Then each branch of `client_update` is shown to have one effect (`Updated`,
`Effect`): some nodes go, the station's own and otherwise only those of stations
that left, and one comes. The address it brings is free because the search for a
gap (`GapOf`) returns an address above all nodes in front of it and below the
one behind; that there is a first gap rests on the least number of a set
(`LeastElement`). `NoDoubleLease` is about what stations use and not about the
list; the link is `Held`: whoever uses an address has an ONLINE pool with it,
which nobody else may take, and `LateIn`: whoever is `late` has none. `Held` needs the list to hold each station once, so
that "its pool" is one node; `LetGo` says what may be OFFLINE. Both exceptions
are needed: a killed pool leaves its station with an address and no pool, a
foreign address hides pools from the search.

Assumptions of all proofs are the `ASSUME`s of the modules: finite sizes,
packets of two bytes or more, identifiers and bodies whose length has 16 bits, and
an array that is no longer than the field of the configuration it goes to. What
the models themselves assume of the environment:

* of the memory behind `s_WIFI_Info` only what is named under **Provision** above
  changes what the firmware does next; that a write there breaks other state of
  the SDK is not followed, except as an exception, which is a restart;
* a station stops using an address within a minute of the end of its pool, since
  it was told the same duration, later by less than that;
* one connect post per tunnel; a high GPIO 12 is lit;
* the cloud frames its packets and writes the login's answer first.

Model-checked only: the liveness properties (`AttemptEnds`, `StartsOnceOnline`,
`Obeyed`, `NewNameApplied`, `LightStaysLit`, `LoneBrowserServed`,
`EndedIsRemoved`, `ClosedLeaves`), which need fairness and ENABLED and are out of the prover's
reach; and that `Purged` holds exactly one list, which `MCChatTunnel` compares with
the splices of the code on all lists of up to four. (For `Running` the same is
`OneListRuns`. The induction it needs is over lists; it is done by the least
length without a walk through its places, `SomeWalk`. That this list is what a
walk that unlinks the nodes leaves is compared with a filter by `MCDhcpServer`.)
`EdpStream` takes a packet to end where the cloud wrote its end; that this is where
`IsPkgComplete` finds it is what `Frames` shows of the bytes. The two modules are
not joined by a refinement of their own: both implement `CommandChannel`.

## 5. Not modelled, and why

* Most lines of `src/` are vendored: lwIP, the SDK's headers, the wafer SDKs,
  Weui. They are external; of the vendor's sources the models cover what this
  program's behaviour hangs on, espconn's TCP path and the DHCP server. The map
  is therefore a small share of all lines, and most of the program's own that
  keep state.
* DHCP: the setters of range, lease time and offer option, which nothing in the
  build calls, and the bytes of the messages.
* Arithmetic of positions that wraps at 2^32 (`EdpKit.c:38`): only packets the
  cloud frames wrongly reach it.
* `UnpackConnectResp`, `ReadFloat`, `WriteFloat`, `ReadStr`: no state that is
  kept depends on them. `get_data` of the index page: it only fills the display.
* Code the build leaves out: station TCP server and client, UART ring.
* espconn beyond these two users: UDP, TLS, keep-alive, receive hold.
* The tunnel client library: no page opens a tunnel; the room is modelled
  because its server runs. Login, upload and message endpoints keep no state.
* cJSON, the SDK, lwIP, hardware: third-party or external.

## 6. Plan

Done: the link and its abstract life; the receive path, the abstract channel and
the codec under it; their composition; the Wi-Fi set-up; the sockets of its page;
the DHCP server; the device registry; the chat room; the proofs of section 4.

Open, in this order:

1. `RemoteLight`: mini-program, cloud, `CommandChannel` and `LinkLifecycle` end
   to end: what the switch on the page says against what the light does.
2. `SoftApServer` composed with `Provision`: which browser sees what while its
   form takes effect, and the link limit both share with the OneNET link.
3. `OneNetLink` and `Provision` joined over `WIFI_connect_Flag` and `Init_led`.
