---------------------------- MODULE DeviceRegistry ----------------------------
(***************************************************************************)
(* The table UserDev, recv_data in front of it (controllers/demo.js), and  *)
(* the three pages of the mini-program that use it: adddev adds a device,  *)
(* mydev shows and deletes it, index switches its light over the cloud.    *)
(* Every request is asynchronous: it is asked, executed at some later time *)
(* and answered at a later one still, in any order, and any of the three   *)
(* may never come.  A page keeps its globals across all of its requests.   *)
(*                                                                         *)
(* The table has no schema in the repository and the query no ORDER BY, so *)
(* ".first()" is any row of the account.  Rows are counted, not ordered.   *)
(***************************************************************************)
EXTENDS Integers, FiniteSets

CONSTANTS Phones,        \* each runs the mini-program
          Accounts,      \* OPENIDs; no file of the repository stores one
          Devices,       \* a device number stands for its API key too
          Blank,         \* what the input fields hold before anything is typed
          None,          \* JavaScript's undefined and null
          Slots,         \* requests a network carries at a time
          MaxRequests,   \* bound: requests the users make
          MaxRows        \* bound: equal rows of one account

ASSUME RegistryAssumption ==
  /\ Blank # None /\ Blank \notin Devices /\ None \notin Devices
  /\ MaxRequests \in Nat /\ MaxRows \in Nat

VARIABLES account,   \* what each phone holds under OPENID
          rows,      \* UserDev: how many copies of each row, per account
          reqs,      \* what is in each slot of the network
          input,     \* adddev: S_inputId and S_inputKey
          shown,     \* mydev: DEVID
          dev,       \* index: Dev_Id and API_KEY
          dev_st,    \* index: Dev_st
          checked,   \* index: data.checked, what the page wants the switch to be
          widget,    \* index: what the switch shows
          obeyed,    \* the last command the cloud executed, and for which phone
          asked,     \* requests so far, for the bound
          calm,      \* history: no request of the account met another, none failed
          scanned,   \* history: accounts that used the scanner
          entered,   \* history: pairs that stood in the fields of the account
          wished     \* history: pairs in the fields when a button was pressed

pages == <<input, shown, dev, dev_st, checked, widget>>
table == <<account, rows>>
world == <<obeyed, asked>>
told  == <<scanned, entered, wished>>
vars  == <<account, rows, reqs, input, shown, dev, dev_st, checked, widget,
           obeyed, asked, calm, scanned, entered, wished>>

Num   == Devices \cup {Blank}
Row   == [num : Num, key : Num]
NoRow == [num |-> None, key |-> None]
Ops   == {"AddCheck", "ScanCheck", "INSTER", "Show", "DEL", "Info", "Switch"}
SELE  == {"AddCheck", "ScanCheck", "Show", "Info"}

\* A request: who asks, what, with which device and value; and its answer.
Free == [by |-> None, op |-> "Free", row |-> NoRow, on |-> FALSE,
         answered |-> FALSE, data |-> NoRow]
New(p, op, row, on) == [by |-> p, op |-> op, row |-> row, on |-> on,
                        answered |-> FALSE, data |-> NoRow]

InFlight(a) == {s \in Slots : reqs[s] # Free /\ account[reqs[s].by] = a}

Init ==
  /\ account \in [Phones -> Accounts]
  /\ rows = [a \in Accounts |-> [r \in Row |-> 0]]
  /\ reqs = [s \in Slots |-> Free]
  /\ input = [p \in Phones |-> [num |-> Blank, key |-> Blank]]
  /\ shown = [p \in Phones |-> None]
  /\ dev = [p \in Phones |-> NoRow]
  /\ dev_st = [p \in Phones |-> None]
  /\ checked = [p \in Phones |-> FALSE]
  /\ widget = [p \in Phones |-> FALSE]
  /\ obeyed = [on |-> FALSE, by |-> None]
  /\ asked = 0
  /\ calm = [a \in Accounts |-> TRUE]
  /\ scanned = {}
  /\ entered = [a \in Accounts |-> {[num |-> Blank, key |-> Blank]}]
  /\ wished = [a \in Accounts |-> {}]
-----------------------------------------------------------------------------
(* The pages ask. *)

\* A request leaves phone p.  It breaks the calm of its account if another
\* request of the account is still out.
Ask(s, p, r) ==
  /\ reqs[s] = Free /\ asked < MaxRequests
  /\ reqs' = [reqs EXCEPT ![s] = r]
  /\ asked' = asked + 1
  /\ calm' = [calm EXCEPT ![account[p]] = @ /\ InFlight(account[p]) = {}]

\* Something typed or scanned stands in the fields.
Enter(p, r) ==
  /\ input' = [input EXCEPT ![p] = r]
  /\ entered' = [entered EXCEPT ![account[p]] = @ \cup {r}]

Wish(p, r) == wished' = [wished EXCEPT ![account[p]] = @ \cup {r}]

\* adddev: the number, then the key is typed.  Typing while a request is out
\* is not calm: its answer reads the fields.
input_ID(p, d) ==
  /\ Enter(p, [input[p] EXCEPT !.num = d])
  /\ calm' = [calm EXCEPT ![account[p]] = @ /\ InFlight(account[p]) = {}]
  /\ UNCHANGED <<account, rows, reqs, shown, dev, dev_st, checked, widget, obeyed,
                 asked, scanned, wished>>

input_Key(p, d) ==
  /\ Enter(p, [input[p] EXCEPT !.key = d])
  /\ calm' = [calm EXCEPT ![account[p]] = @ /\ InFlight(account[p]) = {}]
  /\ UNCHANGED <<account, rows, reqs, shown, dev, dev_st, checked, widget, obeyed,
                 asked, scanned, wished>>

\* adddev, button: does the account have a device yet?
Add_dev(s, p) ==
  /\ Ask(s, p, New(p, "AddCheck", NoRow, FALSE))
  /\ Wish(p, input[p])
  /\ UNCHANGED <<account, rows, pages, obeyed, scanned, entered>>

\* adddev, scanner: the code on the device fills both fields and asks.
Scan_dev(s, p, d) ==
  /\ Enter(p, [num |-> d, key |-> d])
  /\ Ask(s, p, New(p, "ScanCheck", NoRow, FALSE))
  /\ Wish(p, [num |-> d, key |-> d])
  /\ scanned' = scanned \cup {account[p]}
  /\ UNCHANGED <<account, rows, shown, dev, dev_st, checked, widget, obeyed>>

\* mydev: on load, on pull-down and after a deletion.
get_dev(s, p) ==
  /\ Ask(s, p, New(p, "Show", NoRow, FALSE))
  /\ UNCHANGED <<account, rows, pages, obeyed, told>>

\* mydev: whatever DEVID the page shows goes into the request.
Del_dev(s, p) ==
  /\ Ask(s, p, New(p, "DEL", [num |-> shown[p], key |-> None], FALSE))
  /\ UNCHANGED <<account, rows, pages, obeyed, told>>

\* index: after the login and on pull-down.
get_Devinfo(s, p) ==
  /\ Ask(s, p, New(p, "Info", NoRow, FALSE))
  /\ UNCHANGED <<account, rows, pages, obeyed, told>>

\* index: the last answer was empty.  Before the first answer Dev_st is
\* undefined, which is not 0, and a command goes to the device "undefined".
Dev_able(p) == dev_st[p] # 0

\* index, two buttons: send_data0 and send_data1.
send_data(s, p, v) ==
  /\ Dev_able(p)
  /\ Ask(s, p, New(p, "Switch", dev[p], v))
  /\ UNCHANGED <<account, rows, pages, obeyed, told>>

\* index, the switch: it has moved by itself when the page hears of the tap.
\* Without a device no command goes out, and nothing moves it back: not calm.
switch2Change(s, p) ==
  /\ widget' = [widget EXCEPT ![p] = ~@]
  /\ IF Dev_able(p)
     THEN Ask(s, p, New(p, "Switch", dev[p], ~widget[p]))
     ELSE calm' = [calm EXCEPT ![account[p]] = FALSE] /\ UNCHANGED <<reqs, asked>>
  /\ UNCHANGED <<account, rows, input, shown, dev, dev_st, checked, obeyed, told>>
-----------------------------------------------------------------------------
(* The server and the cloud execute. *)

Present(a) == {r \in Row : rows[a][r] > 0}

\* A query that forgets whose rows it wants.
recv_data_AllRows(s, r) ==
  LET q == reqs[s] a == account[q.by] IN
  /\ q.op \in Ops \ {"Switch"} /\ ~q.answered
  /\ \/ /\ q.op \in SELE
        /\ \/ r = NoRow /\ Present(a) = {}
           \/ \E b \in Accounts : r \in Present(b)
        /\ rows' = rows
     \/ /\ q.op = "INSTER" /\ r = NoRow
        /\ rows[a][q.row] < MaxRows
        /\ rows' = [rows EXCEPT ![a][q.row] = @ + 1]
     \/ /\ q.op = "DEL" /\ r = NoRow
        /\ rows' = [rows EXCEPT ![a] = [x \in Row |-> IF x.num = q.row.num THEN 0 ELSE @[x]]]
  /\ reqs' = [reqs EXCEPT ![s].answered = TRUE, ![s].data = r]
  /\ UNCHANGED <<account, pages, world, calm, told>>

\* controllers/demo.js: one statement of SQL; r is the row a SELE returns.
recv_data(s, r) ==
  LET q == reqs[s] a == account[q.by] IN
  /\ q.op \in Ops \ {"Switch"} /\ ~q.answered
  /\ \/ /\ q.op \in SELE
        /\ \/ r = NoRow /\ Present(a) = {}
           \/ r \in Present(a)
        /\ rows' = rows
     \/ /\ q.op = "INSTER" /\ r = NoRow
        /\ rows[a][q.row] < MaxRows
        /\ rows' = [rows EXCEPT ![a][q.row] = @ + 1]
     \/ /\ q.op = "DEL" /\ r = NoRow
        /\ rows' = [rows EXCEPT ![a] = [x \in Row |-> IF x.num = q.row.num THEN 0 ELSE @[x]]]
  /\ reqs' = [reqs EXCEPT ![s].answered = TRUE, ![s].data = r]
  /\ UNCHANGED <<account, pages, world, calm, told>>

\* The cloud's command interface (external): it takes a command for a device
\* it knows under the right key.
heclouds(s) ==
  LET q == reqs[s] IN
  /\ q.op = "Switch" /\ ~q.answered
  /\ q.row.num \in Devices /\ q.row.key = q.row.num
  /\ obeyed' = [on |-> q.on, by |-> q.by]
  /\ reqs' = [reqs EXCEPT ![s].answered = TRUE]
  /\ UNCHANGED <<account, rows, pages, asked, calm, told>>

\* An error of the database, or a command the cloud refuses (offline, unknown,
\* wrong key): the answer has status 200 and success runs all the same.
Refused(s) ==
  LET q == reqs[s] IN
  /\ q.op \in {"INSTER", "DEL", "Switch"} /\ ~q.answered
  /\ reqs' = [reqs EXCEPT ![s].answered = TRUE]
  /\ calm' = [calm EXCEPT ![account[q.by]] = FALSE]
  /\ UNCHANGED <<account, rows, pages, world, told>>

\* The request or its answer is lost, or a SELE fails: data is undefined and
\* the callback ends in an exception before it changed anything.
Lost(s) ==
  /\ reqs[s] # Free
  /\ reqs' = [reqs EXCEPT ![s] = Free]
  /\ calm' = [calm EXCEPT ![account[reqs[s].by]] = FALSE]
  /\ UNCHANGED <<account, rows, pages, world, told>>
-----------------------------------------------------------------------------
(* The pages are answered. *)

Answered(s, op) == reqs[s].op = op /\ reqs[s].answered
Close(s) == reqs' = [reqs EXCEPT ![s] = Free]
Insert(s, p) == reqs' = [reqs EXCEPT ![s] = New(p, "INSTER", input[p], FALSE)]

\* An insertion that does not look at the answer of its check.
AddAnswered_NoCheck(s) ==
  /\ Answered(s, "AddCheck")
  /\ Insert(s, reqs[s].by)
  /\ UNCHANGED <<account, rows, pages, world, calm, told>>

\* No device yet: insert what the fields hold now.
AddAnswered(s) ==
  /\ Answered(s, "AddCheck")
  /\ IF reqs[s].data = NoRow THEN Insert(s, reqs[s].by) ELSE Close(s)
  /\ UNCHANGED <<account, rows, pages, world, calm, told>>

\* No device yet, or the one that was returned is another.
ScanAnswered(s) ==
  /\ Answered(s, "ScanCheck")
  /\ IF reqs[s].data = NoRow \/ reqs[s].data.num # input[reqs[s].by].num
     THEN Insert(s, reqs[s].by) ELSE Close(s)
  /\ UNCHANGED <<account, rows, pages, world, calm, told>>

\* "added", whatever the server said.
InsertAnswered(s) ==
  /\ Answered(s, "INSTER")
  /\ Close(s)
  /\ UNCHANGED <<account, rows, pages, world, calm, told>>

ShowAnswered(s) ==
  /\ Answered(s, "Show")
  /\ shown' = [shown EXCEPT ![reqs[s].by] = reqs[s].data.num]
  /\ Close(s)
  /\ UNCHANGED <<account, rows, input, dev, dev_st, checked, widget, world, calm, told>>

\* A deletion that leaves the page as it was.
DeleteAnswered_NoRefresh(s) ==
  /\ Answered(s, "DEL")
  /\ Close(s)
  /\ UNCHANGED <<account, rows, pages, world, calm, told>>

\* "deleted", whatever the server said; the page asks again.
DeleteAnswered(s) ==
  /\ Answered(s, "DEL")
  /\ reqs' = [reqs EXCEPT ![s] = New(reqs[s].by, "Show", NoRow, FALSE)]
  /\ UNCHANGED <<account, rows, pages, world, calm, told>>

InfoAnswered(s) ==
  LET p == reqs[s].by IN
  /\ Answered(s, "Info")
  /\ dev' = [dev EXCEPT ![p] = reqs[s].data]
  /\ dev_st' = [dev_st EXCEPT ![p] = IF reqs[s].data.key = None THEN 0 ELSE 1]
  /\ Close(s)
  /\ UNCHANGED <<account, rows, input, shown, checked, widget, world, calm, told>>

\* setData gives the switch its value; a value the data already had may leave
\* the switch as it stands.
Moves(p, on) ==
  \/ widget' = [widget EXCEPT ![p] = on]
  \/ checked[p] = on /\ UNCHANGED widget

\* Both callbacks switch the page on.
SwitchAnswered_AlwaysOn(s) ==
  /\ Answered(s, "Switch")
  /\ checked' = [checked EXCEPT ![reqs[s].by] = TRUE]
  /\ Moves(reqs[s].by, TRUE)
  /\ Close(s)
  /\ UNCHANGED <<account, rows, input, shown, dev, dev_st, world, calm, told>>

SwitchAnswered(s) ==
  /\ Answered(s, "Switch")
  /\ checked' = [checked EXCEPT ![reqs[s].by] = reqs[s].on]
  /\ Moves(reqs[s].by, reqs[s].on)
  /\ Close(s)
  /\ UNCHANGED <<account, rows, input, shown, dev, dev_st, world, calm, told>>

User(s, p) ==
  \/ \E d \in Devices : input_ID(p, d) \/ input_Key(p, d) \/ Scan_dev(s, p, d)
  \/ Add_dev(s, p) \/ get_dev(s, p) \/ Del_dev(s, p) \/ get_Devinfo(s, p)
  \/ \E v \in BOOLEAN : send_data(s, p, v)
  \/ switch2Change(s, p)

Network(s) ==
  \/ \E r \in Row \cup {NoRow} : recv_data(s, r)
  \/ heclouds(s) \/ Refused(s) \/ Lost(s)

Answer(s) ==
  \/ AddAnswered(s) \/ ScanAnswered(s) \/ InsertAnswered(s) \/ ShowAnswered(s)
  \/ DeleteAnswered(s) \/ InfoAnswered(s) \/ SwitchAnswered(s)

Next == \E s \in Slots : Network(s) \/ Answer(s) \/ \E p \in Phones : User(s, p)

Spec == Init /\ [][Next]_vars
-----------------------------------------------------------------------------
\* Types of the table, the network and the pages.
TypeOK ==
  /\ account \in [Phones -> Accounts]
  /\ rows \in [Accounts -> [Row -> 0..MaxRows]]
  /\ reqs \in [Slots -> [by : Phones, op : Ops, on : BOOLEAN, answered : BOOLEAN,
                         row : [num : Num \cup {None}, key : Num \cup {None}],
                         data : Row \cup {NoRow}] \cup {Free}]
  /\ \A s \in Slots : reqs[s].op = "INSTER" => reqs[s].row \in Row
  /\ input \in [Phones -> Row]
  /\ shown \in [Phones -> Num \cup {None}]
  /\ dev \in [Phones -> Row \cup {NoRow}]
  /\ dev_st \in [Phones -> {None, 0, 1}]
  /\ checked \in [Phones -> BOOLEAN]
  /\ widget \in [Phones -> BOOLEAN]
  /\ obeyed \in [on : BOOLEAN, by : Phones \cup {None}]
  /\ asked \in 0..MaxRequests
  /\ calm \in [Accounts -> BOOLEAN]
  /\ scanned \subseteq Accounts
  /\ entered \in [Accounts -> SUBSET Row]
  /\ wished \in [Accounts -> SUBSET Row]

\* The pairs an account may have rows for: what stood in the fields of its
\* phones, and in calm only what stood there when a button was pressed.
Known(a) == IF calm[a] THEN wished[a] ELSE entered[a]

\* No page of an account ever shows, switches or inserts a device that nobody
\* of that account entered; and as long as requests do not overlap, only pairs
\* a button was pressed for get into the table (recv_data asks for the account
\* in each of its statements, the pages read their globals late).
OwnDevicesOnly ==
  /\ \A a \in Accounts : Present(a) \subseteq Known(a)
  /\ \A p \in Phones :
       LET K == Known(account[p]) IN
       /\ dev[p] \in K \cup {NoRow}
       /\ shown[p] \in {r.num : r \in K} \cup {None}
       /\ \A s \in Slots : reqs[s].by = p =>
            /\ reqs[s].data \in K \cup {NoRow}
            /\ (reqs[s].op \in {"INSTER", "Switch"} => reqs[s].row \in K \cup {NoRow})

\* An account whose requests never overlapped and that never used the scanner
\* has one row at most: the check before the insertion is enough for one user
\* with one finger (Add_dev; the table itself has no unique key).
OneRow ==
  \A a \in Accounts : calm[a] /\ a \notin scanned =>
    /\ Cardinality(Present(a)) <= 1
    /\ \A r \in Row : rows[a][r] <= 1

\* Types, and one row.
RegistryInv == TypeOK /\ OneRow

Alone(p) == \A q \in Phones : account[q] = account[p] => q = p

\* On an account with one phone and no overlapping or failed request, a device
\* the page mydev shows while it waits for nothing is in the table: the request
\* Del_dev sends after a deletion is what keeps it so.
ShownIsThere ==
  \A p \in Phones :
    (calm[account[p]] /\ Alone(p) /\ InFlight(account[p]) = {} /\ shown[p] # None) =>
      \E r \in Present(account[p]) : r.num = shown[p]

\* In calm, with no request of the account on its way, the switch of a phone
\* shows what the cloud last executed, if it was a command of this phone,
\* whether it came from the buttons, which leave the switch alone, or from the
\* switch, which moves before the command is even asked for: each answer gives
\* the switch the value of its own command (index.js:135).
SwitchShowsLight ==
  \A p \in Phones :
    (calm[account[p]] /\ InFlight(account[p]) = {} /\ obeyed.by = p) =>
      widget[p] = obeyed.on
=============================================================================
