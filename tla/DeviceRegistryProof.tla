------------------------ MODULE DeviceRegistryProof ------------------------
(***************************************************************************)
(* What DeviceRegistry keeps true for any number of phones, accounts,      *)
(* devices and requests at a time.                                         *)
(***************************************************************************)
EXTENDS DeviceRegistry, FiniteSetTheorems, TLAPS

Request == [by : Phones, op : Ops, on : BOOLEAN, answered : BOOLEAN,
            row : [num : Num \cup {None}, key : Num \cup {None}],
            data : Row \cup {NoRow}]
-----------------------------------------------------------------------------
LEMMA NoRowTypes == NoRow \in [num : Num \cup {None}, key : Num \cup {None}]
  BY DEF NoRow

LEMMA RowTypes == Row \subseteq [num : Num \cup {None}, key : Num \cup {None}]
  BY DEF Row

\* A request that is asked is well typed.
LEMMA NewTypes ==
  ASSUME NEW p \in Phones, NEW op \in Ops, NEW on \in BOOLEAN,
         NEW row \in [num : Num \cup {None}, key : Num \cup {None}]
  PROVE  New(p, op, row, on) \in Request
  BY NoRowTypes DEF New, Request

\* What is not free is a request.
LEMMA Asked ==
  ASSUME TypeOK, NEW s \in Slots
  PROVE  /\ reqs[s] \in Request \cup {Free}
         /\ reqs[s].op \in Ops => reqs[s] \in Request
<1>1. reqs[s] \in Request \cup {Free}
  BY DEF TypeOK, Request
<1>2. "Free" \notin Ops
  BY DEF Ops
<1> QED BY <1>1, <1>2 DEF Free

\* One slot changes.
LEMMA Filled ==
  ASSUME TypeOK, NEW s \in Slots, NEW q \in Request \cup {Free},
         q.op = "INSTER" => q.row \in Row,
         reqs' = [reqs EXCEPT ![s] = q]
  PROVE  /\ reqs' \in [Slots -> Request \cup {Free}]
         /\ \A t \in Slots : reqs'[t].op = "INSTER" => reqs'[t].row \in Row
         /\ reqs'[s] = q
         /\ \A t \in Slots \ {s} : reqs'[t] = reqs[t]
<1>1. reqs \in [Slots -> Request \cup {Free}]
  BY DEF TypeOK, Request
<1>2. \A t \in Slots : reqs[t].op = "INSTER" => reqs[t].row \in Row
  BY DEF TypeOK
<1> QED BY <1>1, <1>2

\* The types of all that is not in the network.
Rest ==
  /\ account \in [Phones -> Accounts]
  /\ rows \in [Accounts -> [Row -> 0..MaxRows]]
  /\ input \in [Phones -> Row]
  /\ shown \in [Phones -> Num \cup {None}]
  /\ dev \in [Phones -> Row \cup {NoRow}]
  /\ dev_st \in [Phones -> {None, 0, 1}]
  /\ checked \in [Phones -> BOOLEAN]
  /\ widget \in [Phones -> BOOLEAN]
  /\ obeyed \in [on : BOOLEAN, by : Phones \cup {None}]
  /\ asked \in 0..MaxRequests
  /\ calm \in [Accounts -> BOOLEAN]
  /\ scanned \subseteq Accounts
  /\ entered \in [Accounts -> SUBSET Row]
  /\ wished \in [Accounts -> SUBSET Row]

Sent ==
  /\ reqs \in [Slots -> Request \cup {Free}]
  /\ \A s \in Slots : reqs[s].op = "INSTER" => reqs[s].row \in Row

LEMMA Split == TypeOK <=> Rest /\ Sent
  BY DEF TypeOK, Rest, Sent, Request

\* What each action puts into its slot.
Put(s, q) == /\ q \in Request \cup {Free}
             /\ q.op = "INSTER" => q.row \in Row
             /\ reqs' = [reqs EXCEPT ![s] = q]

LEMMA FreePut == Free \in Request \cup {Free} /\ Free.op # "INSTER"
  BY DEF Free

LEMMA NewPut ==
  ASSUME TypeOK, NEW s \in Slots, NEW p \in Phones, NEW op \in Ops, NEW on \in BOOLEAN,
         NEW row \in [num : Num \cup {None}, key : Num \cup {None}],
         op = "INSTER" => row \in Row,
         reqs' = [reqs EXCEPT ![s] = New(p, op, row, on)]
  PROVE  Put(s, New(p, op, row, on))
<1>1. New(p, op, row, on) \in Request
  BY NewTypes
<1>2. New(p, op, row, on).op = op /\ New(p, op, row, on).row = row
  BY DEF New
<1> QED BY <1>1, <1>2 DEF Put

Answer2(s, r) == [reqs[s] EXCEPT !.answered = TRUE, !.data = r]
Answer1(s)    == [reqs[s] EXCEPT !.answered = TRUE]

LEMMA AnswerPut ==
  ASSUME TypeOK, NEW s \in Slots, NEW r \in Row \cup {NoRow}, reqs[s].op \in Ops
  PROVE  /\ reqs' = [reqs EXCEPT ![s].answered = TRUE, ![s].data = r] => Put(s, Answer2(s, r))
         /\ reqs' = [reqs EXCEPT ![s].answered = TRUE] => Put(s, Answer1(s))
<1>1. reqs[s] \in Request
  BY Asked
<1>2. reqs \in [Slots -> Request \cup {Free}] /\ (reqs[s].op = "INSTER" => reqs[s].row \in Row)
  BY DEF TypeOK, Request
<1>3. Answer2(s, r) \in Request /\ Answer2(s, r).op = reqs[s].op /\ Answer2(s, r).row = reqs[s].row
  BY <1>1 DEF Answer2, Request
<1>4. Answer1(s) \in Request /\ Answer1(s).op = reqs[s].op /\ Answer1(s).row = reqs[s].row
  BY <1>1 DEF Answer1, Request
<1>5. [reqs EXCEPT ![s].answered = TRUE, ![s].data = r] = [reqs EXCEPT ![s] = Answer2(s, r)]
  BY <1>2 DEF Answer2
<1>6. [reqs EXCEPT ![s].answered = TRUE] = [reqs EXCEPT ![s] = Answer1(s)]
  BY <1>2 DEF Answer1
<1> QED BY <1>2, <1>3, <1>4, <1>5, <1>6 DEF Put
-----------------------------------------------------------------------------
\* The calm of one account ends when its requests meet, or one of them fails.
LEMMA Meets ==
  ASSUME TypeOK, NEW a \in Accounts,
         calm' = [calm EXCEPT ![a] = @ /\ InFlight(a) = {}]
  PROVE  /\ calm' \in [Accounts -> BOOLEAN]
         /\ \A b \in Accounts : calm'[b] => calm[b]
         /\ calm'[a] => InFlight(a) = {}
  BY DEF TypeOK

LEMMA Fails ==
  ASSUME TypeOK, NEW a \in Accounts, calm' = [calm EXCEPT ![a] = FALSE]
  PROVE  /\ calm' \in [Accounts -> BOOLEAN]
         /\ \A b \in Accounts : calm'[b] => calm[b]
         /\ ~calm'[a]
  BY DEF TypeOK

LEMMA Asks ==
  ASSUME TypeOK, NEW s \in Slots, NEW p \in Phones, NEW op \in Ops, NEW on \in BOOLEAN,
         NEW row \in [num : Num \cup {None}, key : Num \cup {None}], op # "INSTER",
         Ask(s, p, New(p, op, row, on))
  PROVE  /\ Put(s, New(p, op, row, on))
         /\ asked' \in 0..MaxRequests
         /\ calm' \in [Accounts -> BOOLEAN]
         /\ \A b \in Accounts : calm'[b] => calm[b]
         /\ calm'[account[p]] => InFlight(account[p]) = {}
         /\ reqs[s] = Free
<1>1. /\ reqs' = [reqs EXCEPT ![s] = New(p, op, row, on)]
      /\ asked < MaxRequests /\ asked' = asked + 1
      /\ calm' = [calm EXCEPT ![account[p]] = @ /\ InFlight(account[p]) = {}]
      /\ reqs[s] = Free
  BY DEF Ask
<1>2. Put(s, New(p, op, row, on))
  BY <1>1, NewPut
<1>3. account[p] \in Accounts
  BY DEF TypeOK
<1>4. asked' \in 0..MaxRequests
  BY <1>1, RegistryAssumption DEF TypeOK
<1> QED BY <1>1, <1>2, <1>3, <1>4, Meets

LEMMA EnterTypes ==
  ASSUME TypeOK, NEW p \in Phones, NEW r \in Row, Enter(p, r)
  PROVE  /\ input' \in [Phones -> Row]
         /\ entered' \in [Accounts -> SUBSET Row]
         /\ input'[p] = r /\ \A q \in Phones \ {p} : input'[q] = input[q]
         /\ r \in entered'[account[p]]
         /\ \A a \in Accounts : entered[a] \subseteq entered'[a]
  BY DEF TypeOK, Enter

LEMMA WishTypes ==
  ASSUME TypeOK, NEW p \in Phones, NEW r \in Row, Wish(p, r)
  PROVE  /\ wished' \in [Accounts -> SUBSET Row]
         /\ r \in wished'[account[p]]
         /\ \A a \in Accounts : wished[a] \subseteq wished'[a]
         /\ \A a \in Accounts : wished'[a] \subseteq wished[a] \cup {r}
         /\ \A a \in Accounts \ {account[p]} : wished'[a] = wished[a]
  BY DEF TypeOK, Wish

\* The database adds a row or deletes some.
LEMMA Executed ==
  ASSUME TypeOK, NEW s \in Slots, NEW r \in Row \cup {NoRow}, recv_data(s, r)
  PROVE  /\ rows' \in [Accounts -> [Row -> 0..MaxRows]]
         /\ Put(s, Answer2(s, r))
         /\ reqs[s] \in Request /\ reqs[s].by \in Phones /\ account[reqs[s].by] \in Accounts
<1> DEFINE q == reqs[s]  a == account[q.by]
<1>1. q.op \in Ops
  BY DEF recv_data
<1>2. q \in Request /\ q.by \in Phones /\ a \in Accounts
  BY <1>1, Asked DEF TypeOK, Request
<1>3. reqs' = [reqs EXCEPT ![s].answered = TRUE, ![s].data = r]
  BY DEF recv_data
<1>4. Put(s, Answer2(s, r))
  BY <1>1, <1>3, AnswerPut
<1>5. CASE rows' = rows
  BY <1>2, <1>4, <1>5 DEF TypeOK
<1>6. CASE q.op = "INSTER" /\ rows[a][q.row] < MaxRows
           /\ rows' = [rows EXCEPT ![a][q.row] = @ + 1]
  <2>1. q.row \in Row
    BY <1>6 DEF TypeOK
  <2>2. rows[a][q.row] + 1 \in 0..MaxRows
    BY <1>2, <1>6, <2>1, RegistryAssumption DEF TypeOK
  <2> QED BY <1>2, <1>4, <1>6, <2>1, <2>2 DEF TypeOK
<1>7. CASE rows' = [rows EXCEPT ![a] = [x \in Row |-> IF x.num = q.row.num THEN 0 ELSE @[x]]]
  <2>1. [x \in Row |-> IF x.num = q.row.num THEN 0 ELSE rows[a][x]] \in [Row -> 0..MaxRows]
    BY <1>2, RegistryAssumption DEF TypeOK
  <2> QED BY <1>2, <1>4, <1>7, <2>1 DEF TypeOK
<1> QED BY <1>5, <1>6, <1>7 DEF recv_data
-----------------------------------------------------------------------------
LEMMA PutSent == ASSUME TypeOK, NEW s \in Slots, NEW q, Put(s, q) PROVE Sent'
<1>1. q \in Request \cup {Free} /\ (q.op = "INSTER" => q.row \in Row)
      /\ reqs' = [reqs EXCEPT ![s] = q]
  BY DEF Put
<1>2. /\ reqs' \in [Slots -> Request \cup {Free}]
      /\ \A t \in Slots : reqs'[t].op = "INSTER" => reqs'[t].row \in Row
  BY <1>1, Filled
<1> QED BY <1>2 DEF Sent

\* The switch moves; a command goes out, or the calm ends.
LEMMA Taps ==
  ASSUME TypeOK, NEW s \in Slots, NEW p \in Phones, switch2Change(s, p)
  PROVE  /\ widget' \in [Phones -> BOOLEAN] /\ widget'[p] = ~widget[p]
         /\ \A q \in Phones \ {p} : widget'[q] = widget[q]
         /\ UNCHANGED <<account, rows, input, shown, dev, dev_st, checked, obeyed, told>>
         /\ \/ /\ UNCHANGED <<reqs, asked>> /\ ~calm'[account[p]]
               /\ calm' \in [Accounts -> BOOLEAN] /\ \A b \in Accounts : calm'[b] => calm[b]
            \/ Ask(s, p, New(p, "Switch", dev[p], widget'[p]))
<1>1. account[p] \in Accounts /\ widget \in [Phones -> BOOLEAN]
  BY DEF TypeOK
<1>2. widget' = [widget EXCEPT ![p] = ~@]
  BY DEF switch2Change
<1>3. /\ widget' \in [Phones -> BOOLEAN] /\ widget'[p] = ~widget[p]
      /\ \A q \in Phones \ {p} : widget'[q] = widget[q]
  BY <1>1, <1>2
<1>4. CASE Dev_able(p)
  BY <1>3, <1>4 DEF switch2Change
<1>5. CASE ~Dev_able(p)
  <2>1. calm' = [calm EXCEPT ![account[p]] = FALSE] /\ UNCHANGED <<reqs, asked>>
    BY <1>5 DEF switch2Change
  <2>2. /\ calm' \in [Accounts -> BOOLEAN] /\ ~calm'[account[p]]
        /\ \A b \in Accounts : calm'[b] => calm[b]
    BY <1>1, <2>1, Fails
  <2> QED BY <1>3, <2>1, <2>2 DEF switch2Change
<1> QED BY <1>4, <1>5

\* A user's step keeps an account calm only if none of its requests is out.
LEMMA UserCalm ==
  ASSUME TypeOK, NEW s \in Slots, NEW p \in Phones, User(s, p)
  PROVE  /\ \A b \in Accounts : calm'[b] => calm[b]
         /\ calm'[account[p]] => InFlight(account[p]) = {}
<1>1. account[p] \in Accounts
  BY DEF TypeOK
<1>2. ASSUME NEW r, Ask(s, p, r)
      PROVE  calm' = [calm EXCEPT ![account[p]] = @ /\ InFlight(account[p]) = {}]
  BY <1>2 DEF Ask
<1>3. CASE switch2Change(s, p)
  BY <1>1, <1>2, <1>3, Taps, Meets
<1>4. CASE ~switch2Change(s, p)
  <2>1. calm' = [calm EXCEPT ![account[p]] = @ /\ InFlight(account[p]) = {}]
    BY <1>4 DEF User, input_ID, input_Key, Add_dev, Scan_dev, get_dev, Del_dev, get_Devinfo,
                send_data, Ask
  <2> QED BY <1>1, <2>1, Meets
<1> QED BY <1>3, <1>4

\* What the pages ask is well typed.
LEMMA UserTypes ==
  ASSUME TypeOK, NEW s \in Slots, NEW p \in Phones, User(s, p)
  PROVE  TypeOK'
<1>0. /\ Rest /\ Sent /\ account[p] \in Accounts /\ input[p] \in Row
      /\ {"AddCheck", "ScanCheck", "Show", "DEL", "Info", "Switch"} \subseteq Ops
      /\ NoRow \in [num : Num \cup {None}, key : Num \cup {None}]
      /\ Devices \subseteq Num
  BY Split, NoRowTypes DEF TypeOK, Ops, Num
<1>1. ASSUME NEW d \in Devices, input_ID(p, d) \/ input_Key(p, d) PROVE TypeOK'
  <2>1. PICK r \in Row : Enter(p, r)
    <3>1. [input[p] EXCEPT !.num = d] \in Row /\ [input[p] EXCEPT !.key = d] \in Row
      BY <1>0 DEF Row
    <3> QED BY <1>1, <3>1 DEF input_ID, input_Key
  <2>2. calm' = [calm EXCEPT ![account[p]] = @ /\ InFlight(account[p]) = {}]
    BY <1>1 DEF input_ID, input_Key
  <2>3. calm' \in [Accounts -> BOOLEAN]
    BY <1>0, <2>2, Meets
  <2>4. input' \in [Phones -> Row] /\ entered' \in [Accounts -> SUBSET Row]
    BY <2>1, EnterTypes
  <2>5. UNCHANGED <<account, rows, reqs, shown, dev, dev_st, checked, widget, obeyed, asked,
                    scanned, wished>>
    BY <1>1 DEF input_ID, input_Key
  <2>6. Rest' /\ Sent'
    BY <1>0, <2>3, <2>4, <2>5 DEF Rest, Sent
  <2> QED BY <2>6, Split, PTL
<1>2. ASSUME NEW d \in Devices, Scan_dev(s, p, d) PROVE TypeOK'
  <2>1. [num |-> d, key |-> d] \in Row
    BY <1>0 DEF Row
  <2>2. Enter(p, [num |-> d, key |-> d]) /\ Wish(p, [num |-> d, key |-> d])
        /\ Ask(s, p, New(p, "ScanCheck", NoRow, FALSE))
    BY <1>2 DEF Scan_dev
  <2>3. input' \in [Phones -> Row] /\ entered' \in [Accounts -> SUBSET Row]
    BY <2>1, <2>2, EnterTypes
  <2>4. wished' \in [Accounts -> SUBSET Row]
    BY <2>1, <2>2, WishTypes
  <2>5. Put(s, New(p, "ScanCheck", NoRow, FALSE)) /\ asked' \in 0..MaxRequests
        /\ calm' \in [Accounts -> BOOLEAN]
    BY <1>0, <2>2, Asks
  <2>6. scanned' = scanned \cup {account[p]}
        /\ UNCHANGED <<account, rows, shown, dev, dev_st, checked, widget, obeyed>>
    BY <1>2 DEF Scan_dev
  <2>7. Rest'
    BY <1>0, <2>3, <2>4, <2>5, <2>6 DEF Rest
  <2>8. Sent'
    BY <2>5, PutSent
  <2> QED BY <2>7, <2>8, Split, PTL
<1>3. CASE Add_dev(s, p)
  <2>1. Ask(s, p, New(p, "AddCheck", NoRow, FALSE)) /\ Wish(p, input[p])
    BY <1>3 DEF Add_dev
  <2>2. wished' \in [Accounts -> SUBSET Row]
    BY <1>0, <2>1, WishTypes
  <2>3. Put(s, New(p, "AddCheck", NoRow, FALSE)) /\ asked' \in 0..MaxRequests
        /\ calm' \in [Accounts -> BOOLEAN]
    BY <1>0, <2>1, Asks
  <2>4. Rest'
    BY <1>0, <1>3, <2>2, <2>3 DEF Rest, Add_dev, pages
  <2>5. Sent'
    BY <2>3, PutSent
  <2> QED BY <2>4, <2>5, Split, PTL
<1>4. ASSUME NEW op \in {"Show", "DEL", "Info", "Switch"}, NEW on \in BOOLEAN,
             NEW row \in [num : Num \cup {None}, key : Num \cup {None}],
             Ask(s, p, New(p, op, row, on)),
             UNCHANGED <<account, rows, pages, obeyed, told>>
      PROVE  TypeOK'
  <2>1. op \in Ops /\ op # "INSTER"
    BY DEF Ops
  <2>2. Put(s, New(p, op, row, on)) /\ asked' \in 0..MaxRequests
        /\ calm' \in [Accounts -> BOOLEAN]
    BY <1>4, <2>1, Asks
  <2>3. Rest'
    BY <1>0, <1>4, <2>2 DEF Rest, pages, told
  <2>4. Sent'
    BY <2>2, PutSent
  <2> QED BY <2>3, <2>4, Split, PTL
<1>5. CASE get_dev(s, p)
  BY <1>0, <1>4, <1>5 DEF get_dev
<1>6. CASE Del_dev(s, p)
  <2>1. [num |-> shown[p], key |-> None] \in [num : Num \cup {None}, key : Num \cup {None}]
    BY <1>0 DEF Rest
  <2> QED BY <1>4, <1>6, <2>1 DEF Del_dev
<1>7. CASE get_Devinfo(s, p)
  BY <1>0, <1>4, <1>7 DEF get_Devinfo
<1>8. ASSUME NEW v \in BOOLEAN, send_data(s, p, v) PROVE TypeOK'
  <2>1. dev[p] \in [num : Num \cup {None}, key : Num \cup {None}]
    BY <1>0, RowTypes DEF Rest
  <2> QED BY <1>4, <1>8, <2>1 DEF send_data
<1>9. CASE switch2Change(s, p)
  <2>1. /\ widget' \in [Phones -> BOOLEAN]
        /\ UNCHANGED <<account, rows, input, shown, dev, dev_st, checked, obeyed, told>>
    BY <1>9, Taps
  <2>2. asked' \in 0..MaxRequests /\ calm' \in [Accounts -> BOOLEAN] /\ Sent'
    <3>1. CASE UNCHANGED <<reqs, asked>> /\ calm' \in [Accounts -> BOOLEAN]
      BY <1>0, <3>1 DEF Rest, Sent
    <3>2. CASE Ask(s, p, New(p, "Switch", dev[p], widget'[p]))
      <4>1. dev[p] \in [num : Num \cup {None}, key : Num \cup {None}]
            /\ "Switch" \in Ops /\ "Switch" # "INSTER" /\ widget'[p] \in BOOLEAN
        BY <1>0, <2>1, RowTypes DEF Rest, Ops
      <4>2. Put(s, New(p, "Switch", dev[p], widget'[p])) /\ asked' \in 0..MaxRequests
            /\ calm' \in [Accounts -> BOOLEAN]
        BY <3>2, <4>1, Asks
      <4> QED BY <4>2, PutSent
    <3> QED BY <1>9, <3>1, <3>2, Taps
  <2>3. Rest'
    BY <1>0, <2>1, <2>2 DEF Rest, told
  <2> QED BY <2>2, <2>3, Split, PTL
<1> QED BY <1>1, <1>2, <1>3, <1>5, <1>6, <1>7, <1>8, <1>9 DEF User

\* So is what the server and the cloud do, and every failure.
LEMMA NetworkTypes ==
  ASSUME TypeOK, NEW s \in Slots, Network(s)
  PROVE  TypeOK'
<1>0. Rest /\ Sent
  BY Split
<1>1. ASSUME NEW r \in Row \cup {NoRow}, recv_data(s, r) PROVE TypeOK'
  <2>1. rows' \in [Accounts -> [Row -> 0..MaxRows]] /\ Put(s, Answer2(s, r))
    BY <1>1, Executed
  <2>2. Rest'
    BY <1>0, <1>1, <2>1 DEF Rest, recv_data, pages, world, told
  <2>3. Sent'
    BY <2>1, PutSent
  <2> QED BY <2>2, <2>3, Split, PTL
<1>2. ASSUME reqs[s].op \in Ops, reqs' = [reqs EXCEPT ![s].answered = TRUE]
      PROVE  Sent'
  <2>1. NoRow \in Row \cup {NoRow}
    OBVIOUS
  <2>2. Put(s, Answer1(s))
    BY <1>2, <2>1, AnswerPut
  <2> QED BY <2>2, PutSent
<1>3. CASE heclouds(s)
  <2>1. reqs[s].op \in Ops
    BY <1>3 DEF heclouds, Ops
  <2>2. reqs[s] \in Request
    BY <2>1, Asked
  <2>3. [on |-> reqs[s].on, by |-> reqs[s].by] \in [on : BOOLEAN, by : Phones \cup {None}]
    BY <2>2 DEF Request
  <2>4. Rest'
    BY <1>0, <1>3, <2>3 DEF Rest, heclouds, pages, told
  <2>5. Sent'
    BY <1>2, <1>3, <2>1 DEF heclouds
  <2> QED BY <2>4, <2>5, Split, PTL
<1>4. CASE Refused(s)
  <2>1. reqs[s].op \in Ops
    BY <1>4 DEF Refused, Ops
  <2>2. account[reqs[s].by] \in Accounts
    BY <2>1, Asked DEF TypeOK, Request
  <2>3. calm' \in [Accounts -> BOOLEAN]
    BY <1>4, <2>2, Fails DEF Refused
  <2>4. Rest'
    BY <1>0, <1>4, <2>3 DEF Rest, Refused, pages, world, told
  <2>5. Sent'
    BY <1>2, <1>4, <2>1 DEF Refused
  <2> QED BY <2>4, <2>5, Split, PTL
<1>5. CASE Lost(s)
  <2>1. account[reqs[s].by] \in Accounts
    BY <1>5, Asked DEF TypeOK, Request, Lost
  <2>2. calm' \in [Accounts -> BOOLEAN]
    BY <1>5, <2>1, Fails DEF Lost
  <2>3. Rest'
    BY <1>0, <1>5, <2>2 DEF Rest, Lost, pages, world, told
  <2>4. Put(s, Free)
    BY <1>5, FreePut DEF Lost, Put
  <2>5. Sent'
    BY <2>4, PutSent
  <2> QED BY <2>3, <2>5, Split, PTL
<1> QED BY <1>1, <1>3, <1>4, <1>5 DEF Network

\* And what the pages make of an answer: each leaves a free slot or one more
\* request of the same phone.
LEMMA AnswerTypes ==
  ASSUME TypeOK, NEW s \in Slots, Answer(s)
  PROVE  /\ TypeOK'
         /\ reqs[s] \in Request /\ reqs[s].by \in Phones /\ reqs[s].answered
         /\ \/ Put(s, Free)
            \/ Put(s, New(reqs[s].by, "INSTER", input[reqs[s].by], FALSE))
            \/ Put(s, New(reqs[s].by, "Show", NoRow, FALSE))
<1>0. Rest /\ Sent
  BY Split
<1>1. reqs[s].op \in Ops /\ reqs[s].answered
  BY DEF Answer, AddAnswered, ScanAnswered, InsertAnswered, ShowAnswered, DeleteAnswered,
         InfoAnswered, SwitchAnswered, Answered, Ops
<1>2. reqs[s] \in Request /\ reqs[s].by \in Phones
  BY <1>1, Asked DEF Request
<1>3. reqs[s].data \in Row \cup {NoRow} /\ reqs[s].on \in BOOLEAN
  BY <1>2 DEF Request
<1>4. reqs[s].data.num \in Num \cup {None}
  BY <1>3 DEF Row, NoRow
<1>5. input[reqs[s].by] \in Row
  BY <1>0, <1>2 DEF Rest
<1>6. Close(s) => Put(s, Free)
  BY FreePut DEF Close, Put
<1>7. Insert(s, reqs[s].by) => Put(s, New(reqs[s].by, "INSTER", input[reqs[s].by], FALSE))
  <2>1. input[reqs[s].by] \in [num : Num \cup {None}, key : Num \cup {None}]
    BY <1>5, RowTypes
  <2>2. "INSTER" \in Ops
    BY DEF Ops
  <2> QED BY <1>2, <1>5, <2>1, <2>2, NewPut DEF Insert
<1>8. reqs' = [reqs EXCEPT ![s] = New(reqs[s].by, "Show", NoRow, FALSE)]
        => Put(s, New(reqs[s].by, "Show", NoRow, FALSE))
  <2>1. "Show" \in Ops /\ "Show" # "INSTER"
    BY DEF Ops
  <2> QED BY <1>2, <2>1, NoRowTypes, NewPut
<1>9. \/ Put(s, Free)
      \/ Put(s, New(reqs[s].by, "INSTER", input[reqs[s].by], FALSE))
      \/ Put(s, New(reqs[s].by, "Show", NoRow, FALSE))
  BY <1>6, <1>7, <1>8 DEF Answer, AddAnswered, ScanAnswered, InsertAnswered, ShowAnswered,
                          DeleteAnswered, InfoAnswered, SwitchAnswered
<1>10. Sent'
  BY <1>9, PutSent
<1>11. Rest'
  <2>1. CASE ShowAnswered(s)
    BY <1>0, <1>2, <1>4, <2>1 DEF Rest, ShowAnswered, world, told
  <2>2. CASE InfoAnswered(s)
    BY <1>0, <1>2, <1>3, <2>2 DEF Rest, InfoAnswered, world, told
  <2>3. CASE SwitchAnswered(s)
    <3>1. widget' \in [Phones -> BOOLEAN]
      BY <1>0, <1>2, <1>3, <2>3 DEF Rest, SwitchAnswered, Moves
    <3> QED BY <1>0, <1>2, <1>3, <2>3, <3>1 DEF Rest, SwitchAnswered, world, told
  <2>4. CASE AddAnswered(s) \/ ScanAnswered(s) \/ InsertAnswered(s) \/ DeleteAnswered(s)
    <3>1. UNCHANGED <<account, rows, pages, world, calm, told>>
      BY <2>4 DEF AddAnswered, ScanAnswered, InsertAnswered, DeleteAnswered
    <3> QED BY <1>0, <3>1 DEF Rest, pages, world, told
  <2> QED BY <2>1, <2>2, <2>3, <2>4 DEF Answer
<1>12. TypeOK'
  BY <1>10, <1>11, Split, PTL
<1> QED BY <1>1, <1>2, <1>9, <1>12

LEMMA TypeStep == ASSUME TypeOK, [Next]_vars PROVE TypeOK'
<1>1. CASE UNCHANGED vars
  BY <1>1 DEF TypeOK, vars
<1>2. CASE Next
  BY <1>2, UserTypes, NetworkTypes, AnswerTypes DEF Next
<1> QED BY <1>1, <1>2
-----------------------------------------------------------------------------
(* Only devices of one's own *)

\* What a button was pressed for stood in the fields.
Wishes == \A a \in Accounts : wished[a] \subseteq entered[a]

\* What stands in the fields was entered; while a check is out, it is what the
\* button was pressed for, or the account is not calm.
Fields ==
  /\ \A p \in Phones : input[p] \in entered[account[p]]
  /\ \A s \in Slots : reqs[s].op \in {"AddCheck", "ScanCheck"} =>
       input[reqs[s].by] \in Known(account[reqs[s].by])

\* A request carries and brings rows of a set K only.
Within(q, K) == /\ q.data \in K \cup {NoRow}
                /\ q.op \in {"INSTER", "Switch"} => q.row \in K \cup {NoRow}

OwnTable == \A a \in Accounts : Present(a) \subseteq Known(a)
OwnPages == \A p \in Phones : /\ dev[p] \in Known(account[p]) \cup {NoRow}
                              /\ shown[p] \in {r.num : r \in Known(account[p])} \cup {None}
OwnSent  == \A s \in Slots : reqs[s].by \in Phones =>
              Within(reqs[s], Known(account[reqs[s].by]))

LEMMA OwnParts == OwnDevicesOnly <=> OwnTable /\ OwnPages /\ OwnSent
  BY DEF OwnDevicesOnly, OwnTable, OwnPages, OwnSent, Within

OwnInv == TypeOK /\ Wishes /\ Fields /\ OwnDevicesOnly

\* What is known of account a after a step.
KnownNext(a) == IF calm'[a] THEN wished'[a] ELSE entered'[a]

\* Calm ends, the other histories grow, and what stood there stays known.
LEMMA KnownGrows ==
  ASSUME TypeOK, Wishes, Fields, Next
  PROVE  /\ account' = account /\ Wishes'
         /\ \A a \in Accounts : (calm'[a] => calm[a]) /\ Known(a) \subseteq KnownNext(a)
<1>1. ASSUME account' = account,
             \A a \in Accounts : calm'[a] => calm[a],
             \A a \in Accounts : entered[a] \subseteq entered'[a],
             \A a \in Accounts : wished[a] \subseteq wished'[a],
             \A a \in Accounts : wished'[a] \subseteq entered'[a]
      PROVE  /\ account' = account /\ Wishes'
             /\ \A a \in Accounts : (calm'[a] => calm[a]) /\ Known(a) \subseteq KnownNext(a)
  BY <1>1 DEF Wishes, Known, KnownNext
<1>2. ASSUME account' = account, calm' = calm, told' = told
      PROVE  /\ account' = account /\ Wishes'
             /\ \A a \in Accounts : (calm'[a] => calm[a]) /\ Known(a) \subseteq KnownNext(a)
  BY <1>2 DEF Wishes, Known, KnownNext, told
<1>3. ASSUME account' = account, \A a \in Accounts : calm'[a] => calm[a], told' = told
      PROVE  /\ account' = account /\ Wishes'
             /\ \A a \in Accounts : (calm'[a] => calm[a]) /\ Known(a) \subseteq KnownNext(a)
  BY <1>3, <1>1 DEF Wishes, told
<1>4. PICK s \in Slots : Network(s) \/ Answer(s) \/ \E p \in Phones : User(s, p)
  BY DEF Next
<1>5. CASE Answer(s)
  <2>1. account' = account /\ calm' = calm /\ told' = told
    BY <1>5 DEF Answer, AddAnswered, ScanAnswered, InsertAnswered, ShowAnswered,
                DeleteAnswered, InfoAnswered, SwitchAnswered, table, told
  <2> QED BY <1>2, <2>1
<1>6. CASE Network(s)
  <2>1. CASE heclouds(s) \/ \E r \in Row \cup {NoRow} : recv_data(s, r)
    <3>1. account' = account /\ calm' = calm /\ told' = told
      BY <2>1 DEF heclouds, recv_data, told
    <3> QED BY <1>2, <3>1
  <2>2. CASE Refused(s) \/ Lost(s)
    <3>1. account' = account /\ told' = told
          /\ calm' = [calm EXCEPT ![account[reqs[s].by]] = FALSE]
      BY <2>2 DEF Refused, Lost, told
    <3>2. reqs[s].op \in Ops \/ reqs[s] # Free
      BY <2>2 DEF Refused, Lost, Ops
    <3>3. account[reqs[s].by] \in Accounts
      BY <3>2, Asked DEF TypeOK, Request
    <3>4. \A a \in Accounts : calm'[a] => calm[a]
      BY <3>1, <3>3, Fails
    <3> QED BY <1>3, <3>1, <3>4
  <2> QED BY <1>6, <2>1, <2>2 DEF Network
<1>7. ASSUME NEW p \in Phones, User(s, p)
      PROVE  /\ account' = account /\ Wishes'
             /\ \A a \in Accounts : (calm'[a] => calm[a]) /\ Known(a) \subseteq KnownNext(a)
  <2>0. account[p] \in Accounts /\ input[p] \in Row
    BY DEF TypeOK
  <2>1. account' = account
    BY <1>7 DEF User, input_ID, input_Key, Add_dev, Scan_dev, get_dev, Del_dev, get_Devinfo,
                send_data, switch2Change
  <2>3. \A a \in Accounts : calm'[a] => calm[a]
    BY <1>7, UserCalm
  <2>4. ASSUME NEW r \in Row, Enter(p, r), wished' = wished
        PROVE  \A a \in Accounts : /\ entered[a] \subseteq entered'[a]
                                   /\ wished[a] \subseteq wished'[a]
                                   /\ wished'[a] \subseteq entered'[a]
    BY <2>4, EnterTypes DEF Wishes
  <2>5. CASE \E d \in Devices : input_ID(p, d) \/ input_Key(p, d)
    <3>1. PICK d \in Devices : input_ID(p, d) \/ input_Key(p, d)
      BY <2>5
    <3>2. [input[p] EXCEPT !.num = d] \in Row /\ [input[p] EXCEPT !.key = d] \in Row
      BY <2>0 DEF Row, Num
    <3>3. wished' = wished /\ \E r \in Row : Enter(p, r)
      BY <3>1, <3>2 DEF input_ID, input_Key
    <3> QED BY <1>1, <2>1, <2>3, <2>4, <3>3
  <2>6. CASE \E d \in Devices : Scan_dev(s, p, d)
    <3>1. PICK d \in Devices : Scan_dev(s, p, d)
      BY <2>6
    <3>2. [num |-> d, key |-> d] \in Row
      BY DEF Row, Num
    <3>3. Enter(p, [num |-> d, key |-> d]) /\ Wish(p, [num |-> d, key |-> d])
      BY <3>1 DEF Scan_dev
    <3>4. \A a \in Accounts : entered[a] \subseteq entered'[a]
          /\ wished[a] \subseteq wished'[a] /\ wished'[a] \subseteq entered'[a]
      BY <3>2, <3>3, EnterTypes, WishTypes DEF Wishes
    <3> QED BY <1>1, <2>1, <2>3, <3>4
  <2>7. CASE Add_dev(s, p)
    <3>1. Wish(p, input[p]) /\ entered' = entered
      BY <2>7 DEF Add_dev
    <3>2. input[p] \in entered[account[p]]
      BY DEF Fields
    <3>3. \A a \in Accounts : wished[a] \subseteq wished'[a] /\ wished'[a] \subseteq entered'[a]
      BY <2>0, <3>1, <3>2, WishTypes DEF Wishes
    <3> QED BY <1>1, <2>1, <2>3, <3>1, <3>3
  <2>8. CASE get_dev(s, p) \/ Del_dev(s, p) \/ get_Devinfo(s, p)
             \/ (\E v \in BOOLEAN : send_data(s, p, v)) \/ switch2Change(s, p)
    <3>1. told' = told
      BY <2>8 DEF get_dev, Del_dev, get_Devinfo, send_data, switch2Change
    <3> QED BY <1>3, <2>1, <2>3, <3>1
  <2> QED BY <1>7, <2>5, <2>6, <2>7, <2>8 DEF User
<1> QED BY <1>4, <1>5, <1>6, <1>7

\* One request changes: the others stay within a set that grew.
LEMMA OwnSentStep ==
  ASSUME TypeOK, OwnSent, NEW s \in Slots, NEW q, Put(s, q), account' = account,
         \A a \in Accounts : Known(a) \subseteq KnownNext(a),
         q.by \in Phones => Within(q, KnownNext(account[q.by]))
  PROVE  OwnSent'
<1>1. reqs'[s] = q /\ \A t \in Slots \ {s} : reqs'[t] = reqs[t]
  BY Filled DEF Put
<1>2. SUFFICES ASSUME NEW t \in Slots, reqs'[t].by \in Phones
               PROVE  Within(reqs'[t], KnownNext(account[reqs'[t].by]))
  BY DEF OwnSent, Within, Known, KnownNext
<1>3. CASE t = s
  BY <1>1, <1>2, <1>3
<1>4. CASE t # s
  <2>1. reqs'[t] = reqs[t] /\ reqs[t].by \in Phones
    BY <1>1, <1>2, <1>4
  <2>2. Within(reqs[t], Known(account[reqs[t].by]))
    BY <2>1 DEF OwnSent
  <2>3. Known(account[reqs[t].by]) \subseteq KnownNext(account[reqs[t].by])
    BY <2>1 DEF TypeOK
  <2> QED BY <2>1, <2>2, <2>3 DEF Within
<1> QED BY <1>3, <1>4

LEMMA OwnUser ==
  ASSUME OwnInv, NEW s \in Slots, NEW p \in Phones, User(s, p), account' = account, Wishes',
         TypeOK', \A a \in Accounts : (calm'[a] => calm[a]) /\ Known(a) \subseteq KnownNext(a)
  PROVE  Fields' /\ OwnDevicesOnly'
<1>0. /\ TypeOK /\ Wishes /\ Fields /\ OwnTable /\ OwnPages /\ OwnSent
      /\ account[p] \in Accounts /\ input[p] \in Row
  BY OwnParts DEF OwnInv, TypeOK
<1>1. rows' = rows /\ dev' = dev /\ shown' = shown
  BY DEF User, input_ID, input_Key, Add_dev, Scan_dev, get_dev, Del_dev, get_Devinfo,
         send_data, switch2Change, pages
<1>2. OwnTable'
  BY <1>0, <1>1 DEF OwnTable, Present, Known, KnownNext
<1>3. OwnPages'
  <2> SUFFICES ASSUME NEW x \in Phones
               PROVE  /\ dev[x] \in KnownNext(account[x]) \cup {NoRow}
                      /\ shown[x] \in {r.num : r \in KnownNext(account[x])} \cup {None}
    BY <1>1 DEF OwnPages, Known, KnownNext
  <2>1. Known(account[x]) \subseteq KnownNext(account[x])
    BY <1>0 DEF TypeOK
  <2> QED BY <1>0, <2>1 DEF OwnPages
<1>4. calm'[account[p]] => InFlight(account[p]) = {}
  BY <1>0, UserCalm
<1>5. \A x \in Phones : input'[x] \in entered'[account[x]]
  <2>1. CASE input' = input /\ \A a \in Accounts : entered[a] \subseteq entered'[a]
    BY <1>0, <2>1 DEF Fields, TypeOK
  <2>2. ASSUME NEW r \in Row, Enter(p, r) PROVE \A x \in Phones : input'[x] \in entered'[account[x]]
    BY <1>0, <2>2, EnterTypes DEF Fields, TypeOK
  <2>3. \A d \in Devices : /\ [input[p] EXCEPT !.num = d] \in Row
                           /\ [input[p] EXCEPT !.key = d] \in Row
                           /\ [num |-> d, key |-> d] \in Row
    BY <1>0 DEF Row, Num
  <2>4. \/ input' = input /\ entered' = entered
        \/ \E r \in Row : Enter(p, r)
    BY <2>3 DEF User, input_ID, input_Key, Add_dev, Scan_dev, get_dev, Del_dev, get_Devinfo,
                send_data, switch2Change, pages, told
  <2> QED BY <2>1, <2>2, <2>4
\* A check that was out when the fields changed ended the calm.
<1>6. ASSUME NEW t \in Slots, reqs[t].op \in {"AddCheck", "ScanCheck"}
      PROVE  input'[reqs[t].by] \in KnownNext(account[reqs[t].by])
  <2>1. reqs[t] \in Request /\ reqs[t] # Free /\ reqs[t].by \in Phones
    BY <1>0, <1>6, Asked DEF Ops, Free, Request
  <2>2. CASE account[reqs[t].by] = account[p]
    <3>1. t \in InFlight(account[p])
      BY <2>1, <2>2 DEF InFlight
    <3>2. ~calm'[account[p]]
      BY <1>4, <3>1
    <3> QED BY <1>5, <2>1, <2>2, <3>2 DEF Known, KnownNext
  <2>3. CASE account[reqs[t].by] # account[p]
    <3>1. reqs[t].by # p
      BY <2>3
    <3>2. input'[reqs[t].by] = input[reqs[t].by]
      BY <1>0, <2>1, <3>1 DEF User, input_ID, input_Key, Add_dev, Scan_dev, get_dev, Del_dev,
                  get_Devinfo, send_data, switch2Change, pages, Enter, TypeOK
    <3>3. input[reqs[t].by] \in Known(account[reqs[t].by])
      BY <1>0, <1>6 DEF Fields
    <3> QED BY <1>0, <2>1, <3>2, <3>3 DEF TypeOK
  <2> QED BY <2>2, <2>3
<1>7. ASSUME reqs' = reqs PROVE Fields' /\ OwnSent'
  <2>1. Fields'
    BY <1>5, <1>6, <1>7 DEF Fields, Known, KnownNext
  <2>2. OwnSent'
    <3> SUFFICES ASSUME NEW t \in Slots, reqs[t].by \in Phones
                 PROVE  Within(reqs[t], KnownNext(account[reqs[t].by]))
      BY <1>7 DEF OwnSent, Within, Known, KnownNext
    <3>1. Known(account[reqs[t].by]) \subseteq KnownNext(account[reqs[t].by])
      BY <1>0 DEF TypeOK
    <3> QED BY <1>0, <3>1 DEF OwnSent, Within
  <2> QED BY <2>1, <2>2
<1>8. ASSUME NEW op \in Ops \ {"INSTER"}, NEW on \in BOOLEAN,
             NEW row \in [num : Num \cup {None}, key : Num \cup {None}],
             Ask(s, p, New(p, op, row, on)),
             op = "Switch" => row = dev[p],
             op \in {"AddCheck", "ScanCheck"} => input'[p] \in KnownNext(account[p])
      PROVE  Fields' /\ OwnSent'
  <2> DEFINE q == New(p, op, row, on)
  <2>1. Put(s, q) /\ q.by = p /\ q.op = op /\ q.row = row /\ q.data = NoRow
    BY <1>0, <1>8, Asks DEF New
  <2>2. Within(q, KnownNext(account[q.by]))
    <3>1. dev[p] \in KnownNext(account[p]) \cup {NoRow}
      BY <1>0, <1>1, <1>3 DEF OwnPages, Known, KnownNext
    <3> QED BY <1>8, <2>1, <3>1 DEF Within
  <2>3. OwnSent'
    BY <1>0, <2>1, <2>2, OwnSentStep
  <2>4. reqs'[s] = q /\ \A t \in Slots \ {s} : reqs'[t] = reqs[t]
    BY <1>0, <2>1, Filled DEF Put
  <2>5. ASSUME NEW t \in Slots, reqs'[t].op \in {"AddCheck", "ScanCheck"}
        PROVE  input'[reqs'[t].by] \in KnownNext(account[reqs'[t].by])
    BY <1>6, <1>8, <2>1, <2>4, <2>5
  <2>6. Fields'
    BY <1>5, <2>5 DEF Fields, Known, KnownNext
  <2> QED BY <2>3, <2>6
<1>9. Fields' /\ OwnSent'
  <2>0. /\ {"AddCheck", "ScanCheck", "Show", "DEL", "Info", "Switch"} \subseteq Ops \ {"INSTER"}
        /\ NoRow \in [num : Num \cup {None}, key : Num \cup {None}]
    BY NoRowTypes DEF Ops
  <2>1. CASE \E d \in Devices : input_ID(p, d) \/ input_Key(p, d)
    BY <1>7, <2>1 DEF input_ID, input_Key
  <2>2. CASE \E d \in Devices : Scan_dev(s, p, d)
    <3>1. PICK d \in Devices : Scan_dev(s, p, d)
      BY <2>2
    <3>2. [num |-> d, key |-> d] \in Row
      BY DEF Row, Num
    <3>3. Enter(p, [num |-> d, key |-> d]) /\ Wish(p, [num |-> d, key |-> d])
          /\ Ask(s, p, New(p, "ScanCheck", NoRow, FALSE))
      BY <3>1 DEF Scan_dev
    <3>4. input'[p] = [num |-> d, key |-> d]
      BY <1>0, <3>2, <3>3, EnterTypes
    <3>5. input'[p] \in wished'[account[p]] /\ input'[p] \in entered'[account[p]]
      BY <1>0, <3>2, <3>3, <3>4, EnterTypes, WishTypes
    <3>6. input'[p] \in KnownNext(account[p])
      BY <3>5 DEF Known, KnownNext
    <3> QED BY <1>8, <2>0, <3>3, <3>6
  <2>3. CASE Add_dev(s, p)
    <3>1. Wish(p, input[p]) /\ input' = input
          /\ Ask(s, p, New(p, "AddCheck", NoRow, FALSE))
      BY <2>3 DEF Add_dev, pages
    <3>2. input'[p] \in wished'[account[p]] /\ input'[p] \in entered'[account[p]]
      BY <1>0, <1>5, <3>1, WishTypes
    <3>3. input'[p] \in KnownNext(account[p])
      BY <3>2 DEF Known, KnownNext
    <3> QED BY <1>8, <2>0, <3>1, <3>3
  <2>4. CASE get_dev(s, p)
    BY <1>8, <2>0, <2>4 DEF get_dev
  <2>5. CASE Del_dev(s, p)
    <3>1. [num |-> shown[p], key |-> None] \in [num : Num \cup {None}, key : Num \cup {None}]
      BY <1>0 DEF TypeOK
    <3> QED BY <1>8, <2>0, <2>5, <3>1 DEF Del_dev
  <2>6. CASE get_Devinfo(s, p)
    BY <1>8, <2>0, <2>6 DEF get_Devinfo
  <2>7. CASE \E v \in BOOLEAN : send_data(s, p, v)
    <3>1. dev[p] \in [num : Num \cup {None}, key : Num \cup {None}]
      BY <1>0, RowTypes, NoRowTypes DEF TypeOK
    <3> QED BY <1>8, <2>0, <2>7, <3>1 DEF send_data
  <2>8. CASE switch2Change(s, p)
    <3>1. dev[p] \in [num : Num \cup {None}, key : Num \cup {None}] /\ widget'[p] \in BOOLEAN
      BY <1>0, <2>8, RowTypes, NoRowTypes, Taps DEF TypeOK
    <3>2. reqs' = reqs \/ Ask(s, p, New(p, "Switch", dev[p], widget'[p]))
      BY <1>0, <2>8, Taps
    <3> QED BY <1>7, <1>8, <2>0, <3>1, <3>2
  <2> QED BY <2>1, <2>2, <2>3, <2>4, <2>5, <2>6, <2>7, <2>8 DEF User
<1> QED BY <1>2, <1>3, <1>9, OwnParts, PTL

LEMMA OwnNetwork ==
  ASSUME OwnInv, NEW s \in Slots, Network(s), account' = account, Wishes',
         TypeOK', \A a \in Accounts : (calm'[a] => calm[a]) /\ Known(a) \subseteq KnownNext(a)
  PROVE  Fields' /\ OwnDevicesOnly'
<1>0. TypeOK /\ Wishes /\ Fields /\ OwnTable /\ OwnPages /\ OwnSent
  BY OwnParts DEF OwnInv
<1>1. input' = input /\ dev' = dev /\ shown' = shown /\ entered' = entered
  BY DEF Network, recv_data, heclouds, Refused, Lost, pages, told
<1>2. OwnPages'
  <2> SUFFICES ASSUME NEW x \in Phones
               PROVE  /\ dev[x] \in KnownNext(account[x]) \cup {NoRow}
                      /\ shown[x] \in {r.num : r \in KnownNext(account[x])} \cup {None}
    BY <1>1 DEF OwnPages, Known, KnownNext
  <2>1. Known(account[x]) \subseteq KnownNext(account[x])
    BY <1>0 DEF TypeOK
  <2> QED BY <1>0, <2>1 DEF OwnPages
\* A request that is answered keeps its operation; one that is lost asks nothing.
<1>3. ASSUME NEW q, Put(s, q), q = Free \/ (q.op = reqs[s].op /\ q.by = reqs[s].by)
      PROVE  Fields'
  <2>1. reqs'[s] = q /\ \A t \in Slots \ {s} : reqs'[t] = reqs[t]
    BY <1>0, <1>3, Filled DEF Put
  <2>2. ASSUME NEW t \in Slots, reqs'[t].op \in {"AddCheck", "ScanCheck"}
        PROVE  input'[reqs'[t].by] \in KnownNext(account[reqs'[t].by])
    <3>1. reqs'[t].op = reqs[t].op /\ reqs'[t].by = reqs[t].by
      BY <1>3, <2>1, <2>2 DEF Free
    <3>2. reqs[t].by \in Phones
      BY <1>0, <2>2, <3>1, Asked DEF Ops, Request
    <3>3. input[reqs[t].by] \in Known(account[reqs[t].by])
      BY <1>0, <2>2, <3>1 DEF Fields
    <3>4. Known(account[reqs[t].by]) \subseteq KnownNext(account[reqs[t].by])
      BY <1>0, <3>2 DEF TypeOK
    <3> QED BY <1>1, <3>1, <3>3, <3>4
  <2> QED BY <1>0, <1>1, <2>2 DEF Fields, Known, KnownNext
<1>4. ASSUME NEW r \in Row \cup {NoRow}, recv_data(s, r)
      PROVE  Fields' /\ OwnTable' /\ OwnSent'
  <2> DEFINE q == reqs[s]  a == account[q.by]
  <2>1. /\ rows' \in [Accounts -> [Row -> 0..MaxRows]] /\ Put(s, Answer2(s, r))
        /\ q \in Request /\ q.by \in Phones /\ a \in Accounts
    BY <1>0, <1>4, Executed
  <2>2. /\ Answer2(s, r).op = q.op /\ Answer2(s, r).by = q.by
        /\ Answer2(s, r).row = q.row /\ Answer2(s, r).data = r
    BY <2>1 DEF Answer2, Request
  <2>3. Within(q, Known(a))
    BY <1>0, <2>1 DEF OwnSent
  <2>4. r \in Known(a) \cup {NoRow}
    BY <1>0, <1>4, <2>1 DEF OwnTable, recv_data
  <2>5. Within(Answer2(s, r), KnownNext(a))
    BY <2>1, <2>2, <2>3, <2>4 DEF Within
  <2>6. OwnSent'
    BY <1>0, <2>1, <2>2, <2>5, OwnSentStep
  <2>7. OwnTable'
    <3>1. ASSUME NEW b \in Accounts, NEW x \in Row, rows'[b][x] > 0
          PROVE  rows[b][x] > 0 \/ (b = a /\ q.op = "INSTER" /\ x = q.row)
      <4>1. CASE rows' = rows
        BY <3>1, <4>1
      <4>2. CASE q.op = "INSTER" /\ rows' = [rows EXCEPT ![a][q.row] = @ + 1]
        BY <1>0, <3>1, <4>2, <2>1 DEF TypeOK
      <4>3. CASE rows' = [rows EXCEPT ![a] = [y \in Row |-> IF y.num = q.row.num THEN 0 ELSE @[y]]]
        BY <1>0, <3>1, <4>3, <2>1 DEF TypeOK
      <4> QED BY <1>4, <4>1, <4>2, <4>3 DEF recv_data
    <3>2. q.op = "INSTER" => q.row \in Row
      BY <1>0 DEF TypeOK
    <3>3. NoRow \notin Row
      BY RegistryAssumption DEF NoRow, Row, Num
    <3>4. q.op = "INSTER" => q.row \in Known(a)
      BY <2>3, <3>2, <3>3 DEF Within
    <3> QED BY <1>0, <2>1, <3>1, <3>4 DEF OwnTable, Present, Known, KnownNext
  <2>8. Fields'
    BY <1>3, <2>1, <2>2
  <2> QED BY <2>6, <2>7, <2>8
<1>5. ASSUME rows' = rows PROVE OwnTable'
  BY <1>0, <1>5 DEF OwnTable, Present, Known, KnownNext
<1>6. ASSUME reqs[s].op \in Ops, reqs' = [reqs EXCEPT ![s].answered = TRUE]
      PROVE  Fields' /\ OwnSent'
  <2>1. NoRow \in Row \cup {NoRow}
    OBVIOUS
  <2>2. reqs[s] \in Request /\ reqs[s].by \in Phones
    BY <1>0, <1>6, Asked DEF Request
  <2>3. Put(s, Answer1(s))
    BY <1>0, <1>6, <2>1, AnswerPut
  <2>4. /\ Answer1(s).op = reqs[s].op /\ Answer1(s).by = reqs[s].by
        /\ Answer1(s).row = reqs[s].row /\ Answer1(s).data = reqs[s].data
    BY <2>2 DEF Answer1, Request
  <2>5. Within(Answer1(s), KnownNext(account[reqs[s].by]))
    BY <1>0, <2>2, <2>4 DEF OwnSent, Within, TypeOK
  <2>6. OwnSent'
    BY <1>0, <2>3, <2>4, <2>5, OwnSentStep
  <2> QED BY <1>3, <2>3, <2>4, <2>6
<1>7. CASE heclouds(s) \/ Refused(s)
  <2>1. reqs[s].op \in Ops /\ rows' = rows /\ reqs' = [reqs EXCEPT ![s].answered = TRUE]
    BY <1>7 DEF heclouds, Refused, Ops
  <2> QED BY <1>2, <1>5, <1>6, <2>1, OwnParts, PTL
<1>8. CASE Lost(s)
  <2>1. Put(s, Free) /\ rows' = rows
    BY <1>8, FreePut DEF Lost, Put
  <2>2. Within(Free, KnownNext(account[Free.by]))
    BY DEF Free, Within
  <2>3. OwnSent'
    BY <1>0, <2>1, <2>2, OwnSentStep
  <2>4. Fields' /\ OwnTable'
    BY <1>3, <1>5, <2>1
  <2> QED BY <1>2, <2>3, <2>4, OwnParts, PTL
<1>9. ASSUME NEW r \in Row \cup {NoRow}, recv_data(s, r) PROVE Fields' /\ OwnDevicesOnly'
  BY <1>2, <1>4, <1>9, OwnParts, PTL
<1> QED BY <1>7, <1>8, <1>9 DEF Network

LEMMA OwnAnswer ==
  ASSUME OwnInv, NEW s \in Slots, Answer(s), account' = account, Wishes',
         TypeOK', \A a \in Accounts : (calm'[a] => calm[a]) /\ Known(a) \subseteq KnownNext(a)
  PROVE  Fields' /\ OwnDevicesOnly'
<1> DEFINE p == reqs[s].by
<1>0. TypeOK /\ Wishes /\ Fields /\ OwnTable /\ OwnPages /\ OwnSent
  BY OwnParts DEF OwnInv
<1>1. input' = input /\ rows' = rows /\ entered' = entered
  BY DEF Answer, AddAnswered, ScanAnswered, InsertAnswered, ShowAnswered, DeleteAnswered,
         InfoAnswered, SwitchAnswered, pages, told
<1>2. /\ reqs[s] \in Request /\ p \in Phones
      /\ \/ Put(s, Free)
         \/ Put(s, New(p, "INSTER", input[p], FALSE))
         \/ Put(s, New(p, "Show", NoRow, FALSE))
  BY <1>0, AnswerTypes
<1>3. OwnTable'
  BY <1>0, <1>1 DEF OwnTable, Present, Known, KnownNext
<1>4. reqs[s].data \in Known(account[p]) \cup {NoRow}
  BY <1>0, <1>2 DEF OwnSent, Within
<1>5. OwnPages'
  <2>1. \/ dev' = dev
        \/ dev' = [dev EXCEPT ![p] = reqs[s].data]
    BY DEF Answer, AddAnswered, ScanAnswered, InsertAnswered, ShowAnswered, DeleteAnswered,
           InfoAnswered, SwitchAnswered, pages
  <2>2. \/ shown' = shown
        \/ shown' = [shown EXCEPT ![p] = reqs[s].data.num]
    BY DEF Answer, AddAnswered, ScanAnswered, InsertAnswered, ShowAnswered, DeleteAnswered,
           InfoAnswered, SwitchAnswered, pages
  <2> SUFFICES ASSUME NEW x \in Phones
               PROVE  /\ dev'[x] \in KnownNext(account[x]) \cup {NoRow}
                      /\ shown'[x] \in {r.num : r \in KnownNext(account[x])} \cup {None}
    BY DEF OwnPages, Known, KnownNext
  <2>3. Known(account[x]) \subseteq KnownNext(account[x])
    BY <1>0 DEF TypeOK
  <2>4. dev'[x] = dev[x] \/ (x = p /\ dev'[x] = reqs[s].data)
    BY <1>0, <2>1 DEF TypeOK
  <2>5. shown'[x] = shown[x] \/ (x = p /\ shown'[x] = reqs[s].data.num)
    BY <1>0, <2>2 DEF TypeOK
  <2>6. dev[x] \in Known(account[x]) \cup {NoRow}
        /\ shown[x] \in {r.num : r \in Known(account[x])} \cup {None}
    BY <1>0 DEF OwnPages
  <2>7. NoRow.num = None
    BY DEF NoRow
  <2> QED BY <1>4, <2>3, <2>4, <2>5, <2>6, <2>7
<1>6. ASSUME NEW q, Put(s, q), q.op \notin {"AddCheck", "ScanCheck"} PROVE Fields'
  <2>1. reqs'[s] = q /\ \A t \in Slots \ {s} : reqs'[t] = reqs[t]
    BY <1>0, <1>6, Filled DEF Put
  <2>2. ASSUME NEW t \in Slots, reqs'[t].op \in {"AddCheck", "ScanCheck"}
        PROVE  input'[reqs'[t].by] \in KnownNext(account[reqs'[t].by])
    <3>1. reqs'[t] = reqs[t]
      BY <1>6, <2>1, <2>2
    <3>2. reqs[t].by \in Phones
      BY <1>0, <2>2, <3>1, Asked DEF Ops, Request
    <3>3. input[reqs[t].by] \in Known(account[reqs[t].by])
      BY <1>0, <2>2, <3>1 DEF Fields
    <3>4. Known(account[reqs[t].by]) \subseteq KnownNext(account[reqs[t].by])
      BY <1>0, <3>2 DEF TypeOK
    <3> QED BY <1>1, <3>1, <3>3, <3>4
  <2> QED BY <1>0, <1>1, <2>2 DEF Fields, Known, KnownNext
<1>7. CASE Put(s, Free)
  <2>1. Within(Free, KnownNext(account[Free.by])) /\ Free.op = "Free"
    BY DEF Free, Within
  <2>2. OwnSent'
    BY <1>0, <1>7, <2>1, OwnSentStep
  <2>3. Fields'
    BY <1>6, <1>7, <2>1
  <2> QED BY <1>3, <1>5, <2>2, <2>3, OwnParts, PTL
<1>8. CASE Put(s, New(p, "INSTER", input[p], FALSE)) /\ ~Put(s, Free)
           /\ ~Put(s, New(p, "Show", NoRow, FALSE))
  <2> DEFINE q == New(p, "INSTER", input[p], FALSE)
  <2>1. q.by = p /\ q.op = "INSTER" /\ q.row = input[p] /\ q.data = NoRow
    BY DEF New
  <2>2. reqs[s].op \in {"AddCheck", "ScanCheck"}
    <3>1. Close(s) => Put(s, Free)
      BY FreePut DEF Close, Put
    <3>2. reqs' = [reqs EXCEPT ![s] = New(p, "Show", NoRow, FALSE)]
            => Put(s, New(p, "Show", NoRow, FALSE))
      <4>1. "Show" \in Ops /\ "Show" # "INSTER"
        BY DEF Ops
      <4> QED BY <1>0, <1>2, <4>1, NoRowTypes, NewPut
    <3> QED BY <1>8, <3>1, <3>2 DEF Answer, AddAnswered, ScanAnswered, InsertAnswered,
               ShowAnswered, DeleteAnswered, InfoAnswered, SwitchAnswered, Answered
  <2>3. input[p] \in KnownNext(account[p])
    BY <1>0, <1>2, <2>2 DEF Fields, TypeOK
  <2>4. Within(q, KnownNext(account[q.by]))
    BY <2>1, <2>3 DEF Within
  <2>5. OwnSent'
    BY <1>0, <1>2, <1>8, <2>1, <2>4, OwnSentStep
  <2>6. Fields'
    BY <1>6, <1>8, <2>1
  <2> QED BY <1>3, <1>5, <2>5, <2>6, OwnParts, PTL
<1>9. CASE Put(s, New(p, "Show", NoRow, FALSE))
  <2> DEFINE q == New(p, "Show", NoRow, FALSE)
  <2>1. q.by = p /\ q.op = "Show" /\ q.data = NoRow
    BY DEF New
  <2>2. Within(q, KnownNext(account[q.by]))
    BY <2>1 DEF Within
  <2>3. OwnSent'
    BY <1>0, <1>2, <1>9, <2>1, <2>2, OwnSentStep
  <2>4. Fields'
    BY <1>6, <1>9, <2>1
  <2> QED BY <1>3, <1>5, <2>3, <2>4, OwnParts, PTL
<1> QED BY <1>2, <1>7, <1>8, <1>9

LEMMA OwnStep == ASSUME OwnInv, [Next]_vars PROVE OwnInv'
<1>1. CASE UNCHANGED vars
  BY <1>1 DEF OwnInv, TypeOK, Wishes, Fields, Known, KnownNext, OwnDevicesOnly, Present, vars
<1>2. CASE Next
  <2>1. TypeOK'
    BY <1>2, TypeStep DEF OwnInv
  <2>2. /\ account' = account /\ Wishes'
        /\ \A a \in Accounts : (calm'[a] => calm[a]) /\ Known(a) \subseteq KnownNext(a)
    BY <1>2, KnownGrows DEF OwnInv
  <2>3. Fields' /\ OwnDevicesOnly'
    BY <1>2, <2>1, <2>2, OwnUser, OwnNetwork, OwnAnswer DEF Next
  <2> QED BY <2>1, <2>2, <2>3 DEF OwnInv
<1> QED BY <1>1, <1>2
-----------------------------------------------------------------------------
(* What holds in calm *)

\* Account of the request in slot s.
Of(s) == account[reqs[s].by]

\* A calm account has one request out at most.
Single == \A s, t \in Slots :
  reqs[s] # Free /\ reqs[t] # Free /\ Of(s) = Of(t) /\ calm[Of(s)] => s = t

\* Who is about to insert has seen an empty table.
Checked == \A s \in Slots :
  reqs[s] # Free /\ calm[Of(s)] /\ Of(s) \notin scanned =>
    /\ reqs[s].op # "ScanCheck"
    /\ (reqs[s].op = "AddCheck" /\ reqs[s].answered /\ reqs[s].data = NoRow)
         \/ (reqs[s].op = "INSTER" /\ ~reqs[s].answered) => Present(Of(s)) = {}

\* OneRow, without counting.
AtMostOne == \A a \in Accounts : calm[a] /\ a \notin scanned =>
  \E r \in Row : \A x \in Row : rows[a][x] <= 1 /\ (x # r => rows[a][x] = 0)

\* The page may lag behind a deletion until its refresh is answered, and the
\* answer of a refresh is still in the table.
Refreshing(p) == \E s \in Slots : /\ reqs[s].by = p
                                  /\ \/ reqs[s].op = "DEL" /\ reqs[s].answered
                                     \/ reqs[s].op = "Show"
ShownInv == \A p \in Phones : calm[account[p]] /\ Alone(p) =>
  /\ shown[p] # None /\ ~Refreshing(p) => \E r \in Present(account[p]) : r.num = shown[p]
  /\ \A s \in Slots : reqs[s].by = p /\ reqs[s].op = "Show" /\ reqs[s].answered =>
       reqs[s].data \in Present(account[p]) \cup {NoRow}

\* So may the switch, until the command's answer arrives.
Switched(s, p) == reqs[s].by = p /\ reqs[s].op = "Switch" /\ reqs[s].answered
SwitchInv == \A p \in Phones : calm[account[p]] /\ obeyed.by = p =>
  /\ (\A s \in Slots : ~Switched(s, p)) => checked[p] = obeyed.on
  /\ \A s \in Slots : Switched(s, p) => reqs[s].on = obeyed.on

CalmInv == TypeOK /\ Single /\ Checked /\ AtMostOne /\ ShownInv /\ SwitchInv

\* The switch stands where the page wants it, or where the command on its way
\* will put it.
WidgetInv == \A p \in Phones : calm[account[p]] =>
  \/ widget[p] = checked[p]
  \/ \E s \in Slots : reqs[s].by = p /\ reqs[s].op = "Switch" /\ reqs[s].on = widget[p]

\* The properties of the runs follow.
LEMMA CalmImplies ==
  ASSUME CalmInv
  PROVE  OneRow /\ ShownIsThere /\ (WidgetInv => SwitchShowsLight)
<1>1. OneRow
  <2> SUFFICES ASSUME NEW a \in Accounts, calm[a], a \notin scanned
               PROVE  Cardinality(Present(a)) <= 1 /\ \A r \in Row : rows[a][r] <= 1
    BY DEF OneRow
  <2>1. PICK r \in Row : \A x \in Row : rows[a][x] <= 1 /\ (x # r => rows[a][x] = 0)
    BY DEF CalmInv, AtMostOne
  <2>2. Present(a) = {} \/ Present(a) = {r}
    BY <2>1 DEF Present
  <2>3. Cardinality(Present(a)) <= 1
    <3>1. Cardinality({}) = 0 /\ Cardinality({r}) = 1
      BY FS_EmptySet, FS_Singleton
    <3> QED BY <2>2, <3>1
  <2> QED BY <2>1, <2>3
<1>2. ASSUME NEW p \in Phones, InFlight(account[p]) = {}, NEW s \in Slots
      PROVE  reqs[s].by = p => reqs[s].op = "Free"
  <2>1. reqs[s].by = p => reqs[s] = Free
    BY <1>2 DEF InFlight
  <2> QED BY <2>1 DEF Free
<1>3. ShownIsThere
  BY <1>2 DEF ShownIsThere, CalmInv, ShownInv, Refreshing
<1>4. ASSUME WidgetInv PROVE SwitchShowsLight
  <2> SUFFICES ASSUME NEW p \in Phones, calm[account[p]], InFlight(account[p]) = {},
                      obeyed.by = p
               PROVE  widget[p] = obeyed.on
    BY DEF SwitchShowsLight
  <2>1. \A s \in Slots : reqs[s].by = p => reqs[s].op # "Switch"
    BY <1>2
  <2>2. checked[p] = obeyed.on
    BY <2>1 DEF CalmInv, SwitchInv, Switched
  <2>3. widget[p] = checked[p]
    BY <1>4, <2>1 DEF WidgetInv
  <2> QED BY <2>2, <2>3
<1> QED BY <1>1, <1>3, <1>4

\* A user's step: nothing but the fields and a free slot change.
LEMMA CalmUser ==
  ASSUME CalmInv, NEW s \in Slots, NEW p \in Phones, User(s, p)
  PROVE  Single' /\ Checked' /\ AtMostOne' /\ ShownInv' /\ SwitchInv'
<1>0. TypeOK /\ Single /\ Checked /\ AtMostOne /\ ShownInv /\ SwitchInv
      /\ account[p] \in Accounts
  BY DEF CalmInv, TypeOK
<1>1. account' = account /\ rows' = rows /\ shown' = shown /\ checked' = checked
      /\ obeyed' = obeyed /\ scanned \subseteq scanned'
  BY DEF User, input_ID, input_Key, Add_dev, Scan_dev, get_dev, Del_dev, get_Devinfo,
         send_data, switch2Change, pages, told
<1>3. /\ \A b \in Accounts : calm'[b] => calm[b]
      /\ calm'[account[p]] => InFlight(account[p]) = {}
  BY <1>0, UserCalm
<1>4. \/ reqs' = reqs
      \/ \E q : /\ reqs[s] = Free /\ Put(s, q)
                /\ q.by = p /\ q.op # "INSTER" /\ ~q.answered
                /\ q.op = "ScanCheck" => account[p] \in scanned'
  <2>0. /\ {"AddCheck", "ScanCheck", "Show", "DEL", "Info", "Switch"} \subseteq Ops \ {"INSTER"}
        /\ NoRow \in [num : Num \cup {None}, key : Num \cup {None}]
    BY NoRowTypes DEF Ops
  <2>1. ASSUME NEW op \in Ops \ {"INSTER"}, NEW on \in BOOLEAN,
               NEW row \in [num : Num \cup {None}, key : Num \cup {None}],
               Ask(s, p, New(p, op, row, on)), op = "ScanCheck" => account[p] \in scanned'
        PROVE  \E q : /\ reqs[s] = Free /\ Put(s, q)
                      /\ q.by = p /\ q.op # "INSTER" /\ ~q.answered
                      /\ q.op = "ScanCheck" => account[p] \in scanned'
    <3>1. reqs[s] = Free /\ Put(s, New(p, op, row, on))
      BY <1>0, <2>1, Asks
    <3> QED BY <2>1, <3>1 DEF New
  <2>2. CASE \E d \in Devices : input_ID(p, d) \/ input_Key(p, d)
    BY <2>2 DEF input_ID, input_Key
  <2>3. CASE \E d \in Devices : Scan_dev(s, p, d)
    <3>1. Ask(s, p, New(p, "ScanCheck", NoRow, FALSE)) /\ account[p] \in scanned'
      BY <2>3 DEF Scan_dev
    <3> QED BY <2>0, <2>1, <3>1
  <2>4. CASE Add_dev(s, p)
    <3>1. Ask(s, p, New(p, "AddCheck", NoRow, FALSE))
      BY <2>4 DEF Add_dev
    <3> QED BY <2>0, <2>1, <3>1
  <2>5. CASE get_dev(s, p)
    <3>1. Ask(s, p, New(p, "Show", NoRow, FALSE))
      BY <2>5 DEF get_dev
    <3> QED BY <2>0, <2>1, <3>1
  <2>6. CASE Del_dev(s, p)
    <3>1. Ask(s, p, New(p, "DEL", [num |-> shown[p], key |-> None], FALSE))
      BY <2>6 DEF Del_dev
    <3>2. [num |-> shown[p], key |-> None] \in [num : Num \cup {None}, key : Num \cup {None}]
      BY <1>0 DEF TypeOK
    <3> QED BY <2>0, <2>1, <3>1, <3>2
  <2>7. CASE get_Devinfo(s, p)
    <3>1. Ask(s, p, New(p, "Info", NoRow, FALSE))
      BY <2>7 DEF get_Devinfo
    <3> QED BY <2>0, <2>1, <3>1
  <2>8. CASE \E v \in BOOLEAN : send_data(s, p, v)
    <3>1. PICK v \in BOOLEAN : Ask(s, p, New(p, "Switch", dev[p], v))
      BY <2>8 DEF send_data
    <3>2. dev[p] \in [num : Num \cup {None}, key : Num \cup {None}]
      BY <1>0, RowTypes, NoRowTypes DEF TypeOK
    <3> QED BY <2>0, <2>1, <3>1, <3>2
  <2>9. CASE switch2Change(s, p)
    <3>1. dev[p] \in [num : Num \cup {None}, key : Num \cup {None}] /\ widget'[p] \in BOOLEAN
      BY <1>0, <2>9, RowTypes, NoRowTypes, Taps DEF TypeOK
    <3>2. reqs' = reqs \/ Ask(s, p, New(p, "Switch", dev[p], widget'[p]))
      BY <1>0, <2>9, Taps
    <3> QED BY <2>0, <2>1, <3>1, <3>2
  <2> QED BY <2>2, <2>3, <2>4, <2>5, <2>6, <2>7, <2>8, <2>9 DEF User
<1>5. \A t \in Slots : reqs'[t] = reqs[t]
        \/ /\ t = s /\ reqs[s] = Free /\ reqs'[t].by = p /\ reqs'[t].op # "INSTER"
           /\ ~reqs'[t].answered
           /\ reqs'[t].op = "ScanCheck" => account[p] \in scanned'
  <2>1. CASE reqs' = reqs
    BY <2>1
  <2>2. ASSUME NEW q, reqs[s] = Free, Put(s, q), q.by = p, q.op # "INSTER", ~q.answered,
               q.op = "ScanCheck" => account[p] \in scanned'
        PROVE  \A t \in Slots : reqs'[t] = reqs[t]
        \/ /\ t = s /\ reqs[s] = Free /\ reqs'[t].by = p /\ reqs'[t].op # "INSTER"
           /\ ~reqs'[t].answered
           /\ reqs'[t].op = "ScanCheck" => account[p] \in scanned'
    <3>1. reqs'[s] = q /\ \A t \in Slots \ {s} : reqs'[t] = reqs[t]
      BY <1>0, <2>2, Filled DEF Put
    <3> QED BY <2>2, <3>1
  <2> QED BY <1>4, <2>1, <2>2
<1>6. \A t \in Slots : reqs[t] # Free => Of(t) \in Accounts
  BY <1>0, Asked DEF TypeOK, Request, Of
<1>7. Single'
  <2> SUFFICES ASSUME NEW x \in Slots, NEW y \in Slots, x # y,
                      reqs'[x] # Free, reqs'[y] # Free,
                      account[reqs'[x].by] = account[reqs'[y].by], calm'[account[reqs'[x].by]]
               PROVE  FALSE
    BY <1>1 DEF Single, Of
  <2>1. CASE reqs'[x] = reqs[x] /\ reqs'[y] = reqs[y]
    BY <1>0, <1>3, <1>6, <2>1 DEF Single, Of
  <2>2. CASE reqs'[x] # reqs[x]
    <3>1. account[reqs'[x].by] = account[p] /\ reqs'[y] = reqs[y]
      BY <1>5, <2>2
    <3>2. y \in InFlight(account[p])
      BY <3>1 DEF InFlight
    <3> QED BY <1>3, <3>1, <3>2
  <2>3. CASE reqs'[y] # reqs[y]
    <3>1. account[reqs'[y].by] = account[p] /\ reqs'[x] = reqs[x]
      BY <1>5, <2>3
    <3>2. x \in InFlight(account[p])
      BY <3>1 DEF InFlight
    <3> QED BY <1>3, <3>1, <3>2
  <2> QED BY <2>1, <2>2, <2>3
<1>8. Checked'
  <2> SUFFICES ASSUME NEW t \in Slots, reqs'[t] # Free, calm'[account[reqs'[t].by]],
                      account[reqs'[t].by] \notin scanned'
               PROVE  /\ reqs'[t].op # "ScanCheck"
                      /\ (reqs'[t].op = "AddCheck" /\ reqs'[t].answered /\ reqs'[t].data = NoRow)
                           \/ (reqs'[t].op = "INSTER" /\ ~reqs'[t].answered)
                         => Present(account[reqs'[t].by]) = {}
    BY <1>1 DEF Checked, Of, Present
  <2>1. CASE reqs'[t] = reqs[t]
    BY <1>0, <1>1, <1>3, <1>6, <2>1 DEF Checked, Of
  <2>2. CASE reqs'[t] # reqs[t]
    BY <1>5, <2>2
  <2> QED BY <2>1, <2>2
<1>9. AtMostOne'
  BY <1>0, <1>1, <1>3 DEF AtMostOne
<1>10. ASSUME NEW x \in Phones, calm'[account[x]] PROVE calm[account[x]]
  BY <1>0, <1>3, <1>10 DEF TypeOK
<1>11. ShownInv'
  <2> SUFFICES ASSUME NEW x \in Phones, calm'[account[x]], Alone(x)
               PROVE  /\ shown[x] # None /\ ~Refreshing(x)'
                           => \E r \in Present(account[x]) : r.num = shown[x]
                      /\ \A t \in Slots : reqs'[t].by = x /\ reqs'[t].op = "Show"
                              /\ reqs'[t].answered
                           => reqs'[t].data \in Present(account[x]) \cup {NoRow}
    BY <1>1 DEF ShownInv, Alone, Present, Refreshing
  <2>1. calm[account[x]]
    BY <1>10
  <2>2. Refreshing(x) => Refreshing(x)'
    BY <1>5 DEF Refreshing, Free
  <2>3. ASSUME NEW t \in Slots, reqs'[t].by = x, reqs'[t].op = "Show", reqs'[t].answered
        PROVE  reqs'[t].data \in Present(account[x]) \cup {NoRow}
    <3>1. reqs'[t] = reqs[t]
      BY <1>5, <2>3
    <3> QED BY <1>0, <2>1, <2>3, <3>1 DEF ShownInv
  <2> QED BY <1>0, <2>1, <2>2, <2>3 DEF ShownInv
<1>12. SwitchInv'
  <2> SUFFICES ASSUME NEW x \in Phones, calm'[account[x]], obeyed.by = x
               PROVE  /\ (\A t \in Slots : ~Switched(t, x)') => checked[x] = obeyed.on
                      /\ \A t \in Slots : Switched(t, x)' => reqs'[t].on = obeyed.on
    BY <1>1 DEF SwitchInv, Switched
  <2>1. calm[account[x]]
    BY <1>10
  <2>2. \A t \in Slots : /\ Switched(t, x) => Switched(t, x)'
                         /\ Switched(t, x)' => Switched(t, x) /\ reqs'[t] = reqs[t]
    BY <1>5 DEF Switched, Free
  <2> QED BY <1>0, <2>1, <2>2 DEF SwitchInv
<1> QED BY <1>7, <1>8, <1>9, <1>11, <1>12

\* Only slot s changes, and only between requests of one phone, or to free.
LEMMA SingleStep ==
  ASSUME TypeOK, Single, NEW s \in Slots, NEW q, Put(s, q), reqs[s] # Free,
         q = Free \/ q.by = reqs[s].by, account' = account,
         \A a \in Accounts : calm'[a] => calm[a]
  PROVE  Single'
<1>1. reqs'[s] = q /\ \A t \in Slots \ {s} : reqs'[t] = reqs[t]
  BY Filled DEF Put
<1>2. \A t \in Slots : reqs[t] # Free => Of(t) \in Accounts
  BY Asked DEF TypeOK, Request, Of
<1>3. \A t \in Slots : reqs'[t] # Free => reqs[t] # Free /\ reqs'[t].by = reqs[t].by
  BY <1>1
<1> SUFFICES ASSUME NEW x \in Slots, NEW y \in Slots,
                    reqs'[x] # Free, reqs'[y] # Free,
                    account[reqs'[x].by] = account[reqs'[y].by], calm'[account[reqs'[x].by]]
             PROVE  x = y
  BY DEF Single, Of
<1>4. reqs[x] # Free /\ reqs[y] # Free /\ Of(x) = Of(y) /\ calm[Of(x)]
  BY <1>2, <1>3 DEF Of
<1> QED BY <1>4 DEF Single

\* The database executes one statement.
LEMMA CalmExecuted ==
  ASSUME CalmInv, NEW s \in Slots, NEW r \in Row \cup {NoRow}, recv_data(s, r)
  PROVE  Single' /\ Checked' /\ AtMostOne' /\ ShownInv' /\ SwitchInv'
<1> DEFINE q == reqs[s]  a == account[q.by]
<1>0. TypeOK /\ Single /\ Checked /\ AtMostOne /\ ShownInv /\ SwitchInv
  BY DEF CalmInv
<1>1. /\ account' = account /\ calm' = calm /\ shown' = shown /\ checked' = checked
      /\ obeyed' = obeyed /\ scanned' = scanned
      /\ q.op \in Ops \ {"Switch"} /\ ~q.answered
  BY DEF recv_data, pages, world, told
<1>2. /\ rows' \in [Accounts -> [Row -> 0..MaxRows]] /\ Put(s, Answer2(s, r))
      /\ q \in Request /\ q.by \in Phones /\ a \in Accounts /\ q # Free
  BY <1>0, <1>1, Executed DEF Free, Ops
<1>3. /\ Answer2(s, r).op = q.op /\ Answer2(s, r).by = q.by /\ Answer2(s, r).answered
      /\ Answer2(s, r).data = r
  BY <1>2 DEF Answer2, Request
<1>4. reqs'[s] = Answer2(s, r) /\ \A t \in Slots \ {s} : reqs'[t] = reqs[t]
  BY <1>0, <1>2, Filled DEF Put
<1>5. Single'
  BY <1>0, <1>1, <1>2, <1>3, SingleStep
<1>6. \A t \in Slots : reqs'[t] # Free => reqs[t] # Free /\ reqs'[t].by = reqs[t].by
                                         /\ reqs[t].by \in Phones /\ Of(t) \in Accounts
  BY <1>0, <1>2, <1>3, <1>4, Asked DEF TypeOK, Request, Of
\* The three kinds of statement.
<1>7. \/ q.op \in SELE /\ rows' = rows /\ (IF r = NoRow THEN Present(a) = {} ELSE r \in Present(a))
      \/ /\ q.op = "INSTER" /\ q.row \in Row
         /\ rows' = [rows EXCEPT ![a][q.row] = @ + 1]
      \/ /\ q.op = "DEL"
         /\ rows' = [rows EXCEPT ![a] = [x \in Row |-> IF x.num = q.row.num THEN 0 ELSE @[x]]]
  <2>1. NoRow \notin Row
    BY RegistryAssumption DEF NoRow, Row, Num
  <2>2. q.op = "INSTER" => q.row \in Row
    BY <1>0 DEF TypeOK
  <2> QED BY <2>1, <2>2 DEF recv_data, Present
<1>8. \A b \in Accounts \ {a} : rows'[b] = rows[b]
  BY <1>0, <1>2, <1>7 DEF TypeOK
<1>9. q.op # "INSTER" => \A x \in Row : rows'[a][x] \in {0, rows[a][x]}
  BY <1>0, <1>2, <1>7 DEF TypeOK
<1>10. q.op = "INSTER" => /\ q.row \in Row /\ rows'[a][q.row] = rows[a][q.row] + 1
                          /\ \A x \in Row \ {q.row} : rows'[a][x] = rows[a][x]
  BY <1>0, <1>2, <1>7 DEF TypeOK, SELE
<1>11. q.op # "INSTER" => \A b \in Accounts : Present(b)' \subseteq Present(b)
  BY <1>8, <1>9 DEF Present
<1>12. Checked'
  <2> SUFFICES ASSUME NEW t \in Slots, reqs'[t] # Free, calm[account[reqs'[t].by]],
                      account[reqs'[t].by] \notin scanned
               PROVE  /\ reqs'[t].op # "ScanCheck"
                      /\ (reqs'[t].op = "AddCheck" /\ reqs'[t].answered /\ reqs'[t].data = NoRow)
                           \/ (reqs'[t].op = "INSTER" /\ ~reqs'[t].answered)
                         => \A x \in Row : ~(rows'[account[reqs'[t].by]][x] > 0)
    BY <1>1 DEF Checked, Of, Present
  <2>1. CASE t = s
    <3>1. reqs[s].op # "ScanCheck"
      BY <1>0, <1>2, <1>3, <1>4, <2>1 DEF Checked, Of
    <3>2. CASE q.op = "AddCheck" /\ r = NoRow
      <4>1. rows' = rows /\ Present(a) = {}
        BY <1>7, <3>2 DEF SELE
      <4> QED BY <1>3, <1>4, <2>1, <3>1, <3>2, <4>1 DEF Present
    <3> QED BY <1>3, <1>4, <2>1, <3>1, <3>2
  <2>2. CASE t # s
    <3>1. reqs'[t] = reqs[t] /\ reqs[t] # Free /\ Of(t) \in Accounts /\ Of(t) # a
      BY <1>0, <1>2, <1>4, <1>6, <2>2 DEF Single, Of
    <3>2. rows'[Of(t)] = rows[Of(t)]
      BY <1>8, <3>1
    <3> QED BY <1>0, <3>1, <3>2 DEF Checked, Of, Present
  <2> QED BY <2>1, <2>2
<1>13. AtMostOne'
  <2> SUFFICES ASSUME NEW b \in Accounts, calm[b], b \notin scanned
               PROVE  \E y \in Row : \A x \in Row : rows'[b][x] <= 1 /\ (x # y => rows'[b][x] = 0)
    BY <1>1 DEF AtMostOne
  <2>0. PICK y \in Row : \A x \in Row : rows[b][x] <= 1 /\ (x # y => rows[b][x] = 0)
    BY <1>0 DEF AtMostOne
  <2>1. CASE b # a
    BY <1>8, <2>0, <2>1
  <2>2. CASE b = a /\ q.op # "INSTER"
    <3>1. \A x \in Row : rows'[b][x] = 0 \/ rows'[b][x] = rows[b][x]
      BY <1>9, <2>2
    <3>2. \A x \in Row : rows'[b][x] <= 1 /\ (x # y => rows'[b][x] = 0)
      BY <2>0, <3>1
    <3> QED BY <3>2
  <2>3. CASE b = a /\ q.op = "INSTER"
    <3>1. Present(a) = {}
      BY <1>0, <1>1, <1>2, <2>3 DEF Checked, Of
    <3>2. \A x \in Row : rows[a][x] = 0
      BY <1>0, <1>2, <3>1, RegistryAssumption DEF Present, TypeOK
    <3>3. q.row \in Row /\ rows'[a][q.row] = 1 /\ \A x \in Row \ {q.row} : rows'[a][x] = 0
      BY <1>10, <2>3, <3>2
    <3>4. \A x \in Row : rows'[b][x] <= 1 /\ (x # q.row => rows'[b][x] = 0)
      BY <2>3, <3>3
    <3> QED BY <3>3, <3>4, SMTT(30)
  <2> QED BY <2>1, <2>2, <2>3
<1>14. ShownInv'
  <2> SUFFICES ASSUME NEW x \in Phones, calm[account[x]], Alone(x)
               PROVE  /\ shown[x] # None /\ ~Refreshing(x)'
                           => \E y \in Row : rows'[account[x]][y] > 0 /\ y.num = shown[x]
                      /\ \A t \in Slots : reqs'[t].by = x /\ reqs'[t].op = "Show"
                              /\ reqs'[t].answered
                           => reqs'[t].data \in {y \in Row : rows'[account[x]][y] > 0} \cup {NoRow}
    BY <1>1 DEF ShownInv, Alone, Present, Refreshing
  <2>0. account[x] \in Accounts
    BY <1>0 DEF TypeOK
  <2>1. CASE account[x] # a
    <3>1. rows'[account[x]] = rows[account[x]]
      BY <1>8, <2>0, <2>1
    <3>2. \A t \in Slots : reqs'[t].by = x => t # s
      BY <1>3, <1>4, <2>1
    <3>3. Refreshing(x) => Refreshing(x)'
      BY <1>3, <1>4, <2>1 DEF Refreshing
    <3> QED BY <1>0, <1>4, <3>1, <3>2, <3>3 DEF ShownInv, Present
  <2>2. CASE account[x] = a
    <3>1. q.by = x
      BY <1>2, <2>2 DEF Alone
    <3>2. \A t \in Slots \ {s} : reqs'[t].by = x => reqs'[t] = Free
      BY <1>0, <1>2, <1>4, <2>2, <3>1 DEF Single, Of
    <3>3. ASSUME NEW t \in Slots, reqs'[t].by = x, reqs'[t].op = "Show", reqs'[t].answered
          PROVE  reqs'[t].data \in {y \in Row : rows'[account[x]][y] > 0} \cup {NoRow}
      <4>1. t = s
        BY <3>2, <3>3 DEF Free
      <4>2. q.op \in SELE /\ q.op # "INSTER" /\ q.op # "DEL"
        BY <1>3, <1>4, <3>3, <4>1 DEF SELE
      <4>3. rows' = rows /\ (r = NoRow \/ r \in Present(a))
        BY <1>7, <4>2
      <4> QED BY <1>3, <1>4, <2>2, <4>1, <4>3 DEF Present
    <3>4. ASSUME shown[x] # None, ~Refreshing(x)'
          PROVE  \E y \in Row : rows'[account[x]][y] > 0 /\ y.num = shown[x]
      <4>1. q.op # "DEL" /\ q.op # "Show"
        BY <1>3, <1>4, <3>1, <3>4 DEF Refreshing
      <4>2. ~Refreshing(x)
        <5> SUFFICES ASSUME NEW t \in Slots, reqs[t].by = x,
                            (reqs[t].op = "DEL" /\ reqs[t].answered) \/ reqs[t].op = "Show"
                     PROVE  FALSE
          BY DEF Refreshing
        <5>1. t # s
          BY <4>1
        <5>2. reqs'[t] = Free /\ reqs'[t] = reqs[t]
          BY <1>4, <3>2, <5>1
        <5> QED BY <5>2 DEF Free
      <4>3. PICK y \in Present(account[x]) : y.num = shown[x]
        BY <1>0, <3>4, <4>2 DEF ShownInv
      <4>4. rows'[a][y] = rows[a][y] \/ rows'[a][y] = rows[a][y] + 1
        BY <1>7, <1>10, <2>2, <4>1, <4>3 DEF Present
      <4>5. rows[a][y] > 0 /\ rows[a][y] \in Nat /\ y \in Row
        BY <1>0, <1>2, <2>2, <4>3, RegistryAssumption DEF Present, TypeOK
      <4>6. rows'[account[x]][y] > 0
        BY <2>2, <4>4, <4>5
      <4> QED BY <4>3, <4>5, <4>6
    <3> QED BY <3>3, <3>4
  <2> QED BY <2>1, <2>2
<1>15. SwitchInv'
  <2>1. \A t \in Slots, x \in Phones : Switched(t, x)' <=> Switched(t, x)
    BY <1>1, <1>3, <1>4 DEF Switched
  <2>2. \A t \in Slots, x \in Phones : Switched(t, x) => reqs'[t] = reqs[t]
    BY <1>1, <1>4 DEF Switched
  <2> QED BY <1>0, <1>1, <2>1, <2>2 DEF SwitchInv
<1> QED BY <1>5, <1>12, <1>13, <1>14, <1>15

\* The cloud executes a command.
LEMMA CalmCloud ==
  ASSUME CalmInv, NEW s \in Slots, heclouds(s)
  PROVE  Single' /\ Checked' /\ AtMostOne' /\ ShownInv' /\ SwitchInv'
<1> DEFINE q == reqs[s]
<1>0. TypeOK /\ Single /\ Checked /\ AtMostOne /\ ShownInv /\ SwitchInv
  BY DEF CalmInv
<1>1. /\ account' = account /\ calm' = calm /\ shown' = shown /\ checked' = checked
      /\ rows' = rows /\ scanned' = scanned /\ obeyed' = [on |-> q.on, by |-> q.by]
      /\ q.op = "Switch" /\ ~q.answered /\ reqs' = [reqs EXCEPT ![s].answered = TRUE]
  BY DEF heclouds, pages, told
<1>2. q \in Request /\ q # Free /\ Put(s, Answer1(s)) /\ q.by \in Phones
  <2>1. q.op \in Ops
    BY <1>1 DEF Ops
  <2>2. NoRow \in Row \cup {NoRow}
    OBVIOUS
  <2>3. Put(s, Answer1(s))
    BY <1>0, <1>1, <2>1, <2>2, AnswerPut
  <2>4. q \in Request /\ q.by \in Phones
    BY <1>0, <2>1, Asked DEF Request
  <2>5. q # Free
    BY <1>1 DEF Free
  <2> QED BY <2>3, <2>4, <2>5
<1>3. /\ Answer1(s).op = "Switch" /\ Answer1(s).by = q.by /\ Answer1(s).answered
      /\ Answer1(s).on = q.on
  BY <1>1, <1>2 DEF Answer1, Request
<1>4. reqs'[s] = Answer1(s) /\ \A t \in Slots \ {s} : reqs'[t] = reqs[t]
  BY <1>0, <1>2, Filled DEF Put
<1>5. Single'
  BY <1>0, <1>1, <1>2, <1>3, SingleStep
<1>6. Checked'
  <2> SUFFICES ASSUME NEW t \in Slots, reqs'[t] # Free, calm[account[reqs'[t].by]],
                      account[reqs'[t].by] \notin scanned
               PROVE  /\ reqs'[t].op # "ScanCheck"
                      /\ (reqs'[t].op = "AddCheck" /\ reqs'[t].answered /\ reqs'[t].data = NoRow)
                           \/ (reqs'[t].op = "INSTER" /\ ~reqs'[t].answered)
                         => Present(account[reqs'[t].by]) = {}
    BY <1>1 DEF Checked, Of, Present
  <2>1. CASE t = s
    BY <1>3, <1>4, <2>1
  <2>2. CASE t # s
    BY <1>0, <1>4, <2>2 DEF Checked, Of
  <2> QED BY <2>1, <2>2
<1>7. AtMostOne'
  BY <1>0, <1>1 DEF AtMostOne
<1>8. ShownInv'
  <2>1. \A x \in Phones : Refreshing(x)' <=> Refreshing(x)
    BY <1>1, <1>3, <1>4 DEF Refreshing
  <2>2. \A t \in Slots : reqs'[t].op = "Show" => reqs'[t] = reqs[t]
    BY <1>3, <1>4
  <2> SUFFICES ASSUME NEW x \in Phones, calm[account[x]], Alone(x)
               PROVE  /\ shown[x] # None /\ ~Refreshing(x)
                           => \E r \in Present(account[x]) : r.num = shown[x]
                      /\ \A t \in Slots : reqs'[t].by = x /\ reqs'[t].op = "Show"
                              /\ reqs'[t].answered
                           => reqs'[t].data \in Present(account[x]) \cup {NoRow}
    BY <1>1, <2>1 DEF ShownInv, Alone, Present
  <2> QED BY <1>0, <2>2 DEF ShownInv
<1>9. SwitchInv'
  <2> SUFFICES ASSUME NEW x \in Phones, calm[account[x]], q.by = x
               PROVE  /\ (\A t \in Slots : ~Switched(t, x)') => checked[x] = q.on
                      /\ \A t \in Slots : Switched(t, x)' => reqs'[t].on = q.on
    BY <1>1 DEF SwitchInv
  <2>1. Switched(s, x)'
    BY <1>3, <1>4 DEF Switched
  <2>2. \A t \in Slots : Switched(t, x)' => t = s
    BY <1>0, <1>2, <1>4 DEF Switched, Single, Of, Free
  <2> QED BY <1>3, <1>4, <2>1, <2>2
<1> QED BY <1>5, <1>6, <1>7, <1>8, <1>9

\* A failure ends the calm of its account and leaves the others alone.
LEMMA CalmFailed ==
  ASSUME CalmInv, NEW s \in Slots, Refused(s) \/ Lost(s)
  PROVE  Single' /\ Checked' /\ AtMostOne' /\ ShownInv' /\ SwitchInv'
<1> DEFINE q == reqs[s]
<1>0. TypeOK /\ Single /\ Checked /\ AtMostOne /\ ShownInv /\ SwitchInv
  BY DEF CalmInv
<1>1. /\ account' = account /\ shown' = shown /\ checked' = checked
      /\ rows' = rows /\ scanned' = scanned /\ obeyed' = obeyed
      /\ calm' = [calm EXCEPT ![account[q.by]] = FALSE]
  BY DEF Refused, Lost, pages, world, told
<1>2. q \in Request /\ q # Free /\ q.by \in Phones
  <2>1. q.op \in Ops \/ q # Free
    BY DEF Refused, Lost, Ops
  <2>2. "Free" \notin Ops
    BY DEF Ops
  <2>3. q # Free
    BY <2>1, <2>2 DEF Free
  <2>4. q \in Request
    BY <1>0, <2>3, Asked
  <2> QED BY <2>3, <2>4 DEF Request
<1>3. \E n : Put(s, n) /\ (n = Free \/ n.by = q.by)
  <2>1. CASE Refused(s)
    <3>1. q.op \in Ops /\ reqs' = [reqs EXCEPT ![s].answered = TRUE]
      BY <2>1 DEF Refused, Ops
    <3>2. NoRow \in Row \cup {NoRow}
      OBVIOUS
    <3>3. Put(s, Answer1(s)) /\ Answer1(s).by = q.by
      BY <1>0, <1>2, <3>1, <3>2, AnswerPut DEF Answer1, Request
    <3> QED BY <3>3
  <2>2. CASE Lost(s)
    BY <2>2, FreePut DEF Lost, Put
  <2> QED BY <2>1, <2>2
<1>4. PICK n : Put(s, n) /\ (n = Free \/ n.by = q.by)
  BY <1>3
<1>5. reqs'[s] = n /\ \A t \in Slots \ {s} : reqs'[t] = reqs[t]
  BY <1>0, <1>4, Filled DEF Put
<1>6. account[q.by] \in Accounts
  BY <1>0, <1>2 DEF TypeOK
<1>7. ~calm'[account[q.by]] /\ \A b \in Accounts : calm'[b] => calm[b]
  BY <1>0, <1>1, <1>6, Fails
<1>8. Single'
  BY <1>0, <1>1, <1>2, <1>4, <1>7, SingleStep
<1>9. Checked'
  <2> SUFFICES ASSUME NEW t \in Slots, reqs'[t] # Free, calm'[account[reqs'[t].by]],
                      account[reqs'[t].by] \notin scanned
               PROVE  /\ reqs'[t].op # "ScanCheck"
                      /\ (reqs'[t].op = "AddCheck" /\ reqs'[t].answered /\ reqs'[t].data = NoRow)
                           \/ (reqs'[t].op = "INSTER" /\ ~reqs'[t].answered)
                         => Present(account[reqs'[t].by]) = {}
    BY <1>1 DEF Checked, Of, Present
  <2>1. t # s
    BY <1>4, <1>5, <1>7
  <2>2. reqs'[t] = reqs[t] /\ Of(t) \in Accounts
    BY <1>0, <1>5, <2>1, Asked DEF TypeOK, Request, Of
  <2>3. calm[Of(t)]
    BY <1>7, <2>2 DEF Of
  <2> QED BY <1>0, <2>2, <2>3 DEF Checked, Of
<1>10. AtMostOne'
  BY <1>0, <1>1, <1>7 DEF AtMostOne
<1>11. ASSUME NEW x \in Phones, calm'[account[x]]
       PROVE  /\ calm[account[x]] /\ x # q.by
              /\ \A t \in Slots : (reqs'[t].by = x \/ reqs[t].by = x) /\ t = s => reqs'[t] = Free
              /\ \A t \in Slots : t # s => reqs'[t] = reqs[t]
  <2>1. x # q.by
    BY <1>7, <1>11
  <2> QED BY <1>0, <1>4, <1>5, <1>7, <1>11, <2>1 DEF TypeOK
<1>12. ShownInv'
  <2> SUFFICES ASSUME NEW x \in Phones, calm'[account[x]], Alone(x)
               PROVE  /\ shown[x] # None /\ ~Refreshing(x)'
                           => \E r \in Present(account[x]) : r.num = shown[x]
                      /\ \A t \in Slots : reqs'[t].by = x /\ reqs'[t].op = "Show"
                              /\ reqs'[t].answered
                           => reqs'[t].data \in Present(account[x]) \cup {NoRow}
    BY <1>1 DEF ShownInv, Alone, Present, Refreshing
  <2>1. Refreshing(x) => Refreshing(x)'
    BY <1>11 DEF Refreshing
  <2>2. \A t \in Slots : reqs'[t].by = x /\ reqs'[t].op = "Show" => reqs'[t] = reqs[t]
    BY <1>11 DEF Free
  <2> QED BY <1>0, <1>11, <2>1, <2>2 DEF ShownInv
<1>13. SwitchInv'
  <2> SUFFICES ASSUME NEW x \in Phones, calm'[account[x]], obeyed.by = x
               PROVE  /\ (\A t \in Slots : ~Switched(t, x)') => checked[x] = obeyed.on
                      /\ \A t \in Slots : Switched(t, x)' => reqs'[t].on = obeyed.on
    BY <1>1 DEF SwitchInv
  <2>1. \A t \in Slots : /\ Switched(t, x) => Switched(t, x)'
                         /\ Switched(t, x)' => Switched(t, x) /\ reqs'[t] = reqs[t]
    BY <1>11 DEF Switched, Free
  <2> QED BY <1>0, <1>11, <2>1 DEF SwitchInv
<1> QED BY <1>8, <1>9, <1>10, <1>12, <1>13

\* A page is answered.
LEMMA CalmAnswer ==
  ASSUME CalmInv, NEW s \in Slots, Answer(s)
  PROVE  Single' /\ Checked' /\ AtMostOne' /\ ShownInv' /\ SwitchInv'
<1> DEFINE q == reqs[s]  p == reqs[s].by
<1>0. TypeOK /\ Single /\ Checked /\ AtMostOne /\ ShownInv /\ SwitchInv
  BY DEF CalmInv
<1>1. /\ account' = account /\ calm' = calm /\ rows' = rows /\ scanned' = scanned
      /\ obeyed' = obeyed
  BY DEF Answer, AddAnswered, ScanAnswered, InsertAnswered, ShowAnswered, DeleteAnswered,
         InfoAnswered, SwitchAnswered, table, world, told
<1>2. /\ q \in Request /\ p \in Phones /\ q.answered
      /\ \/ Put(s, Free)
         \/ Put(s, New(p, "INSTER", input[p], FALSE))
         \/ Put(s, New(p, "Show", NoRow, FALSE))
  BY <1>0, AnswerTypes
<1>3. q # Free /\ account[p] \in Accounts
  <2>1. q.op \in Ops
    BY <1>2 DEF Request
  <2> QED BY <1>0, <1>2, <2>1 DEF Free, Ops, TypeOK
<1>4. PICK n : /\ Put(s, n)
               /\ \/ n = Free
                  \/ n.by = p /\ ~n.answered /\ n.op \in {"INSTER", "Show"}
  BY <1>2 DEF New
<1>5. reqs'[s] = n /\ \A t \in Slots \ {s} : reqs'[t] = reqs[t]
  BY <1>0, <1>4, Filled DEF Put
<1>6. Single'
  BY <1>0, <1>1, <1>3, <1>4, SingleStep
\* What each answer asks next.
<1>7. n.op = "INSTER" => \/ q.op = "ScanCheck"
                         \/ q.op = "AddCheck" /\ q.data = NoRow
  <2>1. reqs' = [reqs EXCEPT ![s] = Free] => n.op # "INSTER"
    BY <1>0, <1>5 DEF TypeOK, Free
  <2>2. reqs' = [reqs EXCEPT ![s] = New(p, "Show", NoRow, FALSE)] => n.op # "INSTER"
    BY <1>0, <1>5 DEF TypeOK, New
  <2> QED BY <2>1, <2>2 DEF Answer, AddAnswered, ScanAnswered, InsertAnswered, ShowAnswered,
             DeleteAnswered, InfoAnswered, SwitchAnswered, Answered, Close
<1>8. q.op = "DEL" => n.op = "Show" /\ n.by = p
  <2>1. q.op = "DEL" => reqs' = [reqs EXCEPT ![s] = New(p, "Show", NoRow, FALSE)]
    BY DEF Answer, AddAnswered, ScanAnswered, InsertAnswered, ShowAnswered,
           DeleteAnswered, InfoAnswered, SwitchAnswered, Answered
  <2>2. reqs' = [reqs EXCEPT ![s] = New(p, "Show", NoRow, FALSE)] => n.op = "Show" /\ n.by = p
    BY <1>0, <1>5 DEF TypeOK, New
  <2> QED BY <2>1, <2>2
<1>9. IF q.op = "Show" THEN shown' = [shown EXCEPT ![p] = q.data.num] ELSE shown' = shown
  BY DEF Answer, AddAnswered, ScanAnswered, InsertAnswered, ShowAnswered, DeleteAnswered,
         InfoAnswered, SwitchAnswered, Answered, pages
<1>10. IF q.op = "Switch" THEN checked' = [checked EXCEPT ![p] = q.on] ELSE checked' = checked
  BY DEF Answer, AddAnswered, ScanAnswered, InsertAnswered, ShowAnswered, DeleteAnswered,
         InfoAnswered, SwitchAnswered, Answered, pages
<1>11. Checked'
  <2> SUFFICES ASSUME NEW t \in Slots, reqs'[t] # Free, calm[account[reqs'[t].by]],
                      account[reqs'[t].by] \notin scanned
               PROVE  /\ reqs'[t].op # "ScanCheck"
                      /\ (reqs'[t].op = "AddCheck" /\ reqs'[t].answered /\ reqs'[t].data = NoRow)
                           \/ (reqs'[t].op = "INSTER" /\ ~reqs'[t].answered)
                         => Present(account[reqs'[t].by]) = {}
    BY <1>1 DEF Checked, Of, Present
  <2>1. CASE t = s
    <3>1. n.by = p /\ n.op \in {"INSTER", "Show"}
      BY <1>4, <1>5, <2>1
    <3>2. n.op = "INSTER" => Present(account[p]) = {}
      BY <1>0, <1>2, <1>3, <1>5, <1>7, <2>1, <3>1 DEF Checked, Of
    <3> QED BY <1>5, <2>1, <3>1, <3>2
  <2>2. CASE t # s
    BY <1>0, <1>5, <2>2 DEF Checked, Of
  <2> QED BY <2>1, <2>2
<1>12. AtMostOne'
  BY <1>0, <1>1 DEF AtMostOne
<1>13. ShownInv'
  <2> SUFFICES ASSUME NEW x \in Phones, calm[account[x]], Alone(x)
               PROVE  /\ shown'[x] # None /\ ~Refreshing(x)'
                           => \E r \in Present(account[x]) : r.num = shown'[x]
                      /\ \A t \in Slots : reqs'[t].by = x /\ reqs'[t].op = "Show"
                              /\ reqs'[t].answered
                           => reqs'[t].data \in Present(account[x]) \cup {NoRow}
    BY <1>1 DEF ShownInv, Alone, Present, Refreshing
  <2>1. ASSUME NEW t \in Slots, reqs'[t].by = x, reqs'[t].op = "Show", reqs'[t].answered
        PROVE  reqs'[t].data \in Present(account[x]) \cup {NoRow}
    <3>1. reqs'[t] = reqs[t]
      BY <1>4, <1>5, <2>1 DEF Free
    <3> QED BY <1>0, <2>1, <3>1 DEF ShownInv
  <2>2. ASSUME shown'[x] # None, ~Refreshing(x)'
        PROVE  \E r \in Present(account[x]) : r.num = shown'[x]
    <3>1. CASE q.op = "Show" /\ x = p
      <4>1. shown'[x] = q.data.num /\ q.data # NoRow
        BY <1>0, <1>9, <2>2, <3>1 DEF TypeOK, NoRow
      <4>2. q.data \in Present(account[x])
        BY <1>0, <1>2, <3>1, <4>1 DEF ShownInv
      <4> QED BY <4>1, <4>2
    <3>2. CASE ~(q.op = "Show" /\ x = p)
      <4>1. shown'[x] = shown[x]
        BY <1>0, <1>9, <3>2 DEF TypeOK
      <4>2. ~Refreshing(x)
        <5> SUFFICES ASSUME NEW t \in Slots, reqs[t].by = x,
                            (reqs[t].op = "DEL" /\ reqs[t].answered) \/ reqs[t].op = "Show"
                     PROVE  FALSE
          BY DEF Refreshing
        <5>1. CASE t = s
          BY <1>5, <1>8, <2>2, <3>2, <5>1 DEF Refreshing
        <5>2. CASE t # s
          BY <1>5, <2>2, <5>2 DEF Refreshing
        <5> QED BY <5>1, <5>2
      <4> QED BY <1>0, <2>2, <4>1, <4>2 DEF ShownInv
    <3> QED BY <3>1, <3>2
  <2> QED BY <2>1, <2>2
<1>14. SwitchInv'
  <2> SUFFICES ASSUME NEW x \in Phones, calm[account[x]], obeyed.by = x
               PROVE  /\ (\A t \in Slots : ~Switched(t, x)') => checked'[x] = obeyed.on
                      /\ \A t \in Slots : Switched(t, x)' => reqs'[t].on = obeyed.on
    BY <1>1 DEF SwitchInv
  <2>1. \A t \in Slots : Switched(t, x)' => Switched(t, x) /\ reqs'[t] = reqs[t]
    BY <1>4, <1>5 DEF Switched, Free
  <2>2. CASE q.op = "Switch" /\ x = p
    <3>1. checked'[x] = q.on
      BY <1>0, <1>10, <2>2 DEF TypeOK
    <3>2. q.on = obeyed.on
      BY <1>0, <1>2, <2>2 DEF SwitchInv, Switched
    <3> QED BY <1>0, <2>1, <3>1, <3>2 DEF SwitchInv
  <2>3. CASE ~(q.op = "Switch" /\ x = p)
    <3>1. checked'[x] = checked[x]
      BY <1>0, <1>10, <2>3 DEF TypeOK
    <3>2. \A t \in Slots : Switched(t, x) => Switched(t, x)'
      BY <1>5, <2>3 DEF Switched
    <3> QED BY <1>0, <2>1, <3>1, <3>2 DEF SwitchInv
  <2> QED BY <2>2, <2>3
<1> QED BY <1>6, <1>11, <1>12, <1>13, <1>14

LEMMA CalmStep == ASSUME CalmInv, [Next]_vars PROVE CalmInv'
<1>1. CASE UNCHANGED vars
  <2>1. TypeOK'
    BY <1>1, TypeStep DEF CalmInv
  <2>2. Single' /\ Checked' /\ AtMostOne' /\ ShownInv' /\ SwitchInv'
    BY <1>1 DEF CalmInv, Single, Checked, AtMostOne, ShownInv, SwitchInv, Of, Present,
                Refreshing, Switched, Alone, vars
  <2> QED BY <2>1, <2>2 DEF CalmInv
<1>2. CASE Next
  <2>1. TypeOK'
    BY <1>2, TypeStep DEF CalmInv
  <2>2. PICK s \in Slots : Network(s) \/ Answer(s) \/ \E p \in Phones : User(s, p)
    BY <1>2 DEF Next
  <2>3. Single' /\ Checked' /\ AtMostOne' /\ ShownInv' /\ SwitchInv'
    BY <2>2, CalmUser, CalmExecuted, CalmCloud, CalmFailed, CalmAnswer DEF Network
  <2> QED BY <2>1, <2>3 DEF CalmInv
<1> QED BY <1>1, <1>2
-----------------------------------------------------------------------------
(* The switch. *)

\* A slot that changes under a calm account was its only one.
LEMMA WidgetUser ==
  ASSUME CalmInv, WidgetInv, NEW s \in Slots, NEW p \in Phones, User(s, p)
  PROVE  WidgetInv'
<1>0. TypeOK /\ account[p] \in Accounts
  BY DEF CalmInv, TypeOK
<1>1. account' = account /\ checked' = checked
  BY DEF User, input_ID, input_Key, Add_dev, Scan_dev, get_dev, Del_dev, get_Devinfo,
         send_data, switch2Change, pages
<1>2. /\ \A b \in Accounts : calm'[b] => calm[b]
      /\ calm'[account[p]] => InFlight(account[p]) = {}
  BY <1>0, UserCalm
<1>3. \A t \in Slots \ {s} : reqs'[t] = reqs[t]
  BY <1>0 DEF User, input_ID, input_Key, Add_dev, Scan_dev, get_dev, Del_dev, get_Devinfo,
              send_data, switch2Change, Ask, TypeOK
<1>4. reqs'[s] = reqs[s] \/ reqs[s] = Free
  BY DEF User, input_ID, input_Key, Add_dev, Scan_dev, get_dev, Del_dev, get_Devinfo,
         send_data, switch2Change, Ask
<1> SUFFICES ASSUME NEW x \in Phones, calm'[account[x]], widget'[x] # checked[x]
             PROVE  \E t \in Slots : /\ reqs'[t].by = x /\ reqs'[t].op = "Switch"
                                     /\ reqs'[t].on = widget'[x]
  BY <1>1 DEF WidgetInv
<1>5. calm[account[x]]
  BY <1>0, <1>2 DEF TypeOK
<1>6. CASE widget'[x] = widget[x]
  <2>1. PICK t \in Slots : /\ reqs[t].by = x /\ reqs[t].op = "Switch"
                           /\ reqs[t].on = widget[x]
    BY <1>5, <1>6 DEF WidgetInv
  <2>2. reqs'[t] = reqs[t]
    BY <1>3, <1>4, <2>1 DEF Free
  <2> QED BY <1>6, <2>1, <2>2
<1>7. CASE widget'[x] # widget[x]
  <2>1. switch2Change(s, p) /\ x = p
    <3>1. CASE switch2Change(s, p)
      BY <1>0, <1>7, <3>1, Taps
    <3>2. CASE ~switch2Change(s, p)
      BY <1>7, <3>2 DEF User, input_ID, input_Key, Add_dev, Scan_dev, get_dev, Del_dev,
                        get_Devinfo, send_data, pages
    <3> QED BY <3>1, <3>2
  <2>2. Ask(s, p, New(p, "Switch", dev[p], widget'[p]))
    BY <1>0, <2>1, Taps
  <2>3. reqs'[s] = New(p, "Switch", dev[p], widget'[p])
    BY <1>0, <2>2 DEF Ask, TypeOK
  <2> QED BY <2>1, <2>3 DEF New
<1> QED BY <1>6, <1>7

LEMMA WidgetNetwork ==
  ASSUME CalmInv, WidgetInv, NEW s \in Slots, Network(s)
  PROVE  WidgetInv'
<1> DEFINE q == reqs[s]
<1>0. TypeOK
  BY DEF CalmInv
<1>1. account' = account /\ checked' = checked /\ widget' = widget
  BY DEF Network, recv_data, heclouds, Refused, Lost, pages, table
<1>2. q \in Request
  <2>1. q.op \in Ops \/ q # Free
    BY DEF Network, recv_data, heclouds, Refused, Lost, Ops
  <2> QED BY <1>0, <2>1, Asked
<1>3. account[q.by] \in Accounts
  BY <1>0, <1>2 DEF TypeOK, Request
<1>4. \A t \in Slots \ {s} : reqs'[t] = reqs[t]
  BY <1>0 DEF Network, recv_data, heclouds, Refused, Lost, TypeOK
<1>5. CASE Lost(s)
  <2>1. ~calm'[account[q.by]] /\ \A b \in Accounts : calm'[b] => calm[b]
    BY <1>0, <1>3, <1>5, Fails DEF Lost
  <2> SUFFICES ASSUME NEW x \in Phones, calm'[account[x]], widget[x] # checked[x]
               PROVE  \E t \in Slots : /\ reqs'[t].by = x /\ reqs'[t].op = "Switch"
                                       /\ reqs'[t].on = widget[x]
    BY <1>1 DEF WidgetInv
  <2>2. PICK t \in Slots : /\ reqs[t].by = x /\ reqs[t].op = "Switch"
                           /\ reqs[t].on = widget[x]
    BY <1>0, <2>1 DEF WidgetInv, TypeOK
  <2>3. t # s
    BY <2>1, <2>2
  <2> QED BY <1>4, <2>2, <2>3
<1>6. CASE ~Lost(s)
  <2>1. \A b \in Accounts : calm'[b] => calm[b]
    BY <1>0, <1>3, <1>6, Fails DEF Network, recv_data, heclouds, Refused
  <2>2. reqs'[s].by = q.by /\ reqs'[s].op = q.op /\ reqs'[s].on = q.on
    <3>1. \/ \E r \in Row \cup {NoRow} : reqs' = [reqs EXCEPT ![s].answered = TRUE, ![s].data = r]
          \/ reqs' = [reqs EXCEPT ![s].answered = TRUE]
      BY <1>6 DEF Network, recv_data, heclouds, Refused
    <3>2. \A r \in Row \cup {NoRow} :
            /\ Answer2(s, r).by = q.by /\ Answer2(s, r).op = q.op /\ Answer2(s, r).on = q.on
            /\ Answer1(s).by = q.by /\ Answer1(s).op = q.op /\ Answer1(s).on = q.on
      BY <1>2 DEF Request, Answer1, Answer2
    <3>3. (\E r \in Row \cup {NoRow} : reqs'[s] = Answer2(s, r)) \/ reqs'[s] = Answer1(s)
      BY <1>0, <3>1 DEF TypeOK, Answer1, Answer2
    <3> QED BY <3>2, <3>3
  <2> SUFFICES ASSUME NEW x \in Phones, calm'[account[x]], widget[x] # checked[x]
               PROVE  \E t \in Slots : /\ reqs'[t].by = x /\ reqs'[t].op = "Switch"
                                       /\ reqs'[t].on = widget[x]
    BY <1>1 DEF WidgetInv
  <2>3. PICK t \in Slots : /\ reqs[t].by = x /\ reqs[t].op = "Switch"
                           /\ reqs[t].on = widget[x]
    BY <1>0, <2>1 DEF WidgetInv, TypeOK
  <2> QED BY <1>4, <2>2, <2>3
<1> QED BY <1>5, <1>6

LEMMA WidgetAnswer ==
  ASSUME CalmInv, WidgetInv, NEW s \in Slots, Answer(s)
  PROVE  WidgetInv'
<1> DEFINE q == reqs[s]  p == reqs[s].by
<1>0. TypeOK /\ Single
  BY DEF CalmInv
<1>1. account' = account /\ calm' = calm
  BY DEF Answer, AddAnswered, ScanAnswered, InsertAnswered, ShowAnswered, DeleteAnswered,
         InfoAnswered, SwitchAnswered
<1>2. q \in Request /\ p \in Phones
  BY <1>0, AnswerTypes
<1>3. \A t \in Slots \ {s} : reqs'[t] = reqs[t]
  BY <1>0 DEF Answer, AddAnswered, ScanAnswered, InsertAnswered, ShowAnswered, DeleteAnswered,
              InfoAnswered, SwitchAnswered, Insert, Close, TypeOK
<1>4. CASE ~SwitchAnswered(s)
  <2>1. checked' = checked /\ widget' = widget /\ q.op # "Switch"
    BY <1>4 DEF Answer, AddAnswered, ScanAnswered, InsertAnswered, ShowAnswered,
                DeleteAnswered, InfoAnswered, Answered, pages
  <2> QED BY <1>1, <1>3, <2>1 DEF WidgetInv
<1>5. CASE SwitchAnswered(s)
  <2>1. /\ checked' = [checked EXCEPT ![p] = q.on] /\ Moves(p, q.on) /\ q.op = "Switch"
    BY <1>5 DEF SwitchAnswered, Answered
  <2> SUFFICES ASSUME NEW x \in Phones, calm[account[x]], widget'[x] # checked'[x]
               PROVE  \E t \in Slots : /\ reqs'[t].by = x /\ reqs'[t].op = "Switch"
                                       /\ reqs'[t].on = widget'[x]
    BY <1>1 DEF WidgetInv
  <2>2. CASE x = p
    <3>1. checked'[p] = q.on
      BY <1>0, <1>2, <2>1 DEF TypeOK
    <3>2. checked[p] = q.on /\ widget' = widget
      BY <1>0, <1>2, <2>1, <2>2, <3>1 DEF TypeOK, Moves
    <3>3. PICK t \in Slots : /\ reqs[t].by = p /\ reqs[t].op = "Switch"
                             /\ reqs[t].on = widget[p]
      BY <2>2, <3>1, <3>2 DEF WidgetInv
    <3>4. t = s
      BY <1>0, <1>2, <2>1, <2>2, <3>3 DEF Single, Of, Free
    <3> QED BY <2>2, <3>1, <3>2, <3>3, <3>4
  <2>3. CASE x # p
    <3>1. checked'[x] = checked[x] /\ widget'[x] = widget[x]
      BY <1>0, <2>1, <2>3 DEF TypeOK, Moves
    <3> QED BY <1>3, <2>3, <3>1 DEF WidgetInv
  <2> QED BY <2>2, <2>3
<1> QED BY <1>4, <1>5

LEMMA WidgetStep == ASSUME CalmInv, WidgetInv, [Next]_vars PROVE WidgetInv'
<1>1. CASE UNCHANGED vars
  BY <1>1 DEF WidgetInv, vars
<1>2. CASE Next
  BY <1>2, WidgetUser, WidgetNetwork, WidgetAnswer DEF Next
<1> QED BY <1>1, <1>2
-----------------------------------------------------------------------------
LEMMA InitTypes == ASSUME Init PROVE TypeOK
<1>1. [num |-> Blank, key |-> Blank] \in Row
  BY DEF Row, Num
<1>2. Free.op # "INSTER"
  BY DEF Free
<1> QED BY <1>1, <1>2, RegistryAssumption DEF Init, TypeOK

LEMMA InitOwn == ASSUME Init PROVE OwnInv
<1>1. TypeOK
  BY InitTypes
<1>2. \A s \in Slots : reqs[s] = Free
  BY DEF Init
<1>3. Wishes /\ Fields
  BY <1>2 DEF Init, Wishes, Fields, Free
<1>4. OwnTable
  BY <1>1 DEF Init, OwnTable, Present
<1>5. OwnPages
  BY DEF Init, OwnPages
<1>6. OwnSent
  BY <1>2 DEF OwnSent, Within, Free
<1> QED BY <1>1, <1>3, <1>4, <1>5, <1>6, OwnParts DEF OwnInv

LEMMA InitCalm == ASSUME Init PROVE CalmInv
<1>1. TypeOK
  BY InitTypes
<1>2. \A s \in Slots : reqs[s] = Free
  BY DEF Init
<1>3. Single /\ Checked
  BY <1>2 DEF Single, Checked
<1>4. AtMostOne
  <2>1. [num |-> Blank, key |-> Blank] \in Row
    BY DEF Row, Num
  <2> QED BY <2>1 DEF Init, AtMostOne
<1>5. ShownInv
  BY <1>2 DEF Init, ShownInv, Free
<1>6. SwitchInv
  BY <1>2 DEF Init, SwitchInv, Switched, Free
<1> QED BY <1>1, <1>3, <1>4, <1>5, <1>6 DEF CalmInv

\* No page and no row of an account holds a device nobody of it entered, and in
\* calm none a button was not pressed for (demo.js:18-40, adddev.js:45-75).
THEOREM OwnDevices == Spec => []OwnDevicesOnly
<1>1. OwnInv => OwnDevicesOnly
  BY DEF OwnInv
<1> QED BY <1>1, InitOwn, OwnStep, PTL DEF Spec

\* Types, and one row for an account whose requests never met, whose requests
\* never failed, and that did not scan (adddev.js:45).
THEOREM OneRowInCalm == Spec => []RegistryInv
<1>1. CalmInv => RegistryInv
  BY CalmImplies DEF RegistryInv, CalmInv
<1> QED BY <1>1, InitCalm, CalmStep, PTL DEF Spec

\* In calm, with nothing of a page on its way, what mydev shows is there
\* (mydev.js:61).
THEOREM PagesAreRight == Spec => []ShownIsThere
<1>1. CalmInv => ShownIsThere
  BY CalmImplies
<1> QED BY <1>1, InitCalm, CalmStep, PTL DEF Spec

\* In calm, with nothing of a page on its way, the switch, which moved at the
\* tap, shows what the cloud executed last for that phone (index.js:24, 135).
THEOREM SwitchIsRight == Spec => []SwitchShowsLight
<1>1. Init => WidgetInv
  BY DEF Init, WidgetInv
<1>2. CalmInv /\ WidgetInv => SwitchShowsLight
  BY CalmImplies
<1> QED BY <1>1, <1>2, InitCalm, CalmStep, WidgetStep, PTL DEF Spec
=============================================================================
