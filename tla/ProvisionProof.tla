--------------------------- MODULE ProvisionProof ---------------------------
(***************************************************************************)
(* Proofs about Provision: a lit status light means the right network, and *)
(* flash only ever gets the fields of the last complete form, whatever the *)
(* sizes of the arrays and the names and passwords people type.            *)
(*                                                                         *)
(* The light: the station gets an address, and the pad is routed, only     *)
(* while flash holds the user's network, and flash changes only together   *)
(* with a restart, which undoes both.                                      *)
(*                                                                         *)
(* The form: from the end of the longest name on, the name's array is all  *)
(* zeros (Erased), and while the flag is set and nothing was written       *)
(* behind the arrays they hold what was typed last (Kept).                 *)
(***************************************************************************)
EXTENDS Provision, WellFoundedInduction, TLAPS

Typed == [ssid : Names \cup {<<>>}, pass : Passwords \cup {<<>>}]

Types == TypeOK /\ typed \in Typed

Online == station = "GOT_IP" \/ muxed => flash = Home

Erased == \A i \in 0..(N - 1) : longest <= i => s_WIFI_Info[i] = NUL

Kept ==
  get_WIFI_Set_Flag /\ ~spilled =>
    /\ typed \in [ssid : Names, pass : Passwords]
    /\ Len(typed.ssid) <= longest
    /\ N + Len(typed.pass) \in Cell
    /\ \A i \in 0..(N - 1) : i < Len(typed.ssid) => s_WIFI_Info[i] = typed.ssid[i + 1]
    /\ \A i \in 0..(Len(typed.pass) - 1) : s_WIFI_Info[N + i] = typed.pass[i + 1]
    /\ s_WIFI_Info[N + Len(typed.pass)] = NUL

\* The inductive invariant.
IInv == Types /\ Online /\ Erased /\ Kept
-----------------------------------------------------------------------------
(* Smallest elements, and C strings *)

Less == {p \in Nat \X Nat : p[1] < p[2]}

LEMMA LessIsWellFounded == IsWellFoundedOn(Less, Nat)
<1>1. OpToRel(<, Nat) = Less
  BY DEF OpToRel, Less
<1> QED
  BY <1>1, NatLessThanWellFounded, Zenon

LEMMA LeastElement ==
  ASSUME NEW T, T \subseteq Nat, T # {}
  PROVE  \E x \in T : \A y \in T : x <= y
<1>1. \E x \in T : \A y \in T : ~ (<<y, x>> \in Less)
  BY LessIsWellFounded, WFMin, Zenon
<1>2. PICK x \in T : \A y \in T : ~ (<<y, x>> \in Less)
  BY <1>1
<1>3. ASSUME NEW y \in T PROVE x <= y
  <2>1. x \in Nat /\ y \in Nat
    BY <1>2
  <2>2. ~ (<<y, x>> \in Less)
    BY <1>2
  <2>3. y < x => <<y, x>> \in Less
    BY <2>1 DEF Less
  <2> QED
    BY <2>1, <2>2, <2>3
<1> QED
  BY <1>3

LEMMA MinIsLeast ==
  ASSUME NEW T, T \subseteq Nat, T # {}
  PROVE  Min(T) \in T /\ \A y \in T : Min(T) <= y
BY LeastElement DEF Min

LEMMA MaxOfTwo ==
  ASSUME NEW a \in Nat, NEW b \in Nat
  PROVE  Max({a, b}) = IF a >= b THEN a ELSE b
<1> DEFINE m == IF a >= b THEN a ELSE b
<1>1. m \in {a, b} /\ \A y \in {a, b} : m >= y
  OBVIOUS
<1>2. Max({a, b}) \in {a, b} /\ \A y \in {a, b} : Max({a, b}) >= y
  BY <1>1 DEF Max
<1> QED
  BY <1>2

\* Cells from a on that end a string.
Ends(a) == {i \in a..(2 * N) : i = 2 * N \/ s_WIFI_Info[i] = NUL}

LEMMA EndExists ==
  ASSUME NEW a \in {0, N}
  PROVE  /\ Min(Ends(a)) \in Ends(a)
         /\ \A i \in Ends(a) : Min(Ends(a)) <= i
<1>1. N \in Nat
  BY ProvisionAssumption
<1>2. Ends(a) \subseteq Nat
  BY <1>1 DEF Ends
<1>3. 2 * N \in Ends(a)
  BY <1>1 DEF Ends
<1> QED
  BY <1>2, <1>3, MinIsLeast

LEMMA StringType ==
  ASSUME NEW a \in {0, N}, TypeOK
  PROVE  String(a) \in Seq(Char)
<1> DEFINE end == Min(Ends(a))
<1>1. N \in Nat /\ s_WIFI_Info \in [Cell -> Char]
  BY ProvisionAssumption DEF TypeOK
<1>2. end \in a..(2 * N)
  BY EndExists DEF Ends
<1>3. String(a) = [i \in 1..(end - a) |-> s_WIFI_Info[a + i - 1]]
  BY DEF String, Ends
<1>4. end - a \in Nat
  BY <1>1, <1>2
<1>5. \A i \in 1..(end - a) : s_WIFI_Info[a + i - 1] \in Char
  <2> TAKE i \in 1..(end - a)
  <2>1. a + i - 1 \in Cell
    BY <1>1, <1>2 DEF Cell
  <2> QED
    BY <1>1, <2>1
<1> HIDE DEF end
<1> QED
  BY <1>3, <1>4, <1>5

\* A string whose end is known.
LEMMA StringIs ==
  ASSUME NEW a \in {0, N}, NEW s \in Seq(Char), a + Len(s) \in Cell,
         \A i \in 0..(Len(s) - 1) : s_WIFI_Info[a + i] = s[i + 1] /\ s[i + 1] # NUL,
         s_WIFI_Info[a + Len(s)] = NUL
  PROVE  String(a) = s
<1> DEFINE end == Min(Ends(a))
<1>1. N \in Nat /\ Len(s) \in Nat /\ a \in Nat
  BY ProvisionAssumption
<1>2. a + Len(s) \in Ends(a)
  BY <1>1 DEF Ends, Cell
<1>3. end \in Ends(a) /\ end <= a + Len(s)
  BY <1>2, EndExists
<1>4. ~ (end < a + Len(s))
  <2> SUFFICES ASSUME end < a + Len(s) PROVE FALSE
    OBVIOUS
  <2>1. end \in a..(2 * N) /\ end # 2 * N
    BY <1>1, <1>3 DEF Ends, Cell
  <2>2. s_WIFI_Info[end] = NUL
    BY <1>3, <2>1 DEF Ends
  <2>3. end - a \in 0..(Len(s) - 1)
    BY <1>1, <2>1
  <2>4. s_WIFI_Info[a + (end - a)] # NUL
    BY <2>3
  <2> QED
    BY <1>1, <2>1, <2>2, <2>4
<1>5. end = a + Len(s)
  BY <1>1, <1>3, <1>4 DEF Ends
<1>6. String(a) = [i \in 1..(end - a) |-> s_WIFI_Info[a + i - 1]]
  BY DEF String, Ends
<1> HIDE DEF end
<1>7. String(a) = [i \in 1..Len(s) |-> s_WIFI_Info[a + i - 1]]
  BY <1>1, <1>5, <1>6
<1>8. \A i \in 1..Len(s) : s_WIFI_Info[a + i - 1] = s[i]
  <2> TAKE i \in 1..Len(s)
  <2>1. i - 1 \in 0..(Len(s) - 1) /\ a + (i - 1) = a + i - 1 /\ (i - 1) + 1 = i
    BY <1>1
  <2> QED
    BY <2>1
<1> QED
  BY <1>7, <1>8
-----------------------------------------------------------------------------
(* What a form leaves in memory *)

LEMMA Fields ==
  /\ N \in Nat /\ N > 1 /\ SSID_SIZE \in Nat /\ N <= SSID_SIZE
  /\ NUL \in Char
  /\ \A s \in Names \cup Passwords \cup Behind :
       /\ s \in Seq(Char) /\ Len(s) \in Nat
       /\ \A i \in 1..Len(s) : s[i] \in Char /\ s[i] # NUL
<1>1. N \in Nat /\ N > 1 /\ SSID_SIZE \in Nat /\ N <= SSID_SIZE
  BY ProvisionAssumption
<1>2. NUL \in Char
  BY Zenon DEF Char
<1>3. ASSUME NEW s \in Names \cup Passwords \cup Behind
      PROVE  /\ s \in Seq(Char) /\ Len(s) \in Nat
             /\ \A i \in 1..Len(s) : s[i] \in Char /\ s[i] # NUL
  <2> DEFINE Own == {s[i] : i \in DOMAIN s}
  <2>1. s \in Seq(Own)
    BY ProvisionAssumption
  <2>2. Own \subseteq Char
    BY DEF Char
  <2> HIDE DEF Own
  <2>3. s \in Seq(Char)
    BY <2>1, <2>2
  <2>4. DOMAIN s = 1..Len(s) /\ Len(s) \in Nat /\ \A i \in 1..Len(s) : s[i] \in Char
    BY <2>3
  <2>5. \A i \in DOMAIN s : s[i] # NUL
    BY ProvisionAssumption
  <2> QED
    BY <2>3, <2>4, <2>5
<1> QED
  BY <1>1, <1>2, <1>3, Zenon

LEMMA StoredName ==
  ASSUME s_WIFI_Info \in [Cell -> Char], NEW s \in Names, NEW len \in Nat
  PROVE  /\ StoreName(s, len) \in [Cell -> Char]
         /\ \A i \in Cell : StoreName(s, len)[i] =
              IF i = len + 1 THEN NUL ELSE IF i >= len THEN s_WIFI_Info[i]
              ELSE IF i < Len(s) THEN s[i + 1] ELSE NUL
<1>1. NUL \in Char /\ s \in Seq(Char) /\ Len(s) \in Nat /\ N \in Nat
  BY Fields
<1>2. \A i \in Cell : i \in Nat
  BY <1>1 DEF Cell
<1>3. \A i \in Cell : i < Len(s) => s[i + 1] \in Char
  <2> SUFFICES ASSUME NEW i \in Cell, i < Len(s) PROVE s[i + 1] \in Char
    OBVIOUS
  <2>1. i + 1 \in 1..Len(s)
    BY <1>1, <1>2
  <2> QED
    BY <2>1, Fields
<1>4. \A i \in Cell : StoreName(s, len)[i] =
        IF i = len + 1 THEN NUL ELSE IF i >= len THEN s_WIFI_Info[i]
        ELSE IF i < Len(s) THEN s[i + 1] ELSE NUL
  BY DEF StoreName, strncpy
<1>5. StoreName(s, len) = [i \in Cell |-> StoreName(s, len)[i]]
  BY DEF StoreName
<1>6. \A i \in Cell : StoreName(s, len)[i] \in Char
  BY <1>1, <1>3, <1>4
<1> QED
  BY <1>4, <1>5, <1>6

LEMMA CopiedPassword ==
  ASSUME NEW m \in [Cell -> Char], NEW p \in Passwords
  PROVE  /\ strcpy(m, p) \in [Cell -> Char]
         /\ \A i \in Cell : strcpy(m, p)[i] =
              IF i < N \/ i > N + Len(p) THEN m[i]
              ELSE IF i = N + Len(p) THEN NUL ELSE p[i - N + 1]
<1>1. NUL \in Char /\ p \in Seq(Char) /\ Len(p) \in Nat /\ N \in Nat
  BY Fields
<1>2. \A i \in Cell : i \in Nat
  BY <1>1 DEF Cell
<1>3. /\ Append(p, NUL)[Len(p) + 1] = NUL
      /\ \A j \in 1..Len(p) : Append(p, NUL)[j] = p[j]
  BY <1>1
<1>4. \A i \in Cell : strcpy(m, p)[i] =
        IF i < N \/ i > N + Len(p) THEN m[i]
        ELSE IF i = N + Len(p) THEN NUL ELSE p[i - N + 1]
  <2> TAKE i \in Cell
  <2>1. strcpy(m, p)[i] = IF i \in N..(N + Len(p)) THEN Append(p, NUL)[i - N + 1] ELSE m[i]
    BY DEF strcpy
  <2>2. CASE i < N \/ i > N + Len(p)
    BY <1>1, <1>2, <2>1, <2>2
  <2>3. CASE i = N + Len(p)
    <3>1. i \in N..(N + Len(p)) /\ i - N + 1 = Len(p) + 1 /\ ~ (i < N \/ i > N + Len(p))
      BY <1>1, <2>3
    <3> QED
      BY <1>3, <2>1, <2>3, <3>1
  <2>4. CASE i >= N /\ i < N + Len(p)
    <3>1. i \in N..(N + Len(p)) /\ i - N + 1 \in 1..Len(p) /\ i # N + Len(p)
          /\ ~ (i < N \/ i > N + Len(p))
      BY <1>1, <1>2, <2>4
    <3> QED
      BY <1>3, <2>1, <3>1
  <2> QED
    BY <1>1, <1>2, <2>2, <2>3, <2>4
<1>5. strcpy(m, p) = [i \in Cell |-> strcpy(m, p)[i]]
  BY DEF strcpy
<1>6. \A i \in Cell : strcpy(m, p)[i] \in Char
  <2> SUFFICES ASSUME NEW i \in Cell, ~ (i < N \/ i > N + Len(p)), i # N + Len(p)
               PROVE  p[i - N + 1] \in Char
    BY <1>1, <1>4
  <2>1. i - N + 1 \in 1..Len(p)
    BY <1>1, <1>2
  <2> QED
    BY <2>1, Fields
<1> QED
  BY <1>4, <1>5, <1>6
-----------------------------------------------------------------------------
(* The invariant is kept *)

LEMMA Booted ==
  ASSUME NEW c \in Config, Boot(c)
  PROVE  IInv'
<1>1. NUL \in Char /\ N \in Nat
  BY Fields
<1>2. <<>> \in Seq(Char)
  OBVIOUS
<1>3. NoForm \in Config /\ NoForm \in Typed
  BY <1>2 DEF NoForm, Config, Typed
<1>4. Types'
  <2>1. s_WIFI_Info' \in [Cell -> Char]
    BY <1>1 DEF Boot
  <2>2. /\ get_WIFI_Set_Flag' \in BOOLEAN /\ flash' \in Config /\ station' \in Status
        /\ WIFI_connect_Flag' \in BOOLEAN /\ gpio12' \in {"high", "low"}
        /\ muxed' \in BOOLEAN
    BY DEF Boot, Status
  <2>3. typed' \in Config /\ typed' \in Typed
    BY <1>3 DEF Boot
  <2>4. longest' \in Nat /\ spilled' \in BOOLEAN
    BY DEF Boot
  <2> QED
    BY <2>1, <2>2, <2>3, <2>4 DEF Types, TypeOK
<1>5. Online' /\ Kept'
  BY DEF Online, Kept, Boot
<1>6. Erased'
  BY <1>1 DEF Erased, Boot, Cell
<1> QED
  BY <1>4, <1>5, <1>6 DEF IInv

LEMMA LongestType ==
  ASSUME TypeOK, NEW s \in Names
  PROVE  /\ Max({longest, Len(s)}) \in Nat
         /\ Max({longest, Len(s)}) >= longest
         /\ Max({longest, Len(s)}) >= Len(s)
<1>1. Len(s) \in Nat /\ longest \in Nat
  BY Fields DEF TypeOK
<1>2. Max({longest, Len(s)}) = IF longest >= Len(s) THEN longest ELSE Len(s)
  BY <1>1, MaxOfTwo
<1> QED
  BY <1>1, <1>2

\* Behind the longest name there are zeros, wherever a copy ended.
LEMMA StoreErases ==
  ASSUME TypeOK, Erased, NEW s \in Names, NEW len \in Nat,
         NEW i \in 0..(N - 1), Max({longest, Len(s)}) <= i
  PROVE  StoreName(s, len)[i] = NUL
<1>1. N \in Nat /\ Len(s) \in Nat /\ longest \in Nat
  BY Fields DEF TypeOK
<1>2. Len(s) <= i /\ longest <= i
  BY <1>1, LongestType
<1>3. i \in Cell
  BY <1>1 DEF Cell
<1>4. StoreName(s, len)[i] =
        IF i = len + 1 THEN NUL ELSE IF i >= len THEN s_WIFI_Info[i]
        ELSE IF i < Len(s) THEN s[i + 1] ELSE NUL
  BY <1>3, StoredName DEF TypeOK
<1>5. s_WIFI_Info[i] = NUL
  BY <1>2 DEF Erased
<1> QED
  BY <1>1, <1>2, <1>4, <1>5

LEMMA ReachesType ==
  ASSUME TypeOK, NEW i, Reaches(i)
  PROVE  /\ spilled' \in BOOLEAN /\ WIFI_connect_Flag' \in BOOLEAN
         /\ ~spilled' => ~spilled /\ i \in Cell
<1>1. spilled \in BOOLEAN /\ WIFI_connect_Flag \in BOOLEAN
  BY Zenon DEF TypeOK
<1>2. spilled' \in BOOLEAN /\ (~spilled' => ~spilled /\ i \in Cell)
  BY Zenon DEF Reaches
<1>3. WIFI_connect_Flag' \in IF i \in Cell THEN {WIFI_connect_Flag} ELSE BOOLEAN
  BY Zenon DEF Reaches
<1> QED
  BY <1>1, <1>2, <1>3

\* A name stored by a form that is not complete.
LEMMA NameStored ==
  ASSUME IInv, NEW s \in Names, NEW len \in Nat,
         s_WIFI_Info' = StoreName(s, len), get_WIFI_Set_Flag' = FALSE,
         longest' = Max({longest, Len(s)}), Reaches(len + 1),
         UNCHANGED <<typed, flash, station, led>>
  PROVE  IInv'
<1>1. TypeOK /\ Erased /\ typed \in Typed
  BY DEF IInv, Types
<1>2. s_WIFI_Info' \in [Cell -> Char]
  BY <1>1, StoredName DEF TypeOK
<1>3. longest' \in Nat /\ spilled' \in BOOLEAN /\ WIFI_connect_Flag' \in BOOLEAN
  BY <1>1, LongestType, ReachesType
<1>4. TypeOK'
  BY <1>1, <1>2, <1>3 DEF TypeOK, led
<1>5. Online'
  BY DEF IInv, Online, led
<1>6. Erased'
  BY <1>1, StoreErases DEF Erased
<1>7. Kept'
  BY DEF Kept
<1> QED
  BY <1>1, <1>4, <1>5, <1>6, <1>7 DEF IInv, Types, Typed

LEMMA FormStored ==
  ASSUME IInv, NEW s \in Names, NEW p \in Passwords, Form(s, p)
  PROVE  IInv'
<1> DEFINE m == StoreName(s, Len(s))
<1>1. TypeOK /\ Erased
  BY DEF IInv, Types
<1>2. /\ N \in Nat /\ Len(s) \in Nat /\ Len(p) \in Nat
      /\ s \in Seq(Char) /\ p \in Seq(Char)
  BY Fields
<1>3. Len(s) \in Nat
  BY <1>2
<1>4. m \in [Cell -> Char]
  BY <1>1, <1>3, StoredName DEF TypeOK
<1>5. \A i \in Cell : i < Len(s) => m[i] = s[i + 1]
  <2> SUFFICES ASSUME NEW i \in Cell, i < Len(s) PROVE m[i] = s[i + 1]
    OBVIOUS
  <2>1. m[i] = IF i = Len(s) + 1 THEN NUL ELSE IF i >= Len(s) THEN s_WIFI_Info[i]
               ELSE IF i < Len(s) THEN s[i + 1] ELSE NUL
    BY <1>1, <1>3, StoredName DEF TypeOK
  <2>2. i \in Nat
    BY <1>2 DEF Cell
  <2> QED
    BY <1>3, <2>1, <2>2
<1>6. s_WIFI_Info' = strcpy(m, p)
  BY DEF Form
<1>7. typed' = [ssid |-> s, pass |-> p] /\ longest' = Max({longest, Len(s)})
  BY DEF Form
<1>8. longest' \in Nat /\ Len(s) <= longest'
  BY <1>1, <1>2, <1>7, LongestType
<1>9. \A i \in 0..(N - 1) : longest' <= i => m[i] = NUL
  BY <1>1, <1>3, <1>7, StoreErases
<1> HIDE DEF m
<1>10. /\ s_WIFI_Info' \in [Cell -> Char]
       /\ \A i \in Cell : s_WIFI_Info'[i] =
            IF i < N \/ i > N + Len(p) THEN m[i]
            ELSE IF i = N + Len(p) THEN NUL ELSE p[i - N + 1]
  BY <1>4, <1>6, CopiedPassword
<1>11. typed' \in Config /\ typed' \in Typed /\ typed' \in [ssid : Names, pass : Passwords]
  BY <1>2, <1>7 DEF Config, Typed
<1>20. /\ spilled' \in BOOLEAN /\ WIFI_connect_Flag' \in BOOLEAN
       /\ ~spilled' => N + Len(p) \in Cell
  <2>1. Reaches(Max({Len(s) + 1, N + Len(p)}))
    BY Zenon DEF Form
  <2>2. Max({Len(s) + 1, N + Len(p)}) =
          IF Len(s) + 1 >= N + Len(p) THEN Len(s) + 1 ELSE N + Len(p)
    <3>1. Len(s) + 1 \in Nat /\ N + Len(p) \in Nat
      BY <1>2
    <3> QED
      BY <3>1, MaxOfTwo
  <2>3. Max({Len(s) + 1, N + Len(p)}) \in Cell => N + Len(p) \in Cell
    BY <1>2, <2>2 DEF Cell
  <2> QED
    BY <1>1, <2>1, <2>3, ReachesType, Zenon
<1>12. TypeOK'
  BY <1>1, <1>8, <1>10, <1>11, <1>20 DEF TypeOK, Form, led
<1>13. Online'
  BY DEF IInv, Online, Form, led
<1>14. Erased'
  <2> SUFFICES ASSUME NEW i \in 0..(N - 1), longest' <= i PROVE s_WIFI_Info'[i] = NUL
    BY DEF Erased
  <2>1. i \in Cell /\ i < N
    BY <1>2 DEF Cell
  <2> QED
    BY <1>9, <1>10, <2>1
<1>15. \A i \in 0..(N - 1) : i < Len(s) => s_WIFI_Info'[i] = s[i + 1]
  <2> SUFFICES ASSUME NEW i \in 0..(N - 1), i < Len(s) PROVE s_WIFI_Info'[i] = s[i + 1]
    OBVIOUS
  <2>1. i \in Cell /\ i < N /\ i < Len(s)
    BY <1>2 DEF Cell
  <2> QED
    BY <1>5, <1>10, <2>1
<1>16. ~spilled' => \A i \in 0..(Len(p) - 1) : s_WIFI_Info'[N + i] = p[i + 1]
  <2> SUFFICES ASSUME ~spilled', NEW i \in 0..(Len(p) - 1)
               PROVE  s_WIFI_Info'[N + i] = p[i + 1]
    OBVIOUS
  <2>2. N + Len(p) \in Cell
    BY <1>20
  <2>1. /\ N + i \in Cell /\ ~ (N + i < N) /\ ~ (N + i > N + Len(p))
        /\ N + i # N + Len(p) /\ (N + i) - N + 1 = i + 1
    BY <1>2, <2>2 DEF Cell
  <2> QED
    BY <1>10, <2>1
<1>17. ~spilled' => s_WIFI_Info'[N + Len(p)] = NUL
  <2> SUFFICES ASSUME ~spilled' PROVE s_WIFI_Info'[N + Len(p)] = NUL
    OBVIOUS
  <2>1. /\ N + Len(p) \in Cell /\ ~ (N + Len(p) < N) /\ ~ (N + Len(p) > N + Len(p))
    BY <1>2, <1>20 DEF Cell
  <2> QED
    BY <1>10, <2>1
<1>18. typed'.ssid = s /\ typed'.pass = p
  BY <1>7
<1>19. Kept'
  BY <1>8, <1>11, <1>15, <1>16, <1>17, <1>18, <1>20 DEF Kept
<1> QED
  BY <1>11, <1>12, <1>13, <1>14, <1>19 DEF IInv, Types, Typed

\* Nothing but the light or the station changes; what the light needs is left
\* to be shown.
LEMMA FormKept ==
  ASSUME IInv, UNCHANGED <<form, flash>>, TypeOK', Online'
  PROVE  IInv'
<1>1. Types'
  BY DEF IInv, Types, form, Typed
<1>2. Erased' /\ Kept'
  BY DEF IInv, Erased, Kept, form
<1> QED
  BY <1>1, <1>2 DEF IInv

LEMMA Initially == Init => IInv
<1> SUFFICES ASSUME Init PROVE IInv
  OBVIOUS
<1>1. NUL \in Char /\ N \in Nat
  BY Fields
<1>2. /\ <<>> \in Seq(Char)
      /\ Names \subseteq Seq(Char) /\ Passwords \subseteq Seq(Char)
  BY Fields
<1>3. NoForm \in Config /\ NoForm \in Typed
  BY <1>2 DEF NoForm, Config, Typed
<1>4. flash \in Config
  BY <1>2, <1>3 DEF Init, Config
<1>5. s_WIFI_Info \in [Cell -> Char]
  BY <1>1 DEF Init
<1>6. longest \in Nat /\ spilled \in BOOLEAN
  BY DEF Init
<1>7. Types
  BY <1>3, <1>4, <1>5, <1>6 DEF Init, Types, TypeOK, Status
<1>8. Online /\ Kept
  BY DEF Init, Online, Kept
<1>9. Erased
  BY <1>1 DEF Init, Erased, Cell
<1> QED
  BY <1>7, <1>8, <1>9 DEF IInv

LEMMA TextType ==
  ASSUME TypeOK, NEW a \in {0, N}, NEW t \in Behind
  PROVE  Text(a, t) \in Seq(Char)
<1>1. String(a) \in Seq(Char) /\ t \in Seq(Char)
  BY StringType, Fields
<1>2. String(a) \o t \in Seq(Char)
  BY <1>1
<1> QED
  BY <1>1, <1>2, Zenon DEF Text

LEMMA StoredType ==
  ASSUME TypeOK, NEW t \in Behind
  PROVE  Stored(t) \in Config
<1> DEFINE s == Text(0, t)
<1>1. s \in Seq(Char) /\ Text(N, t) \in Seq(Char)
  BY TextType
<1>2. SSID_SIZE \in Nat
  BY Fields
<1>3. Stored(t) = [ssid |-> IF Len(s) > SSID_SIZE THEN SubSeq(s, 1, SSID_SIZE) ELSE s,
                   pass |-> Text(N, t)]
  BY Zenon DEF Stored
<1> HIDE DEF s
<1>4. (IF Len(s) > SSID_SIZE THEN SubSeq(s, 1, SSID_SIZE) ELSE s) \in Seq(Char)
  <2>1. CASE Len(s) > SSID_SIZE
    <3>1. \A i \in 1..SSID_SIZE : s[i] \in Char
      BY <1>1, <1>2, <2>1
    <3>2. SubSeq(s, 1, SSID_SIZE) = [i \in 1..SSID_SIZE |-> s[i]]
      BY <1>1, <1>2, <2>1
    <3> QED
      BY <1>2, <2>1, <3>1, <3>2
  <2> QED
    BY <1>1, <2>1
<1> QED
  BY <1>1, <1>3, <1>4 DEF Config

LEMMA PollStep == ASSUME IInv, get_WIFI_state PROVE IInv'
<1>1. TypeOK
  BY DEF IInv, Types
<1>2. ASSUME NEW t \in Behind, Boot(Stored(t)) PROVE IInv'
  BY <1>1, <1>2, StoredType, Booted
<1>3. CASE ShowStatus /\ UNCHANGED <<form, flash, station, muxed>>
  <2>1. ShowStatus /\ UNCHANGED <<form, flash, station, muxed>>
    BY <1>3
  <2>2. WIFI_connect_Flag' \in BOOLEAN
    <3>1. WIFI_connect_Flag' = CASE station = "GOT_IP"       -> TRUE
                                 [] station = "CONNECT_FAIL" -> FALSE
                                 [] OTHER                    -> WIFI_connect_Flag
      BY <2>1 DEF ShowStatus
    <3>2. WIFI_connect_Flag \in BOOLEAN
      BY <1>1 DEF TypeOK
    <3>3. CASE station = "GOT_IP"
      BY <3>1, <3>3
    <3>4. CASE station = "CONNECT_FAIL"
      BY <3>1, <3>4
    <3>5. CASE station # "GOT_IP" /\ station # "CONNECT_FAIL"
      BY <3>1, <3>2, <3>5
    <3> QED
      BY <3>3, <3>4, <3>5
  <2>3. gpio12' \in {"high", "low"}
    BY <2>1 DEF ShowStatus
  <2>4. TypeOK'
    BY <1>1, <2>1, <2>2, <2>3 DEF TypeOK, form
  <2>5. Online'
    BY <2>1 DEF IInv, Online
  <2> QED
    BY <2>1, <2>4, <2>5, FormKept
<1> QED
  BY <1>2, <1>3, Zenon DEF get_WIFI_state

LEMMA Inductive == IInv /\ [Next]_vars => IInv'
<1> SUFFICES ASSUME IInv, [Next]_vars PROVE IInv'
  OBVIOUS
<1>1. TypeOK /\ flash \in Config /\ N \in Nat /\ N > 1
  BY Fields DEF IInv, Types, TypeOK
<1>2. CASE StationStep
  <2>1. station' \in Status /\ UNCHANGED <<form, flash, WIFI_connect_Flag, led>>
    BY <1>2 DEF StationStep, Status
  <2>2. station' = "GOT_IP" => flash = Home
    BY <1>2 DEF StationStep
  <2>3. TypeOK'
    BY <1>1, <2>1 DEF TypeOK, form, led
  <2>4. Online'
    BY <2>1, <2>2 DEF IInv, Online, led
  <2> QED
    BY <2>1, <2>3, <2>4, FormKept
<1>3. CASE Init_led
  <2>1. TypeOK'
    BY <1>1, <1>3 DEF TypeOK, Init_led, form
  <2>2. Online'
    BY <1>3 DEF IInv, Online, Init_led
  <2>3. UNCHANGED <<form, flash>>
    BY <1>3 DEF Init_led
  <2> QED
    BY <2>1, <2>2, <2>3, FormKept
<1>4. CASE PowerLoss \/ Rest
  BY <1>1, <1>4, Booted DEF PowerLoss, Rest
<1>5. CASE Page
  <2>1. TypeOK'
    BY <1>1, <1>5 DEF TypeOK, Page, led
  <2>2. Online' /\ Erased' /\ Kept'
    BY <1>5 DEF IInv, Online, Erased, Kept, Page, led
  <2>3. typed' \in Typed
    BY <1>5 DEF IInv, Types, Page, Typed
  <2> QED
    BY <2>1, <2>2, <2>3 DEF IInv, Types, Typed
<1>6. ASSUME NEW s \in Names, NEW p \in Passwords, Form(s, p) PROVE IInv'
  BY <1>6, FormStored
<1>7. ASSUME NEW s \in Names, NameOnly(s) PROVE IInv'
  <2>1. Len(s) \in Nat
    BY Fields
  <2> QED
    BY <1>7, <2>1, NameStored DEF NameOnly
<1>8. ASSUME NEW s \in Names, NoSeparator(s) PROVE IInv'
  <2>1. CASE Boot(flash)
    BY <1>1, <2>1, Booted
  <2>2. CASE ~Boot(flash)
    <3>1. PICK len \in 0..(2 * N) : s_WIFI_Info' = StoreName(s, len) /\ Reaches(len + 1)
      BY <1>8, <2>2 DEF NoSeparator
    <3>2. len \in Nat
      BY <1>1
    <3>3. /\ get_WIFI_Set_Flag' = FALSE /\ longest' = Max({longest, Len(s)})
          /\ UNCHANGED <<typed, flash, station, led>>
      BY <1>8, <2>2 DEF NoSeparator
    <3> QED
      BY <3>1, <3>2, <3>3, NameStored
  <2> QED
    BY <2>1, <2>2
<1>9. CASE get_WIFI_state
  BY <1>9, PollStep
<1>10. CASE UNCHANGED vars
  <2>1. TypeOK' /\ Online'
    BY <1>1, <1>10 DEF IInv, TypeOK, Online, vars, form, led
  <2>2. UNCHANGED <<form, flash>>
    BY <1>10 DEF vars
  <2> QED
    BY <2>1, <2>2, FormKept
<1> QED
  BY <1>2, <1>3, <1>4, <1>5, <1>6, <1>7, <1>8, <1>9, <1>10 DEF Next
-----------------------------------------------------------------------------
\* The invariant holds, whatever the sizes, the names and the passwords.
THEOREM ProvisionInvariant == Spec => []IInv
<1>1. IInv /\ [Next]_vars => IInv'
  BY Inductive
<1> QED
  BY <1>1, Initially, PTL DEF Spec

\* The types of the set-up hold, and a lit status light means that flash holds
\* the configuration of the user's network (WIFI.c:91, IO.c:20).
THEOREM LightIsTrue == Spec => []SetupInv
<1>1. IInv => SetupInv
  BY DEF IInv, Types, Online, SetupInv, LitMeansRightConfig, Lit
<1> QED
  BY <1>1, ProvisionInvariant, PTL

LEMMA PollStores ==
  ASSUME IInv, get_WIFI_Set_Flag, ~spilled, NEW t \in Behind, flash' = Stored(t)
  PROVE  /\ flash'.pass = typed.pass
         /\ Len(typed.ssid) = longest /\ longest < N => flash'.ssid = typed.ssid
<1>1. N \in Nat /\ N > 1 /\ SSID_SIZE \in Nat /\ N <= SSID_SIZE
  BY Fields
<1>2. /\ typed.ssid \in Names /\ typed.pass \in Passwords
      /\ N + Len(typed.pass) \in Cell
      /\ \A i \in 0..(N - 1) : i < Len(typed.ssid) => s_WIFI_Info[i] = typed.ssid[i + 1]
      /\ \A i \in 0..(Len(typed.pass) - 1) : s_WIFI_Info[N + i] = typed.pass[i + 1]
      /\ s_WIFI_Info[N + Len(typed.pass)] = NUL
  BY DEF IInv, Kept
<1>3. /\ typed.ssid \in Seq(Char) /\ Len(typed.ssid) \in Nat
      /\ \A i \in 1..Len(typed.ssid) : typed.ssid[i] # NUL
  BY <1>2, Fields
<1>4. /\ typed.pass \in Seq(Char) /\ Len(typed.pass) \in Nat
      /\ \A i \in 1..Len(typed.pass) : typed.pass[i] # NUL
  BY <1>2, Fields
<1>5. Text(N, t) = typed.pass
  <2>1. \A i \in 0..(Len(typed.pass) - 1) : typed.pass[i + 1] # NUL
    BY <1>1, <1>4
  <2>2. String(N) = typed.pass
    BY <1>2, <1>4, <2>1, StringIs
  <2>3. Len(typed.pass) # 2 * N - N
    BY <1>1, <1>2, <1>4 DEF Cell
  <2> QED
    BY <2>2, <2>3, Zenon DEF Text
<1>6. ASSUME Len(typed.ssid) = longest, longest < N
      PROVE  Text(0, t) = typed.ssid /\ ~ (Len(typed.ssid) > SSID_SIZE)
  <2>1. /\ 0 + Len(typed.ssid) = Len(typed.ssid) /\ Len(typed.ssid) \in Cell
        /\ Len(typed.ssid) # 2 * N - 0 /\ ~ (Len(typed.ssid) > SSID_SIZE)
    BY <1>1, <1>3, <1>6 DEF Cell
  <2>2. s_WIFI_Info[Len(typed.ssid)] = NUL
    <3>1. Len(typed.ssid) \in 0..(N - 1) /\ longest <= Len(typed.ssid)
      BY <1>1, <1>3, <1>6
    <3> QED
      BY <3>1 DEF IInv, Erased
  <2>3. \A i \in 0..(Len(typed.ssid) - 1) :
          s_WIFI_Info[0 + i] = typed.ssid[i + 1] /\ typed.ssid[i + 1] # NUL
    <3> TAKE i \in 0..(Len(typed.ssid) - 1)
    <3>1. i \in 0..(N - 1) /\ i < Len(typed.ssid) /\ i + 1 \in 1..Len(typed.ssid)
          /\ 0 + i = i
      BY <1>1, <1>3, <1>6
    <3> QED
      BY <1>2, <1>3, <3>1
  <2>4. String(0) = typed.ssid
    BY <1>3, <2>1, <2>2, <2>3, StringIs
  <2> QED
    BY <2>1, <2>4, Zenon DEF Text
<1>7. /\ flash'.pass = Text(N, t)
      /\ ~ (Len(Text(0, t)) > SSID_SIZE) => flash'.ssid = Text(0, t)
  BY Zenon DEF Stored
<1> QED
  BY <1>5, <1>6, <1>7

\* As long as no form was long enough to write behind s_WIFI_Info, flash is only
\* ever given the fields of the last complete form: its password always, its name
\* if it leaves room for the terminator and no longer one came before it since the
\* last restart (TCP_server.c:176, 180; WIFI.c:113).
THEOREM FlashIsAsTyped == Spec => StoredAsTyped
<1> DEFINE P == flash' # flash /\ ~spilled
                  => /\ flash'.pass = typed.pass
                     /\ Len(typed.ssid) = longest /\ longest < N
                          => flash'.ssid = typed.ssid
<1>1. IInv /\ [Next]_vars => [P]_vars
  <2> SUFFICES ASSUME IInv, Next, flash' # flash, ~spilled PROVE P
    BY Zenon DEF vars
  <2>1. get_WIFI_state
    BY Zenon DEF Next, StationStep, Init_led, PowerLoss, Page, Rest, Form, NameOnly,
                 NoSeparator, Boot
  <2>2. get_WIFI_Set_Flag /\ \E t \in Behind : Boot(Stored(t))
    BY <2>1, Zenon DEF get_WIFI_state
  <2>3. PICK t \in Behind : flash' = Stored(t)
    BY <2>2, Zenon DEF Boot
  <2> QED
    BY <2>2, <2>3, PollStores
<1> HIDE DEF P
<1>2. [][P]_vars => StoredAsTyped
  BY PTL DEF P, StoredAsTyped
<1> QED
  BY <1>1, <1>2, ProvisionInvariant, PTL DEF Spec
=============================================================================
