----------------------------- MODULE Provision -----------------------------
(***************************************************************************)
(* Setting up the station: the page served on the device's own access      *)
(* point stores a name and a password in s_WIFI_Info (TCP_server.c), the   *)
(* five-second poll writes them to flash and restarts (WIFI.c), and the    *)
(* status light on GPIO 12 shows whether the station is connected (IO.c).  *)
(*                                                                         *)
(* s_WIFI_Info is memory: ssid[N] followed by pass[N].  A segment of an    *)
(* HTTP request is what get_Post_Par makes of it; the names and passwords  *)
(* are the form's fields as they arrive, which the code does not decode    *)
(* and whose lengths it does not check.  Once something was written behind *)
(* pass (spilled), what the firmware keeps there may be anything until it  *)
(* restarts: its flag of a connection, its copy of the configuration, the  *)
(* timer of the poll.                                                      *)
(***************************************************************************)
EXTENDS Integers, Sequences, FiniteSetsExt

CONSTANTS
  N,          \* sizeof s_WIFI_Info.ssid and of s_WIFI_Info.pass
  SSID_SIZE,  \* sizeof station_config.ssid
  Names,      \* network names a form carries, sequences of characters
  Passwords,  \* passwords, whole or cut short by the end of a segment
  Behind,     \* what can lie behind s_WIFI_Info, up to the next NUL
  Home        \* the user's network, [ssid, pass]

NUL == "NUL"

ASSUME ProvisionAssumption ==
  /\ N \in Nat \ {0, 1} /\ SSID_SIZE \in Nat /\ N <= SSID_SIZE
  /\ \A s \in Names \cup Passwords \cup Behind :
       s \in Seq({s[i] : i \in DOMAIN s}) /\ \A i \in DOMAIN s : s[i] # NUL

VARIABLES
  s_WIFI_Info,         \* the two adjacent arrays
  get_WIFI_Set_Flag,   \* the last segment was a complete form
  flash,               \* the station configuration, and s_Station_Config
  station,             \* wifi_station_get_connect_status()
  WIFI_connect_Flag,
  gpio12,              \* output level: "high" is lit
  muxed,               \* the pad is routed to the GPIO: Init_led has run
  typed,               \* the last complete form since boot
  longest,             \* length of the longest name stored since boot
  spilled              \* something was written behind s_WIFI_Info since boot

form   == <<s_WIFI_Info, get_WIFI_Set_Flag, typed, longest, spilled>>
led    == <<gpio12, muxed>>
vars   == <<form, flash, station, WIFI_connect_Flag, led>>
-----------------------------------------------------------------------------
Cell    == 0..(2 * N - 1)
Char    == (UNION {{s[i] : i \in DOMAIN s} : s \in Names \cup Passwords \cup Behind}) \cup {NUL}
Config  == [ssid : Seq(Char), pass : Seq(Char)]
NoForm  == [ssid |-> <<>>, pass |-> <<>>]
Status  == {"IDLE", "CONNECTING", "WRONG_PASSWORD", "NO_AP_FOUND", "CONNECT_FAIL", "GOT_IP"}

\* The C string that starts at cell a, as far as s_WIFI_Info reaches; and the
\* whole of it, with t behind s_WIFI_Info.
String(a)  == LET end == Min({i \in a..(2 * N) : i = 2 * N \/ s_WIFI_Info[i] = NUL})
              IN [i \in 1..(end - a) |-> s_WIFI_Info[a + i - 1]]
Text(a, t) == IF Len(String(a)) = 2 * N - a THEN String(a) \o t ELSE String(a)

\* strncpy(ssid, s, len) into memory m: zeros after a shorter s.
strncpy(m, s, len) ==
  [i \in Cell |-> IF i >= len THEN m[i] ELSE IF i < Len(s) THEN s[i + 1] ELSE NUL]

\* strcpy(pass, p).
strcpy(m, p) ==
  [i \in Cell |-> IF i \in N..(N + Len(p)) THEN Append(p, NUL)[i - N + 1] ELSE m[i]]

\* The name is copied and terminated one cell too late: cell len keeps what it
\* held before.
StoreName(s, len) == [i \in Cell |-> IF i = len + 1 THEN NUL ELSE strncpy(s_WIFI_Info, s, len)[i]]

\* Cell i is written: it may be one behind s_WIFI_Info, of a flag for instance.
Reaches(i) == /\ spilled' = (spilled \/ i \notin Cell)
              /\ WIFI_connect_Flag' \in IF i \in Cell THEN {WIFI_connect_Flag} ELSE BOOLEAN

\* wifi_set_station_config copies as many bytes as the two strings have.  Those of
\* a name that does not fit run into the password, which is copied after it; a
\* name that just fits has no end when the configuration is read back.
Stored(t)     == LET s == Text(0, t) IN
                 [ssid |-> IF Len(s) > SSID_SIZE THEN SubSeq(s, 1, SSID_SIZE) ELSE s,
                  pass |-> Text(N, t)]
ConfigName(c) == IF Len(c.ssid) < SSID_SIZE THEN c.ssid ELSE c.ssid \o c.pass

TypeOK ==
  /\ s_WIFI_Info \in [Cell -> Char]
  /\ get_WIFI_Set_Flag \in BOOLEAN
  /\ flash \in Config
  /\ station \in Status
  /\ WIFI_connect_Flag \in BOOLEAN
  /\ gpio12 \in {"high", "low"}
  /\ muxed \in BOOLEAN
  /\ typed \in Config
  /\ longest \in Nat
  /\ spilled \in BOOLEAN

\* user_init after power-on or a restart, with c in flash.
Boot(c) ==
  /\ s_WIFI_Info' = [i \in Cell |-> NUL]
  /\ get_WIFI_Set_Flag' = FALSE
  /\ flash' = c
  /\ station' = "IDLE"
  /\ WIFI_connect_Flag' = FALSE
  /\ gpio12' = "low"
  /\ muxed' = FALSE
  /\ typed' = NoForm
  /\ longest' = 0
  /\ spilled' = FALSE

Init ==
  /\ s_WIFI_Info = [i \in Cell |-> NUL]
  /\ get_WIFI_Set_Flag = FALSE
  /\ flash \in {NoForm} \cup {c \in [ssid : Names \ {<<>>}, pass : Passwords] :
                               Len(c.ssid) <= SSID_SIZE}
  /\ station = "IDLE"
  /\ WIFI_connect_Flag = FALSE
  /\ gpio12 = "low"
  /\ muxed = FALSE
  /\ typed = NoForm
  /\ longest = 0
  /\ spilled = FALSE
-----------------------------------------------------------------------------
(* The radio, the cloud link and the supply *)

\* Without a stored name the device stays an access point only.
StationStep ==
  /\ flash.ssid # <<>>
  /\ station' \in IF station = "CONNECTING"
                  THEN {"WRONG_PASSWORD", "NO_AP_FOUND", "CONNECT_FAIL"}
                       \cup (IF flash = Home THEN {"GOT_IP"} ELSE {})
                  ELSE {"CONNECTING"}
  /\ UNCHANGED <<form, flash, WIFI_connect_Flag, led>>

\* Every link to the cloud that is established runs Init_led: GPIO 12 becomes an
\* output, high.  When links are tried is OneNetLink's; here, any time they can.
Init_led == /\ station = "GOT_IP"
            /\ muxed' = TRUE
            /\ gpio12' = "high"
            /\ UNCHANGED <<form, flash, station, WIFI_connect_Flag>>

PowerLoss == Boot(flash)
-----------------------------------------------------------------------------
(* espconn_ESP_server_recv_cb, by what get_Post_Par finds in the segment *)

\* A blank line and no "=" behind it: a page request, or the head of a POST.
Page == /\ get_WIFI_Set_Flag' = FALSE
        /\ UNCHANGED <<s_WIFI_Info, typed, longest, spilled, flash, station, WIFI_connect_Flag, led>>

\* Both fields.
Form(s, p) ==
  /\ s_WIFI_Info' = strcpy(StoreName(s, Len(s)), p)
  /\ Reaches(Max({Len(s) + 1, N + Len(p)}))
  /\ get_WIFI_Set_Flag' = TRUE
  /\ typed' = [ssid |-> s, pass |-> p]
  /\ longest' = Max({longest, Len(s)})
  /\ UNCHANGED <<flash, station, led>>

\* Mutant: a form cut off behind the name does not clear the flag.
NameOnly_KeepsFlag(s) ==
  /\ s_WIFI_Info' = StoreName(s, Len(s))
  /\ Reaches(Len(s) + 1)
  /\ longest' = Max({longest, Len(s)})
  /\ UNCHANGED <<get_WIFI_Set_Flag, typed, flash, station, led>>

\* Cut off between "&" and the second "=": the name is stored all the same.
NameOnly(s) ==
  /\ s_WIFI_Info' = StoreName(s, Len(s))
  /\ Reaches(Len(s) + 1)
  /\ get_WIFI_Set_Flag' = FALSE
  /\ longest' = Max({longest, Len(s)})
  /\ UNCHANGED <<typed, flash, station, led>>

\* Cut off before "&": len is not initialised.  It is any number, 2 * N standing
\* for all that are larger; one that is negative or too large for the memory
\* there is ends in an exception.
NoSeparator(s) ==
  \/ \E len \in 0..(2 * N) :
       /\ s_WIFI_Info' = StoreName(s, len)
       /\ Reaches(len + 1)
       /\ get_WIFI_Set_Flag' = FALSE
       /\ longest' = Max({longest, Len(s)})
       /\ UNCHANGED <<typed, flash, station, led>>
  \/ Boot(flash)

\* No blank line, the rest of a request: strstr returns NULL, and searching
\* from NULL + 4 is a fatal exception.
Rest == Boot(flash)
-----------------------------------------------------------------------------
\* The part of get_WIFI_state before the form is looked at.
ShowStatus ==
  /\ WIFI_connect_Flag' = CASE station = "GOT_IP"       -> TRUE
                            [] station = "CONNECT_FAIL" -> FALSE
                            [] OTHER                    -> WIFI_connect_Flag
  /\ gpio12' = IF WIFI_connect_Flag' THEN "high" ELSE "low"

\* A form waits, and its name is not the one in use.
NewName == get_WIFI_Set_Flag /\ (flash.ssid = <<>> \/ String(0) # ConfigName(flash))

\* Mutant: the new configuration is stored without a restart.
get_WIFI_state_NoRestart ==
  /\ ShowStatus
  /\ IF NewName THEN \E t \in Behind : flash' = Stored(t) ELSE UNCHANGED flash
  /\ UNCHANGED <<form, station, muxed>>

\* Mutant: only a device without a configuration takes one.
get_WIFI_state_OnlyEmpty ==
  IF NewName /\ flash.ssid = <<>>
  THEN \E t \in Behind : Boot(Stored(t))
  ELSE ShowStatus /\ UNCHANGED <<form, flash, station, muxed>>

\* Mutant: the light is not switched by the poll.
get_WIFI_state_NoLight ==
  IF NewName
  THEN \E t \in Behind : Boot(Stored(t))
  ELSE /\ WIFI_connect_Flag' = (station = "GOT_IP")
       /\ gpio12' = "low"
       /\ UNCHANGED <<form, flash, station, muxed>>

\* T_get_WIFI, every 5 s.  A form with the name in use is ignored, whatever its
\* password, and waits for ever.  The configuration in RAM may have been written
\* over: then the names are the same or not.
get_WIFI_state ==
  \/ /\ get_WIFI_Set_Flag /\ (NewName \/ spilled)
     /\ \E t \in Behind : Boot(Stored(t))
  \/ /\ ~NewName \/ spilled
     /\ ShowStatus
     /\ UNCHANGED <<form, flash, station, muxed>>
-----------------------------------------------------------------------------
Next == \/ StationStep \/ Init_led \/ PowerLoss
        \/ Page \/ Rest
        \/ \E s \in Names, p \in Passwords : Form(s, p)
        \/ \E s \in Names : NameOnly(s) \/ NoSeparator(s)
        \/ get_WIFI_state

Spec == Init /\ [][Next]_vars

\* T_get_WIFI is a periodic timer, unless it was written over, and a station
\* without an address keeps trying.
FairSpec == /\ Spec
            /\ WF_vars(~spilled /\ get_WIFI_state)
            /\ WF_vars(station # "GOT_IP" /\ StationStep)
-----------------------------------------------------------------------------
(* What makes the set-up correct *)

Lit == muxed /\ gpio12 = "high"

\* The two fields in flash come from one form, the last complete one, however
\* many cut off requests came before or after it; the name is the one that was
\* typed if no name since boot was longer, so that it ends behind all remains
\* of earlier names.  Only a device that wrote behind s_WIFI_Info is excepted.
StoredAsTyped ==
  [][flash' # flash /\ ~spilled
       => /\ flash'.pass = typed.pass
          /\ Len(typed.ssid) = longest /\ longest < N => flash'.ssid = typed.ssid]_vars

\* A lit status light proves that the configuration in flash is that of the
\* user's network, even when the connection itself is gone.
LitMeansRightConfig == Lit => flash = Home

\* Types, and what the light means.
SetupInv == TypeOK /\ LitMeansRightConfig

\* A form with a new name does not stay unused: the poll stores it, unless
\* another request or a restart takes its place first, or writes too far.
NewNameApplied == (NewName /\ ~spilled) ~> (~NewName \/ spilled)

\* Once the device has been online and the station keeps its address, the light
\* stays lit.
LightStaysLit == <>[](station = "GOT_IP" /\ muxed /\ ~spilled) => <>[]Lit

\* What the manual says and the code does not do: the name in use is the name
\* that was typed.
NameAsTyped == get_WIFI_Set_Flag /\ Len(typed.ssid) \in 1..(N - 1) => String(0) = typed.ssid
=============================================================================
