---------------------------- MODULE MCProvision ----------------------------
(***************************************************************************)
(* Provision for TLC: arrays of two cells.  A name of one letter just      *)
(* fits, one of two has no room for its terminator, one of three runs into *)
(* the password and behind it; a password of one letter fits, one of two   *)
(* does not.  A configuration has room for a name of three.                *)
(***************************************************************************)
EXTENDS Provision

MCNames     == {<<>>, <<"a">>, <<"b">>, <<"a", "b">>, <<"b", "b", "b">>}
MCPasswords == {<<"x">>, <<"x", "x">>}
MCBehind    == {<<>>, <<"x">>}
MCHome      == [ssid |-> <<"a">>, pass |-> <<"x">>]
=============================================================================
