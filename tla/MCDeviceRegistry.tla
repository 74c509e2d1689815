--------------------------- MODULE MCDeviceRegistry ---------------------------
(* Two phones, of one account or of two, one device and the blank number. *)
EXTENDS DeviceRegistry, TLC

Symmetry == Permutations(Phones) \cup Permutations(Accounts)
            \cup Permutations(Slots)
=============================================================================
