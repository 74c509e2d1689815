----------------------------- MODULE MCChatTunnel -----------------------------
(* Two visitors, pushes of both overtaking one another, answers out of date. *)
EXTENDS ChatTunnel

\* Purging a room of two tunnels is taking out one, then the other, as the
\* forEach does, and leaves one list: for all rooms of up to four of five tunnels.
ASSUME PurgedIsSpliced ==
  \A k \in 0..4 : \A s \in [1..k -> 1..5] : Cardinality(Ids(s)) = k =>
    \A t, u \in 1..5 : Purged(s, {t, u}) = {Without(Without(s, t), u)}
=============================================================================
