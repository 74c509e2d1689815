--------------------------- MODULE CommandChannel ---------------------------
(***************************************************************************)
(* What the path from the cloud to the light promises, without bytes,      *)
(* segments or buffers.  The packets of one connection are handled in the  *)
(* order they were written, each at most once, and while the connection is *)
(* whole nothing but their handling moves the light.  Packets may be lost  *)
(* on the way; if part of one is lost the connection is torn, and once the *)
(* packets before the hole are handled the light is anybody's guess.       *)
(***************************************************************************)
EXTENDS Integers, Sequences

CONSTANT Kind       \* kinds of packets the cloud writes

VARIABLES state,    \* of the connection: "down", "whole" or "torn"
          queue,    \* packets written and not yet handled
          light     \* state of the relay pins

cvars == <<state, queue, light>>

Switches == {"on", "off"}
Moved(k) == IF k \in Switches THEN k ELSE light

\* The queue without its packets a+1..b.
Without(a, b) == [j \in 1..(Len(queue) - (b - a)) |-> queue[IF j <= a THEN j ELSE j + (b - a)]]

Init == state = "down" /\ queue = <<>> /\ light \in Switches

\* A connection starts empty, and with the light off.
Open == /\ state = "down"
        /\ state' = "whole"
        /\ queue' = <<>>
        /\ light' = "off"

Write(k) == /\ state = "whole"
            /\ queue' = Append(queue, k)
            /\ UNCHANGED <<state, light>>

Handle == /\ state # "down"
          /\ queue # <<>>
          /\ queue' = Tail(queue)
          /\ light' = Moved(Head(queue))
          /\ UNCHANGED state

\* Some packets that follow one another never arrive.
Drop == /\ state = "whole"
        /\ \E a, b \in 0..Len(queue) : a < b /\ queue' = Without(a, b)
        /\ UNCHANGED <<state, light>>

\* A part of a packet never arrives: only the packets before it are of use.
Tear == /\ state = "whole"
        /\ state' = "torn"
        /\ \E a \in 0..Len(queue) : queue' = Without(a, Len(queue))
        /\ UNCHANGED light

\* What comes behind the hole can be read as any command.
Garble == /\ state = "torn"
          /\ queue = <<>>
          /\ light' \in Switches
          /\ UNCHANGED <<state, queue>>

\* The connection ends, and with it what was not handled.
Close == /\ state' = "down"
         /\ queue' = <<>>
         /\ UNCHANGED light

\* So does the device; the pins are what its boot leaves.
Restart == /\ state' = "down"
           /\ queue' = <<>>
           /\ light' \in Switches

Next == \/ Open \/ (\E k \in Kind : Write(k)) \/ Handle
        \/ Drop \/ Tear \/ Garble \/ Close \/ Restart

Spec == Init /\ [][Next]_cvars
=============================================================================
