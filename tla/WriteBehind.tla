---------------------------- MODULE WriteBehind -----------------------------
(***************************************************************************)
(* What a write-behind store promises (risk R26 of the follow-up plan): a  *)
(* restart may take the room back, but only to a state it really had, and  *)
(* never to a mixture of an older and a newer one.                         *)
(*                                                                         *)
(* lag holds, oldest first, the states of the room that the disk has yet   *)
(* to reach.                                                               *)
(***************************************************************************)
EXTENDS Integers, Sequences

VARIABLES
    room,   \* the state clients see
    disk,   \* the state a restart would bring back
    lag     \* the states between them, the last one being room

vars == <<room, disk, lag>>

Init == room = disk /\ lag = <<>>

Change == lag' = Append(lag, room') /\ UNCHANGED disk

Flush ==
    /\ \E k \in 1..Len(lag) :
        /\ disk' = lag[k]
        /\ lag' = SubSeq(lag, k + 1, Len(lag))
    /\ UNCHANGED room

Restart == room' = disk /\ lag' = <<>> /\ UNCHANGED disk

Spec == Init /\ [][Change \/ Flush \/ Restart]_vars
=============================================================================
