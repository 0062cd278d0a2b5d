---------------------------- MODULE FifoChannel ----------------------------
(***************************************************************************)
(* What a reliable channel promises (internal.h, PACKET_TYPE_RELIABLE):    *)
(* the messages handed to it come out at the other end whole, exactly      *)
(* once, in the order they were handed over.                               *)
(***************************************************************************)
EXTENDS Naturals, Sequences

VARIABLES
    accepted,   \* number of messages handed over: message i is the i-th of them
    output      \* the messages that have come out

vars == <<accepted, output>>

Init == accepted = 0 /\ output = <<>>

Accept ==
    /\ accepted' = accepted + 1
    /\ UNCHANGED output

Deliver ==
    /\ Len(output) < accepted
    /\ output' = Append(output, Len(output) + 1)
    /\ UNCHANGED accepted

Next == Accept \/ Deliver

Spec == Init /\ [][Next]_vars
=============================================================================
