----------------------------- MODULE PacketSet -----------------------------
(***************************************************************************)
(* What the callers of ReliablePacketBuffer rely on: a set of packets with *)
(* different sequence numbers, of which getFirstSeqnum shows the one whose *)
(* number comes next at or after `next', however the numbers wrap.         *)
(***************************************************************************)
EXTENDS SeqNum

CONSTANT Sizes      \* what tells a packet from another one with its number

VARIABLES
    held,       \* the packets
    next,       \* the number that is expected next
    first,      \* the packets whose number getFirstSeqnum shows: one or none
    corrupt     \* the last insertion threw IncomingDataCorruption

vars == <<held, next, first, corrupt>>

Packet == [seq : SeqNums, size : Sizes]

Nearest(packets, n) ==
    {p \in packets : \A q \in packets : Minus(p.seq, n) <= Minus(q.seq, n)}

Init ==
    /\ held = {} /\ next \in SeqNums
    /\ first = {} /\ corrupt = FALSE

\* A packet that is expected later is kept, unless its number is there already: then
\* it must be the same packet.
Insert(p) ==
    LET same == {q \in held : q.seq = p.seq}
        inside == Minus(p.seq, next) \in 1 .. MAX_RELIABLE_WINDOW_SIZE - 1
    IN
    /\ held' = IF inside /\ same = {} THEN held \union {p} ELSE held
    /\ corrupt' = (inside /\ \E q \in same : q # p)
    /\ UNCHANGED next

Remove(s) ==
    /\ held' = {p \in held : p.seq # s}
    /\ UNCHANGED <<next, corrupt>>

\* The expected number moves on; a packet that has it is never passed over.
Advance ==
    /\ \A p \in held : p.seq # next
    /\ next' = Plus(next, 1)
    /\ UNCHANGED <<held, corrupt>>

Next ==
    /\ \/ \E p \in Packet : Insert(p)
       \/ \E s \in SeqNums : Remove(s)
       \/ Advance
    /\ first' = Nearest(held', next')

Spec == Init /\ [][Next]_vars
=============================================================================
