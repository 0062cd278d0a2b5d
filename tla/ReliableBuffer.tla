--------------------------- MODULE ReliableBuffer ---------------------------
(***************************************************************************)
(* con::ReliablePacketBuffer (src/network/mtp/impl.cpp): the list in which *)
(* a Channel keeps packets in the order of their sequence numbers, counted *)
(* from the number that is expected next.  A Channel has two: the packets  *)
(* received too early (next is next_incoming_seqnum) and the packets sent  *)
(* and not acknowledged (next is half of the space behind                  *)
(* next_outgoing_seqnum).  The list is searched from its front only, so    *)
(* its order decides which packet counts as the oldest one.                *)
(***************************************************************************)
EXTENDS SeqNum, Sequences, SequencesExt

CONSTANT Sizes

VARIABLES
    list,       \* m_list
    next,       \* next_expected, what the caller passes
    corrupt     \* the last insert() threw IncomingDataCorruption

bufferVars == <<list, next, corrupt>>

Packet == [seq : SeqNums, size : Sizes]

BufferTypeOK ==
    /\ list \in Seq(Packet)
    /\ next \in SeqNums
    /\ corrupt \in BOOLEAN

BufferInit == list = <<>> /\ next \in SeqNums /\ corrupt = FALSE

\* Fault: numbers are compared as if they never wrapped around.
PassesUnwrapped(s, seqnum) == s < seqnum

\* The search of insert() goes past a packet with number s.
Passes(s, seqnum) ==
    IF seqnum < next
    THEN s < seqnum \/ s >= next
    ELSE s < seqnum /\ s >= next

\* Where it stops: at a packet, or behind the last one.
Place(seqnum) ==
    CHOOSE i \in 1 .. Len(list) + 1 :
        /\ \A j \in 1 .. i - 1 : Passes(list[j].seq, seqnum)
        /\ i <= Len(list) => ~ Passes(list[i].seq, seqnum)

IsRepeat(p) == Place(p.seq) <= Len(list) /\ list[Place(p.seq)].seq = p.seq

\* insert() turns away what is outside the window and what is expected right now.
Acceptable(seqnum) ==
    seqnum_in_window(seqnum, next, MAX_RELIABLE_WINDOW_SIZE) /\ seqnum # next

Insert(p) ==
    /\ list' = IF Acceptable(p.seq) /\ ~ IsRepeat(p)
               THEN InsertAt(list, Place(p.seq), p)
               ELSE list
    /\ corrupt' = (/\ Acceptable(p.seq) /\ IsRepeat(p)
                   /\ list[Place(p.seq)].size # p.size)
    /\ UNCHANGED next

\* popSeqnum, which an ACK calls: the first packet in the list with that number.
PopSeqnum(seqnum) ==
    /\ \E i \in DOMAIN list :
           /\ list[i].seq = seqnum
           /\ \A j \in 1 .. i - 1 : list[j].seq # seqnum
           /\ list' = RemoveAt(list, i)
    /\ UNCHANGED <<next, corrupt>>

PopFirst ==
    /\ list # <<>>
    /\ list' = Tail(list)
    /\ UNCHANGED <<next, corrupt>>

\* The receiver moves on when the number at the front of the list is not the expected
\* one (checkIncomingBuffers); the sender's oldest packet keeps it from moving on.
MayAdvance == list # <<>> => Head(list).seq # next

Advance ==
    /\ MayAdvance
    /\ next' = Plus(next, 1)
    /\ UNCHANGED <<list, corrupt>>

BufferNext ==
    \/ \E p \in Packet : Insert(p)
    \/ \E s \in SeqNums : PopSeqnum(s)
    \/ PopFirst
    \/ Advance

BufferSpec == BufferInit /\ [][BufferNext]_bufferVars

-----------------------------------------------------------------------------
\* For its callers the list is the set of its packets and its front is the one that
\* comes next: a packet is never dropped, doubled or replaced, a repeated one is found
\* wherever it is, and the number that is expected never passes a packet in the list.
Abstract == INSTANCE PacketSet WITH
    held  <- ToSet(list),
    first <- IF list = <<>> THEN {} ELSE {Head(list)}

ImplementsPacketSet == Abstract!Spec
=============================================================================
