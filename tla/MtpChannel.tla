----------------------------- MODULE MtpChannel -----------------------------
(***************************************************************************)
(* One reliable channel of the MTP transport (src/network/mtp): the        *)
(* sending side of it at one host and the receiving side at the other,     *)
(* with the network between them.  The network keeps what it is given in   *)
(* two sets of messages; it may deliver any of them at any time, again and *)
(* again, in any order, and may lose any copy.                             *)
(*                                                                         *)
(* A packet carries its 16-bit sequence number `seq' and, as a history     *)
(* component that no guard reads, its position `idx' in the stream of      *)
(* reliable packets ever numbered on the channel.  `log' is that stream:   *)
(* log[i] is the number of the message that packet i completes, or 0 when  *)
(* packet i is a ping or a chunk that is not the last of its message.      *)
(***************************************************************************)
EXTENDS SeqNum, Sequences, SequencesExt

CONSTANTS
    SEQNUM_INITIAL,                 \* 65500 in the code
    START_RELIABLE_WINDOW_SIZE,     \* 64
    MIN_RELIABLE_WINDOW_SIZE,       \* 32
    MAX_RELIABLE_WINDOW_SIZE_SEND,  \* 2048
    WindowStep,                     \* 100
    MaxPacketsRequeued,             \* 256, m_max_packets_requeued
    MessageSizes,                   \* chunks a message may have, < 0x8000 each
    MaxPings,                       \* pings (one in 5 s) while a queue persists
    MaxPackets                      \* bound: packets asked for in a behaviour

H == MAX_RELIABLE_WINDOW_SIZE

ASSUME ChannelAssumption ==
    /\ SEQNUM_INITIAL \in SeqNums
    /\ MIN_RELIABLE_WINDOW_SIZE \in Nat \ {0}
    /\ START_RELIABLE_WINDOW_SIZE \in Nat
    /\ MAX_RELIABLE_WINDOW_SIZE_SEND \in Nat
    /\ MIN_RELIABLE_WINDOW_SIZE <= START_RELIABLE_WINDOW_SIZE
    /\ START_RELIABLE_WINDOW_SIZE <= MAX_RELIABLE_WINDOW_SIZE_SEND
    /\ WindowStep \in Nat /\ MaxPacketsRequeued \in Nat
    /\ MessageSizes \subseteq 1 .. H - 1
    /\ MaxPings \in Nat /\ MaxPackets \in Nat

VARIABLES
    \* Sending host: struct Channel of the peer it sends to.
    accepted,           \* messages handed to PutReliableSendCommand so far
    queued_commands,    \* commands not yet split into numbered packets
    queued_reliables,   \* numbered packets that wait for the send window
    outgoing_sent,      \* outgoing_reliables_sent: packets that wait for an ACK
    next_outgoing,      \* next_outgoing_seqnum
    window_size,        \* m_window_size
    pings,              \* history: pings since queued_reliables was last empty
    log,                \* history: the stream of packets numbered so far
    overrun,            \* history: unacknowledged packets once spanned half the space
    \* Network.
    wire,               \* reliable packets that may still arrive
    acks,               \* CONTROLTYPE_ACK packets that may still arrive
    \* Receiving host: struct Channel of the peer it receives from.
    next_incoming,      \* next_incoming_seqnum
    incoming_reliables, \* packets buffered ahead of next_incoming
    delivered,          \* history: positions of the packets processed, in order
    disconnecting       \* IncomingDataCorruption made the receiver drop the peer

senderVars   == <<accepted, queued_commands, queued_reliables, outgoing_sent,
                  next_outgoing, window_size, pings, log, overrun>>
networkVars  == <<wire, acks>>
receiverVars == <<next_incoming, incoming_reliables, delivered, disconnecting>>
vars == <<senderVars, networkVars, receiverVars>>

Packet  == [seq : SeqNums, idx : Nat \ {0}]
Command == [msg : Nat \ {0}, chunks : MessageSizes]

TypeOK ==
    /\ accepted \in Nat
    /\ queued_commands \in Seq(Command)
    /\ queued_reliables \in Seq(Packet)
    /\ outgoing_sent \subseteq Packet
    /\ next_outgoing \in SeqNums
    /\ window_size \in MIN_RELIABLE_WINDOW_SIZE .. MAX_RELIABLE_WINDOW_SIZE_SEND
    /\ pings \in Nat
    /\ log \in Seq(Nat)
    /\ overrun \in BOOLEAN
    /\ wire \subseteq Packet
    /\ acks \subseteq Packet
    /\ next_incoming \in SeqNums
    /\ incoming_reliables \subseteq Packet
    /\ delivered \in Seq(Nat)
    /\ disconnecting \in BOOLEAN

Init ==
    /\ accepted = 0
    /\ queued_commands = <<>>
    /\ queued_reliables = <<>>
    /\ outgoing_sent = {}
    /\ next_outgoing = SEQNUM_INITIAL
    /\ window_size = START_RELIABLE_WINDOW_SIZE
    /\ pings = 0
    /\ log = <<>>
    /\ overrun = FALSE
    /\ wire = {}
    /\ acks = {}
    /\ next_incoming = SEQNUM_INITIAL
    /\ incoming_reliables = {}
    /\ delivered = <<>>
    /\ disconnecting = FALSE

-----------------------------------------------------------------------------
(* Both reliable buffers are lists ordered from the oldest packet on       *)
(* (ReliablePacketBuffer::insert, module ReliableBuffer): here they are    *)
(* sets, and the front of the list is computed.                            *)

\* outgoing_reliables_sent.getFirstSeqnum: the packet farthest behind next_outgoing.
Oldest ==
    CHOOSE p \in outgoing_sent : \A q \in outgoing_sent :
        Minus(next_outgoing, q.seq) <= Minus(next_outgoing, p.seq)

\* incoming_reliables.getFirstSeqnum(s) succeeds with s = seqnum.
FirstBuffered(p) ==
    /\ p \in incoming_reliables
    /\ \A q \in incoming_reliables :
           Minus(p.seq, next_incoming) <= Minus(q.seq, next_incoming)

\* getOutgoingSequenceNumber succeeds when next_outgoing_seqnum is `next'.
Available(next) ==
    outgoing_sent # {} =>
        IF Oldest.seq < next
        THEN next - Oldest.seq <= window_size
        ELSE next + (SEQNUM_MAX - Oldest.seq) <= window_size

\* Every packet of a message gets a number, or processReliableSendCommand puts
\* back the ones it took.
CanNumber(n) == \A j \in 0 .. n - 1 : Available(Plus(next_outgoing, j))

NewPackets(n) ==
    [j \in 1 .. n |-> [seq |-> Plus(next_outgoing, j - 1), idx |-> Len(log) + j]]

\* A datagram does not stay in the network while half of the sequence number
\* space is used up behind it.
Fresh(msgs, length) == {m \in msgs : length + 1 - m.idx <= H}

\* The sender's view after n more packets: numbered, logged, and old datagrams gone.
\* The packets of `waiting' are the ones that no ACK has covered yet.
Number(n, msg, waiting) ==
    /\ next_outgoing' = Plus(next_outgoing, n)
    /\ log' = log \o [j \in 1 .. n |-> IF j = n THEN msg ELSE 0]
    /\ overrun' = (overrun \/ \E p \in waiting : Len(log) + n + 1 - p.idx >= H)
    /\ acks' = Fresh(acks, Len(log) + n)

-----------------------------------------------------------------------------
(* The application and the send thread of the sending host.                *)

\* The exploration bound: n more packets besides the ones numbered or asked for.
WithinBound(n) ==
    Len(log) + FoldLeft(LAMBDA sum, c : sum + c.chunks, 0, queued_commands) + n
        <= MaxPackets

\* processReliableSendCommand succeeds: the message's packets enter queued_reliables.
Enqueue(n, msg) ==
    /\ CanNumber(n)
    /\ queued_reliables' = queued_reliables \o NewPackets(n)
    /\ Number(n, msg, outgoing_sent \union ToSet(queued_reliables'))
    /\ wire' = Fresh(wire, Len(log) + n)

\* Fault: a message is processed at once although others wait in queued_commands.
MayProcessAnyTime == Len(queued_reliables) + 1 < window_size \div 2

\* UDPPeer::PutReliableSendCommand tries the message at once.
MayProcessNow ==
    queued_commands = <<>> /\ Len(queued_reliables) + 1 < window_size \div 2

SendNow(n) ==
    /\ WithinBound(n)
    /\ MayProcessNow
    /\ Enqueue(n, accepted + 1)
    /\ accepted' = accepted + 1
    /\ UNCHANGED <<queued_commands, outgoing_sent, window_size, pings, receiverVars>>

\* ... or leaves it for RunCommandQueues.
SendLater(n) ==
    /\ WithinBound(n)
    /\ ~ (MayProcessNow /\ CanNumber(n))
    /\ accepted' = accepted + 1
    /\ queued_commands' =
           Append(queued_commands, [msg |-> accepted + 1, chunks |-> n])
    /\ UNCHANGED <<queued_reliables, outgoing_sent, next_outgoing, window_size,
                   pings, log, overrun, networkVars, receiverVars>>

RunCommandQueue ==
    /\ queued_commands # <<>>
    /\ Len(queued_reliables) < MaxPacketsRequeued
    /\ Enqueue(Head(queued_commands).chunks, Head(queued_commands).msg)
    /\ queued_commands' = Tail(queued_commands)
    /\ UNCHANGED <<accepted, outgoing_sent, window_size, pings, receiverVars>>

\* sendAsPacketReliable: the buffer takes the packet only when its number is less
\* than half of the space behind next_outgoing; the datagram goes out in any case.
Buffered(p, next) ==
    LET expected == Minus(next, H) IN
    IF seqnum_in_window(p.seq, expected, H) /\ p.seq # expected
    THEN outgoing_sent \union {p}
    ELSE outgoing_sent

\* ConnectionSendThread::sendPackets, one packet of its loop.
SendQueued ==
    /\ queued_reliables # <<>>
    /\ Cardinality(outgoing_sent) < window_size
    /\ LET p == Head(queued_reliables) IN
       /\ outgoing_sent' = Buffered(p, next_outgoing)
       /\ wire' = Fresh(wire \union {p}, Len(log))
    /\ queued_reliables' = Tail(queued_reliables)
    /\ pings' = IF queued_reliables' = <<>> THEN 0 ELSE pings
    /\ UNCHANGED <<accepted, queued_commands, next_outgoing, window_size, log,
                   overrun, acks, receiverVars>>

\* rawSendAsPacket of runTimeouts' ping: it overtakes whatever is queued when the
\* window has room.
Ping ==
    /\ WithinBound(1)
    /\ pings < MaxPings
    /\ Available(next_outgoing)
    /\ LET p == NewPackets(1)[1] IN
       IF Cardinality(outgoing_sent) < window_size
       THEN /\ outgoing_sent' = Buffered(p, Plus(next_outgoing, 1))
            /\ wire' = Fresh(wire \union {p}, Len(log) + 1)
            /\ UNCHANGED queued_reliables
       ELSE /\ queued_reliables' = Append(queued_reliables, p)
            /\ wire' = Fresh(wire, Len(log) + 1)
            /\ UNCHANGED outgoing_sent
    /\ pings' = IF queued_reliables' = <<>> THEN 0 ELSE pings + 1
    /\ Number(1, 0, outgoing_sent' \union ToSet(queued_reliables'))
    /\ UNCHANGED <<accepted, queued_commands, window_size, receiverVars>>

\* runTimeouts: the packet's resend timer has expired.
Resend(p) ==
    /\ p \in outgoing_sent
    /\ wire' = Fresh(wire \union {p}, Len(log))
    /\ UNCHANGED <<senderVars, acks, receiverVars>>

\* Fault: setWindowSize without rangelim.
UpdateWindowUnclamped(size) ==
    /\ window_size' = size
    /\ UNCHANGED <<accepted, queued_commands, queued_reliables, outgoing_sent,
                   next_outgoing, pings, log, overrun, networkVars, receiverVars>>

\* Channel::UpdateTimers moves the window by a step and setWindowSize clamps it.
UpdateWindow(size) ==
    /\ window_size' =
           IF size < MIN_RELIABLE_WINDOW_SIZE THEN MIN_RELIABLE_WINDOW_SIZE
           ELSE IF size > MAX_RELIABLE_WINDOW_SIZE_SEND
                THEN MAX_RELIABLE_WINDOW_SIZE_SEND
                ELSE size
    /\ UNCHANGED <<accepted, queued_commands, queued_reliables, outgoing_sent,
                   next_outgoing, pings, log, overrun, networkVars, receiverVars>>

GrowWindow   == UpdateWindow(window_size + WindowStep)
ShrinkWindow == UpdateWindow(window_size - WindowStep)

\* Fault: an ACK is taken to cover all older packets too.
ReceiveCumulativeAck(a) ==
    /\ a \in acks
    /\ outgoing_sent' = {p \in outgoing_sent :
           Minus(next_outgoing, p.seq) < Minus(next_outgoing, a.seq)}
    /\ UNCHANGED <<accepted, queued_commands, queued_reliables, next_outgoing,
                   window_size, pings, log, overrun, networkVars, receiverVars>>

\* handlePacketType_Control, CONTROLTYPE_ACK, in the receive thread: popSeqnum.
ReceiveAck(a) ==
    /\ a \in acks
    /\ outgoing_sent' = {p \in outgoing_sent : p.seq # a.seq}
    /\ UNCHANGED <<accepted, queued_commands, queued_reliables, next_outgoing,
                   window_size, pings, log, overrun, networkVars, receiverVars>>

-----------------------------------------------------------------------------
(* The receive thread of the receiving host.  receive() drains             *)
(* incoming_reliables before it reads the next datagram.                   *)

Unbuffer(p) ==
    /\ ~ disconnecting
    /\ FirstBuffered(p)
    /\ p.seq = next_incoming
    /\ incoming_reliables' = incoming_reliables \ {p}
    /\ next_incoming' = Plus(next_incoming, 1)
    /\ delivered' = Append(delivered, p.idx)
    /\ UNCHANGED <<senderVars, networkVars, disconnecting>>

Drained == \A p \in incoming_reliables : ~ (FirstBuffered(p) /\ p.seq = next_incoming)

InReceiveWindow(p) == seqnum_in_window(p.seq, next_incoming, H)

Acknowledge(p) == acks' = Fresh(acks \union {p}, Len(log))

\* handlePacketType_Reliable hands the contents of p on and steps to the next number.
Process(p) ==
    /\ next_incoming' = Plus(next_incoming, 1)
    /\ incoming_reliables' =
           {q \in incoming_reliables : ~ (FirstBuffered(q) /\ q.seq = p.seq)}
    /\ delivered' = Append(delivered, p.idx)

ReceiveInOrder(p) ==
    /\ ~ disconnecting /\ Drained /\ p \in wire
    /\ p.seq = next_incoming
    /\ Acknowledge(p)
    /\ Process(p)
    /\ UNCHANGED <<senderVars, wire, disconnecting>>

\* A packet ahead of the next one is buffered, unless one with its number is there.
ReceiveAhead(p) ==
    /\ ~ disconnecting /\ Drained /\ p \in wire
    /\ InReceiveWindow(p) /\ p.seq # next_incoming
    /\ Acknowledge(p)
    /\ incoming_reliables' =
           IF \E q \in incoming_reliables : q.seq = p.seq
           THEN incoming_reliables ELSE incoming_reliables \union {p}
    /\ UNCHANGED <<senderVars, wire, next_incoming, delivered, disconnecting>>

\* Two different packets with one number: insert throws IncomingDataCorruption (when
\* their sizes differ), the handler asks for a disconnect and falls through.
ReceiveCorrupt(p) ==
    /\ ~ disconnecting /\ Drained /\ p \in wire
    /\ InReceiveWindow(p) /\ p.seq # next_incoming
    /\ \E q \in incoming_reliables : q.seq = p.seq /\ q.idx # p.idx
    /\ Acknowledge(p)
    /\ Process(p)
    /\ disconnecting' = TRUE
    /\ UNCHANGED <<senderVars, wire>>

\* Fault: an old packet is dropped, as if its ACK could not have been lost.
ReceiveOutsideSilently(p) ==
    /\ ~ disconnecting /\ Drained /\ p \in wire
    /\ ~ InReceiveWindow(p)
    /\ UNCHANGED vars

\* A packet outside the window is acknowledged again when it counts as old.
ReceiveOutside(p) ==
    /\ ~ disconnecting /\ Drained /\ p \in wire
    /\ ~ InReceiveWindow(p)
    /\ ~ seqnum_higher(p.seq, next_incoming)
    /\ seqnum_higher(next_incoming, p.seq)
    /\ Acknowledge(p)
    /\ UNCHANGED <<senderVars, wire, receiverVars>>

-----------------------------------------------------------------------------
(* The network loses the copies of a datagram that are under way.          *)

LosePacket(p) ==
    /\ p \in wire
    /\ wire' = wire \ {p}
    /\ UNCHANGED <<senderVars, acks, receiverVars>>

LoseAck(a) ==
    /\ a \in acks
    /\ acks' = acks \ {a}
    /\ UNCHANGED <<senderVars, wire, receiverVars>>

Next ==
    \/ \E n \in MessageSizes : SendNow(n) \/ SendLater(n)
    \/ RunCommandQueue
    \/ SendQueued
    \/ Ping
    \/ \E p \in outgoing_sent : Resend(p)
    \/ GrowWindow
    \/ ShrinkWindow
    \/ \E a \in acks : ReceiveAck(a) \/ LoseAck(a)
    \/ \E p \in incoming_reliables : Unbuffer(p)
    \/ \E p \in wire :
           \/ ReceiveInOrder(p)
           \/ ReceiveAhead(p)
           \/ ReceiveCorrupt(p)
           \/ ReceiveOutside(p)
           \/ LosePacket(p)

Spec == Init /\ [][Next]_vars

-----------------------------------------------------------------------------
(* Safety.                                                                 *)

Outstanding == outgoing_sent \union ToSet(queued_reliables)

\* The receiver processes the packets in the order in which the sender numbered
\* them, each once, however the network reorders, repeats and loses datagrams and
\* however often the 16-bit counter has wrapped (handlePacketType_Reliable).
InOrder == \A i \in DOMAIN delivered : delivered[i] = i

\* A packet that the receiver has neither processed nor buffered is still held by
\* the sender, which can send it (again): an ACK frees a packet only when the packet
\* is safe at the other end (internal.h:80).
HeldUntilAcked ==
    \A i \in Len(delivered) + 1 .. Len(log) :
        \E p \in Outstanding \union incoming_reliables : p.idx = i

\* Two different packets never meet under one number at the receiver, so the network
\* alone cannot make it drop the peer (IncomingDataCorruption).
NoFalseCorruption == ~ disconnecting

\* The three guarantees hold as long as the unacknowledged packets have never spanned
\* half of the sequence number space, whatever the application sends.
SafeUnlessOverrun == overrun \/ (InOrder /\ HeldUntilAcked /\ NoFalseCorruption)

-----------------------------------------------------------------------------
(* What makes them inductive: while there is no overrun, the 16-bit        *)
(* distances between the numbers in use are the true distances.            *)

\* A packet's number is as far behind next_outgoing as the packet is behind the
\* end of the stream, and that distance is at most `limit'.
NumberedWithin(p, limit) ==
    /\ p.idx <= Len(log) /\ Len(log) + 1 - p.idx <= limit
    /\ Minus(next_outgoing, p.seq) = Len(log) + 1 - p.idx

NumbersInUse ==
    /\ \A p \in wire \union acks : NumberedWithin(p, H)
    /\ \A p \in Outstanding : NumberedWithin(p, H - 1)

\* next_incoming is as far behind next_outgoing as the receiver is behind the sender.
ReceiverBehind ==
    /\ Len(delivered) <= Len(log) /\ Len(log) - Len(delivered) <= SEQNUM_MAX
    /\ Minus(next_outgoing, next_incoming) = Len(log) - Len(delivered)

BufferedAhead ==
    \A p \in incoming_reliables :
        /\ p.idx >= Len(delivered) + 1 /\ p.idx <= Len(log)
        /\ p.idx <= Len(delivered) + H - 1
        /\ Minus(p.seq, next_incoming) = p.idx - (Len(delivered) + 1)

AcksAreReceipts ==
    \A a \in acks :
        a.idx <= Len(delivered) \/ \E q \in incoming_reliables : q.idx = a.idx

Aligned == NumbersInUse /\ ReceiverBehind /\ BufferedAhead /\ AcksAreReceipts

IInv == overrun \/ (Aligned /\ InOrder /\ HeldUntilAcked /\ NoFalseCorruption)
=============================================================================
