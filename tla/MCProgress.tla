------------------------------ MODULE MCProgress ------------------------------
(***************************************************************************)
(* What must come to an end, for TLC: a pupil's robot program              *)
(* (RobotProgram) and the delivery of messages (MtpChannel).  They share   *)
(* no state: a behaviour is one of one part; the other stays as it began.  *)
(***************************************************************************)
EXTENDS RobotProgram

CONSTANTS
    SEQNUM_MAX, MAX_RELIABLE_WINDOW_SIZE, SEQNUM_INITIAL, START_RELIABLE_WINDOW_SIZE,
    MIN_RELIABLE_WINDOW_SIZE, MAX_RELIABLE_WINDOW_SIZE_SEND, WindowStep,
    MaxPacketsRequeued, MessageSizes, MaxPings, MaxPackets

VARIABLES
    part, accepted, queued_commands, queued_reliables, outgoing_sent, next_outgoing,
    window_size, pings, log, overrun, wire, acks, next_incoming, incoming_reliables,
    delivered, disconnecting

robotVars == vars
channelVars == <<accepted, queued_commands, queued_reliables, outgoing_sent, next_outgoing,
                 window_size, pings, log, overrun, wire, acks, next_incoming,
                 incoming_reliables, delivered, disconnecting>>
allVars == <<part, robotVars, channelVars>>

Channel == INSTANCE MtpChannel

ProgressInit ==
    /\ part \in {"robot", "channel"}
    /\ Init /\ Channel!Init
    /\ part # "robot" => lesson = CHOOSE l \in Lessons : TRUE

OnRobot(A) == part = "robot" /\ A /\ UNCHANGED <<part, channelVars>>

OnChannel(A) == part = "channel" /\ A /\ UNCHANGED <<part, robotVars>>

\* The server steps for ever.  Both threads of both hosts of a channel loop for ever: each
\* pass of the send thread runs the command queue, sends queued packets and resends those
\* whose timer has expired; the receive thread drains its buffer and reads the socket.  The
\* network is a fair lossy link: a datagram that is sent again and again arrives in the end
\* (strong fairness, since each copy may be lost).
ProgressSpec ==
    /\ ProgressInit
    /\ [][OnRobot(Next) \/ OnChannel(Channel!Next)]_allVars
    /\ WF_allVars(OnRobot(ServerStep) \/ OnChannel(Channel!RunCommandQueue))
    /\ WF_allVars(OnChannel(Channel!SendQueued))
    /\ WF_allVars(OnChannel(\E p \in incoming_reliables : Channel!Unbuffer(p)))
    /\ \A i \in 1 .. MaxPackets :
           /\ WF_allVars(OnChannel(\E p \in outgoing_sent : p.idx = i /\ Channel!Resend(p)))
           /\ SF_allVars(OnChannel(\E a \in acks : a.idx = i /\ Channel!ReceiveAck(a)))
           /\ SF_allVars(OnChannel(\E p \in wire : p.idx = i /\
                  (\/ Channel!ReceiveInOrder(p)
                   \/ Channel!ReceiveAhead(p)
                   \/ Channel!ReceiveOutside(p))))

\* The lessons: rows of up to three blocks, the simpler ones also started twice, and rows
\* with wires, a STOP and the other blocks.  No WHILE or LOOP repeats a LOOP: such a
\* program puts copies of instructions in front of itself for ever.
Blocks == {"move_forward", "if_clear", "else_block", "while_clear", "loop_start"}

RepeatsLoop(row) ==
    \E i \in 1..(Len(row) - 1) :
        row[i] \in {"while_clear", "loop_start"} /\ row[i + 1] = "loop_start"

ShortRows == {row \in UNION {[1..n -> Blocks] : n \in 1..3} : ~RepeatsLoop(row)}

OtherRows ==
    {<<"turn", "wire", "sensor_clear", "move_forward", "move_forward">>,
     <<"dig_block", "stop", "other">>, <<"wait", "wire", "wire", "wait">>,
     <<"place_block", "wait", "other", "turn">>}

Twice == {<<"move_forward">>, <<"while_clear", "move_forward">>}

ProgressLessons ==
    [row : ShortRows \union OtherRows, starts : {1}] \union [row : Twice, starts : {2}]

-----------------------------------------------------------------------------
Completed ==
    SelectSeq([i \in DOMAIN delivered |-> log[delivered[i]]], LAMBDA m : m # 0)

\* MtpChannel: whatever copies of packets and of ACKs are lost, every message that the
\* application hands over comes out at the other end, and the sender gets rid of every
\* packet: the window never stays shut.
EveryMessageArrives ==
    \A m \in 1 .. MaxPackets : accepted >= m ~> m \in ToSet(Completed) /\ outgoing_sent = {}
=============================================================================
