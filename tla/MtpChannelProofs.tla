-------------------------- MODULE MtpChannelProofs --------------------------
(***************************************************************************)
(* Proofs about MtpChannel, for every width of the sequence numbers, every *)
(* window, every set of message sizes and every number of packets.         *)
(***************************************************************************)
EXTENDS MtpChannel, SequenceTheorems, TLAPS

USE WindowIsHalfOfSpace DEF H

-----------------------------------------------------------------------------
(* Distances between sequence numbers.                                     *)

\* A distance is a sequence number.
LEMMA MinusType ==
    ASSUME NEW a \in SeqNums, NEW b \in SeqNums
    PROVE  Minus(a, b) \in SeqNums
BY DEF Minus, SeqNums

\* A step from a sequence number leads to a sequence number.
LEMMA PlusType ==
    ASSUME NEW a \in SeqNums, NEW n \in 0 .. H
    PROVE  Plus(a, n) \in SeqNums
BY DEF Plus, SeqNums

\* Going on by n adds n to the distance from what lies behind, if it fits.
LEMMA PlusBehind ==
    ASSUME NEW a \in SeqNums, NEW b \in SeqNums, NEW n \in 0 .. H,
           Minus(a, b) + n <= SEQNUM_MAX
    PROVE  Minus(Plus(a, n), b) = Minus(a, b) + n
BY DEF Plus, Minus, SeqNums

\* Letting the number behind go on by one takes one from the distance.
LEMMA PlusAhead ==
    ASSUME NEW a \in SeqNums, NEW b \in SeqNums, Minus(a, b) >= 1
    PROVE  Minus(a, Plus(b, 1)) = Minus(a, b) - 1
BY DEF Plus, Minus, SeqNums

\* The numbers given to the packets of a message of n packets.
LEMMA PlusPlus ==
    ASSUME NEW a \in SeqNums, NEW n \in 1 .. H - 1, NEW j \in 1 .. n
    PROVE  Minus(Plus(a, n), Plus(a, j - 1)) = n + 1 - j
BY DEF Plus, Minus, SeqNums

\* The number half a space behind is a sequence number.
LEMMA MinusHalfType ==
    ASSUME NEW a \in SeqNums
    PROVE  Minus(a, H) \in SeqNums
BY DEF Minus, SeqNums

\* The number just taken is the last of the half space behind the new counter.
LEMMA LastOfHalf ==
    ASSUME NEW a \in SeqNums
    PROVE  Minus(Plus(a, 0), Minus(Plus(a, 1), H)) = H - 1
BY DEF Plus, Minus, SeqNums

\* Two distances from one number give the distance between the two others.
LEMMA MinusDifference ==
    ASSUME NEW a \in SeqNums, NEW b \in SeqNums, NEW c \in SeqNums
    PROVE  Minus(b, c) = IF Minus(a, c) >= Minus(a, b)
                         THEN Minus(a, c) - Minus(a, b)
                         ELSE Minus(a, c) - Minus(a, b) + SEQNUM_MAX + 1
BY DEF Minus, SeqNums

\* The window of seqnum_in_window is the next half of the space.
LEMMA InWindow ==
    ASSUME NEW s \in SeqNums, NEW next \in SeqNums
    PROVE  seqnum_in_window(s, next, H) <=> Minus(s, next) < H
BY DEF seqnum_in_window, Plus, Minus, SeqNums

\* What is within half of the space stays within the space.
LEMMA HalfFits ==
    ASSUME NEW l \in Nat, NEW i \in Nat, NEW n \in Nat, l + n + 1 - i <= H
    PROVE  l + 1 - i + n <= SEQNUM_MAX
<1>1. H <= SEQNUM_MAX /\ H \in Nat /\ SEQNUM_MAX \in Nat
  OBVIOUS
<1> HIDE DEF H
<1>2. QED
  BY <1>1

\* Numbers at one distance are one number.
LEMMA SameDistance ==
    ASSUME NEW a \in SeqNums, NEW b \in SeqNums, NEW c \in SeqNums,
           Minus(a, b) = Minus(a, c)
    PROVE  b = c
BY DEF Minus, SeqNums

-----------------------------------------------------------------------------
(* Type correctness.                                                       *)

USE ChannelAssumption

\* The packets of a message are a sequence of packets.
LEMMA NewPacketsType ==
    ASSUME TypeOK, NEW n \in 1 .. H - 1
    PROVE  /\ NewPackets(n) \in Seq(Packet)
           /\ Len(NewPackets(n)) = n
           /\ \A j \in 1 .. n : NewPackets(n)[j] =
                  [seq |-> Plus(next_outgoing, j - 1), idx |-> Len(log) + j]
<1>1. \A j \in 1 .. n : Plus(next_outgoing, j - 1) \in SeqNums
  BY PlusType DEF TypeOK
<1>2. \A j \in 1 .. n : Len(log) + j \in Nat \ {0}
  BY DEF TypeOK
<1>3. \A j \in 1 .. n :
         [seq |-> Plus(next_outgoing, j - 1), idx |-> Len(log) + j] \in Packet
  BY <1>1, <1>2 DEF Packet
<1>4. NewPackets(n) \in [1 .. n -> Packet]
  BY <1>3 DEF NewPackets
<1>5. QED
  BY <1>4 DEF NewPackets

\* What Number leaves in the history, the counter and the network is well typed.
LEMMA NumberType ==
    ASSUME TypeOK, NEW n \in 1 .. H - 1, NEW msg \in Nat, NEW waiting,
           Number(n, msg, waiting)
    PROVE  /\ next_outgoing' \in SeqNums
           /\ log' \in Seq(Nat) /\ Len(log') = Len(log) + n
           /\ overrun' \in BOOLEAN
           /\ acks' \subseteq Packet
<1>1. next_outgoing' \in SeqNums
  BY PlusType DEF TypeOK, Number
<1> DEFINE new == [j \in 1 .. n |-> IF j = n THEN msg ELSE 0]
<1>2. new \in Seq(Nat) /\ Len(new) = n
  <2>1. new \in [1 .. n -> Nat]
    OBVIOUS
  <2>2. QED
    BY <2>1
<1>3. log' \in Seq(Nat) /\ Len(log') = Len(log) + n
  <2>1. log' = log \o new
    BY DEF Number
  <2>2. log \in Seq(Nat)
    BY DEF TypeOK
  <2> HIDE DEF new
  <2>3. QED
    BY <1>2, <2>1, <2>2, ConcatProperties
<1>4. overrun' \in BOOLEAN
  BY DEF TypeOK, Number
<1>5. acks' \subseteq Packet
  BY DEF TypeOK, Number, Fresh
<1>6. QED
  BY <1>1, <1>3, <1>4, <1>5

\* Every state of the channel is well typed.
THEOREM TypeCorrect == Spec => []TypeOK
<1>1. Init => TypeOK
  <2> SUFFICES ASSUME Init PROVE TypeOK
    OBVIOUS
  <2>1. /\ queued_commands \in Seq(Command) /\ queued_reliables \in Seq(Packet)
        /\ log \in Seq(Nat) /\ delivered \in Seq(Nat)
    BY EmptySeq DEF Init
  <2>2. window_size \in MIN_RELIABLE_WINDOW_SIZE .. MAX_RELIABLE_WINDOW_SIZE_SEND
    BY DEF Init
  <2>3. QED
    BY <2>1, <2>2 DEF Init, TypeOK, SeqNums
<1>2. TypeOK /\ [Next]_vars => TypeOK'
  <2> SUFFICES ASSUME TypeOK, [Next]_vars PROVE TypeOK'
    OBVIOUS
  <2>1. ASSUME NEW n \in 1 .. H - 1, NEW msg \in Nat, Enqueue(n, msg)
        PROVE  /\ queued_reliables' \in Seq(Packet)
               /\ next_outgoing' \in SeqNums /\ log' \in Seq(Nat)
               /\ overrun' \in BOOLEAN /\ acks' \subseteq Packet
               /\ wire' \subseteq Packet
    <3>1. queued_reliables' \in Seq(Packet)
      BY <2>1, NewPacketsType DEF Enqueue, TypeOK
    <3>2. wire' \subseteq Packet
      BY <2>1 DEF Enqueue, TypeOK, Fresh
    <3>3. QED
      BY <2>1, <3>1, <3>2, NumberType DEF Enqueue
  <2>2. ASSUME NEW n \in MessageSizes, SendNow(n) PROVE TypeOK'
    BY <2>1, <2>2 DEF SendNow, TypeOK, receiverVars
  <2>3. ASSUME NEW n \in MessageSizes, SendLater(n) PROVE TypeOK'
    <3>1. [msg |-> accepted + 1, chunks |-> n] \in Command
      BY DEF Command, TypeOK
    <3>2. queued_commands' \in Seq(Command)
      BY <2>3, <3>1, AppendProperties DEF SendLater, TypeOK
    <3>3. QED
      BY <2>3, <3>2 DEF SendLater, TypeOK, receiverVars, networkVars
  <2>4. CASE RunCommandQueue
    <3>1. Head(queued_commands) \in Command /\ Tail(queued_commands) \in Seq(Command)
      BY <2>4, HeadTailProperties DEF RunCommandQueue, TypeOK
    <3>2. /\ Head(queued_commands).chunks \in 1 .. H - 1
          /\ Head(queued_commands).msg \in Nat
      BY <3>1 DEF Command
    <3>3. QED
      BY <2>1, <2>4, <3>1, <3>2 DEF RunCommandQueue, TypeOK, receiverVars
  <2>5. CASE SendQueued
    <3>1. Head(queued_reliables) \in Packet /\ Tail(queued_reliables) \in Seq(Packet)
      BY <2>5, HeadTailProperties DEF SendQueued, TypeOK
    <3>2. outgoing_sent' \in {outgoing_sent, outgoing_sent \union {Head(queued_reliables)}}
      BY <2>5 DEF SendQueued, Buffered
    <3>3. outgoing_sent' \subseteq Packet /\ wire' \subseteq Packet
      <4>1. outgoing_sent' \subseteq Packet
        BY <3>1, <3>2 DEF TypeOK
      <4>2. wire' = Fresh(wire \union {Head(queued_reliables)}, Len(log))
        BY <2>5 DEF SendQueued
      <4>3. QED
        BY <3>1, <4>1, <4>2 DEF Fresh, TypeOK
    <3>4. pings' \in Nat
      BY <2>5 DEF SendQueued, TypeOK
    <3>5. QED
      BY <2>5, <3>1, <3>3, <3>4 DEF SendQueued, TypeOK, receiverVars
  <2>6. CASE Ping
    <3> DEFINE p == NewPackets(1)[1]
    <3>1. p \in Packet
      BY NewPacketsType
    <3> HIDE DEF p
    <3>2. /\ outgoing_sent' \subseteq Packet /\ wire' \subseteq Packet
          /\ queued_reliables' \in Seq(Packet)
      <4>1. CASE Cardinality(outgoing_sent) < window_size
        <5>1. /\ outgoing_sent' \in {outgoing_sent, outgoing_sent \union {p}}
              /\ wire' = Fresh(wire \union {p}, Len(log) + 1)
              /\ queued_reliables' = queued_reliables
          BY <2>6, <4>1 DEF Ping, Buffered, p
        <5>2. outgoing_sent' \subseteq Packet
          BY <3>1, <5>1 DEF TypeOK
        <5>3. wire' \subseteq Packet
          BY <3>1, <5>1 DEF Fresh, TypeOK
        <5>4. QED
          BY <5>1, <5>2, <5>3 DEF TypeOK
      <4>2. CASE ~ (Cardinality(outgoing_sent) < window_size)
        <5>1. /\ outgoing_sent' = outgoing_sent
              /\ wire' = Fresh(wire, Len(log) + 1)
              /\ queued_reliables' = Append(queued_reliables, p)
          BY <2>6, <4>2 DEF Ping, p
        <5>2. QED
          BY <3>1, <5>1, AppendProperties DEF Fresh, TypeOK
      <4>3. QED
        BY <4>1, <4>2
    <3>3. pings' \in Nat
      BY <2>6 DEF Ping, TypeOK
    <3>4. /\ next_outgoing' \in SeqNums /\ log' \in Seq(Nat)
          /\ overrun' \in BOOLEAN /\ acks' \subseteq Packet
      BY <2>6, NumberType DEF Ping
    <3>5. QED
      BY <2>6, <3>2, <3>3, <3>4 DEF Ping, TypeOK, receiverVars
  <2>7. ASSUME NEW p \in outgoing_sent, Resend(p) PROVE TypeOK'
    BY <2>7 DEF Resend, Fresh, TypeOK, senderVars, receiverVars
  <2>8. CASE GrowWindow \/ ShrinkWindow
    BY <2>8 DEF GrowWindow, ShrinkWindow, UpdateWindow, TypeOK, networkVars,
                receiverVars
  <2>9. ASSUME NEW a \in acks, ReceiveAck(a) PROVE TypeOK'
    BY <2>9 DEF ReceiveAck, TypeOK, networkVars, receiverVars
  <2>10. ASSUME NEW a \in acks, LoseAck(a) PROVE TypeOK'
    BY <2>10 DEF LoseAck, TypeOK, senderVars, receiverVars
  <2>11. ASSUME NEW p \in incoming_reliables, Unbuffer(p) PROVE TypeOK'
    BY <2>11, PlusType DEF Unbuffer, TypeOK, Packet, senderVars, networkVars
  <2>12. ASSUME NEW p \in wire, ReceiveInOrder(p) PROVE TypeOK'
    BY <2>12, PlusType DEF ReceiveInOrder, Acknowledge, Process, Fresh, TypeOK,
                           Packet, senderVars
  <2>13. ASSUME NEW p \in wire, ReceiveAhead(p) PROVE TypeOK'
    BY <2>13 DEF ReceiveAhead, Acknowledge, Fresh, TypeOK, senderVars
  <2>14. ASSUME NEW p \in wire, ReceiveCorrupt(p) PROVE TypeOK'
    BY <2>14, PlusType DEF ReceiveCorrupt, Acknowledge, Process, Fresh, TypeOK,
                           Packet, senderVars
  <2>15. ASSUME NEW p \in wire, ReceiveOutside(p) PROVE TypeOK'
    BY <2>15 DEF ReceiveOutside, Acknowledge, Fresh, TypeOK, senderVars,
                 receiverVars
  <2>16. ASSUME NEW p \in wire, LosePacket(p) PROVE TypeOK'
    BY <2>16 DEF LosePacket, TypeOK, senderVars, receiverVars
  <2>17. CASE UNCHANGED vars
    BY <2>17 DEF vars, senderVars, networkVars, receiverVars, TypeOK
  <2>18. QED
    BY <2>2, <2>3, <2>4, <2>5, <2>6, <2>7, <2>8, <2>9, <2>10, <2>11, <2>12,
       <2>13, <2>14, <2>15, <2>16, <2>17 DEF Next
<1>3. QED
  BY <1>1, <1>2, PTL DEF Spec

-----------------------------------------------------------------------------
(* The elements of the queue of numbered packets.                          *)

\* Of two queues in a row,
LEMMA ToSetConcat ==
    ASSUME NEW S, NEW s \in Seq(S), NEW t \in Seq(S)
    PROVE  ToSet(s \o t) = ToSet(s) \union ToSet(t)
<1> DEFINE u == s \o t
<1>1. \A i \in DOMAIN s : s[i] = u[i] /\ i \in DOMAIN u
  BY ConcatProperties, LenProperties
<1>2. \A i \in DOMAIN t : t[i] = u[Len(s) + i] /\ Len(s) + i \in DOMAIN u
  BY ConcatProperties, LenProperties
<1>3. \A i \in DOMAIN u :
         \/ i \in DOMAIN s /\ u[i] = s[i]
         \/ i - Len(s) \in DOMAIN t /\ u[i] = t[i - Len(s)]
  BY ConcatProperties, LenProperties
<1> HIDE DEF u
<1>4. ToSet(u) = ToSet(s) \union ToSet(t)
  BY <1>1, <1>2, <1>3 DEF ToSet
<1>5. QED
  BY <1>4 DEF u

\* of the first packet and the rest,
LEMMA ToSetHeadTail ==
    ASSUME NEW S, NEW s \in Seq(S), s # <<>>
    PROVE  ToSet(s) = {Head(s)} \union ToSet(Tail(s))
<1> DEFINE h == Head(s)
           t == Tail(s)
<1>1. \A i \in DOMAIN t : t[i] = s[i + 1] /\ i + 1 \in DOMAIN s
  BY HeadTailProperties, LenProperties
<1>2. h = s[1] /\ 1 \in DOMAIN s
  BY LenProperties, EmptySeq
<1>3. \A i \in DOMAIN s : i = 1 \/ (i - 1 \in DOMAIN t /\ s[i] = t[i - 1])
  <2>1. t \in Seq(S) /\ Len(t) = Len(s) - 1 /\ \A i \in 1 .. Len(t) : t[i] = s[i + 1]
    BY HeadTailProperties
  <2>2. DOMAIN s = 1 .. Len(s) /\ DOMAIN t = 1 .. Len(t) /\ Len(s) \in Nat
    BY <2>1, LenProperties
  <2> HIDE DEF t
  <2>3. QED
    BY <2>1, <2>2
<1> HIDE DEF h, t
<1>4. ToSet(s) = {h} \union ToSet(t)
  BY <1>1, <1>2, <1>3 DEF ToSet
<1>5. QED
  BY <1>4 DEF h, t

\* and of a queue with one more packet.
LEMMA ToSetAppend ==
    ASSUME NEW S, NEW s \in Seq(S), NEW e \in S
    PROVE  ToSet(Append(s, e)) = ToSet(s) \union {e}
<1>1. \A i \in DOMAIN s : s[i] = Append(s, e)[i] /\ i \in DOMAIN Append(s, e)
  BY AppendProperties, LenProperties
<1>2. Append(s, e)[Len(s) + 1] = e /\ Len(s) + 1 \in DOMAIN Append(s, e)
  BY AppendProperties, LenProperties
<1>3. \A i \in DOMAIN Append(s, e) :
         i = Len(s) + 1 \/ (i \in DOMAIN s /\ Append(s, e)[i] = s[i])
  BY AppendProperties, LenProperties
<1>4. QED
  BY <1>1, <1>2, <1>3 DEF ToSet

-----------------------------------------------------------------------------
(* The inductive invariant.                                                *)

\* What is not acknowledged yet are packets.
LEMMA OutstandingType == ASSUME TypeOK PROVE Outstanding \subseteq Packet
<1>1. ToSet(queued_reliables) \subseteq Packet
  BY ElementOfSeq, LenProperties DEF TypeOK, ToSet
<1>2. QED
  BY <1>1 DEF TypeOK, Outstanding

\* Sequence lengths are numbers; used wherever positions are compared.
LEMMA Lengths == ASSUME TypeOK PROVE Len(log) \in Nat /\ Len(delivered) \in Nat
BY LenProperties DEF TypeOK

\* Numbering n more packets keeps the invariant: it moves the end of the stream and
\* next_outgoing by n, and what is still in use stays less than half a space behind.
LEMMA NumberKeepsInv ==
    ASSUME TypeOK, TypeOK', Aligned, InOrder, HeldUntilAcked, NoFalseCorruption,
           ~ overrun', NEW n \in 1 .. H - 1, NEW msg \in Nat,
           Number(n, msg, Outstanding'),
           Outstanding' = Outstanding \union {NewPackets(n)[j] : j \in 1 .. n},
           wire' \subseteq
               Fresh(wire \union {NewPackets(n)[j] : j \in 1 .. n}, Len(log) + n),
           UNCHANGED receiverVars
    PROVE  Aligned' /\ InOrder' /\ HeldUntilAcked' /\ NoFalseCorruption'
<1> DEFINE L == Len(log)
           D == Len(delivered)
           New == {NewPackets(n)[j] : j \in 1 .. n}
<1>1. L \in Nat /\ D \in Nat /\ Len(log') = L + n /\ Len(delivered') = D
  BY Lengths, NumberType DEF receiverVars
<1>2. next_outgoing' = Plus(next_outgoing, n) /\ next_outgoing \in SeqNums
  BY DEF Number, TypeOK
<1>3. \A p \in New : /\ p \in Packet /\ p.idx > L /\ p.idx <= L + n
                     /\ Minus(next_outgoing', p.seq) = L + n + 1 - p.idx
  <2> SUFFICES ASSUME NEW j \in 1 .. n
               PROVE  LET p == NewPackets(n)[j] IN
                      /\ p \in Packet /\ p.idx > L /\ p.idx <= L + n
                      /\ Minus(next_outgoing', p.seq) = L + n + 1 - p.idx
    OBVIOUS
  <2>1. NewPackets(n)[j] = [seq |-> Plus(next_outgoing, j - 1), idx |-> L + j]
    BY NewPacketsType
  <2>2. Plus(next_outgoing, j - 1) \in SeqNums
    BY <1>2, PlusType
  <2>3. Minus(next_outgoing', Plus(next_outgoing, j - 1)) = n + 1 - j
    BY <1>2, PlusPlus
  <2>4. QED
    BY <1>1, <2>1, <2>2, <2>3 DEF Packet
<1>4. ASSUME NEW p \in Packet, NEW limit \in {H - 1, H}, NumberedWithin(p, limit),
             L + n + 1 - p.idx <= limit
      PROVE  NumberedWithin(p, limit)'
  <2>1. Minus(next_outgoing, p.seq) = L + 1 - p.idx /\ p.idx <= L
    BY <1>4 DEF NumberedWithin
  <2>2. p.seq \in SeqNums /\ p.idx \in Nat
    BY DEF Packet
  <2>3. Minus(next_outgoing', p.seq) = L + 1 - p.idx + n
    <3>1. n \in 0 .. H /\ L + 1 - p.idx + n <= SEQNUM_MAX
      <4>1. L + n + 1 - p.idx <= H
        BY <1>1, <1>4, <2>2
      <4>2. n \in 0 .. H
        OBVIOUS
      <4> HIDE DEF L
      <4>3. L + 1 - p.idx + n <= SEQNUM_MAX
        BY <1>1, <2>2, <4>1, HalfFits
      <4>4. QED
        BY <4>2, <4>3
    <3>2. QED
      BY <1>2, <2>1, <2>2, <3>1, PlusBehind
  <2>4. QED
    BY <1>1, <1>4, <2>1, <2>2, <2>3 DEF NumberedWithin
<1>5. \A p \in Outstanding' : NumberedWithin(p, H - 1)'
  <2> SUFFICES ASSUME NEW p \in Outstanding' PROVE NumberedWithin(p, H - 1)'
    OBVIOUS
  <2>2. p \in Packet
    BY OutstandingType, <1>3
  <2>1. L + n + 1 - p.idx < H
    <3>1. ~ (L + n + 1 - p.idx >= H)
      BY DEF Number
    <3>2. QED
      BY <1>1, <2>2, <3>1 DEF Packet
  <2>3. CASE p \in Outstanding
    BY <1>1, <1>4, <2>1, <2>2, <2>3 DEF Aligned, NumbersInUse, Packet
  <2>4. CASE p \in New
    BY <1>1, <1>3, <2>1, <2>2, <2>4 DEF NumberedWithin, Packet
  <2>5. QED
    BY <2>3, <2>4
<1>6. \A p \in wire' \union acks' : NumberedWithin(p, H)'
  <2> SUFFICES ASSUME NEW p \in wire' \union acks' PROVE NumberedWithin(p, H)'
    OBVIOUS
  <2>1. p \in Packet /\ L + n + 1 - p.idx <= H /\ (p \in wire \union acks \/ p \in New)
    BY DEF Number, Fresh, TypeOK
  <2>2. CASE p \in wire \union acks
    BY <1>4, <2>1, <2>2 DEF Aligned, NumbersInUse
  <2>3. CASE p \in New
    BY <1>1, <1>3, <2>1, <2>3 DEF NumberedWithin, Packet
  <2>4. QED
    BY <2>1, <2>2, <2>3
<1>7. HeldUntilAcked'
  <2> SUFFICES ASSUME NEW i \in D + 1 .. L + n
               PROVE  \E p \in Outstanding' \union incoming_reliables : p.idx = i
    BY <1>1 DEF HeldUntilAcked, receiverVars
  <2>1. CASE i <= L
    BY <1>1, <2>1 DEF HeldUntilAcked
  <2>2. CASE i > L
    <3>1. i - L \in 1 .. n
      BY <1>1, <2>2
    <3>2. NewPackets(n)[i - L] = [seq |-> Plus(next_outgoing, i - L - 1),
                                  idx |-> L + (i - L)]
      BY <3>1, NewPacketsType
    <3>3. NewPackets(n)[i - L].idx = i
      BY <1>1, <3>2
    <3>4. QED
      BY <3>1, <3>3
  <2>3. QED
    BY <1>1, <2>1, <2>2
<1>8. BufferedAhead'
  <2> SUFFICES ASSUME NEW p \in incoming_reliables
               PROVE  /\ p.idx >= D + 1 /\ p.idx <= L + n /\ p.idx <= D + H - 1
                      /\ Minus(p.seq, next_incoming) = p.idx - (D + 1)
    BY <1>1 DEF BufferedAhead, receiverVars
  <2>1. p.idx \in Nat
    BY DEF TypeOK, Packet
  <2>2. QED
    BY <1>1, <2>1 DEF Aligned, BufferedAhead
<1>9. L + n - D <= SEQNUM_MAX
  <2>1. SUFFICES ASSUME L + n - D > SEQNUM_MAX PROVE FALSE
    BY <1>1
  <2>2. D + H \in D + 1 .. L + n
    BY <1>1, <2>1
  <2>3. PICK p \in Outstanding' \union incoming_reliables' : p.idx = D + H
    BY <1>1, <1>7, <2>2 DEF HeldUntilAcked
  <2>4. p \in Outstanding'
    BY <1>1, <1>8, <2>3 DEF BufferedAhead
  <2>5. L + n + 1 - p.idx <= H - 1
    BY <1>1, <1>5, <2>4 DEF NumberedWithin
  <2> HIDE DEF L, D
  <2>6. L + n + 1 - (D + H) <= H - 1
    BY <2>3, <2>5
  <2>7. QED
    BY <1>1, <2>1, <2>6
<1>10. ReceiverBehind'
  <2>1. Minus(next_outgoing, next_incoming) = L - D /\ D <= L
    BY DEF Aligned, ReceiverBehind
  <2>2. Minus(next_outgoing', next_incoming) = L - D + n
    <3>1. n \in 0 .. H /\ next_incoming \in SeqNums /\ L - D + n <= SEQNUM_MAX
      BY <1>1, <1>9 DEF TypeOK
    <3>2. QED
      BY <1>2, <2>1, <3>1, PlusBehind
  <2>3. QED
    BY <1>1, <1>9, <2>1, <2>2 DEF ReceiverBehind, receiverVars
<1>11. AcksAreReceipts'
  BY <1>1 DEF Aligned, AcksAreReceipts, Number, Fresh, receiverVars
<1>12. InOrder' /\ NoFalseCorruption'
  BY DEF InOrder, NoFalseCorruption, receiverVars
<1>13. QED
  BY <1>5, <1>6, <1>7, <1>8, <1>10, <1>11, <1>12 DEF Aligned, NumbersInUse

\* When the receiver has drained its buffer, what is left lies past the next packet.
LEMMA DrainedAhead ==
    ASSUME TypeOK, Aligned, Drained, NEW q \in incoming_reliables
    PROVE  q.idx # Len(delivered) + 1
<1> SUFFICES ASSUME q.idx = Len(delivered) + 1 PROVE FALSE
  OBVIOUS
<1>1. Minus(q.seq, next_incoming) = 0 /\ q.seq \in SeqNums
  BY Lengths DEF Aligned, BufferedAhead, TypeOK, Packet
<1>2. q.seq = next_incoming
  BY <1>1 DEF Minus, SeqNums, TypeOK
<1>3. \A r \in incoming_reliables : Minus(r.seq, next_incoming) >= 0
  <2> SUFFICES ASSUME NEW r \in incoming_reliables
               PROVE  Minus(r.seq, next_incoming) >= 0
    OBVIOUS
  <2>1. r.seq \in SeqNums /\ next_incoming \in SeqNums
    BY DEF TypeOK, Packet
  <2>2. Minus(r.seq, next_incoming) \in SeqNums
    BY <2>1, MinusType
  <2>3. QED
    BY <2>2 DEF SeqNums
<1>4. FirstBuffered(q)
  BY <1>1, <1>3 DEF FirstBuffered
<1>5. QED
  BY <1>2, <1>4 DEF Drained

\* When the receiver has drained its buffer, the next packet is still with the sender,
\* so nothing in the network is half a space ahead of it, and the distance from
\* next_incoming tells where a packet of the network belongs.
LEMMA WirePosition ==
    ASSUME TypeOK, Aligned, HeldUntilAcked, Drained, NEW p \in wire
    PROVE  /\ Len(log) - Len(delivered) <= H - 1
           /\ p.idx - (Len(delivered) + 1) \in -H .. H - 2
           /\ Minus(p.seq, next_incoming) =
                  IF p.idx > Len(delivered)
                  THEN p.idx - (Len(delivered) + 1)
                  ELSE p.idx - (Len(delivered) + 1) + SEQNUM_MAX + 1
<1> DEFINE L == Len(log)
           D == Len(delivered)
<1>1. L \in Nat /\ D \in Nat /\ D <= L /\ Minus(next_outgoing, next_incoming) = L - D
  BY Lengths DEF Aligned, ReceiverBehind
<1>2. L - D <= H - 1
  <2> SUFFICES ASSUME L > D PROVE L - D <= H - 1
    BY <1>1
  <2>1. PICK q \in Outstanding \union incoming_reliables : q.idx = D + 1
    BY <1>1 DEF HeldUntilAcked
  <2>2. q \notin incoming_reliables
    BY <2>1, DrainedAhead
  <2>3. NumberedWithin(q, H - 1)
    BY <2>1, <2>2 DEF Aligned, NumbersInUse
  <2>4. QED
    BY <1>1, <2>1, <2>3 DEF NumberedWithin
<1>3. /\ p.seq \in SeqNums /\ p.idx \in Nat /\ p.idx <= L /\ L + 1 - p.idx <= H
      /\ Minus(next_outgoing, p.seq) = L + 1 - p.idx
  BY DEF TypeOK, Packet, Aligned, NumbersInUse, NumberedWithin
<1>4. p.idx - (D + 1) \in -H .. H - 2
  BY <1>1, <1>2, <1>3
<1>5. Minus(p.seq, next_incoming) =
        IF L - D >= L + 1 - p.idx THEN L - D - (L + 1 - p.idx)
        ELSE L - D - (L + 1 - p.idx) + SEQNUM_MAX + 1
  BY <1>1, <1>3, MinusDifference DEF TypeOK
<1>6. CASE p.idx > D
  BY <1>1, <1>2, <1>3, <1>4, <1>5, <1>6
<1>7. CASE ~ (p.idx > D)
  <2>1. ~ (L - D >= L + 1 - p.idx)
    BY <1>1, <1>3, <1>7
  <2>2. Minus(p.seq, next_incoming) = p.idx - (D + 1) + SEQNUM_MAX + 1
    BY <1>1, <1>3, <1>5, <2>1
  <2>3. QED
    BY <1>2, <1>4, <1>7, <2>2
<1>8. QED
  BY <1>6, <1>7

\* Sending a numbered packet (again) and losing datagrams keep the invariant: the
\* packet sent is one that still waits for its ACK.
LEMMA SendKeepsInv ==
    ASSUME TypeOK, Aligned, InOrder, HeldUntilAcked, NoFalseCorruption,
           Outstanding' = Outstanding,
           wire' \subseteq wire \union Outstanding, acks' \subseteq acks,
           UNCHANGED <<next_outgoing, log, receiverVars>>
    PROVE  Aligned' /\ InOrder' /\ HeldUntilAcked' /\ NoFalseCorruption'
<1>1. \A p \in Outstanding : NumberedWithin(p, H)
  BY OutstandingType, Lengths DEF Aligned, NumbersInUse, NumberedWithin, Packet
<1>2. NumbersInUse'
  BY <1>1 DEF Aligned, NumbersInUse, NumberedWithin
<1>3. ReceiverBehind' /\ BufferedAhead' /\ AcksAreReceipts'
  BY DEF Aligned, ReceiverBehind, BufferedAhead, AcksAreReceipts, receiverVars
<1>4. InOrder' /\ HeldUntilAcked' /\ NoFalseCorruption'
  BY DEF InOrder, HeldUntilAcked, NoFalseCorruption, receiverVars
<1>5. QED
  BY <1>2, <1>3, <1>4 DEF Aligned

\* Handing on the packet that is next in the stream keeps the invariant.
LEMMA ProcessKeepsInv ==
    ASSUME TypeOK, Aligned, InOrder, HeldUntilAcked, NoFalseCorruption,
           NEW p \in Packet, p.idx = Len(delivered) + 1, p.idx <= Len(log),
           next_incoming' = Plus(next_incoming, 1),
           delivered' = Append(delivered, p.idx),
           incoming_reliables' =
               {q \in incoming_reliables : q.idx # Len(delivered) + 1},
           acks' \subseteq acks \union {p}, p \in acks' => NumberedWithin(p, H),
           UNCHANGED <<senderVars, wire, disconnecting>>
    PROVE  Aligned' /\ InOrder' /\ HeldUntilAcked' /\ NoFalseCorruption'
<1> DEFINE L == Len(log)
           D == Len(delivered)
<1>1. /\ L \in Nat /\ D \in Nat /\ Len(delivered') = D + 1
      /\ DOMAIN delivered' = 1 .. D + 1 /\ DOMAIN delivered = 1 .. D
      /\ \A i \in 1 .. D : delivered'[i] = delivered[i]
      /\ delivered'[D + 1] = D + 1
  <2>1. delivered \in Seq(Nat) /\ p.idx \in Nat
    BY Lengths DEF TypeOK, Packet
  <2>2. QED
    BY <2>1, Lengths, AppendProperties, LenProperties
<1>2. UNCHANGED <<next_outgoing, log, Outstanding>>
  BY DEF senderVars, Outstanding
<1>3. NumbersInUse'
  BY <1>2 DEF Aligned, NumbersInUse, NumberedWithin
<1>4. ReceiverBehind'
  <2>1. Minus(next_outgoing, next_incoming) = L - D /\ L - D <= SEQNUM_MAX
    BY DEF Aligned, ReceiverBehind
  <2>2. Minus(next_outgoing, Plus(next_incoming, 1)) = L - D - 1
    BY <1>1, <2>1, PlusAhead DEF TypeOK
  <2>3. QED
    BY <1>1, <1>2, <2>1, <2>2 DEF ReceiverBehind
<1>5. BufferedAhead'
  <2> SUFFICES ASSUME NEW q \in incoming_reliables, q.idx # D + 1
               PROVE  /\ q.idx >= D + 2 /\ q.idx <= L /\ q.idx <= D + H
                      /\ Minus(q.seq, next_incoming') = q.idx - (D + 2)
    BY <1>1, <1>2 DEF BufferedAhead
  <2>1. /\ q.idx \in Nat /\ q.seq \in SeqNums /\ q.idx >= D + 1 /\ q.idx <= L
        /\ q.idx <= D + H - 1 /\ Minus(q.seq, next_incoming) = q.idx - (D + 1)
    BY DEF Aligned, BufferedAhead, TypeOK, Packet
  <2>2. Minus(q.seq, Plus(next_incoming, 1)) = q.idx - (D + 2)
    <3>1. Minus(q.seq, next_incoming) >= 1 /\ next_incoming \in SeqNums
      BY <1>1, <2>1 DEF TypeOK
    <3>2. Minus(q.seq, Plus(next_incoming, 1)) = q.idx - (D + 1) - 1
      BY <2>1, <3>1, PlusAhead
    <3>3. QED
      BY <1>1, <2>1, <3>2
  <2>3. QED
    BY <1>1, <2>1, <2>2
<1>6. AcksAreReceipts'
  <2> SUFFICES ASSUME NEW a \in acks'
               PROVE  a.idx <= D + 1 \/ \E q \in incoming_reliables' : q.idx = a.idx
    BY <1>1 DEF AcksAreReceipts
  <2>1. CASE a = p
    BY <1>1, <2>1
  <2>2. CASE a \in acks
    BY <1>1, <2>2 DEF Aligned, AcksAreReceipts, TypeOK, Packet
  <2>3. QED
    BY <2>1, <2>2
<1>7. InOrder'
  BY <1>1 DEF InOrder
<1>8. HeldUntilAcked'
  BY <1>1, <1>2 DEF HeldUntilAcked
<1>9. NoFalseCorruption'
  BY DEF NoFalseCorruption
<1>10. QED
  BY <1>3, <1>4, <1>5, <1>6, <1>7, <1>8, <1>9 DEF Aligned

\* Once latched, the overrun stays.
LEMMA OverrunStays == ASSUME TypeOK, [Next]_vars, ~ overrun' PROVE ~ overrun
BY DEF Next, vars, senderVars, SendNow, SendLater, RunCommandQueue, Enqueue, Number,
       SendQueued, Ping, Resend, GrowWindow, ShrinkWindow, UpdateWindow, ReceiveAck,
       LoseAck, Unbuffer, ReceiveInOrder, ReceiveAhead, ReceiveCorrupt,
       ReceiveOutside, LosePacket

\* The strengthened invariant holds in every state.
THEOREM InductiveInvariant == Spec => []IInv
<1>1. Init => IInv
  <2> SUFFICES ASSUME Init
               PROVE  Aligned /\ InOrder /\ HeldUntilAcked /\ NoFalseCorruption
    BY DEF IInv
  <2>1. Len(log) = 0 /\ Len(delivered) = 0 /\ Outstanding = {}
    BY DEF Init, Outstanding, ToSet
  <2>2. QED
    BY <2>1 DEF Init, Aligned, NumbersInUse, ReceiverBehind, BufferedAhead,
                AcksAreReceipts, InOrder, HeldUntilAcked, NoFalseCorruption, Minus,
                SeqNums
<1>2. TypeOK /\ TypeOK' /\ IInv /\ [Next]_vars => IInv'
  <2> SUFFICES ASSUME TypeOK, TypeOK', IInv, [Next]_vars, ~ overrun'
               PROVE  Aligned' /\ InOrder' /\ HeldUntilAcked' /\ NoFalseCorruption'
    BY DEF IInv
  <2> DEFINE L == Len(log)
             D == Len(delivered)
             Goal == Aligned' /\ InOrder' /\ HeldUntilAcked' /\ NoFalseCorruption'
  <2>0. Aligned /\ InOrder /\ HeldUntilAcked /\ NoFalseCorruption
    BY OverrunStays DEF IInv
  <2>00. L \in Nat /\ D \in Nat
    BY Lengths
  <2> HIDE DEF Goal
  <2>1. ASSUME NEW n \in 1 .. H - 1, NEW msg \in Nat, Enqueue(n, msg),
               UNCHANGED <<outgoing_sent, receiverVars>>
        PROVE  Goal
    <3>1. ToSet(queued_reliables') =
            ToSet(queued_reliables) \union {NewPackets(n)[j] : j \in 1 .. n}
      <4>1. NewPackets(n) \in Seq(Packet) /\ Len(NewPackets(n)) = n
        BY NewPacketsType
      <4>2. ToSet(NewPackets(n)) = {NewPackets(n)[j] : j \in 1 .. n}
        BY <4>1, LenProperties DEF ToSet
      <4>3. QED
        BY <2>1, <4>1, <4>2, ToSetConcat DEF Enqueue, TypeOK
    <3>2. Outstanding' = Outstanding \union {NewPackets(n)[j] : j \in 1 .. n}
      BY <2>1, <3>1 DEF Outstanding
    <3>3. Number(n, msg, Outstanding')
      BY <2>1 DEF Enqueue, Outstanding
    <3>4. wire' \subseteq
            Fresh(wire \union {NewPackets(n)[j] : j \in 1 .. n}, Len(log) + n)
      BY <2>1 DEF Enqueue, Fresh
    <3>5. QED
      BY <2>0, <2>1, <3>2, <3>3, <3>4, NumberKeepsInv DEF Goal
  <2>2. ASSUME NEW n \in MessageSizes, SendNow(n) PROVE Goal
    <3>1. n \in 1 .. H - 1 /\ accepted + 1 \in Nat
      BY DEF TypeOK
    <3>2. QED
      BY <2>1, <2>2, <3>1 DEF SendNow
  <2>3. ASSUME NEW n \in MessageSizes, SendLater(n) PROVE Goal
    BY <2>0, <2>3, SendKeepsInv DEF SendLater, Outstanding, networkVars, receiverVars, Goal
  <2>4. CASE RunCommandQueue
    <3>1. Head(queued_commands) \in Command
      BY <2>4, HeadTailProperties DEF RunCommandQueue, TypeOK
    <3>2. /\ Head(queued_commands).chunks \in 1 .. H - 1
          /\ Head(queued_commands).msg \in Nat
      BY <3>1 DEF Command
    <3>3. /\ Enqueue(Head(queued_commands).chunks, Head(queued_commands).msg)
          /\ UNCHANGED <<outgoing_sent, receiverVars>>
      BY <2>4 DEF RunCommandQueue
    <3>4. QED
      BY <2>1, <3>2, <3>3 DEF Goal
  <2>5. CASE SendQueued
    <3> DEFINE p == Head(queued_reliables)
    <3>1. queued_reliables \in Seq(Packet) /\ queued_reliables # <<>> /\ p \in Packet
      BY <2>5, HeadTailProperties DEF SendQueued, TypeOK
    <3>2. ToSet(queued_reliables) = {p} \union ToSet(Tail(queued_reliables))
      BY <3>1, ToSetHeadTail
    <3>3. p \in Outstanding
      BY <3>2 DEF Outstanding
    <3>4. Minus(next_outgoing, p.seq) \in 1 .. H - 1
      BY <2>0, <2>00, <3>1, <3>3 DEF Aligned, NumbersInUse, NumberedWithin, Packet
    <3>5. Buffered(p, next_outgoing) = outgoing_sent \union {p}
      <4> DEFINE e == Minus(next_outgoing, H)
      <4>1. e \in SeqNums /\ p.seq \in SeqNums /\ next_outgoing \in SeqNums
        BY <3>1, MinusHalfType DEF TypeOK, Packet
      <4>2. Minus(p.seq, e) = H - Minus(next_outgoing, p.seq)
        BY <3>4, <4>1 DEF Minus, SeqNums
      <4>3. seqnum_in_window(p.seq, e, H)
        <5> HIDE DEF e
        <5>1. seqnum_in_window(p.seq, e, H) <=> Minus(p.seq, e) < H
          BY <4>1, InWindow
        <5>2. QED
          BY <3>4, <4>2, <5>1
      <4>4. p.seq # e
        BY <3>4, <4>1, <4>2 DEF Minus, SeqNums
      <4>5. QED
        BY <4>3, <4>4 DEF Buffered
    <3>6. Outstanding' = Outstanding
      BY <2>5, <3>2, <3>5 DEF SendQueued, Outstanding
    <3>7. wire' \subseteq wire \union Outstanding
      BY <2>5, <3>3 DEF SendQueued, Fresh
    <3>8. UNCHANGED <<next_outgoing, log, acks, receiverVars>>
      BY <2>5 DEF SendQueued
    <3>9. QED
      BY <2>0, <3>6, <3>7, <3>8, SendKeepsInv DEF Goal, receiverVars
  <2>6. CASE Ping
    <3> DEFINE p == NewPackets(1)[1]
    <3>1. 1 \in 1 .. H - 1 /\ 0 \in Nat
      OBVIOUS
    <3>2. p = [seq |-> Plus(next_outgoing, 0), idx |-> Len(log) + 1] /\ p \in Packet
      BY <3>1, NewPacketsType, ElementOfSeq
    <3>3. {NewPackets(1)[j] : j \in 1 .. 1} = {p}
      OBVIOUS
    <3>4. Buffered(p, Plus(next_outgoing, 1)) = outgoing_sent \union {p}
      <4> DEFINE e == Minus(Plus(next_outgoing, 1), H)
      <4>1. e \in SeqNums /\ p.seq \in SeqNums
        <5>1. Plus(next_outgoing, 1) \in SeqNums /\ p.seq \in SeqNums
          BY <3>2, PlusType DEF TypeOK, Packet
        <5>2. QED
          BY <5>1, MinusHalfType
      <4>2. Minus(p.seq, e) = H - 1
        <5>1. next_outgoing \in SeqNums /\ p.seq = Plus(next_outgoing, 0)
          BY <3>2 DEF TypeOK
        <5>2. QED
          BY <5>1, LastOfHalf
      <4>3. seqnum_in_window(p.seq, e, H)
        <5> HIDE DEF e
        <5>1. seqnum_in_window(p.seq, e, H) <=> Minus(p.seq, e) < H
          BY <4>1, InWindow
        <5>2. QED
          BY <4>2, <5>1
      <4>4. p.seq # e
        BY <4>1, <4>2 DEF Minus, SeqNums
      <4>5. QED
        BY <4>3, <4>4 DEF Buffered
    <3> HIDE DEF p
    <3>5. /\ Outstanding' = Outstanding \union {p}
          /\ wire' \subseteq Fresh(wire \union {p}, Len(log) + 1)
      <4>1. CASE Cardinality(outgoing_sent) < window_size
        BY <2>6, <3>4, <4>1 DEF Ping, Outstanding, p
      <4>2. CASE ~ (Cardinality(outgoing_sent) < window_size)
        <5>1. queued_reliables' = Append(queued_reliables, p) /\ outgoing_sent' = outgoing_sent
              /\ wire' = Fresh(wire, Len(log) + 1)
          BY <2>6, <4>2 DEF Ping, p
        <5>2. ToSet(queued_reliables') = ToSet(queued_reliables) \union {p}
          BY <3>2, <5>1, ToSetAppend DEF TypeOK
        <5>3. QED
          BY <5>1, <5>2 DEF Outstanding, Fresh
      <4>3. QED
        BY <4>1, <4>2
    <3>6. Number(1, 0, Outstanding') /\ UNCHANGED receiverVars
      BY <2>6 DEF Ping, Outstanding
    <3>7. QED
      BY <2>0, <3>1, <3>3, <3>5, <3>6, NumberKeepsInv DEF Goal
  <2>7. ASSUME NEW p \in outgoing_sent, Resend(p) PROVE Goal
    BY <2>0, <2>7, SendKeepsInv DEF Resend, Fresh, Outstanding, senderVars, Goal
  <2>8. CASE GrowWindow \/ ShrinkWindow
    BY <2>0, <2>8, SendKeepsInv DEF GrowWindow, ShrinkWindow, UpdateWindow, Outstanding,
                                    networkVars, Goal
  <2>9. ASSUME NEW a \in acks, ReceiveAck(a) PROVE Goal
    <3>1. /\ outgoing_sent' = {p \in outgoing_sent : p.seq # a.seq}
          /\ UNCHANGED <<queued_reliables, next_outgoing, log, networkVars, receiverVars>>
      BY <2>9 DEF ReceiveAck
    <3>2. \A p \in outgoing_sent : p.seq = a.seq => p.idx = a.idx
      <4> SUFFICES ASSUME NEW p \in outgoing_sent, p.seq = a.seq PROVE p.idx = a.idx
        OBVIOUS
      <4>1. NumberedWithin(p, H - 1) /\ NumberedWithin(a, H)
        BY <2>0 DEF Aligned, NumbersInUse, Outstanding
      <4>2. p.idx \in Nat /\ a.idx \in Nat
        BY DEF TypeOK, Packet
      <4>3. QED
        BY <2>00, <4>1, <4>2 DEF NumberedWithin
    <3>3. Outstanding' \subseteq Outstanding
      BY <3>1 DEF Outstanding
    <3>4. NumbersInUse'
      BY <2>0, <3>1, <3>3 DEF Aligned, NumbersInUse, NumberedWithin, networkVars
    <3>5. ReceiverBehind' /\ BufferedAhead' /\ AcksAreReceipts'
      BY <2>0, <3>1 DEF Aligned, ReceiverBehind, BufferedAhead, AcksAreReceipts,
                        receiverVars, networkVars
    <3>6. HeldUntilAcked'
      <4> SUFFICES ASSUME NEW i \in D + 1 .. L
                   PROVE  \E p \in Outstanding' \union incoming_reliables : p.idx = i
        BY <3>1 DEF HeldUntilAcked, receiverVars
      <4>1. PICK p \in Outstanding \union incoming_reliables : p.idx = i
        BY <2>0 DEF HeldUntilAcked
      <4>2. CASE p \in outgoing_sent /\ p.seq = a.seq
        BY <2>0, <2>00, <3>2, <4>1, <4>2 DEF Aligned, AcksAreReceipts
      <4>3. CASE ~ (p \in outgoing_sent /\ p.seq = a.seq)
        BY <3>1, <4>1, <4>3 DEF Outstanding
      <4>4. QED
        BY <4>2, <4>3
    <3>7. InOrder' /\ NoFalseCorruption'
      BY <2>0, <3>1 DEF InOrder, NoFalseCorruption, receiverVars
    <3>8. QED
      BY <3>4, <3>5, <3>6, <3>7 DEF Goal, Aligned
  <2>10. ASSUME NEW a \in acks, LoseAck(a) PROVE Goal
    BY <2>0, <2>10, SendKeepsInv DEF LoseAck, Outstanding, senderVars, Goal
  <2>11. ASSUME NEW p \in incoming_reliables, Unbuffer(p) PROVE Goal
    <3>1. /\ p \in Packet /\ p.idx <= L
          /\ Minus(p.seq, next_incoming) = p.idx - (D + 1)
      BY <2>0 DEF TypeOK, Aligned, BufferedAhead
    <3>2. p.seq = next_incoming
      BY <2>11 DEF Unbuffer
    <3>3. p.idx = D + 1
      BY <2>00, <3>1, <3>2 DEF Packet, Minus, SeqNums
    <3>4. \A q \in incoming_reliables : q.idx = D + 1 => q = p
      <4> SUFFICES ASSUME NEW q \in incoming_reliables, q.idx = D + 1 PROVE q = p
        OBVIOUS
      <4>1. q \in Packet /\ Minus(q.seq, next_incoming) = 0
        BY <2>0, <2>00 DEF TypeOK, Aligned, BufferedAhead
      <4>2. q.seq = next_incoming
        <5>1. q.seq \in SeqNums /\ next_incoming \in SeqNums
          BY <4>1 DEF TypeOK, Packet
        <5>2. QED
          BY <4>1, <5>1 DEF Minus, SeqNums
      <4>3. QED
        BY <3>1, <3>2, <3>3, <4>1, <4>2 DEF Packet
    <3>5. incoming_reliables' = {q \in incoming_reliables : q.idx # D + 1}
      BY <2>11, <3>3, <3>4 DEF Unbuffer
    <3>6. /\ next_incoming' = Plus(next_incoming, 1) /\ delivered' = Append(delivered, p.idx)
          /\ UNCHANGED <<senderVars, wire, acks, disconnecting>>
      BY <2>11 DEF Unbuffer, networkVars
    <3>7. p \in acks' => NumberedWithin(p, H)
      BY <2>0, <3>6 DEF Aligned, NumbersInUse
    <3>8. QED
      BY <2>0, <3>1, <3>3, <3>5, <3>6, <3>7, ProcessKeepsInv DEF Goal
  <2>12. ASSUME NEW p \in wire, ReceiveInOrder(p) PROVE Goal
    <3>1. Drained /\ p.seq = next_incoming
      BY <2>12 DEF ReceiveInOrder
    <3>2. p \in Packet /\ p.idx <= L /\ NumberedWithin(p, H)
      BY <2>0 DEF TypeOK, Aligned, NumbersInUse, NumberedWithin
    <3>3. Minus(p.seq, next_incoming) = 0
      BY <3>1 DEF TypeOK, Minus, SeqNums
    <3>4. p.idx = D + 1
      BY <2>0, <2>00, <3>1, <3>2, <3>3, WirePosition DEF Packet
    <3>5. incoming_reliables' = {q \in incoming_reliables : q.idx # D + 1}
      BY <2>0, <2>12, <3>1, DrainedAhead DEF ReceiveInOrder, Process, Drained
    <3>6. /\ next_incoming' = Plus(next_incoming, 1) /\ delivered' = Append(delivered, p.idx)
          /\ acks' \subseteq acks \union {p}
          /\ UNCHANGED <<senderVars, wire, disconnecting>>
      BY <2>12 DEF ReceiveInOrder, Process, Acknowledge, Fresh
    <3>7. QED
      BY <2>0, <3>2, <3>4, <3>5, <3>6, ProcessKeepsInv DEF Goal
  <2>13. ASSUME NEW p \in wire, ReceiveAhead(p) PROVE Goal
    <3>1. /\ Drained /\ p \in Packet /\ p.idx <= L /\ NumberedWithin(p, H)
          /\ next_incoming \in SeqNums
      BY <2>0, <2>13 DEF ReceiveAhead, TypeOK, Aligned, NumbersInUse, NumberedWithin
    <3>2. Minus(p.seq, next_incoming) < H
      BY <2>13, <3>1, InWindow DEF ReceiveAhead, InReceiveWindow, Packet
    <3>3. p.seq # next_incoming
      BY <2>13 DEF ReceiveAhead
    <3>4. Minus(p.seq, next_incoming) = p.idx - (D + 1) /\ p.idx > D
      BY <2>0, <2>00, <3>1, <3>2, WirePosition DEF Packet
    <3>5. /\ \/ incoming_reliables' = incoming_reliables \union {p}
             \/ /\ incoming_reliables' = incoming_reliables
                /\ \E q \in incoming_reliables : q.seq = p.seq
          /\ acks' \subseteq acks \union {p}
          /\ UNCHANGED <<senderVars, wire, next_incoming, delivered, disconnecting>>
      <4>1. /\ acks' \subseteq acks \union {p}
            /\ UNCHANGED <<senderVars, wire, next_incoming, delivered, disconnecting>>
        BY <2>13 DEF ReceiveAhead, Acknowledge, Fresh
      <4>2. incoming_reliables' = IF \E q \in incoming_reliables : q.seq = p.seq
                                  THEN incoming_reliables
                                  ELSE incoming_reliables \union {p}
        BY <2>13 DEF ReceiveAhead
      <4>3. QED
        BY <4>1, <4>2
    <3>6. \A q \in incoming_reliables : q.seq = p.seq => q.idx = p.idx
      <4> SUFFICES ASSUME NEW q \in incoming_reliables, q.seq = p.seq
                   PROVE  q.idx = p.idx
        OBVIOUS
      <4>1. Minus(q.seq, next_incoming) = q.idx - (D + 1) /\ q.idx \in Nat
        BY <2>0 DEF Aligned, BufferedAhead, TypeOK, Packet
      <4>2. p.idx \in Nat
        BY <3>1 DEF Packet
      <4>3. QED
        BY <2>00, <3>4, <4>1, <4>2
    <3>7. incoming_reliables \subseteq incoming_reliables'
          /\ \E q \in incoming_reliables' : q.idx = p.idx
      BY <3>5, <3>6
    <3>8. NumbersInUse' /\ ReceiverBehind'
      BY <2>0, <3>1, <3>5 DEF Aligned, NumbersInUse, NumberedWithin, ReceiverBehind,
                              Outstanding, senderVars
    <3>9. BufferedAhead'
      <4>1. /\ p.idx \in Nat /\ p.idx >= D + 1 /\ p.idx <= L /\ p.idx <= D + H - 1
            /\ Minus(p.seq, next_incoming) = p.idx - (D + 1)
        <5>1. p.idx \in Nat
          BY <3>1 DEF Packet
        <5>2. L - D <= H - 1 /\ H \in Nat
          BY <2>0, <3>1, WirePosition, WindowIsHalfOfSpace DEF H
        <5>3. p.idx <= L /\ p.idx > D
          BY <3>1, <3>4
        <5>4. QED
          BY <2>00, <3>4, <5>1, <5>2, <5>3
      <4>2. /\ incoming_reliables' \subseteq incoming_reliables \union {p}
            /\ UNCHANGED <<log, delivered, next_incoming>>
        BY <3>5 DEF senderVars
      <4>3. QED
        BY <2>0, <4>1, <4>2 DEF Aligned, BufferedAhead
    <3>10. AcksAreReceipts'
      BY <2>0, <3>5, <3>7 DEF Aligned, AcksAreReceipts
    <3>11. HeldUntilAcked'
      BY <2>0, <3>5, <3>7 DEF HeldUntilAcked, Outstanding, senderVars
    <3>12. InOrder' /\ NoFalseCorruption'
      BY <2>0, <3>5 DEF InOrder, NoFalseCorruption
    <3>13. QED
      BY <3>8, <3>9, <3>10, <3>11, <3>12 DEF Goal, Aligned
  <2>14. ASSUME NEW p \in wire, ReceiveCorrupt(p) PROVE Goal
    <3>1. /\ Drained /\ p \in Packet /\ next_incoming \in SeqNums
      BY <2>14 DEF ReceiveCorrupt, TypeOK
    <3>2. Minus(p.seq, next_incoming) < H
      BY <2>14, <3>1, InWindow DEF ReceiveCorrupt, InReceiveWindow, Packet
    <3>3. Minus(p.seq, next_incoming) = p.idx - (D + 1)
      BY <2>0, <2>00, <3>1, <3>2, WirePosition DEF Packet
    <3>4. \A q \in incoming_reliables : q.seq = p.seq => q.idx = p.idx
      <4> SUFFICES ASSUME NEW q \in incoming_reliables, q.seq = p.seq
                   PROVE  q.idx = p.idx
        OBVIOUS
      <4>1. Minus(q.seq, next_incoming) = q.idx - (D + 1) /\ q.idx \in Nat
        BY <2>0 DEF Aligned, BufferedAhead, TypeOK, Packet
      <4>2. p.idx \in Nat
        BY <3>1 DEF Packet
      <4>3. QED
        BY <2>00, <3>3, <4>1, <4>2
    <3>5. QED
      BY <2>14, <3>4 DEF ReceiveCorrupt
  <2>15. ASSUME NEW p \in wire, ReceiveOutside(p) PROVE Goal
    <3>1. /\ Drained /\ p \in Packet /\ next_incoming \in SeqNums /\ NumberedWithin(p, H)
      BY <2>0, <2>15 DEF ReceiveOutside, TypeOK, Aligned, NumbersInUse
    <3>2. ~ (Minus(p.seq, next_incoming) < H)
      BY <2>15, <3>1, InWindow DEF ReceiveOutside, InReceiveWindow, Packet
    <3>3. p.idx <= D
      BY <2>0, <2>00, <3>1, <3>2, WirePosition DEF Packet
    <3>4. acks' \subseteq acks \union {p} /\ UNCHANGED <<senderVars, wire, receiverVars>>
      BY <2>15 DEF ReceiveOutside, Acknowledge, Fresh
    <3>5. NumbersInUse' /\ ReceiverBehind' /\ BufferedAhead'
      BY <2>0, <3>1, <3>4 DEF Aligned, NumbersInUse, NumberedWithin, ReceiverBehind,
                              BufferedAhead, Outstanding, senderVars, receiverVars
    <3>6. AcksAreReceipts'
      BY <2>0, <3>3, <3>4 DEF Aligned, AcksAreReceipts, receiverVars
    <3>7. InOrder' /\ HeldUntilAcked' /\ NoFalseCorruption'
      BY <2>0, <3>4 DEF InOrder, HeldUntilAcked, NoFalseCorruption, Outstanding,
                        senderVars, receiverVars
    <3>8. QED
      BY <3>5, <3>6, <3>7 DEF Goal, Aligned
  <2>16. ASSUME NEW p \in wire, LosePacket(p) PROVE Goal
    BY <2>0, <2>16, SendKeepsInv DEF LosePacket, Outstanding, senderVars, Goal
  <2>17. CASE UNCHANGED vars
    BY <2>0, <2>17, SendKeepsInv DEF vars, Outstanding, senderVars, networkVars, Goal
  <2>18. QED
    BY <2>2, <2>3, <2>4, <2>5, <2>6, <2>7, <2>8, <2>9, <2>10, <2>11, <2>12,
       <2>13, <2>14, <2>15, <2>16, <2>17 DEF Next, Goal
<1>3. QED
  BY <1>1, <1>2, TypeCorrect, PTL DEF Spec

\* A reliable channel never reorders, repeats, invents or abandons a packet, and never
\* takes two packets for one, as long as the packets that wait for an ACK have never
\* spanned half of the sequence number space.
THEOREM ReliableDelivery == Spec => []SafeUnlessOverrun
<1>1. IInv => SafeUnlessOverrun
  BY DEF IInv, SafeUnlessOverrun
<1>2. QED
  BY <1>1, InductiveInvariant, PTL
=============================================================================
