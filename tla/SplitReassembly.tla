--------------------------- MODULE SplitReassembly ---------------------------
(***************************************************************************)
(* Messages that do not fit a datagram: the sender cuts them into chunks   *)
(* under a number of the channel's split counter (makeSplitPacket in       *)
(* src/network/mtp/impl.cpp), the receiver puts them together again        *)
(* (IncomingSplitBuffer).  Reliable and unreliable messages share the      *)
(* counter and the receiver's buffer, which knows a message by its split   *)
(* number only.  Chunks of reliable messages arrive in order and once,     *)
(* as MtpChannel shows; unreliable ones may be lost, repeated and          *)
(* reordered.                                                              *)
(***************************************************************************)
EXTENDS Naturals, Sequences, SequencesExt

CONSTANTS
    SPLITS,         \* how many split numbers there are: 2^16
    MaxChunks,      \* bound: chunks of a message
    MaxReliable,    \* bound: reliable messages
    MaxUnreliable,  \* bound: unreliable messages
    MaxFailures     \* bound: attempts that find too few sequence numbers

ASSUME SplitAssumption ==
    /\ SPLITS \in Nat \ {0, 1} /\ MaxChunks \in Nat \ {0}
    /\ MaxReliable \in Nat /\ MaxUnreliable \in Nat /\ MaxFailures \in Nat

VARIABLES
    split_seqnum,   \* Channel::next_outgoing_split_seqnum
    accepted,       \* reliable messages cut so far
    attempts,       \* unreliable messages cut so far
    failures,       \* reliable messages cut in vain so far
    cuts,           \* how many split numbers have been used
    pipe,           \* chunks of reliable messages that have not arrived
    air,            \* datagrams of unreliable chunks
    buf,            \* IncomingSplitBuffer::m_buf: IncomingSplitPackets by split number
    output,         \* the reliable messages handed to the application
    whole           \* what was handed over so far was whole messages

vars == <<split_seqnum, accepted, attempts, failures, cuts, pipe, air, buf, output,
         whole>>

SplitNumbers == 0 .. SPLITS - 1

\* Chunk `num' of `count' of a message, the msg-th of its kind, cut after `born' others.
Chunk ==
    [reliable : BOOLEAN, msg : Nat, count : 1 .. MaxChunks, num : 0 .. MaxChunks - 1,
     seqnum : SplitNumbers, born : Nat]

\* IncomingSplitPacket: some chunks of a message, by number.
IsEntry(e) ==
    /\ DOMAIN e = {"reliable", "count", "chunks"}
    /\ e.reliable \in BOOLEAN /\ e.count \in 2 .. MaxChunks
    /\ e.chunks \in [DOMAIN e.chunks -> Chunk]
    /\ DOMAIN e.chunks \subseteq 0 .. e.count - 1

TypeOK ==
    /\ split_seqnum \in SplitNumbers
    /\ accepted \in 0 .. MaxReliable
    /\ attempts \in 0 .. MaxUnreliable
    /\ failures \in 0 .. MaxFailures /\ cuts \in Nat
    /\ pipe \in Seq(Chunk) /\ whole \in BOOLEAN
    /\ air \subseteq Chunk
    /\ DOMAIN buf \subseteq SplitNumbers
    /\ \A s \in DOMAIN buf : IsEntry(buf[s])
    /\ output \in Seq(Nat)

Init ==
    /\ split_seqnum = SPLITS - 1     \* as SEQNUM_INITIAL, close to the wrap
    /\ accepted = 0 /\ attempts = 0 /\ failures = 0 /\ cuts = 0
    /\ pipe = <<>> /\ air = {}
    /\ buf = <<>> /\ output = <<>> /\ whole = TRUE

-----------------------------------------------------------------------------
(* The sender.                                                             *)

Stored(e) == {e.chunks[k] : k \in DOMAIN e.chunks}

Alive == air \union ToSet(pipe) \union UNION {Stored(buf[s]) : s \in DOMAIN buf}

\* 65536 split numbers outlast the life of a datagram, the timeout of an incomplete
\* unreliable message and the delivery of a reliable one.
OldOnesGone == \A c \in Alive : c.count > 1 => cuts - c.born < SPLITS

\* A message of n chunks; what fits one datagram is not a split packet.
Chunks(reliable, msg, n) ==
    [k \in 1 .. n |->
        [reliable |-> reliable, msg |-> msg, count |-> n, num |-> k - 1,
         seqnum |-> split_seqnum, born |-> cuts]]

\* Fault: the counter is not written back.
AfterCuttingStuck(n) == split_seqnum

\* Fault: the counter does not wrap.
AfterCuttingUnwrapped(n) == IF n = 1 THEN split_seqnum ELSE split_seqnum + 1

\* makeAutoSplitPacket uses up a number only for a message it splits.
AfterCutting(n) ==
    IF n = 1 THEN split_seqnum ELSE (split_seqnum + 1) % SPLITS

Cut(n) ==
    /\ n > 1 => OldOnesGone
    /\ split_seqnum' = AfterCutting(n)
    /\ cuts' = IF n = 1 THEN cuts ELSE cuts + 1

\* processReliableSendCommand.
SendReliable(n) ==
    /\ accepted < MaxReliable
    /\ pipe' = pipe \o Chunks(TRUE, accepted + 1, n)
    /\ accepted' = accepted + 1
    /\ Cut(n)
    /\ UNCHANGED <<attempts, failures, air, buf, output, whole>>

\* Fault: the chunks that did get a sequence number stay queued.
FailReliablePartly(n) ==
    /\ accepted < MaxReliable /\ failures < MaxFailures
    /\ n > 1
    /\ pipe' = pipe \o SubSeq(Chunks(TRUE, accepted + 1, n), 1, n - 1)
    /\ failures' = failures + 1
    /\ Cut(n)
    /\ UNCHANGED <<accepted, attempts, air, buf, output, whole>>

\* There are not enough sequence numbers: no chunk is queued, but the number is gone.
FailReliable(n) ==
    /\ accepted < MaxReliable /\ failures < MaxFailures
    /\ n > 1
    /\ failures' = failures + 1
    /\ Cut(n)
    /\ UNCHANGED <<accepted, attempts, pipe, air, buf, output, whole>>

\* ConnectionSendThread::send.
SendUnreliable(n) ==
    /\ attempts < MaxUnreliable
    /\ air' = air \union ToSet(Chunks(FALSE, attempts + 1, n))
    /\ attempts' = attempts + 1
    /\ Cut(n)
    /\ UNCHANGED <<accepted, failures, pipe, buf, output, whole>>

LoseChunk(c) ==
    /\ air' = air \ {c}
    /\ UNCHANGED <<split_seqnum, accepted, attempts, failures, cuts, pipe, buf, output, whole>>

-----------------------------------------------------------------------------
(* The receiver.                                                           *)

\* insert() starts an entry when a number is new.
EntryFor(c) ==
    IF c.seqnum \in DOMAIN buf THEN buf[c.seqnum]
    ELSE [reliable |-> c.reliable, count |-> c.count, chunks |-> <<>>]

With(e, c) == [e EXCEPT !.chunks =
    [k \in DOMAIN e.chunks \union {c.num} |-> IF k = c.num THEN c ELSE e.chunks[k]]]

\* allReceived(): there are as many chunks as the message has.
Complete(e) == DOMAIN e.chunks = 0 .. e.count - 1

Without(s) == [t \in DOMAIN buf \ {s} |-> buf[t]]

Put(s, e) == [t \in DOMAIN buf \union {s} |-> IF t = s THEN e ELSE buf[t]]

IsWhole(chunks) ==
    \A k \in DOMAIN chunks :
        /\ chunks[k].num = k - 1
        /\ chunks[k].msg = chunks[1].msg /\ chunks[k].reliable = chunks[1].reliable
        /\ chunks[k].count = Len(chunks)

\* The application gets the chunks in the order of their numbers.
HandOver(chunks) ==
    /\ whole' = (whole /\ IsWhole(chunks))
    /\ output' = IF chunks[1].reliable
                 THEN Append(output, IF IsWhole(chunks) THEN chunks[1].msg ELSE 0)
                 ELSE output

Reassembled(e) == [k \in 1 .. e.count |-> e.chunks[k - 1]]

\* insert() ignores a chunk of another size of message, and one that it has.
IsUseless(c) ==
    \/ c.count # EntryFor(c).count
    \/ c.num \in DOMAIN EntryFor(c).chunks

\* What handlePacketType_Original and handlePacketType_Split do with a chunk.
Process(c) ==
    IF c.count = 1
    THEN HandOver(<<c>>) /\ UNCHANGED buf
    ELSE IF IsUseless(c)
    THEN UNCHANGED <<buf, output, whole>>
    ELSE LET e == With(EntryFor(c), c)
         IN IF Complete(e)
            THEN HandOver(Reassembled(e)) /\ buf' = Without(c.seqnum)
            ELSE buf' = Put(c.seqnum, e) /\ UNCHANGED <<output, whole>>

ReceiveReliable ==
    /\ pipe # <<>>
    /\ Process(Head(pipe))
    /\ pipe' = Tail(pipe)
    /\ UNCHANGED <<split_seqnum, accepted, attempts, failures, cuts, air>>

ReceiveUnreliable(c) ==
    /\ c \in air
    /\ Process(c)
    /\ UNCHANGED <<split_seqnum, accepted, attempts, failures, cuts, pipe, air>>

\* Fault: reliable messages are removed by timeout as well.
ExpiresAny(s) == TRUE

Expires(s) == ~ buf[s].reliable

\* removeUnreliableTimedOuts.
RemoveTimedOut(s) ==
    /\ s \in DOMAIN buf
    /\ Expires(s)
    /\ buf' = Without(s)
    /\ UNCHANGED <<split_seqnum, accepted, attempts, failures, cuts, pipe, air, output, whole>>

-----------------------------------------------------------------------------
Next ==
    \/ \E n \in 1 .. MaxChunks : SendReliable(n)
    \/ \E n \in 1 .. MaxChunks : FailReliable(n)
    \/ \E n \in 1 .. MaxChunks : SendUnreliable(n)
    \/ \E c \in air : LoseChunk(c)
    \/ ReceiveReliable
    \/ \E c \in air : ReceiveUnreliable(c)
    \/ \E s \in DOMAIN buf : RemoveTimedOut(s)

Spec == Init /\ [][Next]_vars

-----------------------------------------------------------------------------
\* The application never gets chunks of two messages as one, nor a message with a chunk
\* missing: a late or repeated chunk can only start an entry that nothing completes
\* (IncomingSplitBuffer::insert, impl.cpp:451).
WholeMessages == whole

\* When every reliable chunk has arrived, no reliable message is incomplete: the failed
\* attempts of processReliableSendCommand leave nothing behind (impl.cpp:1139).
NothingLeftBehind ==
    pipe = <<>> => \A s \in DOMAIN buf : ~ buf[s].reliable

\* Reliable messages come out whole, once and in order whatever unreliable messages do
\* to the shared counter and buffer.
Fifo == INSTANCE FifoChannel

ImplementsFifo == Fifo!Spec
==============================================================================
