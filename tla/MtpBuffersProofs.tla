-------------------------- MODULE MtpBuffersProofs --------------------------
(***************************************************************************)
(* Proofs about the two buffers of MCMtpBuffers.  SplitReassembly, for     *)
(* every number of split numbers, of chunks and of messages: messages come *)
(* out whole, nothing of a reliable one stays behind, and the reliable     *)
(* messages are those of a FifoChannel.  ReliableBuffer, for every width   *)
(* of the packet numbers: the list stays sorted, and is the PacketSet that *)
(* its callers take it for.                                                *)
(***************************************************************************)
EXTENDS MCMtpBuffers, SequenceTheorems, FiniteSetTheorems, WellFoundedInduction, TLAPS

-----------------------------------------------------------------------------
(* The inductive invariant.                                                *)

\* A split number is n behind the counter.
Behind(seqnum, counter, n) ==
    seqnum = IF n <= counter THEN counter - n ELSE counter - n + SPLITS

\* A chunk is one of a message of its size, and has the number that was cut for it.
SoundChunk(c) ==
    /\ c \in Chunk
    /\ c.num < c.count
    /\ c.count > 1 =>
           c.born < cuts /\ cuts - c.born <= SPLITS /\ Behind(c.seqnum, split_seqnum, cuts - c.born)

\* A number is cut for one message, and a message that is split has one number.
SameMessage(c, d) ==
    c.count > 1 /\ d.count > 1 /\ c.born = d.born =>
        c.reliable = d.reliable /\ c.msg = d.msg /\ c.count = d.count

ChunksAreSound ==
    /\ \A c \in Alive : SoundChunk(c)
    /\ \A c, d \in Alive : SameMessage(c, d)
    /\ \A c \in air : ~ c.reliable

\* An entry holds, under their numbers, some but not all chunks of one message.
SoundEntry(s, e) ==
    /\ DOMAIN e.chunks # {}
    /\ ~ Complete(e)
    /\ \A k \in DOMAIN e.chunks :
           /\ e.chunks[k].num = k /\ e.chunks[k].seqnum = s
           /\ e.chunks[k].count = e.count /\ e.chunks[k].reliable = e.reliable

EntriesAreSound == \A s \in DOMAIN buf : SoundEntry(s, buf[s])

\* Chunk d comes after chunk c on the reliable channel.
Follows(c, d) ==
    IF c.num + 1 < c.count
    THEN /\ d.num = c.num + 1
         /\ d.msg = c.msg /\ d.count = c.count /\ d.seqnum = c.seqnum
    ELSE d.num = 0 /\ d.msg = c.msg + 1

\* The channel has the rest of the messages that were accepted, without a gap.
PipeInOrder ==
    /\ \A i \in 1 .. Len(pipe) : pipe[i].reliable /\ pipe[i].msg <= accepted
    /\ \A i \in 1 .. Len(pipe) - 1 : Follows(pipe[i], pipe[i + 1])
    /\ pipe # <<>> =>
           pipe[Len(pipe)].num + 1 = pipe[Len(pipe)].count /\ pipe[Len(pipe)].msg = accepted

\* The message the receiver is at: an entry has the chunks that have arrived.
ReceiverKeepsUp ==
    /\ \A i \in 1 .. Len(output) : output[i] = i
    /\ IF pipe = <<>> THEN Len(output) = accepted ELSE Head(pipe).msg = Len(output) + 1
    /\ \A s \in DOMAIN buf : buf[s].reliable =>
           pipe # <<>> /\ Head(pipe).num > 0 /\ s = Head(pipe).seqnum
    /\ pipe # <<>> /\ Head(pipe).num > 0 =>
           LET h == Head(pipe)
           IN /\ h.seqnum \in DOMAIN buf
              /\ buf[h.seqnum].reliable
              /\ buf[h.seqnum].count = h.count
              /\ DOMAIN buf[h.seqnum].chunks = 0 .. h.num - 1

IInv == TypeOK /\ ChunksAreSound /\ EntriesAreSound /\ PipeInOrder /\ ReceiverKeepsUp /\ whole
-----------------------------------------------------------------------------
(* Sequences.                                                              *)

\* The second sequence follows the first.
LEMMA ConcatTail ==
    ASSUME NEW S, NEW p \in Seq(S), NEW q \in Seq(S)
    PROVE  /\ Len(p \o q) = Len(p) + Len(q)
           /\ \A i \in 1 .. Len(p) : (p \o q)[i] = p[i]
           /\ \A i \in 1 .. Len(q) : (p \o q)[Len(p) + i] = q[i]
<1>1. Len(p \o q) = Len(p) + Len(q)
  OBVIOUS
<1>2. \A i \in 1 .. Len(p) : (p \o q)[i] = p[i]
  OBVIOUS
<1>3. \A i \in 1 .. Len(q) : (p \o q)[Len(p) + i] = q[i]
  OBVIOUS
<1>4. QED
  BY <1>1, <1>2, <1>3

\* The elements of a concatenation.
LEMMA ConcatParts ==
    ASSUME NEW S, NEW p \in Seq(S), NEW q \in Seq(S)
    PROVE  /\ p \o q \in Seq(S) /\ Len(p \o q) = Len(p) + Len(q)
           /\ \A i \in 1 .. Len(p) : (p \o q)[i] = p[i]
           /\ \A i \in 1 .. Len(q) : (p \o q)[Len(p) + i] = q[i]
           /\ ToSet(p \o q) \subseteq ToSet(p) \union ToSet(q)
           /\ ToSet(q) = {q[i] : i \in 1 .. Len(q)} /\ ToSet(q) \subseteq S
<1>1. /\ p \o q \in Seq(S) /\ Len(p \o q) = Len(p) + Len(q)
      /\ \A i \in 1 .. Len(p) : (p \o q)[i] = p[i]
  OBVIOUS
<1>2. \A i \in 1 .. Len(q) : (p \o q)[Len(p) + i] = q[i]
  BY ConcatTail
<1>3. ToSet(q) = {q[i] : i \in 1 .. Len(q)} /\ ToSet(q) \subseteq S
  BY DEF ToSet
<1>4. ASSUME NEW i \in 1 .. Len(p) + Len(q)
      PROVE  (p \o q)[i] \in ToSet(p) \union ToSet(q)
  <2>1. CASE i <= Len(p)
    BY <1>1, <2>1 DEF ToSet
  <2>2. CASE i > Len(p)
    <3>1. i - Len(p) \in 1 .. Len(q) /\ Len(p) + (i - Len(p)) = i
      BY <2>2
    <3>2. QED
      BY <1>2, <3>1 DEF ToSet
  <2>3. QED
    BY <2>1, <2>2
<1>5. ToSet(p \o q) \subseteq ToSet(p) \union ToSet(q)
  BY <1>1, <1>4 DEF ToSet
<1>6. QED
  BY <1>1, <1>2, <1>3, <1>5

\* What is left when the first element is taken.
LEMMA TailParts ==
    ASSUME NEW S, NEW p \in Seq(S), p # <<>>
    PROVE  /\ Head(p) = p[1] /\ Head(p) \in S /\ Len(p) \in Nat /\ Len(p) >= 1
           /\ Tail(p) \in Seq(S) /\ Len(Tail(p)) = Len(p) - 1
           /\ \A i \in 1 .. Len(p) - 1 : Tail(p)[i] = p[i + 1]
           /\ Tail(p) = <<>> <=> Len(p) = 1
           /\ Len(p) > 1 => Head(Tail(p)) = p[2]
<1>1. /\ Head(p) = p[1] /\ Head(p) \in S /\ Len(p) \in Nat /\ Len(p) >= 1
  OBVIOUS
<1>2. /\ Tail(p) \in Seq(S) /\ Len(Tail(p)) = Len(p) - 1
      /\ \A i \in 1 .. Len(p) - 1 : Tail(p)[i] = p[i + 1]
  OBVIOUS
<1>3. Tail(p) = <<>> <=> Len(Tail(p)) = 0
  BY <1>2
<1>4. Len(p) > 1 => Head(Tail(p)) = Tail(p)[1]
  BY <1>1, <1>2, <1>3
<1>5. QED
  BY <1>1, <1>2, <1>3, <1>4

-----------------------------------------------------------------------------
(* Split numbers.                                                          *)

\* The counter wraps.
LEMMA Wrap ==
    ASSUME NEW s \in SplitNumbers
    PROVE  /\ (s + 1) % SPLITS = IF s + 1 = SPLITS THEN 0 ELSE s + 1
           /\ (s + 1) % SPLITS \in SplitNumbers
BY SplitAssumption DEF SplitNumbers

\* A split number belongs to one message while chunks of it are about.
LEMMA OneMessageOfANumber ==
    ASSUME TypeOK, ChunksAreSound, NEW c \in Alive, NEW d \in Alive,
           c.count > 1, d.count > 1, c.seqnum = d.seqnum
    PROVE  /\ c.born = d.born
           /\ c.reliable = d.reliable /\ c.msg = d.msg /\ c.count = d.count
<1>1. SoundChunk(c) /\ SoundChunk(d)
  BY DEF ChunksAreSound
<1>2. /\ c.born \in Nat /\ d.born \in Nat /\ cuts \in Nat
      /\ c.seqnum \in 0 .. SPLITS - 1 /\ split_seqnum \in 0 .. SPLITS - 1
  BY <1>1 DEF SoundChunk, Chunk, TypeOK, SplitNumbers
<1>3. /\ c.born < cuts /\ cuts - c.born <= SPLITS /\ Behind(c.seqnum, split_seqnum, cuts - c.born)
      /\ d.born < cuts /\ cuts - d.born <= SPLITS /\ Behind(c.seqnum, split_seqnum, cuts - d.born)
  BY <1>1 DEF SoundChunk
<1>4. c.born = d.born
  BY <1>2, <1>3, SplitAssumption DEF Behind
<1>5. QED
  BY <1>4 DEF ChunksAreSound, SameMessage

\* What is about stays within one turn of the counter.
LEMMA CutKeepsSound ==
    ASSUME TypeOK, NEW n \in 1 .. MaxChunks, Cut(n), NEW c \in Alive, SoundChunk(c)
    PROVE  SoundChunk(c)'
<1>1. c.num < c.count /\ c \in Chunk /\ c.born \in Nat /\ c.count \in Nat
  BY DEF SoundChunk, Chunk
<1>2. CASE n = 1
  BY <1>1, <1>2 DEF Cut, AfterCutting, SoundChunk, Behind, TypeOK
<1>3. CASE n # 1
  <2>1. n > 1 /\ cuts' = cuts + 1 /\ split_seqnum' = (split_seqnum + 1) % SPLITS
    BY <1>3, SplitAssumption DEF Cut, AfterCutting
  <2>2. c.count > 1 => cuts - c.born < SPLITS
    BY <2>1 DEF Cut, OldOnesGone
  <2>3. split_seqnum' = IF split_seqnum + 1 = SPLITS THEN 0 ELSE split_seqnum + 1
    BY <2>1, Wrap DEF TypeOK
  <2>4. ASSUME c.count > 1
        PROVE  /\ c.born < cuts' /\ cuts' - c.born <= SPLITS
               /\ Behind(c.seqnum, split_seqnum', cuts' - c.born)
    <3>1. c.born < cuts /\ cuts - c.born < SPLITS /\ Behind(c.seqnum, split_seqnum, cuts - c.born)
      BY <2>2, <2>4 DEF SoundChunk
    <3>2. cuts \in Nat /\ split_seqnum \in 0 .. SPLITS - 1
      BY DEF TypeOK, SplitNumbers
    <3>3. QED
      BY <1>1, <2>1, <2>3, <3>1, <3>2, SplitAssumption DEF Behind
  <2>5. QED
    BY <1>1, <2>4 DEF SoundChunk
<1>4. QED
  BY <1>2, <1>3

\* Sequence q is message m, cut in n by this step.
CutAs(q, m, n) ==
    /\ q \in Seq(Chunk) /\ Len(q) = n
    /\ \A k \in 1 .. n :
           /\ q[k].msg = m /\ q[k].count = n /\ q[k].num = k - 1
           /\ q[k].seqnum = split_seqnum /\ q[k].born = cuts
           /\ SoundChunk(q[k])'

\* The chunks of a new message.
LEMMA NewChunks ==
    ASSUME TypeOK, NEW n \in 1 .. MaxChunks, NEW r \in BOOLEAN, NEW m \in Nat, Cut(n),
           NEW q, q = Chunks(r, m, n)
    PROVE  CutAs(q, m, n) /\ \A k \in 1 .. n : q[k].reliable = r
<1>1. q = [k \in 1 .. n |->
             [reliable |-> r, msg |-> m, count |-> n, num |-> k - 1,
              seqnum |-> split_seqnum, born |-> cuts]]
  BY DEF Chunks
<1>2. \A k \in 1 .. n : q[k] \in Chunk
  BY <1>1, SplitAssumption DEF Chunk, TypeOK
<1>3. q \in Seq(Chunk) /\ Len(q) = n
  BY <1>1, <1>2, SplitAssumption
<1>4. \A k \in 1 .. n :
        /\ q[k].reliable = r /\ q[k].msg = m /\ q[k].count = n /\ q[k].num = k - 1
        /\ q[k].seqnum = split_seqnum /\ q[k].born = cuts
  BY <1>1
<1>5. ASSUME n > 1 PROVE cuts' = cuts + 1 /\ Behind(split_seqnum, split_seqnum', 1)
  <2>1. cuts' = cuts + 1 /\ split_seqnum' = (split_seqnum + 1) % SPLITS
    BY <1>5 DEF Cut, AfterCutting
  <2>2. split_seqnum' = IF split_seqnum + 1 = SPLITS THEN 0 ELSE split_seqnum + 1
    BY <2>1, Wrap DEF TypeOK
  <2>3. QED
    BY <2>1, <2>2, SplitAssumption DEF Behind, TypeOK, SplitNumbers
<1>6. ASSUME NEW k \in 1 .. n PROVE SoundChunk(q[k])'
  <2>1. q[k].count > 1 => n > 1
    BY <1>4
  <2>2. q[k].num < q[k].count
    BY <1>4
  <2>3. ASSUME n > 1
        PROVE  /\ q[k].born < cuts' /\ cuts' - q[k].born <= SPLITS
               /\ Behind(q[k].seqnum, split_seqnum', cuts' - q[k].born)
    <3>1. cuts' - q[k].born = 1 /\ q[k].born < cuts' /\ 1 <= SPLITS
      <4>1. q[k].born = cuts /\ cuts' = cuts + 1 /\ cuts \in Nat
        BY <1>4, <1>5, <2>3 DEF TypeOK
      <4>2. QED
        BY <4>1, SplitAssumption
    <3>2. Behind(q[k].seqnum, split_seqnum', 1)
      BY <1>4, <1>5, <2>3
    <3>3. QED
      BY <3>1, <3>2
  <2>4. QED
    BY <1>2, <2>1, <2>2, <2>3 DEF SoundChunk
<1>7. QED
  BY <1>3, <1>4, <1>6 DEF CutAs

\* What SendReliable adds to the channel.
LEMMA SentReliable ==
    ASSUME TypeOK, NEW n \in 1 .. MaxChunks, SendReliable(n)
    PROVE  \E q :
               /\ pipe' = pipe \o q /\ accepted' = accepted + 1
               /\ Cut(n) /\ UNCHANGED <<attempts, failures, air, buf, output, whole>>
               /\ CutAs(q, accepted + 1, n)
               /\ \A k \in 1 .. n : q[k].reliable
               /\ \A k, l \in 1 .. n : q[k].reliable = q[l].reliable
<1>1. pipe' = pipe \o Chunks(TRUE, accepted + 1, n)
  BY DEF SendReliable
<1>2. accepted + 1 \in Nat
  BY DEF TypeOK
<1>3. \E r \in BOOLEAN, j \in Nat :
        r = TRUE /\ j = accepted + 1 /\ pipe' = pipe \o Chunks(r, j, n)
  BY <1>1, <1>2, Zenon
<1>4. /\ Cut(n) /\ accepted' = accepted + 1
      /\ UNCHANGED <<attempts, failures, air, buf, output, whole>>
  BY DEF SendReliable
<1> HIDE DEF SendReliable
<1>5. PICK r \in BOOLEAN, j \in Nat :
        r /\ j = accepted + 1 /\ pipe' = pipe \o Chunks(r, j, n)
  BY <1>3
<1>6. PICK q : q = Chunks(r, j, n)
  OBVIOUS
<1>7. CutAs(q, j, n) /\ \A k \in 1 .. n : q[k].reliable = r
  BY <1>4, <1>6, NewChunks
<1>8. QED
  <2>1. \A k, l \in 1 .. n : q[k].reliable = q[l].reliable
    BY <1>7
  <2>2. \A k \in 1 .. n : r <=> q[k].reliable
    BY <1>7
  <2>3. QED
    BY <1>4, <1>5, <1>6, <1>7, <2>1, <2>2

\* What SendUnreliable puts in the air.
LEMMA SentUnreliable ==
    ASSUME TypeOK, NEW n \in 1 .. MaxChunks, SendUnreliable(n)
    PROVE  \E q :
               /\ air' = air \union ToSet(q) /\ attempts' = attempts + 1
               /\ Cut(n) /\ UNCHANGED <<accepted, failures, pipe, buf, output, whole>>
               /\ CutAs(q, attempts + 1, n)
               /\ \A k \in 1 .. n : ~ q[k].reliable
               /\ \A k, l \in 1 .. n : q[k].reliable = q[l].reliable
<1>1. air' = air \union ToSet(Chunks(FALSE, attempts + 1, n))
  BY DEF SendUnreliable
<1>2. attempts + 1 \in Nat
  BY DEF TypeOK
<1>3. \E r \in BOOLEAN, j \in Nat :
        r = FALSE /\ j = attempts + 1 /\ air' = air \union ToSet(Chunks(r, j, n))
  BY <1>1, <1>2, Zenon
<1>4. /\ Cut(n) /\ attempts' = attempts + 1
      /\ UNCHANGED <<accepted, failures, pipe, buf, output, whole>>
  BY DEF SendUnreliable
<1> HIDE DEF SendUnreliable
<1>5. PICK r \in BOOLEAN, j \in Nat :
        ~ r /\ j = attempts + 1 /\ air' = air \union ToSet(Chunks(r, j, n))
  BY <1>3
<1>6. PICK q : q = Chunks(r, j, n)
  OBVIOUS
<1>7. CutAs(q, j, n) /\ \A k \in 1 .. n : q[k].reliable = r
  BY <1>4, <1>6, NewChunks
<1>8. QED
  <2>1. \A k, l \in 1 .. n : q[k].reliable = q[l].reliable
    BY <1>7
  <2>2. \A k \in 1 .. n : r <=> q[k].reliable
    BY <1>7
  <2>3. QED
    BY <1>4, <1>5, <1>6, <1>7, <2>1, <2>2

-----------------------------------------------------------------------------
(* IncomingSplitBuffer::insert.                                            *)

\* The entry a chunk comes to is one of its message.
LEMMA EntryOfMessage ==
    ASSUME TypeOK, ChunksAreSound, EntriesAreSound, NEW c \in Alive, c.count > 1,
           NEW e, e = EntryFor(c)
    PROVE  /\ IsEntry(e) /\ e.count = c.count /\ e.reliable = c.reliable
           /\ \A k \in DOMAIN e.chunks :
                  /\ e.chunks[k] \in Alive
                  /\ e.chunks[k].num = k /\ e.chunks[k].seqnum = c.seqnum
                  /\ e.chunks[k].msg = c.msg /\ e.chunks[k].reliable = c.reliable
                  /\ e.chunks[k].count = c.count
<1>1. c \in Chunk /\ c.num < c.count /\ c.count \in 1 .. MaxChunks /\ c.reliable \in BOOLEAN
  BY DEF ChunksAreSound, SoundChunk, Chunk
<1>2. CASE c.seqnum \in DOMAIN buf
  <2>1. e = buf[c.seqnum] /\ IsEntry(e) /\ SoundEntry(c.seqnum, e)
    BY <1>2 DEF EntryFor, TypeOK, EntriesAreSound
  <2>2. \A k \in DOMAIN e.chunks : e.chunks[k] \in Alive
    BY <1>2, <2>1 DEF Alive, Stored
  <2>3. ASSUME NEW k \in DOMAIN e.chunks
        PROVE  /\ e.chunks[k].num = k /\ e.chunks[k].seqnum = c.seqnum
               /\ e.chunks[k].msg = c.msg /\ e.chunks[k].reliable = c.reliable
               /\ e.chunks[k].count = c.count
               /\ e.count = c.count /\ e.reliable = c.reliable
    <3>1. /\ e.chunks[k].num = k /\ e.chunks[k].seqnum = c.seqnum
          /\ e.chunks[k].count = e.count /\ e.chunks[k].reliable = e.reliable
      BY <2>1 DEF SoundEntry
    <3>2. e.chunks[k].count > 1
      BY <2>1, <3>1 DEF IsEntry
    <3>3. QED
      BY <2>2, <3>1, <3>2, OneMessageOfANumber
  <2>4. DOMAIN e.chunks # {}
    BY <2>1 DEF SoundEntry
  <2>5. QED
    BY <2>1, <2>2, <2>3, <2>4
<1>3. CASE c.seqnum \notin DOMAIN buf
  <2>1. e = [reliable |-> c.reliable, count |-> c.count, chunks |-> <<>>]
    BY <1>3 DEF EntryFor
  <2>2. DOMAIN e.chunks = {} /\ e.chunks \in [DOMAIN e.chunks -> Chunk]
    BY <2>1
  <2>3. c.count \in 2 .. MaxChunks
    BY <1>1, SplitAssumption
  <2>4. QED
    BY <1>1, <2>1, <2>2, <2>3 DEF IsEntry
<1>4. QED
  BY <1>2, <1>3

\* The entry with the chunk put in.
LEMMA ChunkPutIn ==
    ASSUME TypeOK, ChunksAreSound, EntriesAreSound, NEW c \in Alive, c.count > 1,
           NEW e, e = With(EntryFor(c), c)
    PROVE  /\ IsEntry(e) /\ e.count = c.count /\ e.reliable = c.reliable
           /\ DOMAIN e.chunks = DOMAIN EntryFor(c).chunks \union {c.num}
           /\ \A k \in DOMAIN e.chunks :
                  /\ e.chunks[k] \in Alive
                  /\ e.chunks[k].num = k /\ e.chunks[k].seqnum = c.seqnum
                  /\ e.chunks[k].msg = c.msg /\ e.chunks[k].reliable = c.reliable
                  /\ e.chunks[k].count = c.count
<1> DEFINE f == EntryFor(c)
<1>1. /\ IsEntry(f) /\ f.count = c.count /\ f.reliable = c.reliable
      /\ \A k \in DOMAIN f.chunks :
             /\ f.chunks[k] \in Alive
             /\ f.chunks[k].num = k /\ f.chunks[k].seqnum = c.seqnum
             /\ f.chunks[k].msg = c.msg /\ f.chunks[k].reliable = c.reliable
             /\ f.chunks[k].count = c.count
  BY EntryOfMessage
<1>2. c \in Chunk /\ c.num \in 0 .. c.count - 1
  BY DEF ChunksAreSound, SoundChunk, Chunk
<1> HIDE DEF f
<1>3. e = [f EXCEPT !.chunks =
              [k \in DOMAIN f.chunks \union {c.num} |-> IF k = c.num THEN c ELSE f.chunks[k]]]
  BY DEF With, f
<1>4. /\ DOMAIN e = {"reliable", "count", "chunks"}
      /\ e.count = f.count /\ e.reliable = f.reliable
      /\ e.chunks = [k \in DOMAIN f.chunks \union {c.num} |->
                        IF k = c.num THEN c ELSE f.chunks[k]]
  BY <1>1, <1>3 DEF IsEntry
<1>5. DOMAIN e.chunks = DOMAIN f.chunks \union {c.num}
  BY <1>4
<1>6. e.chunks \in [DOMAIN e.chunks -> Chunk]
  BY <1>1, <1>2, <1>4, <1>5 DEF IsEntry
<1>7. IsEntry(e)
  BY <1>1, <1>2, <1>4, <1>5, <1>6 DEF IsEntry
<1>8. ASSUME NEW k \in DOMAIN e.chunks
      PROVE  /\ e.chunks[k] \in Alive
             /\ e.chunks[k].num = k /\ e.chunks[k].seqnum = c.seqnum
             /\ e.chunks[k].msg = c.msg /\ e.chunks[k].reliable = c.reliable
             /\ e.chunks[k].count = c.count
  BY <1>1, <1>4, <1>5
<1>9. QED
  BY <1>1, <1>4, <1>5, <1>7, <1>8 DEF f

\* What comes of a chunk: it is a message of its own, it has come before, it is the last
\* one of its message, or it is kept.
LEMMA ProcessCases ==
    ASSUME TypeOK, ChunksAreSound, EntriesAreSound, NEW c \in Alive, Process(c)
    PROVE  \/ /\ c.count = 1
              /\ HandOver(<<c>>) /\ IsWhole(<<c>>) /\ UNCHANGED buf
           \/ /\ c.count > 1
              /\ c.seqnum \in DOMAIN buf /\ c.num \in DOMAIN buf[c.seqnum].chunks
              /\ UNCHANGED <<buf, output, whole>>
           \/ /\ c.count > 1
              /\ DOMAIN EntryFor(c).chunks \union {c.num} = 0 .. c.count - 1
              /\ \E q : /\ HandOver(q) /\ IsWhole(q)
                        /\ q[1].msg = c.msg /\ q[1].reliable = c.reliable
              /\ buf' = Without(c.seqnum)
           \/ /\ c.count > 1
              /\ DOMAIN EntryFor(c).chunks \union {c.num} # 0 .. c.count - 1
              /\ buf' = Put(c.seqnum, With(EntryFor(c), c))
              /\ UNCHANGED <<output, whole>>
<1>1. c \in Chunk /\ c.count \in Nat /\ c.count >= 1 /\ c.num \in 0 .. c.count - 1
  BY DEF ChunksAreSound, SoundChunk, Chunk
<1>2. CASE c.count = 1
  <2>1. IsWhole(<<c>>)
    BY <1>1, <1>2 DEF IsWhole
  <2>2. QED
    BY <1>2, <2>1 DEF Process
<1>3. CASE c.count > 1
  <2> DEFINE f == EntryFor(c)
             e == With(EntryFor(c), c)
             q == Reassembled(e)
  <2>1. f.count = c.count
    BY <1>3, EntryOfMessage
  <2>2. CASE IsUseless(c)
    <3>1. c.num \in DOMAIN f.chunks
      BY <2>1, <2>2 DEF IsUseless
    <3>2. c.seqnum \in DOMAIN buf
      BY <3>1 DEF EntryFor
    <3>3. QED
      BY <1>3, <2>2, <3>1, <3>2 DEF Process, EntryFor
  <2>3. CASE ~ IsUseless(c)
    <3>1. /\ IsEntry(e) /\ e.count = c.count
          /\ DOMAIN e.chunks = DOMAIN f.chunks \union {c.num}
          /\ \A k \in DOMAIN e.chunks :
                 /\ e.chunks[k].num = k
                 /\ e.chunks[k].msg = c.msg /\ e.chunks[k].reliable = c.reliable
                 /\ e.chunks[k].count = c.count
      BY <1>3, ChunkPutIn
    <3>2. CASE Complete(e)
      <4>1. DOMAIN e.chunks = 0 .. c.count - 1
        BY <3>1, <3>2 DEF Complete
      <4>2. q = [k \in 1 .. c.count |-> e.chunks[k - 1]] /\ 1 \in 1 .. c.count
        BY <1>1, <3>1 DEF Reassembled
      <4>3. /\ DOMAIN q = 1 .. c.count /\ Len(q) = c.count
            /\ \A k \in 1 .. c.count :
                   /\ q[k].num = k - 1 /\ q[k].msg = c.msg
                   /\ q[k].reliable = c.reliable /\ q[k].count = c.count
        BY <1>1, <3>1, <4>1, <4>2
      <4>4. IsWhole(q) /\ q[1].msg = c.msg /\ q[1].reliable = c.reliable
        BY <4>2, <4>3 DEF IsWhole
      <4>5. HandOver(q) /\ buf' = Without(c.seqnum)
        BY <1>3, <2>3, <3>2 DEF Process
      <4>6. QED
        BY <1>3, <3>1, <4>1, <4>4, <4>5
    <3>3. CASE ~ Complete(e)
      <4>1. buf' = Put(c.seqnum, e) /\ UNCHANGED <<output, whole>>
        BY <1>3, <2>3, <3>3 DEF Process
      <4>2. DOMAIN f.chunks \union {c.num} # 0 .. c.count - 1
        BY <3>1, <3>3 DEF Complete
      <4>3. QED
        BY <1>3, <4>1, <4>2
    <3>4. QED
      BY <3>2, <3>3
  <2>4. QED
    BY <2>2, <2>3
<1>4. QED
  BY <1>1, <1>2, <1>3
-----------------------------------------------------------------------------
(* What a step does to the chunks that are about.                          *)

\* A message is cut: what was about stays sound, and the new chunks are.
LEMMA SoundAfterCut ==
    ASSUME TypeOK, ChunksAreSound, NEW n \in 1 .. MaxChunks, Cut(n), NEW q,
           \A k, j \in 1 .. n : /\ SoundChunk(q[k])'
                                /\ q[k].reliable = q[j].reliable /\ q[k].msg = q[j].msg
                                /\ q[k].count = n /\ q[k].born = cuts,
           Alive' \subseteq Alive \union {q[k] : k \in 1 .. n}
    PROVE  /\ \A c \in Alive' : SoundChunk(c)'
           /\ \A c, d \in Alive' : SameMessage(c, d)
<1>1. \A k \in 1 .. n : SoundChunk(q[k])' /\ q[k].born = cuts
  OBVIOUS
<1>2. \A c \in Alive : SoundChunk(c) /\ SoundChunk(c)'
  BY CutKeepsSound DEF ChunksAreSound
<1>3. \A c \in Alive : c.count > 1 => c.born # cuts
  BY <1>2 DEF SoundChunk, Chunk, TypeOK
<1>4. ASSUME NEW c \in Alive', NEW d \in Alive' PROVE SameMessage(c, d)
  <2>1. CASE c \in Alive /\ d \in Alive
    BY <2>1 DEF ChunksAreSound
  <2>2. CASE ~ (c \in Alive /\ d \in Alive)
    <3>1. CASE c \in Alive
      <4>1. PICK k \in 1 .. n : d = q[k]
        BY <2>2, <3>1
      <4>2. QED
        BY <1>1, <1>3, <3>1, <4>1 DEF SameMessage
    <3>2. CASE d \in Alive
      <4>1. PICK k \in 1 .. n : c = q[k]
        BY <2>2, <3>2
      <4>2. QED
        BY <1>1, <1>3, <3>2, <4>1 DEF SameMessage
    <3>3. CASE c \notin Alive /\ d \notin Alive
      <4>1. PICK k \in 1 .. n : c = q[k]
        BY <3>3
      <4>2. PICK j \in 1 .. n : d = q[j]
        BY <3>3
      <4>3. QED
        BY <4>1, <4>2 DEF SameMessage
    <3>4. QED
      BY <3>1, <3>2, <3>3
  <2>3. QED
    BY <2>1, <2>2
<1>5. \A c \in Alive' : SoundChunk(c)'
  BY <1>1, <1>2
<1>6. QED
  BY <1>4, <1>5

\* Nothing is cut, and what is about was about before.
LEMMA SoundAfterMove ==
    ASSUME ChunksAreSound, UNCHANGED <<cuts, split_seqnum>>, Alive' \subseteq Alive,
           air' \subseteq air
    PROVE  ChunksAreSound'
<1>1. \A c \in Alive' : SoundChunk(c)'
  BY DEF ChunksAreSound, SoundChunk
<1>2. \A c, d \in Alive' : SameMessage(c, d)
  BY DEF ChunksAreSound
<1>3. QED
  BY <1>1, <1>2 DEF ChunksAreSound, SameMessage

\* What goes on the channel or into the air is about.
LEMMA AliveGrows ==
    ASSUME UNCHANGED buf, NEW S, air' \union ToSet(pipe') \subseteq air \union ToSet(pipe) \union S
    PROVE  Alive' \subseteq Alive \union S
<1> DEFINE B == UNION {Stored(buf[s]) : s \in DOMAIN buf}
<1>1. B' = B
  BY DEF Stored
<1>2. Alive = air \union ToSet(pipe) \union B /\ Alive' = air' \union ToSet(pipe') \union B'
  BY DEF Alive, Stored
<1> HIDE DEF B
<1>3. QED
  BY <1>1, <1>2

\* The buffer keeps what it had and the chunk it was given.
LEMMA ProcessStores ==
    ASSUME TypeOK, ChunksAreSound, EntriesAreSound, NEW c \in Alive, Process(c)
    PROVE  /\ \A s \in DOMAIN buf' : Stored(buf'[s]) \subseteq Alive
           /\ \A s \in DOMAIN buf' : IsEntry(buf'[s]) /\ SoundEntry(s, buf'[s])
           /\ DOMAIN buf' \subseteq SplitNumbers
<1>1. \A s \in DOMAIN buf : /\ Stored(buf[s]) \subseteq Alive
                            /\ IsEntry(buf[s]) /\ SoundEntry(s, buf[s])
  BY DEF Alive, TypeOK, EntriesAreSound
<1>2. DOMAIN buf \subseteq SplitNumbers /\ c.seqnum \in SplitNumbers
  BY DEF TypeOK, ChunksAreSound, SoundChunk, Chunk
<1>3. CASE UNCHANGED buf
  BY <1>1, <1>2, <1>3
<1>4. CASE buf' = Without(c.seqnum)
  BY <1>1, <1>2, <1>4 DEF Without
<1>5. CASE /\ c.count > 1
           /\ DOMAIN EntryFor(c).chunks \union {c.num} # 0 .. c.count - 1
           /\ buf' = Put(c.seqnum, With(EntryFor(c), c))
  <2> DEFINE e == With(EntryFor(c), c)
  <2>1. /\ IsEntry(e) /\ e.count = c.count /\ e.reliable = c.reliable
        /\ DOMAIN e.chunks = DOMAIN EntryFor(c).chunks \union {c.num}
        /\ \A k \in DOMAIN e.chunks :
               /\ e.chunks[k] \in Alive
               /\ e.chunks[k].num = k /\ e.chunks[k].seqnum = c.seqnum
               /\ e.chunks[k].reliable = c.reliable /\ e.chunks[k].count = c.count
    BY <1>5, ChunkPutIn
  <2>2. buf' = [t \in DOMAIN buf \union {c.seqnum} |-> IF t = c.seqnum THEN e ELSE buf[t]]
    BY <1>5 DEF Put
  <2>3. DOMAIN e.chunks # 0 .. e.count - 1
    BY <1>5, <2>1
  <2> HIDE DEF e
  <2>4. SoundEntry(c.seqnum, e)
    BY <2>1, <2>3 DEF SoundEntry, Complete
  <2>5. Stored(e) \subseteq Alive
    BY <2>1 DEF Stored
  <2>6. QED
    BY <1>1, <1>2, <2>1, <2>2, <2>4, <2>5
<1>6. QED
  BY <1>3, <1>4, <1>5, ProcessCases

\* What is handed over.
LEMMA HandOverWhole ==
    ASSUME NEW q, IsWhole(q), HandOver(q), whole
    PROVE  /\ whole'
           /\ output' = IF q[1].reliable THEN Append(output, q[1].msg) ELSE output
BY DEF HandOver

\* Processing a chunk gives at most the message it carries to the receiver.
LEMMA ProcessOutput ==
    ASSUME TypeOK, ChunksAreSound, EntriesAreSound, whole, NEW c \in Alive, Process(c)
    PROVE  /\ whole' /\ output' \in Seq(Nat)
           /\ output' # output => c.reliable /\ output' = Append(output, c.msg)
<1>1. c.msg \in Nat /\ output \in Seq(Nat)
  BY DEF TypeOK, ChunksAreSound, SoundChunk, Chunk
<1>2. CASE UNCHANGED <<output, whole>>
  BY <1>1, <1>2
<1>3. ASSUME NEW q, HandOver(q), IsWhole(q), q[1].msg = c.msg, q[1].reliable = c.reliable
      PROVE  /\ whole' /\ output' \in Seq(Nat)
             /\ output' # output => c.reliable /\ output' = Append(output, c.msg)
  <2>1. whole' /\ output' = IF q[1].reliable THEN Append(output, q[1].msg) ELSE output
    BY <1>3, HandOverWhole
  <2>2. output' = IF c.reliable THEN Append(output, c.msg) ELSE output
    BY <1>3, <2>1
  <2>3. QED
    BY <1>1, <2>1, <2>2
<1>4. CASE HandOver(<<c>>) /\ IsWhole(<<c>>)
  <2>1. <<c>>[1] = c
    OBVIOUS
  <2>2. QED
    BY <1>3, <1>4, <2>1
<1>5. QED
  BY <1>2, <1>3, <1>4, ProcessCases

-----------------------------------------------------------------------------
(* The parts of the invariant, action by action.                           *)

\* The chunks of a message have the types of chunks, whatever is done with them.
LEMMA TypeOKKept ==
    ASSUME TypeOK, ChunksAreSound, EntriesAreSound, whole, [Next]_vars
    PROVE  TypeOK'
<1>1. ASSUME NEW n \in 1 .. MaxChunks, Cut(n)
      PROVE  split_seqnum' \in SplitNumbers /\ cuts' \in Nat
  BY <1>1, Wrap DEF TypeOK, Cut, AfterCutting
<1>2. ASSUME NEW n \in 1 .. MaxChunks, SendReliable(n) PROVE TypeOK'
  <2>1. PICK q :
          /\ pipe' = pipe \o q /\ accepted' = accepted + 1
          /\ Cut(n) /\ UNCHANGED <<attempts, failures, air, buf, output, whole>>
          /\ CutAs(q, accepted + 1, n)
          /\ \A k \in 1 .. n : q[k].reliable
          /\ \A k, l \in 1 .. n : q[k].reliable = q[l].reliable
    BY <1>2, SentReliable
  <2>2. accepted < MaxReliable
    BY <1>2 DEF SendReliable
  <2>3. pipe' \in Seq(Chunk) /\ accepted' \in 0 .. MaxReliable
    BY <2>1, <2>2, SplitAssumption DEF TypeOK, CutAs
  <2>4. QED
    BY <1>1, <2>1, <2>3 DEF TypeOK
<1>3. ASSUME NEW n \in 1 .. MaxChunks, FailReliable(n) PROVE TypeOK'
  <2>1. failures' \in 0 .. MaxFailures
    BY <1>3, SplitAssumption DEF FailReliable, TypeOK
  <2>2. QED
    BY <1>1, <1>3, <2>1 DEF FailReliable, TypeOK
<1>4. ASSUME NEW n \in 1 .. MaxChunks, SendUnreliable(n) PROVE TypeOK'
  <2>1. PICK q :
          /\ air' = air \union ToSet(q) /\ attempts' = attempts + 1
          /\ Cut(n) /\ UNCHANGED <<accepted, failures, pipe, buf, output, whole>>
          /\ CutAs(q, attempts + 1, n)
          /\ \A k \in 1 .. n : ~ q[k].reliable
          /\ \A k, l \in 1 .. n : q[k].reliable = q[l].reliable
    BY <1>4, SentUnreliable
  <2>2. attempts < MaxUnreliable
    BY <1>4 DEF SendUnreliable
  <2>3. ToSet(q) \subseteq Chunk
    BY <2>1, ConcatParts DEF CutAs
  <2>4. air' \subseteq Chunk /\ attempts' \in 0 .. MaxUnreliable
    BY <2>1, <2>2, <2>3, SplitAssumption DEF TypeOK
  <2>5. QED
    BY <1>1, <2>1, <2>4 DEF TypeOK
<1>5. ASSUME NEW c \in air, LoseChunk(c) PROVE TypeOK'
  BY <1>5 DEF LoseChunk, TypeOK
<1>6. ASSUME NEW c \in Alive, Process(c),
             UNCHANGED <<split_seqnum, accepted, attempts, failures, cuts, air>>,
             pipe' \in Seq(Chunk)
      PROVE  TypeOK'
  <2>1. output' \in Seq(Nat) /\ whole'
    BY <1>6, ProcessOutput
  <2>2. DOMAIN buf' \subseteq SplitNumbers /\ \A s \in DOMAIN buf' : IsEntry(buf'[s])
    BY <1>6, ProcessStores
  <2>3. QED
    BY <1>6, <2>1, <2>2 DEF TypeOK, IsEntry
<1>7. CASE ReceiveReliable
  <2>1. Head(pipe) \in Alive /\ Tail(pipe) \in Seq(Chunk)
    BY <1>7 DEF ReceiveReliable, Alive, TypeOK, ToSet
  <2>2. QED
    BY <1>6, <1>7, <2>1 DEF ReceiveReliable
<1>8. ASSUME NEW c \in air, ReceiveUnreliable(c) PROVE TypeOK'
  BY <1>6, <1>8 DEF ReceiveUnreliable, Alive, TypeOK
<1>9. ASSUME NEW s \in DOMAIN buf, RemoveTimedOut(s) PROVE TypeOK'
  BY <1>9 DEF RemoveTimedOut, Without, TypeOK, IsEntry
<1>10. CASE UNCHANGED vars
  BY <1>10 DEF vars, TypeOK, IsEntry
<1>11. QED
  BY <1>2, <1>3, <1>4, <1>5, <1>7, <1>8, <1>9, <1>10 DEF Next

\* A split number is taken when no chunk of its last message is about.
LEMMA ChunksAreSoundKept ==
    ASSUME TypeOK, ChunksAreSound, EntriesAreSound, PipeInOrder, [Next]_vars
    PROVE  ChunksAreSound'
<1>1. ASSUME NEW n \in 1 .. MaxChunks, SendReliable(n) PROVE ChunksAreSound'
  <2>1. PICK q :
          /\ pipe' = pipe \o q /\ accepted' = accepted + 1
          /\ Cut(n) /\ UNCHANGED <<attempts, failures, air, buf, output, whole>>
          /\ CutAs(q, accepted + 1, n)
          /\ \A k \in 1 .. n : q[k].reliable
          /\ \A k, l \in 1 .. n : q[k].reliable = q[l].reliable
    BY <1>1, SentReliable
  <2>2. ToSet(pipe') \subseteq ToSet(pipe) \union {q[k] : k \in 1 .. n}
    <3>1. q \in Seq(Chunk) /\ Len(q) = n /\ pipe \in Seq(Chunk) /\ pipe' = pipe \o q
      BY <2>1 DEF CutAs, TypeOK
    <3>2. QED
      BY <3>1, ConcatParts
  <2>3. Alive' \subseteq Alive \union {q[k] : k \in 1 .. n}
    BY <2>1, <2>2, AliveGrows
  <2>4. Cut(n)
    BY <2>1
  <2>5. \A k, l \in 1 .. n : /\ SoundChunk(q[k])'
                             /\ q[k].reliable = q[l].reliable /\ q[k].msg = q[l].msg
                             /\ q[k].count = n /\ q[k].born = cuts
    BY <2>1 DEF CutAs
  <2>6. /\ \A c \in Alive' : SoundChunk(c)'
        /\ \A c, d \in Alive' : SameMessage(c, d)
    BY <2>3, <2>4, <2>5, SoundAfterCut
  <2>7. QED
    BY <2>1, <2>6 DEF ChunksAreSound, SameMessage
<1>2. ASSUME NEW n \in 1 .. MaxChunks, FailReliable(n) PROVE ChunksAreSound'
  <2>1. Cut(n) /\ Alive' \subseteq Alive /\ air' = air
    BY <1>2, AliveGrows DEF FailReliable
  <2>2. \A c \in Alive' : SoundChunk(c)'
    BY <2>1, CutKeepsSound DEF ChunksAreSound
  <2>3. QED
    BY <2>1, <2>2 DEF ChunksAreSound, SameMessage
<1>3. ASSUME NEW n \in 1 .. MaxChunks, SendUnreliable(n) PROVE ChunksAreSound'
  <2>1. PICK q :
          /\ air' = air \union ToSet(q) /\ attempts' = attempts + 1
          /\ Cut(n) /\ UNCHANGED <<accepted, failures, pipe, buf, output, whole>>
          /\ CutAs(q, attempts + 1, n)
          /\ \A k \in 1 .. n : ~ q[k].reliable
          /\ \A k, l \in 1 .. n : q[k].reliable = q[l].reliable
    BY <1>3, SentUnreliable
  <2>2. ToSet(q) = {q[k] : k \in 1 .. n}
    <3>1. q \in Seq(Chunk) /\ Len(q) = n
      BY <2>1 DEF CutAs
    <3>2. QED
      BY <3>1, ConcatParts
  <2>3. Alive' \subseteq Alive \union {q[k] : k \in 1 .. n}
    BY <2>1, <2>2, AliveGrows
  <2>4. Cut(n)
    BY <2>1
  <2>5. \A k, l \in 1 .. n : /\ SoundChunk(q[k])'
                             /\ q[k].reliable = q[l].reliable /\ q[k].msg = q[l].msg
                             /\ q[k].count = n /\ q[k].born = cuts
    BY <2>1 DEF CutAs
  <2>6. /\ \A c \in Alive' : SoundChunk(c)'
        /\ \A c, d \in Alive' : SameMessage(c, d)
    BY <2>3, <2>4, <2>5, SoundAfterCut
  <2>7. \A c \in air' : ~ c.reliable
    BY <2>1, <2>2 DEF ChunksAreSound
  <2>8. QED
    BY <2>6, <2>7 DEF ChunksAreSound, SameMessage
<1>4. ASSUME NEW c \in air, LoseChunk(c) PROVE ChunksAreSound'
  <2>1. Alive' \subseteq Alive
    BY <1>4 DEF LoseChunk, Alive, Stored
  <2>2. QED
    BY <1>4, <2>1, SoundAfterMove DEF LoseChunk
<1>5. CASE ReceiveReliable
  <2>1. /\ Head(pipe) \in Alive /\ Process(Head(pipe)) /\ ToSet(pipe') \subseteq ToSet(pipe)
        /\ air' = air
    BY <1>5 DEF ReceiveReliable, Alive, TypeOK, ToSet
  <2>2. \A s \in DOMAIN buf' : Stored(buf'[s]) \subseteq Alive
    BY <2>1, ProcessStores
  <2>3. Alive' \subseteq Alive
    BY <2>1, <2>2 DEF Alive, Stored
  <2>4. QED
    BY <1>5, <2>3, SoundAfterMove DEF ReceiveReliable
<1>6. ASSUME NEW c \in air, ReceiveUnreliable(c) PROVE ChunksAreSound'
  <2>1. c \in Alive /\ Process(c) /\ pipe' = pipe /\ air' = air
    BY <1>6 DEF ReceiveUnreliable, Alive
  <2>2. \A s \in DOMAIN buf' : Stored(buf'[s]) \subseteq Alive
    BY <2>1, ProcessStores
  <2>3. Alive' \subseteq Alive
    BY <2>1, <2>2 DEF Alive, Stored
  <2>4. QED
    BY <1>6, <2>3, SoundAfterMove DEF ReceiveUnreliable
<1>7. ASSUME NEW s \in DOMAIN buf, RemoveTimedOut(s) PROVE ChunksAreSound'
  <2>1. Alive' \subseteq Alive
    BY <1>7 DEF RemoveTimedOut, Without, Alive, Stored
  <2>2. QED
    BY <1>7, <2>1, SoundAfterMove DEF RemoveTimedOut
<1>8. CASE UNCHANGED vars
  BY <1>8, SoundAfterMove DEF vars, Alive, Stored
<1>9. QED
  BY <1>1, <1>2, <1>3, <1>4, <1>5, <1>6, <1>7, <1>8 DEF Next

\* An entry is of one message.
LEMMA EntriesAreSoundKept ==
    ASSUME TypeOK, ChunksAreSound, EntriesAreSound, [Next]_vars
    PROVE  EntriesAreSound'
<1>1. CASE UNCHANGED buf
  BY <1>1 DEF EntriesAreSound, SoundEntry, Complete
<1>2. ASSUME NEW c \in Alive, Process(c) PROVE EntriesAreSound'
  <2>1. \A s \in DOMAIN buf' : SoundEntry(s, buf'[s])
    BY <1>2, ProcessStores
  <2>2. QED
    BY <2>1 DEF EntriesAreSound, SoundEntry, Complete
<1>3. CASE ReceiveReliable
  <2>1. Head(pipe) \in Alive
    BY <1>3 DEF ReceiveReliable, Alive, TypeOK, ToSet
  <2>2. QED
    BY <1>2, <1>3, <2>1 DEF ReceiveReliable
<1>4. ASSUME NEW c \in air, ReceiveUnreliable(c) PROVE EntriesAreSound'
  BY <1>2, <1>4 DEF ReceiveUnreliable, Alive
<1>5. ASSUME NEW s \in DOMAIN buf, RemoveTimedOut(s) PROVE EntriesAreSound'
  BY <1>5 DEF RemoveTimedOut, Without, EntriesAreSound, SoundEntry, Complete
<1>6. QED
  BY <1>1, <1>3, <1>4, <1>5
     DEF Next, vars, SendReliable, FailReliable, SendUnreliable, LoseChunk

\* What is sent is put behind what is on the channel, which loses its first chunk at most.
LEMMA PipeInOrderKept ==
    ASSUME TypeOK, PipeInOrder, [Next]_vars
    PROVE  PipeInOrder'
<1>1. CASE UNCHANGED <<pipe, accepted>>
  BY <1>1 DEF PipeInOrder
<1>2. ASSUME NEW n \in 1 .. MaxChunks, SendReliable(n) PROVE PipeInOrder'
  <2>1. PICK q :
          /\ pipe' = pipe \o q /\ accepted' = accepted + 1
          /\ Cut(n) /\ UNCHANGED <<attempts, failures, air, buf, output, whole>>
          /\ CutAs(q, accepted + 1, n)
          /\ \A k \in 1 .. n : q[k].reliable
          /\ \A k, l \in 1 .. n : q[k].reliable = q[l].reliable
    BY <1>2, SentReliable
  <2>2. \A k \in 1 .. n : /\ q[k].reliable /\ q[k].msg = accepted + 1 /\ q[k].count = n
                          /\ q[k].num = k - 1 /\ q[k].seqnum = split_seqnum
    BY <2>1 DEF CutAs
  <2>3. PICK L : L = Len(pipe)
    OBVIOUS
  <2>4. /\ L \in Nat /\ accepted \in Nat /\ n \in Nat /\ n >= 1
        /\ L = 0 <=> pipe = <<>>
        /\ \A i \in 1 .. L : pipe[i] \in Chunk
        /\ accepted' = accepted + 1
    BY <2>1, <2>3, SplitAssumption DEF TypeOK
  <2>5. /\ Len(pipe') = L + n
        /\ \A i \in 1 .. L : pipe'[i] = pipe[i]
        /\ \A k \in 1 .. n : pipe'[L + k] = q[k]
    <3>1. q \in Seq(Chunk) /\ Len(q) = n /\ pipe \in Seq(Chunk) /\ pipe' = pipe \o q
      BY <2>1 DEF CutAs, TypeOK
    <3>2. Len(pipe \o q) = Len(pipe) + Len(q)
      BY <3>1, ConcatTail
    <3>3. \A i \in 1 .. Len(pipe) : (pipe \o q)[i] = pipe[i]
      BY <3>1, ConcatTail
    <3>4. \A k \in 1 .. Len(q) : (pipe \o q)[Len(pipe) + k] = q[k]
      BY <3>1, ConcatTail
    <3>5. QED
      BY <2>3, <3>1, <3>2, <3>3, <3>4
  <2>6. \A i \in 1 .. L + n : i \in 1 .. L \/ \E k \in 1 .. n : i = L + k
    <3>1. ASSUME NEW i \in 1 .. L + n, i > L PROVE i - L \in 1 .. n /\ i = L + (i - L)
      BY <2>4, <3>1
    <3>2. QED
      BY <2>4, <3>1
  <2>7. ASSUME NEW i \in 1 .. L + n
        PROVE  pipe'[i].reliable /\ pipe'[i].msg <= accepted'
    <3>1. CASE i \in 1 .. L
      <4>1. pipe[i].reliable /\ pipe[i].msg <= accepted
        BY <2>3, <3>1 DEF PipeInOrder
      <4>2. pipe[i].msg \in Nat
        BY <2>4, <3>1 DEF Chunk
      <4>3. QED
        BY <2>4, <2>5, <3>1, <4>1, <4>2
    <3>2. ASSUME NEW k \in 1 .. n, i = L + k PROVE pipe'[i].reliable /\ pipe'[i].msg <= accepted'
      <4>1. pipe'[i] = q[k]
        BY <2>5, <3>2
      <4>2. q[k].reliable /\ q[k].msg = accepted + 1
        BY <2>2, <3>2
      <4>3. QED
        BY <2>4, <4>1, <4>2
    <3>3. QED
      BY <2>6, <3>1, <3>2
  <2>8. ASSUME NEW i \in 1 .. L + n - 1
        PROVE  Follows(pipe'[i], pipe'[i + 1])
    <3>1. CASE i < L
      <4>1. i \in 1 .. L - 1 /\ i \in 1 .. L /\ i + 1 \in 1 .. L
        BY <2>4, <3>1
      <4>2. Follows(pipe[i], pipe[i + 1])
        BY <2>3, <4>1 DEF PipeInOrder
      <4>3. QED
        BY <2>5, <4>1, <4>2
    <3>2. CASE i = L
      <4>1. pipe # <<>> /\ L \in 1 .. L
        BY <2>4, <3>2
      <4>2. pipe[L].num + 1 = pipe[L].count /\ pipe[L].msg = accepted
        BY <2>3, <4>1 DEF PipeInOrder
      <4>3. pipe[L].count \in Nat
        BY <2>4, <4>1 DEF Chunk
      <4>4. /\ pipe'[i] = pipe[L] /\ pipe'[i + 1] = q[1]
            /\ q[1].num = 0 /\ q[1].msg = accepted + 1
        BY <2>2, <2>4, <2>5, <3>2, <4>1
      <4>5. QED
        BY <4>2, <4>3, <4>4 DEF Follows
    <3>3. CASE i > L
      <4>1. PICK k \in 1 .. n : i = L + k
        BY <2>4, <2>6, <3>3
      <4>2. k + 1 \in 1 .. n /\ i + 1 = L + (k + 1)
        BY <2>4, <4>1
      <4>3. pipe'[i] = q[k] /\ pipe'[i + 1] = q[k + 1]
        BY <2>5, <4>1, <4>2
      <4>4. /\ q[k].num = k - 1 /\ q[k + 1].num = k
            /\ q[k].msg = q[k + 1].msg /\ q[k].seqnum = q[k + 1].seqnum
            /\ q[k].count = n /\ q[k + 1].count = n
        <5>1. (k + 1) - 1 = k
          BY <2>4
        <5>2. QED
          BY <2>2, <4>2, <5>1
      <4>5. k < n /\ (k - 1) + 1 = k
        BY <2>4, <4>2
      <4>6. QED
        BY <4>3, <4>4, <4>5 DEF Follows
    <3>4. QED
      BY <2>4, <3>1, <3>2, <3>3
  <2>9. pipe'[L + n].num + 1 = pipe'[L + n].count /\ pipe'[L + n].msg = accepted'
    <3>1. n \in 1 .. n /\ (n - 1) + 1 = n
      BY <2>4
    <3>2. QED
      BY <2>2, <2>4, <2>5, <3>1
  <2>10. \A i \in 1 .. Len(pipe') - 1 : Follows(pipe'[i], pipe'[i + 1])
    <3>1. Len(pipe') = L + n
      BY <2>5
    <3>2. QED
      BY <2>4, <2>8, <3>1
  <2>11. \A i \in 1 .. Len(pipe') : pipe'[i].reliable /\ pipe'[i].msg <= accepted'
    BY <2>5, <2>7
  <2>12. pipe'[Len(pipe')].num + 1 = pipe'[Len(pipe')].count
         /\ pipe'[Len(pipe')].msg = accepted'
    BY <2>5, <2>9
  <2>13. QED
    BY <2>10, <2>11, <2>12 DEF PipeInOrder, Follows
<1>3. CASE ReceiveReliable
  <2>1. /\ pipe \in Seq(Chunk) /\ pipe # <<>> /\ pipe' = Tail(pipe) /\ accepted' = accepted
    BY <1>3 DEF ReceiveReliable, TypeOK
  <2>2. /\ Len(pipe) \in Nat /\ Len(pipe) >= 1 /\ Len(pipe') = Len(pipe) - 1
        /\ \A i \in 1 .. Len(pipe') : pipe'[i] = pipe[i + 1]
    BY <2>1, TailParts
  <2>3. \A i \in 1 .. Len(pipe') : pipe'[i].reliable /\ pipe'[i].msg <= accepted'
    BY <2>1, <2>2 DEF PipeInOrder
  <2>4. \A i \in 1 .. Len(pipe') - 1 : Follows(pipe'[i], pipe'[i + 1])
    BY <2>1, <2>2 DEF PipeInOrder
  <2>5. pipe' # <<>> => Len(pipe') >= 1 /\ pipe'[Len(pipe')] = pipe[Len(pipe)]
    BY <2>1, <2>2
  <2>6. QED
    BY <2>1, <2>3, <2>4, <2>5 DEF PipeInOrder, Follows
<1>4. QED
  BY <1>1, <1>2, <1>3
     DEF Next, vars, FailReliable, SendUnreliable, LoseChunk, ReceiveUnreliable, RemoveTimedOut

\* The first chunk on the channel finds those before it in its entry.
LEMMA HeadEntry ==
    ASSUME IInv, pipe # <<>>, NEW h, h = Head(pipe)
    PROVE  /\ h \in Alive /\ h \in Chunk /\ h.reliable /\ h.num < h.count
           /\ h.msg = Len(output) + 1 /\ h.msg <= accepted
           /\ h.count > 1 => DOMAIN EntryFor(h).chunks = 0 .. h.num - 1
           /\ \A s \in DOMAIN buf : buf[s].reliable => s = h.seqnum
<1>1. /\ h = pipe[1] /\ 1 \in 1 .. Len(pipe) /\ h \in Chunk
  BY DEF IInv, TypeOK
<1>2. h \in Alive
  BY <1>1 DEF Alive, ToSet
<1>3. h.reliable /\ h.num < h.count /\ h.msg <= accepted
  BY <1>1, <1>2 DEF IInv, PipeInOrder, ChunksAreSound, SoundChunk
<1>4. /\ h.msg = Len(output) + 1
      /\ \A s \in DOMAIN buf : buf[s].reliable => h.num > 0 /\ s = h.seqnum
      /\ h.num > 0 => /\ h.seqnum \in DOMAIN buf
                      /\ DOMAIN buf[h.seqnum].chunks = 0 .. h.num - 1
  BY DEF IInv, ReceiverKeepsUp
<1>5. ASSUME h.count > 1 PROVE DOMAIN EntryFor(h).chunks = 0 .. h.num - 1
  <2>1. CASE h.num > 0
    BY <1>4, <2>1 DEF EntryFor
  <2>2. CASE ~ (h.num > 0)
    <3>1. h.num = 0
      BY <1>1, <2>2 DEF Chunk
    <3>2. h.seqnum \notin DOMAIN buf
      <4>1. ASSUME h.seqnum \in DOMAIN buf PROVE buf[h.seqnum].reliable
        <5>1. EntryFor(h) = buf[h.seqnum]
          BY <4>1 DEF EntryFor
        <5>2. PICK e : e = EntryFor(h)
          OBVIOUS
        <5>3. e.reliable = h.reliable
          BY <1>2, <1>5, <5>2, EntryOfMessage DEF IInv
        <5>4. QED
          BY <1>3, <5>1, <5>2, <5>3
      <4>2. QED
        BY <1>4, <2>2, <4>1
    <3>3. EntryFor(h) = [reliable |-> h.reliable, count |-> h.count, chunks |-> <<>>]
      BY <3>2 DEF EntryFor
    <3>4. QED
      BY <3>1, <3>3
  <2>3. QED
    BY <2>1, <2>2
<1>6. QED
  BY <1>1, <1>2, <1>3, <1>4, <1>5

\* The first chunk on the channel ends its message or goes into its entry.
LEMMA HeadProcessed ==
    ASSUME IInv, pipe # <<>>, NEW h, h = Head(pipe), Process(h)
    PROVE  IF h.num + 1 = h.count
           THEN /\ output' = Append(output, Len(output) + 1)
                /\ \A s \in DOMAIN buf' : ~ buf'[s].reliable
           ELSE /\ output' = output
                /\ h.seqnum \in DOMAIN buf'
                /\ buf'[h.seqnum].reliable /\ buf'[h.seqnum].count = h.count
                /\ DOMAIN buf'[h.seqnum].chunks = 0 .. h.num
                /\ \A s \in DOMAIN buf' : buf'[s].reliable => s = h.seqnum
<1>1. /\ h \in Alive /\ h \in Chunk /\ h.reliable /\ h.num < h.count
      /\ h.msg = Len(output) + 1
      /\ h.count > 1 => DOMAIN EntryFor(h).chunks = 0 .. h.num - 1
      /\ \A s \in DOMAIN buf : buf[s].reliable => s = h.seqnum
  BY HeadEntry
<1>2. h.num \in Nat /\ h.count \in Nat
  BY <1>1 DEF Chunk
<1>3. h.count > 1 => DOMAIN EntryFor(h).chunks \union {h.num} = 0 .. h.num
  BY <1>1, <1>2
<1>4. ASSUME NEW q, HandOver(q), IsWhole(q), q[1].msg = h.msg, q[1].reliable = h.reliable
      PROVE  output' = Append(output, Len(output) + 1)
  <2>1. output' = IF q[1].reliable THEN Append(output, q[1].msg) ELSE output
    BY <1>4, HandOverWhole DEF IInv
  <2>2. QED
    BY <1>1, <1>4, <2>1
<1>5. CASE h.count = 1 /\ HandOver(<<h>>) /\ IsWhole(<<h>>) /\ UNCHANGED buf
  <2>1. h.num = 0
    BY <1>1, <1>2, <1>5
  <2>2. \A s \in DOMAIN buf : ~ buf[s].reliable
    BY <2>1 DEF IInv, ReceiverKeepsUp
  <2>3. <<h>>[1] = h
    OBVIOUS
  <2>4. output' = Append(output, Len(output) + 1)
    BY <1>4, <1>5, <2>3
  <2>5. QED
    BY <1>5, <2>1, <2>2, <2>4
<1>6. CASE /\ h.count > 1
           /\ h.seqnum \in DOMAIN buf /\ h.num \in DOMAIN buf[h.seqnum].chunks
           /\ UNCHANGED <<buf, output, whole>>
  <2>1. h.num \in 0 .. h.num - 1
    BY <1>1, <1>6 DEF EntryFor
  <2>2. QED
    BY <1>2, <2>1
<1>7. CASE /\ h.count > 1
           /\ DOMAIN EntryFor(h).chunks \union {h.num} = 0 .. h.count - 1
           /\ \E q : /\ HandOver(q) /\ IsWhole(q)
                     /\ q[1].msg = h.msg /\ q[1].reliable = h.reliable
           /\ buf' = Without(h.seqnum)
  <2>1. 0 .. h.num = 0 .. h.count - 1
    BY <1>3, <1>7
  <2>2. h.count - 1 \in 0 .. h.num
    BY <1>2, <1>7, <2>1
  <2>3. h.num + 1 = h.count
    BY <1>1, <1>2, <2>2
  <2>4. output' = Append(output, Len(output) + 1)
    BY <1>4, <1>7
  <2>5. \A s \in DOMAIN buf' : ~ buf'[s].reliable
    BY <1>1, <1>7 DEF Without
  <2>6. QED
    BY <2>3, <2>4, <2>5
<1>8. CASE /\ h.count > 1
           /\ DOMAIN EntryFor(h).chunks \union {h.num} # 0 .. h.count - 1
           /\ buf' = Put(h.seqnum, With(EntryFor(h), h))
           /\ UNCHANGED <<output, whole>>
  <2>1. h.num + 1 # h.count
    <3>1. h.num + 1 = h.count => h.count - 1 = h.num
      BY <1>2
    <3>2. QED
      BY <1>3, <1>8, <3>1
  <2>2. PICK e : e = With(EntryFor(h), h)
    OBVIOUS
  <2>3. /\ e.count = h.count /\ e.reliable = h.reliable
        /\ DOMAIN e.chunks = DOMAIN EntryFor(h).chunks \union {h.num}
    BY <1>1, <1>8, <2>2, ChunkPutIn DEF IInv
  <2>4. buf' = [t \in DOMAIN buf \union {h.seqnum} |-> IF t = h.seqnum THEN e ELSE buf[t]]
    BY <1>8, <2>2 DEF Put
  <2>5. h.seqnum \in DOMAIN buf' /\ buf'[h.seqnum] = e
    BY <2>4
  <2>6. \A s \in DOMAIN buf' : buf'[s].reliable => s = h.seqnum
    BY <1>1, <2>4
  <2>7. DOMAIN e.chunks = 0 .. h.num
    BY <1>3, <1>8, <2>3
  <2>8. QED
    BY <1>1, <1>8, <2>1, <2>3, <2>5, <2>6, <2>7
<1>9. QED
  BY <1>1, <1>5, <1>6, <1>7, <1>8, ProcessCases DEF IInv

\* An unreliable chunk leaves the entries of reliable messages alone.
LEMMA UnreliableProcessed ==
    ASSUME IInv, NEW c \in air, Process(c)
    PROVE  /\ output' = output
           /\ \A s \in DOMAIN buf : buf[s].reliable => s \in DOMAIN buf' /\ buf'[s] = buf[s]
           /\ \A s \in DOMAIN buf' : buf'[s].reliable => s \in DOMAIN buf /\ buf'[s] = buf[s]
<1>1. c \in Alive /\ ~ c.reliable
  BY DEF Alive, IInv, ChunksAreSound
<1>2. output' = output
  BY <1>1, ProcessOutput DEF IInv
<1>3. CASE UNCHANGED buf
  BY <1>2, <1>3
<1>4. ASSUME c.count > 1, c.seqnum \in DOMAIN buf PROVE ~ buf[c.seqnum].reliable
  <2>1. EntryFor(c) = buf[c.seqnum]
    BY <1>4 DEF EntryFor
  <2>2. PICK e : e = EntryFor(c)
    OBVIOUS
  <2>3. e.reliable = c.reliable
    BY <1>1, <1>4, <2>2, EntryOfMessage DEF IInv
  <2>4. QED
    BY <1>1, <2>1, <2>2, <2>3
<1>5. CASE c.count > 1 /\ buf' = Without(c.seqnum)
  BY <1>2, <1>4, <1>5 DEF Without
<1>6. CASE c.count > 1 /\ buf' = Put(c.seqnum, With(EntryFor(c), c))
  <2>1. PICK e : e = With(EntryFor(c), c)
    OBVIOUS
  <2>2. e.reliable = c.reliable
    BY <1>1, <1>6, <2>1, ChunkPutIn DEF IInv
  <2>3. buf' = [t \in DOMAIN buf \union {c.seqnum} |-> IF t = c.seqnum THEN e ELSE buf[t]]
    BY <1>6, <2>1 DEF Put
  <2>4. QED
    BY <1>1, <1>2, <1>4, <1>6, <2>2, <2>3
<1>7. QED
  BY <1>1, <1>3, <1>5, <1>6, ProcessCases DEF IInv

\* The receiver comes to the chunks in the order in which they were sent.
LEMMA ReceiverKeepsUpKept ==
    ASSUME IInv, [Next]_vars
    PROVE  ReceiverKeepsUp'
<1>1. CASE UNCHANGED <<output, accepted, pipe, buf>>
  BY <1>1 DEF IInv, ReceiverKeepsUp
<1>2. ASSUME NEW n \in 1 .. MaxChunks, SendReliable(n) PROVE ReceiverKeepsUp'
  <2>1. PICK q :
          /\ pipe' = pipe \o q /\ accepted' = accepted + 1
          /\ Cut(n) /\ UNCHANGED <<attempts, failures, air, buf, output, whole>>
          /\ CutAs(q, accepted + 1, n)
          /\ \A k \in 1 .. n : q[k].reliable
          /\ \A k, l \in 1 .. n : q[k].reliable = q[l].reliable
    BY <1>2, SentReliable DEF IInv
  <2>2. /\ Len(q) = n /\ pipe' = pipe \o q /\ UNCHANGED <<buf, output>>
        /\ q[1].num = 0 /\ q[1].msg = accepted + 1 /\ accepted' = accepted + 1
        /\ q \in Seq(Chunk)
    BY <2>1, SplitAssumption DEF CutAs
  <2>3. pipe \in Seq(Chunk) /\ n >= 1 /\ n \in Nat
    BY SplitAssumption DEF IInv, TypeOK
  <2>4. pipe' # <<>> /\ Head(pipe') = IF pipe = <<>> THEN q[1] ELSE Head(pipe)
    BY <2>2, <2>3
  <2>5. CASE pipe = <<>>
    <3>1. Len(output) = accepted /\ \A s \in DOMAIN buf : ~ buf[s].reliable
      BY <2>5 DEF IInv, ReceiverKeepsUp
    <3>2. Head(pipe').num = 0 /\ Head(pipe').msg = accepted + 1
      BY <2>2, <2>4, <2>5
    <3>3. \A i \in 1 .. Len(output) : output[i] = i
      BY DEF IInv, ReceiverKeepsUp
    <3>4. QED
      BY <2>2, <2>4, <3>1, <3>2, <3>3 DEF ReceiverKeepsUp
  <2>6. CASE pipe # <<>>
    BY <2>2, <2>4, <2>6 DEF IInv, ReceiverKeepsUp
  <2>7. QED
    BY <2>5, <2>6
<1>3. CASE ReceiveReliable
  <2>1. PICK h : h = Head(pipe)
    OBVIOUS
  <2>2. /\ pipe # <<>> /\ Process(h) /\ pipe' = Tail(pipe) /\ accepted' = accepted
        /\ pipe \in Seq(Chunk) /\ output \in Seq(Nat)
    BY <1>3, <2>1 DEF ReceiveReliable, IInv, TypeOK
  <2>3. /\ h \in Chunk /\ h.num \in Nat /\ h.count \in Nat /\ h.num < h.count
        /\ h.msg = Len(output) + 1
    <3>1. h \in Chunk /\ h.num < h.count /\ h.msg = Len(output) + 1
      BY <2>1, <2>2, HeadEntry
    <3>2. QED
      BY <3>1 DEF Chunk
  <2>4. /\ h = pipe[1] /\ Len(pipe) \in Nat /\ Len(pipe) >= 1
        /\ pipe' = <<>> <=> Len(pipe) = 1
        /\ pipe' # <<>> => Head(pipe') = pipe[2] /\ 1 \in 1 .. Len(pipe) - 1
    BY <2>1, <2>2, TailParts
  <2>5. pipe' # <<>> => Follows(h, Head(pipe'))
    BY <2>4 DEF IInv, PipeInOrder
  <2>6. pipe' = <<>> => h.num + 1 = h.count /\ h.msg = accepted
    BY <2>2, <2>4 DEF IInv, PipeInOrder
  <2>7. CASE h.num + 1 = h.count
    <3>1. /\ output' = Append(output, Len(output) + 1)
          /\ \A s \in DOMAIN buf' : ~ buf'[s].reliable
      BY <2>1, <2>2, <2>7, HeadProcessed
    <3>2. Len(output') = Len(output) + 1 /\ \A i \in 1 .. Len(output') : output'[i] = i
      BY <2>2, <3>1 DEF IInv, ReceiverKeepsUp
    <3>3. pipe' # <<>> => Head(pipe').num = 0 /\ Head(pipe').msg = Len(output') + 1
      BY <2>3, <2>5, <2>7, <3>2 DEF Follows
    <3>4. pipe' = <<>> => Len(output') = accepted'
      BY <2>2, <2>3, <2>6, <3>2
    <3>5. QED
      BY <3>1, <3>2, <3>3, <3>4 DEF ReceiverKeepsUp
  <2>8. CASE h.num + 1 # h.count
    <3>1. /\ output' = output
          /\ h.seqnum \in DOMAIN buf'
          /\ buf'[h.seqnum].reliable /\ buf'[h.seqnum].count = h.count
          /\ DOMAIN buf'[h.seqnum].chunks = 0 .. h.num
          /\ \A s \in DOMAIN buf' : buf'[s].reliable => s = h.seqnum
      BY <2>1, <2>2, <2>8, HeadProcessed
    <3>2. PICK g : g = Head(pipe')
      OBVIOUS
    <3>3. /\ pipe' # <<>> /\ g.num = h.num + 1 /\ g.msg = h.msg
          /\ g.count = h.count /\ g.seqnum = h.seqnum
      BY <2>3, <2>5, <2>6, <2>8, <3>2 DEF Follows
    <3>4. g.num > 0 /\ g.num - 1 = h.num
      BY <2>3, <3>3
    <3>5. \A i \in 1 .. Len(output') : output'[i] = i
      BY <3>1 DEF IInv, ReceiverKeepsUp
    <3>6. QED
      BY <2>3, <3>1, <3>2, <3>3, <3>4, <3>5 DEF ReceiverKeepsUp
  <2>9. QED
    BY <2>7, <2>8
<1>4. ASSUME UNCHANGED <<output, accepted, pipe>>,
             \A s \in DOMAIN buf : buf[s].reliable => s \in DOMAIN buf' /\ buf'[s] = buf[s],
             \A s \in DOMAIN buf' : buf'[s].reliable => s \in DOMAIN buf /\ buf'[s] = buf[s]
      PROVE  ReceiverKeepsUp'
  BY <1>4 DEF IInv, ReceiverKeepsUp
<1>5. ASSUME NEW c \in air, ReceiveUnreliable(c) PROVE ReceiverKeepsUp'
  BY <1>4, <1>5, UnreliableProcessed DEF ReceiveUnreliable
<1>6. ASSUME NEW s \in DOMAIN buf, RemoveTimedOut(s) PROVE ReceiverKeepsUp'
  BY <1>4, <1>6 DEF RemoveTimedOut, Expires, Without
<1>7. QED
  BY <1>1, <1>2, <1>3, <1>5, <1>6
     DEF Next, vars, FailReliable, SendUnreliable, LoseChunk

\* No step spoils a message that is handed over.
LEMMA WholeKept ==
    ASSUME IInv, [Next]_vars
    PROVE  whole'
<1>1. CASE ReceiveReliable
  <2>1. PICK h : h = Head(pipe)
    OBVIOUS
  <2>2. h \in Alive /\ Process(h)
    BY <1>1, <2>1, HeadEntry DEF ReceiveReliable
  <2>3. QED
    BY <2>2, ProcessOutput DEF IInv
<1>2. ASSUME NEW c \in air, ReceiveUnreliable(c) PROVE whole'
  BY <1>2, ProcessOutput DEF ReceiveUnreliable, Alive, IInv
<1>3. CASE UNCHANGED whole
  BY <1>3 DEF IInv
<1>4. QED
  BY <1>1, <1>2, <1>3
     DEF Next, vars, SendReliable, FailReliable, SendUnreliable, LoseChunk, RemoveTimedOut

-----------------------------------------------------------------------------
(* The theorems.                                                           *)

LEMMA InvariantStart == Init => IInv
<1> SUFFICES ASSUME Init PROVE IInv
  OBVIOUS
<1>1. TypeOK /\ whole
  BY SplitAssumption DEF Init, TypeOK, SplitNumbers
<1>2. Alive = {} /\ DOMAIN buf = {} /\ pipe = <<>> /\ Len(pipe) = 0
  BY DEF Init, Alive, ToSet
<1>3. ChunksAreSound /\ EntriesAreSound /\ PipeInOrder
  BY <1>2 DEF Init, ChunksAreSound, EntriesAreSound, PipeInOrder
<1>4. ReceiverKeepsUp
  BY <1>2 DEF Init, ReceiverKeepsUp
<1>5. QED
  BY <1>1, <1>3, <1>4 DEF IInv

LEMMA InvariantStep == IInv /\ [Next]_vars => IInv'
BY TypeOKKept, ChunksAreSoundKept, EntriesAreSoundKept, PipeInOrderKept,
   ReceiverKeepsUpKept, WholeKept DEF IInv

\* The invariant the theorems below rest on.
THEOREM Invariant == Spec => []IInv
BY InvariantStart, InvariantStep, PTL DEF Spec

\* The counter, the chunks and the entries keep their types.
THEOREM TypeCorrect == Spec => []TypeOK
<1>1. IInv => TypeOK
  BY DEF IInv
<1>2. QED
  BY <1>1, Invariant, PTL

\* No message is put together of chunks of two, nor with one missing, however often the
\* counter that reliable and unreliable messages share wraps (IncomingSplitBuffer::insert).
THEOREM MessagesAreWhole == Spec => []WholeMessages
<1>1. IInv => WholeMessages
  BY DEF IInv, WholeMessages
<1>2. QED
  BY <1>1, Invariant, PTL

\* When all reliable chunks have arrived the buffer has none of them: the number an attempt
\* in vain uses up is nobody's (processReliableSendCommand).
THEOREM NothingStays == Spec => []NothingLeftBehind
<1>1. IInv => NothingLeftBehind
  BY DEF IInv, ReceiverKeepsUp, NothingLeftBehind
<1>2. QED
  BY <1>1, Invariant, PTL

\* Cutting a reliable message accepts it and the last of its chunks delivers it, the first
\* one that has not been delivered; all other steps are nothing to the application.
THEOREM Refinement == Spec => ImplementsFifo
<1>1. Init => Fifo!Init
  BY DEF Init, Fifo!Init
<1>2. IInv /\ [Next]_vars => [Fifo!Next]_(Fifo!vars)
  <2> SUFFICES ASSUME IInv, [Next]_vars PROVE [Fifo!Next]_(Fifo!vars)
    OBVIOUS
  <2>1. CASE UNCHANGED <<accepted, output>>
    BY <2>1 DEF Fifo!vars
  <2>2. ASSUME NEW n \in 1 .. MaxChunks, SendReliable(n) PROVE Fifo!Next
    BY <2>2 DEF SendReliable, Fifo!Next, Fifo!Accept
  <2>3. CASE ReceiveReliable
    <3>1. PICK h : h = Head(pipe)
      OBVIOUS
    <3>2. /\ accepted' = accepted /\ accepted \in Nat /\ Len(output) \in Nat
          /\ h.msg = Len(output) + 1 /\ h.msg <= accepted
          /\ output' = output \/ output' = Append(output, Len(output) + 1)
      <4>1. pipe # <<>> /\ Process(h) /\ accepted' = accepted
        BY <2>3, <3>1 DEF ReceiveReliable
      <4>2. accepted \in Nat /\ Len(output) \in Nat
        BY DEF IInv, TypeOK
      <4>3. h.msg = Len(output) + 1 /\ h.msg <= accepted
        BY <3>1, <4>1, HeadEntry
      <4>4. output' = output \/ output' = Append(output, Len(output) + 1)
        BY <3>1, <4>1, HeadProcessed
      <4>5. QED
        BY <4>1, <4>2, <4>3, <4>4
    <3>3. QED
      BY <3>2 DEF Fifo!Next, Fifo!Deliver, Fifo!vars
  <2>4. ASSUME NEW c \in air, ReceiveUnreliable(c) PROVE UNCHANGED <<accepted, output>>
    BY <2>4, UnreliableProcessed DEF ReceiveUnreliable
  <2>5. QED
    BY <2>1, <2>2, <2>3, <2>4
       DEF Next, vars, FailReliable, SendUnreliable, LoseChunk, RemoveTimedOut
<1>3. QED
  BY <1>1, <1>2, Invariant, PTL DEF Spec, ImplementsFifo, Fifo!Spec

-----------------------------------------------------------------------------
(* ReliableBuffer: the list is sorted.                                     *)

\* How far number s is behind the expected number n.
Ahead(s, n) == Minus(s, n)

\* In the order of their distance, without repeats and within the window.
Ordered(packets, n) ==
    /\ \A i, j \in 1 .. Len(packets) : i < j => Ahead(packets[i].seq, n) < Ahead(packets[j].seq, n)
    /\ \A i \in 1 .. Len(packets) : Ahead(packets[i].seq, n) < MAX_RELIABLE_WINDOW_SIZE

BufferInv == BufferTypeOK /\ Ordered(list, next)

LEMMA Distances ==
    ASSUME NEW n \in SeqNums, NEW s \in SeqNums
    PROVE  /\ Ahead(s, n) \in SeqNums /\ (Ahead(s, n) = 0 <=> s = n)
           /\ Plus(n, 1) \in SeqNums
           /\ s # n => Ahead(s, Plus(n, 1)) = Ahead(s, n) - 1
           /\ \A t \in SeqNums : Ahead(s, n) = Ahead(t, n) => s = t
BY WindowIsHalfOfSpace DEF SeqNums, Ahead, Minus, Plus

LEMMA PassesIs ==
    ASSUME BufferTypeOK, NEW s \in SeqNums, NEW t \in SeqNums
    PROVE  Passes(s, t) <=> Ahead(s, next) < Ahead(t, next)
BY WindowIsHalfOfSpace DEF BufferTypeOK, SeqNums, Ahead, Minus, Passes

LEMMA AcceptableIs ==
    ASSUME BufferTypeOK, NEW s \in SeqNums
    PROVE  Acceptable(s) <=> Ahead(s, next) \in 1 .. MAX_RELIABLE_WINDOW_SIZE - 1
BY WindowIsHalfOfSpace DEF BufferTypeOK, SeqNums, Ahead, Minus, Plus, Acceptable, seqnum_in_window

\* The elements of the list.
LEMMA Elements ==
    ASSUME BufferTypeOK
    PROVE  /\ Len(list) \in Nat /\ DOMAIN list = 1 .. Len(list)
           /\ \A i \in 1 .. Len(list) : /\ list[i] \in Packet /\ list[i].seq \in SeqNums
                                        /\ Ahead(list[i].seq, next) \in SeqNums
<1>1. list \in Seq(Packet) /\ next \in SeqNums
  BY DEF BufferTypeOK
<1>2. \A i \in 1 .. Len(list) : list[i] \in Packet
  BY <1>1
<1>3. \A p \in Packet : p.seq \in SeqNums
  BY DEF Packet
<1>4. \A i \in 1 .. Len(list) : list[i].seq \in SeqNums
  BY <1>2, <1>3
<1>5. \A s \in SeqNums : Ahead(s, next) \in SeqNums
  BY <1>1, Distances
<1>6. Len(list) \in Nat /\ DOMAIN list = 1 .. Len(list)
  BY <1>1
<1>7. QED
  BY <1>2, <1>4, <1>5, <1>6, Zenon

\* A set of numbers has a least one.
LEMMA LeastOne ==
    ASSUME NEW N \in SUBSET Nat, N # {}
    PROVE  \E m \in N : \A k \in N : m <= k
<1> DEFINE UpTo == {1 .. n : n \in N}
           Less == StrictSubsetOrdering(Nat)
<1>1. UpTo \subseteq FiniteSubsetsOf(Nat) /\ UpTo # {}
  <2>1. ASSUME NEW n \in N PROVE 1 .. n \in SUBSET Nat /\ IsFiniteSet(1 .. n)
    BY FS_Interval
  <2>2. QED
    BY <2>1 DEF FiniteSubsetsOf
<1>2. PICK S \in UpTo : \A T \in UpTo : <<T, S>> \notin Less
  <2>1. IsWellFoundedOn(Less, FiniteSubsetsOf(Nat))
    BY FS_StrictSubsetOrderingWellFounded
  <2>2. QED
    BY <1>1, <2>1, WFMin
<1>3. PICK m \in N : S = 1 .. m
  BY <1>2
<1>4. ASSUME NEW k \in N, k < m PROVE FALSE
  <2>1. 1 .. k \subseteq 1 .. m /\ 1 .. k # 1 .. m
    BY <1>4
  <2>2. <<1 .. k, 1 .. m>> \in Less
    BY <2>1 DEF StrictSubsetOrdering
  <2>3. QED
    BY <1>2, <1>3, <2>2
<1>5. QED
  BY <1>4

\* insert() finds the place of a number.
LEMMA PlaceIs ==
    ASSUME BufferInv, NEW s \in SeqNums
    PROVE  /\ Place(s) \in 1 .. Len(list) + 1
           /\ \A j \in 1 .. Place(s) - 1 : Ahead(list[j].seq, next) < Ahead(s, next)
           /\ \A j \in Place(s) .. Len(list) : ~ (Ahead(list[j].seq, next) < Ahead(s, next))
<1> DEFINE n == Len(list)
           far(i) == Ahead(list[i].seq, next)
           stops(i) == /\ \A j \in 1 .. i - 1 : Passes(list[j].seq, s)
                       /\ i <= n => ~ Passes(list[i].seq, s)
<1>1. BufferTypeOK /\ next \in SeqNums /\ Ahead(s, next) \in SeqNums
  BY Distances DEF BufferInv, BufferTypeOK
<1>2. /\ n \in Nat
      /\ \A i \in 1 .. n : list[i].seq \in SeqNums /\ far(i) \in SeqNums
  BY <1>1, Elements
<1>3. \A i \in 1 .. n : Passes(list[i].seq, s) <=> far(i) < Ahead(s, next)
  BY <1>1, <1>2, PassesIs
<1>4. \E i \in 1 .. n + 1 : stops(i)
  <2> DEFINE T == {i \in 1 .. n + 1 : i = n + 1 \/ ~ Passes(list[i].seq, s)}
  <2>1. T \subseteq Nat /\ n + 1 \in T
    BY <1>2
  <2> HIDE DEF T
  <2>2. PICK i \in T : \A j \in T : i <= j
    BY <2>1, LeastOne
  <2>3. \A j \in T : ~ (j < i)
    BY <2>1, <2>2
  <2>4. i \in 1 .. n + 1 /\ (i <= n => ~ Passes(list[i].seq, s))
    BY <1>2 DEF T
  <2>5. ASSUME NEW j \in 1 .. i - 1 PROVE Passes(list[j].seq, s)
    BY <1>2, <2>3, <2>4 DEF T
  <2>6. QED
    BY <2>4, <2>5
<1>5. Place(s) \in 1 .. n + 1 /\ stops(Place(s))
  <2> HIDE DEF stops
  <2>1. Place(s) = CHOOSE i \in 1 .. n + 1 : stops(i)
    BY DEF Place, stops
  <2>2. QED
    BY <1>4, <2>1
<1> DEFINE k == Place(s)
<1> HIDE DEF k
<1>6. k \in 1 .. n + 1 /\ stops(k)
  BY <1>5 DEF k
<1>7. \A j \in 1 .. k - 1 : far(j) < Ahead(s, next)
  BY <1>2, <1>3, <1>6
<1>8. ASSUME NEW j \in k .. n PROVE ~ (far(j) < Ahead(s, next))
  <2>1. k \in 1 .. n /\ ~ (far(k) < Ahead(s, next)) /\ j \in 1 .. n
    BY <1>2, <1>3, <1>6
  <2>2. k = j \/ far(k) < far(j)
    BY <1>2, <2>1 DEF BufferInv, Ordered
  <2>3. far(k) \in Int /\ far(j) \in Int /\ Ahead(s, next) \in Int
    BY <1>1, <1>2, <2>1 DEF SeqNums
  <2> HIDE DEF far
  <2>4. QED
    BY <2>1, <2>2, <2>3
<1>9. QED
  BY <1>6, <1>7, <1>8 DEF k

\* A packet with a number is found if it is there.
LEMMA RepeatIs ==
    ASSUME BufferInv, NEW p \in Packet
    PROVE  /\ IsRepeat(p) => /\ Place(p.seq) \in 1 .. Len(list)
                             /\ list[Place(p.seq)].seq = p.seq
           /\ \A i \in 1 .. Len(list) : list[i].seq = p.seq => IsRepeat(p) /\ i = Place(p.seq)
<1> DEFINE s == p.seq
           k == Place(s)
<1>1. s \in SeqNums /\ next \in SeqNums /\ Len(list) \in Nat
  BY Elements DEF Packet, BufferInv, BufferTypeOK
<1>2. /\ k \in 1 .. Len(list) + 1
      /\ \A j \in 1 .. k - 1 : Ahead(list[j].seq, next) < Ahead(s, next)
      /\ \A j \in k .. Len(list) : ~ (Ahead(list[j].seq, next) < Ahead(s, next))
  BY <1>1, PlaceIs
<1>3. Ahead(s, next) \in Int
  <2>1. Ahead(s, next) \in SeqNums
    BY <1>1, Distances
  <2>2. QED
    BY <2>1 DEF SeqNums
<1> HIDE DEF k
<1>4. IsRepeat(p) <=> k <= Len(list) /\ list[k].seq = s
  BY DEF IsRepeat, k
<1>5. ASSUME NEW i \in 1 .. Len(list), list[i].seq = s
      PROVE  i = k
  <2>1. ~ (i < k)
    BY <1>1, <1>2, <1>3, <1>5
  <2>2. ASSUME k < i PROVE FALSE
    <3>1. k \in 1 .. Len(list)
      BY <1>1, <1>2, <2>2
    <3>2. Ahead(list[k].seq, next) < Ahead(s, next)
      BY <1>5, <2>2, <3>1 DEF BufferInv, Ordered
    <3>3. k \in k .. Len(list)
      BY <3>1
    <3>4. QED
      BY <1>2, <3>2, <3>3
  <2>3. QED
    BY <1>1, <1>2, <2>1, <2>2
<1>6. IsRepeat(p) => k \in 1 .. Len(list) /\ list[k].seq = s
  BY <1>1, <1>2, <1>4
<1>7. \A i \in 1 .. Len(list) : list[i].seq = s => IsRepeat(p) /\ i = k
  BY <1>4, <1>5
<1>8. QED
  BY <1>6, <1>7 DEF k

\* InsertAt puts a packet in front of the i-th.
LEMMA PutIn ==
    ASSUME BufferTypeOK, NEW i \in 1 .. Len(list) + 1, NEW p \in Packet
    PROVE  \E q \in Seq(Packet) :
              /\ q = InsertAt(list, i, p) /\ Len(q) = Len(list) + 1
              /\ \A k \in 1 .. i - 1 : q[k] = list[k]
              /\ q[i] = p
              /\ \A k \in i + 1 .. Len(list) + 1 : q[k] = list[k - 1]
<1> DEFINE a == SubSeq(list, 1, i - 1)
           b == SubSeq(list, i, Len(list))
           c == a \o <<p>>
           q == InsertAt(list, i, p)
<1>0. PICK n \in Nat : n = Len(list)
  BY Elements
<1>1. list \in Seq(Packet) /\ i \in 1 .. n + 1
  BY <1>0 DEF BufferTypeOK
<1>2. a \in Seq(Packet) /\ Len(a) = i - 1 /\ \A k \in 1 .. i - 1 : a[k] = list[k]
  BY <1>0, <1>1
<1>3. /\ b \in Seq(Packet) /\ Len(b) = n - i + 1
      /\ \A k \in 1 .. n - i + 1 : b[k] = list[i + k - 1]
  BY <1>0, <1>1
<1>4. q = c \o b
  BY DEF InsertAt
<1> HIDE DEF a, b
<1>5. /\ c \in Seq(Packet) /\ Len(c) = i
      /\ \A k \in 1 .. i : c[k] = IF k <= i - 1 THEN a[k] ELSE p
  <2>1. <<p>> \in Seq(Packet) /\ Len(<<p>>) = 1
    OBVIOUS
  <2>2. QED
    BY <1>1, <1>2, <2>1
<1> HIDE DEF c, q
<1>6. /\ q \in Seq(Packet) /\ Len(q) = n + 1
      /\ \A k \in 1 .. n + 1 : q[k] = IF k <= i THEN c[k] ELSE b[k - i]
  <2>1. /\ c \o b \in Seq(Packet) /\ Len(c \o b) = Len(c) + Len(b)
        /\ \A k \in 1 .. Len(c) + Len(b) :
              (c \o b)[k] = IF k <= Len(c) THEN c[k] ELSE b[k - Len(c)]
    BY <1>3, <1>5, ConcatProperties
  <2>2. Len(c) = i /\ Len(c) + Len(b) = n + 1
    BY <1>1, <1>3, <1>5
  <2>3. QED
    BY <1>4, <2>1, <2>2, Zenon
<1>7. ASSUME NEW k \in 1 .. i - 1 PROVE q[k] = list[k]
  BY <1>1, <1>2, <1>5, <1>6
<1>8. q[i] = p
  BY <1>1, <1>5, <1>6
<1>9. ASSUME NEW k \in i + 1 .. n + 1 PROVE q[k] = list[k - 1]
  <2>1. k \in 1 .. n + 1 /\ ~ (k <= i) /\ k - i \in 1 .. n - i + 1 /\ i + (k - i) - 1 = k - 1
    BY <1>1
  <2>2. q[k] = b[k - i] /\ b[k - i] = list[i + (k - i) - 1]
    BY <1>3, <1>6, <2>1
  <2>3. QED
    BY <2>1, <2>2
<1>10. QED
  BY <1>0, <1>6, <1>7, <1>8, <1>9 DEF q

\* RemoveAt takes the i-th packet out.
LEMMA TakenOut ==
    ASSUME BufferTypeOK, NEW i \in 1 .. Len(list)
    PROVE  \E q \in Seq(Packet) :
              /\ q = RemoveAt(list, i) /\ Len(q) = Len(list) - 1
              /\ \A k \in 1 .. i - 1 : q[k] = list[k]
              /\ \A k \in i .. Len(list) - 1 : q[k] = list[k + 1]
<1> DEFINE a == SubSeq(list, 1, i - 1)
           b == SubSeq(list, i + 1, Len(list))
           q == RemoveAt(list, i)
<1>0. PICK n \in Nat : n = Len(list)
  BY Elements
<1>1. list \in Seq(Packet) /\ i \in 1 .. n
  BY <1>0 DEF BufferTypeOK
<1>2. a \in Seq(Packet) /\ Len(a) = i - 1 /\ \A k \in 1 .. i - 1 : a[k] = list[k]
  BY <1>0, <1>1
<1>3. /\ b \in Seq(Packet) /\ Len(b) = n - i
      /\ \A k \in 1 .. n - i : b[k] = list[i + k]
  BY <1>0, <1>1
<1>4. q = a \o b
  BY DEF RemoveAt
<1> HIDE DEF a, b, q
<1>5. /\ q \in Seq(Packet) /\ Len(q) = n - 1
      /\ \A k \in 1 .. n - 1 : q[k] = IF k <= i - 1 THEN a[k] ELSE b[k - (i - 1)]
  <2>1. /\ a \o b \in Seq(Packet) /\ Len(a \o b) = Len(a) + Len(b)
        /\ \A k \in 1 .. Len(a) + Len(b) :
              (a \o b)[k] = IF k <= Len(a) THEN a[k] ELSE b[k - Len(a)]
    BY <1>2, <1>3, ConcatProperties
  <2>2. Len(a) = i - 1 /\ Len(a) + Len(b) = n - 1
    BY <1>1, <1>2, <1>3
  <2>3. QED
    BY <1>4, <2>1, <2>2, Zenon
<1>6. ASSUME NEW k \in 1 .. i - 1 PROVE q[k] = list[k]
  BY <1>1, <1>2, <1>5
<1>7. ASSUME NEW k \in i .. n - 1 PROVE q[k] = list[k + 1]
  <2>1. /\ k \in 1 .. n - 1 /\ ~ (k <= i - 1) /\ k - (i - 1) \in 1 .. n - i
        /\ i + (k - (i - 1)) = k + 1
    BY <1>1
  <2>2. q[k] = b[k - (i - 1)] /\ b[k - (i - 1)] = list[i + (k - (i - 1))]
    BY <1>3, <1>5, <2>1
  <2>3. QED
    BY <2>1, <2>2
<1>8. QED
  BY <1>0, <1>5, <1>6, <1>7 DEF q

-----------------------------------------------------------------------------
(* One step of the list: what becomes of its order and of the set of its packets.          *)

Held(packets) == {packets[i] : i \in 1 .. Len(packets)}

First(packets) == IF packets = <<>> THEN {} ELSE {Head(packets)}

\* The front of the list is the packet that comes next.
LEMMA FrontIsNearest ==
    ASSUME NEW q \in Seq(Packet), NEW n \in SeqNums, Ordered(q, n)
    PROVE  First(q) = {p \in Held(q) : \A r \in Held(q) : Ahead(p.seq, n) <= Ahead(r.seq, n)}
<1> DEFINE near == {p \in Held(q) : \A r \in Held(q) : Ahead(p.seq, n) <= Ahead(r.seq, n)}
<1>1. CASE q = <<>>
  <2>1. Len(q) = 0
    BY <1>1
  <2>2. Held(q) = {}
    BY <2>1 DEF Held
  <2>3. QED
    BY <1>1, <2>2 DEF First
<1>2. CASE q # <<>>
  <2>1. Len(q) \in Nat /\ Len(q) >= 1 /\ Head(q) = q[1]
    BY <1>2
  <2>2. \A i \in 1 .. Len(q) : Ahead(q[i].seq, n) \in Int
    <3> SUFFICES ASSUME NEW i \in 1 .. Len(q) PROVE Ahead(q[i].seq, n) \in Int
      OBVIOUS
    <3>0. q[i] \in Packet
      OBVIOUS
    <3>1. q[i].seq \in SeqNums
      BY <3>0 DEF Packet
    <3>2. Ahead(q[i].seq, n) \in SeqNums
      BY <3>1, Distances
    <3>3. QED
      BY <3>2 DEF SeqNums
  <2>3. \A i \in 2 .. Len(q) : Ahead(q[1].seq, n) < Ahead(q[i].seq, n)
    BY <2>1 DEF Ordered
  <2>4. q[1] \in near
    <3>1. q[1] \in Held(q)
      BY <2>1 DEF Held
    <3>2. ASSUME NEW i \in 1 .. Len(q) PROVE Ahead(q[1].seq, n) <= Ahead(q[i].seq, n)
      BY <2>1, <2>2, <2>3
    <3>3. QED
      BY <3>1, <3>2 DEF Held
  <2>5. ASSUME NEW p \in near PROVE p = q[1]
    <3>1. PICK i \in 1 .. Len(q) : p = q[i]
      BY DEF Held
    <3>2. Ahead(q[i].seq, n) <= Ahead(q[1].seq, n)
      BY <2>1, <3>1 DEF Held
    <3>3. i = 1
      BY <2>1, <2>2, <2>3, <3>2
    <3>4. QED
      BY <3>1, <3>3
  <2>6. QED
    BY <1>2, <2>1, <2>4, <2>5 DEF First
<1>3. QED
  BY <1>1, <1>2

\* A list that lost packets is ordered still.
LEMMA StaysOrdered ==
    ASSUME BufferInv, NEW q \in Seq(Packet), NEW i \in 1 .. Len(list), Len(q) = Len(list) - 1,
           \A k \in 1 .. i - 1 : q[k] = list[k],
           \A k \in i .. Len(list) - 1 : q[k] = list[k + 1]
    PROVE  Ordered(q, next) /\ Held(q) = {p \in Held(list) : p.seq # list[i].seq}
<1>0. PICK n \in Nat : n = Len(list)
  BY Elements DEF BufferInv
<1>1. \A j \in 1 .. n : list[j].seq \in SeqNums /\ Ahead(list[j].seq, next) \in SeqNums
  BY <1>0, Elements DEF BufferInv
<1>2. /\ \A j, k \in 1 .. n : j < k => Ahead(list[j].seq, next) < Ahead(list[k].seq, next)
      /\ \A j \in 1 .. n : Ahead(list[j].seq, next) < MAX_RELIABLE_WINDOW_SIZE
  BY <1>0 DEF BufferInv, Ordered
<1> DEFINE old(k) == IF k < i THEN k ELSE k + 1
<1>3. ASSUME NEW k \in 1 .. n - 1
      PROVE  old(k) \in 1 .. n /\ old(k) # i /\ q[k] = list[old(k)]
  BY <1>0
<1>4. \A j, k \in 1 .. n - 1 : j < k => old(j) < old(k)
  BY <1>0
<1>5. ASSUME NEW j \in 1 .. n, j # i PROVE \E k \in 1 .. n - 1 : old(k) = j
  <2>1. CASE j < i
    <3>1. j \in 1 .. n - 1 /\ old(j) = j
      BY <1>0, <2>1
    <3>2. QED
      BY <3>1
  <2>2. CASE ~ (j < i)
    <3>1. j - 1 \in 1 .. n - 1 /\ old(j - 1) = j
      BY <1>0, <1>5, <2>2
    <3>2. QED
      BY <3>1
  <2>3. QED
    BY <2>1, <2>2
<1> HIDE DEF old
<1>6. Len(q) = n - 1
  BY <1>0
<1>7. Ordered(q, next)
  <2>1. ASSUME NEW j \in 1 .. n - 1, NEW k \in 1 .. n - 1, j < k
        PROVE  Ahead(q[j].seq, next) < Ahead(q[k].seq, next)
    BY <1>2, <1>3, <1>4, <2>1
  <2>2. ASSUME NEW j \in 1 .. n - 1
        PROVE  Ahead(q[j].seq, next) < MAX_RELIABLE_WINDOW_SIZE
    BY <1>2, <1>3
  <2>3. QED
    BY <1>6, <2>1, <2>2 DEF Ordered
<1>8. ASSUME NEW j \in 1 .. n, j # i PROVE list[j].seq # list[i].seq
  <2>1. i \in 1 .. n
    BY <1>0
  <2>2. j < i \/ i < j
    BY <1>8, <2>1
  <2>3. \/ Ahead(list[j].seq, next) < Ahead(list[i].seq, next)
        \/ Ahead(list[i].seq, next) < Ahead(list[j].seq, next)
    BY <1>2, <2>1, <2>2
  <2>4. Ahead(list[j].seq, next) \in Int
    BY <1>1 DEF SeqNums
  <2>5. QED
    BY <2>3, <2>4
<1>9. ASSUME NEW p \in Held(q) PROVE p \in Held(list) /\ p.seq # list[i].seq
  <2>1. PICK k \in 1 .. n - 1 : p = q[k]
    BY <1>6 DEF Held
  <2>2. QED
    BY <1>0, <1>3, <1>8, <2>1 DEF Held
<1>10. ASSUME NEW p \in Held(list), p.seq # list[i].seq PROVE p \in Held(q)
  <2>1. PICK j \in 1 .. n : p = list[j]
    BY <1>0 DEF Held
  <2>2. PICK k \in 1 .. n - 1 : old(k) = j
    BY <1>5, <1>10, <2>1
  <2>3. q[k] = p
    BY <1>3, <2>1, <2>2
  <2>4. QED
    BY <1>6, <2>3 DEF Held
<1>11. QED
  BY <1>7, <1>9, <1>10

\* A packet in its place.
LEMMA InPlace ==
    ASSUME BufferInv, NEW p \in Packet, Acceptable(p.seq), ~ IsRepeat(p), NEW q \in Seq(Packet),
           q = InsertAt(list, Place(p.seq), p)
    PROVE  Ordered(q, next) /\ Held(q) = Held(list) \union {p}
<1> DEFINE i == Place(p.seq)
           d(s) == Ahead(s, next)
<1>0. PICK n \in Nat : n = Len(list)
  BY Elements DEF BufferInv
<1>1. p.seq \in SeqNums /\ \A j \in 1 .. n : list[j].seq \in SeqNums /\ d(list[j].seq) \in Int
  <2>1. p.seq \in SeqNums
    BY DEF Packet
  <2>2. \A j \in 1 .. n : list[j].seq \in SeqNums /\ d(list[j].seq) \in SeqNums
    BY <1>0, Elements DEF BufferInv
  <2>3. QED
    BY <2>1, <2>2 DEF SeqNums
<1>2. /\ i \in 1 .. n + 1
      /\ \A j \in 1 .. i - 1 : d(list[j].seq) < d(p.seq)
      /\ \A j \in i .. n : ~ (d(list[j].seq) < d(p.seq))
  BY <1>0, <1>1, PlaceIs
<1>3. \A j \in 1 .. n : list[j].seq # p.seq
  BY <1>0, RepeatIs
<1>4. d(p.seq) \in Int /\ d(p.seq) < MAX_RELIABLE_WINDOW_SIZE
  <2>1. d(p.seq) \in 1 .. MAX_RELIABLE_WINDOW_SIZE - 1
    BY <1>1, AcceptableIs DEF BufferInv
  <2>2. QED
    BY <2>1, WindowIsHalfOfSpace
<1> HIDE DEF i
<1>5. PICK r \in Seq(Packet) :
          /\ r = InsertAt(list, i, p) /\ Len(r) = Len(list) + 1
          /\ \A k \in 1 .. i - 1 : r[k] = list[k]
          /\ r[i] = p
          /\ \A k \in i + 1 .. Len(list) + 1 : r[k] = list[k - 1]
  <2>1. i \in 1 .. Len(list) + 1
    BY <1>0, <1>2, Zenon
  <2>2. QED
    BY <2>1, PutIn, Zenon DEF BufferInv
<1>6. /\ q = r /\ Len(q) = n + 1
      /\ \A k \in 1 .. i - 1 : q[k] = list[k]
      /\ q[i] = p
      /\ \A k \in i + 1 .. n + 1 : q[k] = list[k - 1]
  BY <1>0, <1>5 DEF i
<1>7. /\ \A j, k \in 1 .. n : j < k => d(list[j].seq) < d(list[k].seq)
      /\ \A j \in 1 .. n : d(list[j].seq) < MAX_RELIABLE_WINDOW_SIZE
  BY <1>0 DEF BufferInv, Ordered
<1>8. ASSUME NEW j \in i .. n PROVE d(p.seq) < d(list[j].seq)
  <2>1. j \in 1 .. n
    BY <1>2
  <2>2. next \in SeqNums
    BY DEF BufferInv, BufferTypeOK
  <2>3. d(list[j].seq) # d(p.seq)
    BY <1>1, <1>3, <2>1, <2>2, Distances
  <2> HIDE DEF d
  <2>4. QED
    BY <1>1, <1>2, <1>4, <2>1, <2>3
<1> HIDE DEF d
<1>9. ASSUME NEW k \in 1 .. n + 1
      PROVE  \/ k \in 1 .. i - 1 /\ k \in 1 .. n /\ q[k] = list[k]
             \/ k = i /\ q[k] = p
             \/ k \in i + 1 .. n + 1 /\ k - 1 \in 1 .. n /\ k - 1 \in i .. n /\ q[k] = list[k - 1]
  BY <1>2, <1>6
<1>10. Ordered(q, next)
  <2>1. ASSUME NEW j \in 1 .. n + 1, NEW k \in 1 .. n + 1, j < k
        PROVE  d(q[j].seq) < d(q[k].seq)
    <3>1. CASE k \in 1 .. i - 1
      <4>1. j \in 1 .. i - 1 /\ j \in 1 .. n /\ k \in 1 .. n
        BY <1>2, <2>1, <3>1
      <4>2. QED
        BY <1>6, <1>7, <2>1, <3>1, <4>1
    <3>2. CASE k = i
      <4>1. j \in 1 .. i - 1
        BY <1>2, <2>1, <3>2
      <4>2. QED
        BY <1>2, <1>6, <3>2, <4>1
    <3>3. CASE k \in i + 1 .. n + 1
      <4>1. k - 1 \in 1 .. n /\ k - 1 \in i .. n /\ q[k] = list[k - 1]
        BY <1>2, <1>6, <3>3
      <4>2. CASE j \in 1 .. i - 1
        <5>1. j \in 1 .. n /\ j < k - 1
          BY <1>2, <3>3, <4>2
        <5>2. QED
          BY <1>6, <1>7, <4>1, <4>2, <5>1
      <4>3. CASE j = i
        BY <1>6, <1>8, <4>1, <4>3
      <4>4. CASE j \in i + 1 .. n + 1
        <5>1. j - 1 \in 1 .. n /\ j - 1 < k - 1 /\ q[j] = list[j - 1]
          BY <1>2, <1>6, <2>1, <4>4
        <5>2. QED
          BY <1>7, <4>1, <5>1
      <4>5. QED
        BY <1>9, <4>2, <4>3, <4>4
    <3>4. QED
      BY <1>9, <3>1, <3>2, <3>3
  <2>2. ASSUME NEW k \in 1 .. n + 1
        PROVE  d(q[k].seq) < MAX_RELIABLE_WINDOW_SIZE
    BY <1>4, <1>7, <1>9
  <2>3. QED
    BY <1>6, <2>1, <2>2 DEF Ordered, d
<1>11. ASSUME NEW e \in Held(q) PROVE e \in Held(list) \union {p}
  <2>1. PICK k \in 1 .. n + 1 : e = q[k]
    BY <1>6 DEF Held
  <2>2. QED
    BY <1>0, <1>9, <2>1 DEF Held
<1>12. ASSUME NEW e \in Held(list) \union {p} PROVE e \in Held(q)
  <2>1. CASE e = p
    <3>1. i \in 1 .. Len(q)
      BY <1>2, <1>6
    <3>2. QED
      BY <1>6, <2>1, <3>1 DEF Held
  <2>2. CASE e \in Held(list)
    <3>1. PICK j \in 1 .. n : e = list[j]
      BY <1>0, <2>2 DEF Held
    <3>2. CASE j \in 1 .. i - 1
      BY <1>2, <1>6, <3>1, <3>2 DEF Held
    <3>3. CASE j \in i .. n
      <4>1. j + 1 \in i + 1 .. n + 1 /\ j + 1 \in 1 .. Len(q) /\ (j + 1) - 1 = j
        BY <1>2, <1>6, <3>3
      <4>2. q[j + 1] = e
        BY <1>6, <3>1, <4>1
      <4>3. QED
        BY <4>1, <4>2 DEF Held
    <3>4. QED
      BY <1>2, <3>1, <3>2, <3>3
  <2>3. QED
    BY <2>1, <2>2
<1>13. QED
  BY <1>10, <1>11, <1>12

-----------------------------------------------------------------------------
(* The list is a PacketSet.                                                *)

\* A step that leaves a set of packets and shows the first of them.
LEMMA AbstractStep ==
    ASSUME BufferInv, BufferInv',
           \/ \E p \in Packet : Abstract!Insert(p)
           \/ \E s \in SeqNums : Abstract!Remove(s)
           \/ Abstract!Advance
    PROVE  Abstract!Next
<1>1. list' \in Seq(Packet) /\ next' \in SeqNums /\ Ordered(list', next')
  BY DEF BufferInv, BufferTypeOK, Ordered, Ahead, Minus
<1>2. First(list') =
         {p \in Held(list') : \A r \in Held(list') : Ahead(p.seq, next') <= Ahead(r.seq, next')}
  BY <1>1, FrontIsNearest
<1>3. Held(list') = ToSet(list')
  BY <1>1 DEF Held, ToSet
<1>4. First(list') = Abstract!Nearest(ToSet(list'), next')
  BY <1>2, <1>3, Zenon DEF Abstract!Nearest, Abstract!Minus, Ahead, Minus
<1>5. QED
  BY <1>4, Zenon DEF Abstract!Next, First, Abstract!Packet, Packet, Abstract!SeqNums, SeqNums

\* What the list holds, two ways to say it.
LEMMA HeldIs ==
    ASSUME BufferTypeOK
    PROVE  Held(list) = ToSet(list) /\ \A p \in Held(list) : p \in Packet /\ p.seq \in SeqNums
<1>1. DOMAIN list = 1 .. Len(list)
  BY DEF BufferTypeOK
<1>2. \A i \in 1 .. Len(list) : list[i] \in Packet /\ list[i].seq \in SeqNums
  BY Elements
<1>3. QED
  BY <1>1, <1>2 DEF Held, ToSet

\* The list without its i-th packet.
LEMMA RemoveStep ==
    ASSUME BufferInv, NEW q \in Seq(Packet), NEW i \in 1 .. Len(list), Len(q) = Len(list) - 1,
           \A k \in 1 .. i - 1 : q[k] = list[k],
           \A k \in i .. Len(list) - 1 : q[k] = list[k + 1],
           list' = q, UNCHANGED <<next, corrupt>>
    PROVE  BufferInv' /\ Abstract!Next
<1>1. Ordered(q, next) /\ Held(q) = {p \in Held(list) : p.seq # list[i].seq}
  BY StaysOrdered
<1>2. BufferTypeOK'
  BY DEF BufferInv, BufferTypeOK
<1>3. BufferInv'
  <2>1. Ordered(list', next')
    BY <1>1, Zenon
  <2>2. Ordered(list, next)'
    BY <2>1 DEF Ordered, Ahead, Minus
  <2>3. QED
    BY <1>2, <2>2, Zenon DEF BufferInv
<1>4. list[i].seq \in SeqNums
  BY Elements DEF BufferInv
<1>5. Held(list) = ToSet(list) /\ Held(q) = ToSet(q)
  <2>1. DOMAIN q = 1 .. Len(q)
    OBVIOUS
  <2>2. QED
    BY <2>1, HeldIs DEF BufferInv, Held, ToSet
<1>6. ToSet(list)' = {p \in ToSet(list) : p.seq # list[i].seq}
  <2>1. ToSet(list)' = ToSet(q)
    BY Zenon DEF ToSet
  <2>2. ToSet(q) = {p \in ToSet(list) : p.seq # list[i].seq}
    BY <1>1, <1>5, Zenon
  <2>3. QED
    BY <2>1, <2>2, Zenon
<1>7. Abstract!Remove(list[i].seq)
  BY <1>6, Zenon DEF Abstract!Remove
<1>8. QED
  BY <1>3, <1>4, <1>7, AbstractStep

\* Insert puts in what the set takes, and calls corrupt what the set does.
LEMMA InsertStep ==
    ASSUME BufferInv, NEW p \in Packet, Insert(p)
    PROVE  BufferInv' /\ Abstract!Next
<1> DEFINE same == {q \in ToSet(list) : q.seq = p.seq}
           inside == Abstract!Minus(p.seq, next) \in 1 .. MAX_RELIABLE_WINDOW_SIZE - 1
<1>1. BufferTypeOK /\ p.seq \in SeqNums /\ list \in Seq(Packet) /\ corrupt' \in BOOLEAN
  BY DEF BufferInv, BufferTypeOK, Packet, Insert
<1>2. Held(list) = ToSet(list)
  BY <1>1, HeldIs
<1>3. inside <=> Acceptable(p.seq)
  BY <1>1, AcceptableIs, Zenon DEF Ahead, Abstract!Minus, Minus
<1>4. IsRepeat(p) => same = {list[Place(p.seq)]}
  <2>1. ASSUME IsRepeat(p) PROVE list[Place(p.seq)] \in same
    BY <1>2, <2>1, RepeatIs DEF Held
  <2>2. ASSUME NEW q \in same PROVE q = list[Place(p.seq)]
    <3>1. PICK i \in 1 .. Len(list) : q = list[i]
      BY <1>2 DEF Held
    <3>2. QED
      BY <3>1, RepeatIs
  <2>3. QED
    BY <2>1, <2>2
<1>5. ~ IsRepeat(p) => same = {}
  BY <1>2, RepeatIs DEF Held
<1>6. /\ list' = IF Acceptable(p.seq) /\ ~ IsRepeat(p)
                 THEN InsertAt(list, Place(p.seq), p) ELSE list
      /\ corrupt' = (/\ Acceptable(p.seq) /\ IsRepeat(p)
                     /\ list[Place(p.seq)].size # p.size)
      /\ next' = next
  BY DEF Insert
<1>7. corrupt' = (inside /\ \E q \in same : q # p)
  <2>1. IsRepeat(p) => (list[Place(p.seq)].size # p.size <=> list[Place(p.seq)] # p)
    <3>1. ASSUME IsRepeat(p) PROVE list[Place(p.seq)] \in Packet /\ list[Place(p.seq)].seq = p.seq
      BY <1>1, <3>1, RepeatIs, Elements
    <3>2. \A a, b \in Packet : a.seq = b.seq => (a.size # b.size <=> a # b)
      BY DEF Packet
    <3>3. QED
      BY <3>1, <3>2
  <2> HIDE DEF inside, same
  <2>2. QED
    BY <1>3, <1>4, <1>5, <1>6, <2>1, Zenon
<1>8. CASE Acceptable(p.seq) /\ ~ IsRepeat(p)
  <2>1. PICK q \in Seq(Packet) : q = InsertAt(list, Place(p.seq), p)
    BY <1>1, PlaceIs, PutIn
  <2>2. list' = q
    BY <1>6, <1>8, <2>1
  <2>3. Ordered(q, next) /\ Held(q) = Held(list) \union {p}
    BY <1>8, <2>1, InPlace
  <2>4. BufferInv'
    BY <1>1, <1>6, <2>2, <2>3 DEF BufferInv, BufferTypeOK, Ordered, Ahead, Minus
  <2>5. ToSet(list)' = ToSet(list) \union {p}
    <3>1. Held(q) = ToSet(q)
      BY DEF Held, ToSet
    <3>2. QED
      BY <1>2, <2>2, <2>3, <3>1, Zenon DEF ToSet
  <2>6. Abstract!Insert(p)
    <3>1. inside /\ same = {}
      BY <1>3, <1>5, <1>8
    <3>2. ToSet(list)' = IF inside /\ same = {} THEN ToSet(list) \union {p} ELSE ToSet(list)
      BY <2>5, <3>1
    <3>3. QED
      BY <1>6, <1>7, <3>2, Zenon DEF Abstract!Insert
  <2>7. QED
    BY <2>4, <2>6, AbstractStep
<1>9. CASE ~ (Acceptable(p.seq) /\ ~ IsRepeat(p))
  <2>1. list' = list
    BY <1>6, <1>9
  <2>2. BufferInv'
    BY <1>1, <1>6, <2>1 DEF BufferInv, BufferTypeOK, Ordered, Ahead, Minus
  <2>3. Abstract!Insert(p)
    <3>1. ~ (inside /\ same = {})
      BY <1>3, <1>4, <1>9
    <3>2. ToSet(list)' = IF inside /\ same = {} THEN ToSet(list) \union {p} ELSE ToSet(list)
      BY <2>1, <3>1 DEF ToSet
    <3>3. QED
      BY <1>6, <1>7, <3>2, Zenon DEF Abstract!Insert
  <2>4. QED
    BY <2>2, <2>3, AbstractStep
<1>10. QED
  BY <1>8, <1>9

\* When the expected number moves on, all packets come one nearer.
LEMMA AdvanceStep ==
    ASSUME BufferInv, Advance
    PROVE  BufferInv' /\ Abstract!Next
<1>1. /\ BufferTypeOK /\ list \in Seq(Packet) /\ next \in SeqNums
      /\ list' = list /\ corrupt' = corrupt /\ next' = Plus(next, 1)
  BY DEF BufferInv, BufferTypeOK, Advance
<1>2. ASSUME NEW i \in 1 .. Len(list)
      PROVE  /\ list[i].seq \in SeqNums /\ list[i].seq # next
             /\ Ahead(list[i].seq, next') = Ahead(list[i].seq, next) - 1
             /\ Ahead(list[i].seq, next) \in Nat
  <2>1. list[i].seq \in SeqNums /\ Ahead(list[i].seq, next) \in SeqNums
    BY <1>1, Elements
  <2>2. list[1].seq # next /\ 1 \in 1 .. Len(list) /\ list[1].seq \in SeqNums
    <3>1. list # <<>> /\ 1 \in 1 .. Len(list)
      BY <1>1
    <3>2. QED
      BY <1>1, <3>1, Elements DEF Advance, MayAdvance
  <2>3. list[i].seq # next
    <3>1. CASE i = 1
      BY <2>2, <3>1
    <3>2. CASE i # 1
      <4>1. Ahead(list[1].seq, next) < Ahead(list[i].seq, next)
        BY <2>2, <3>2 DEF BufferInv, Ordered
      <4>2. Ahead(list[1].seq, next) \in Nat
        <5>1. Ahead(list[1].seq, next) \in SeqNums
          BY <1>1, <2>2, Distances
        <5>2. QED
          BY <5>1 DEF SeqNums
      <4>3. Ahead(list[i].seq, next) # 0
        BY <4>1, <4>2
      <4>4. QED
        BY <1>1, <2>1, <4>3, Distances
    <3>3. QED
      BY <3>1, <3>2
  <2>4. Ahead(list[i].seq, Plus(next, 1)) = Ahead(list[i].seq, next) - 1
    BY <1>1, <2>1, <2>3, Distances
  <2>5. QED
    BY <1>1, <2>1, <2>3, <2>4 DEF SeqNums
<1>3. next' \in SeqNums
  BY <1>1, Distances
<1>4. Ordered(list', next')
  <2>1. \A i, j \in 1 .. Len(list) :
           i < j => Ahead(list[i].seq, next) - 1 < Ahead(list[j].seq, next) - 1
    BY <1>2 DEF BufferInv, Ordered
  <2>2. \A i \in 1 .. Len(list) : Ahead(list[i].seq, next) - 1 < MAX_RELIABLE_WINDOW_SIZE
    BY <1>2, WindowIsHalfOfSpace DEF BufferInv, Ordered
  <2>3. QED
    BY <1>1, <1>2, <2>1, <2>2 DEF Ordered
<1>5. BufferInv'
  BY <1>1, <1>3, <1>4 DEF BufferInv, BufferTypeOK, Ordered, Ahead, Minus
<1>6. \A p \in ToSet(list) : p.seq # next
  <2>1. DOMAIN list = 1 .. Len(list)
    BY <1>1
  <2>2. QED
    BY <1>2, <2>1 DEF ToSet
<1>7. Abstract!Advance
  BY <1>1, <1>6 DEF Abstract!Advance, Abstract!Plus, Plus, ToSet
<1>8. QED
  BY <1>5, <1>7, AbstractStep

\* Both ways to take a packet out.
LEMMA PopStep ==
    ASSUME BufferInv, NEW s \in SeqNums, PopSeqnum(s)
    PROVE  BufferInv' /\ Abstract!Next
<1>1. PICK i \in 1 .. Len(list) : list' = RemoveAt(list, i)
  BY Elements DEF PopSeqnum, BufferInv
<1>2. PICK q \in Seq(Packet) :
          /\ q = RemoveAt(list, i) /\ Len(q) = Len(list) - 1
          /\ \A k \in 1 .. i - 1 : q[k] = list[k]
          /\ \A k \in i .. Len(list) - 1 : q[k] = list[k + 1]
  BY TakenOut DEF BufferInv
<1>3. list' = q /\ UNCHANGED <<next, corrupt>>
  BY <1>1, <1>2 DEF PopSeqnum
<1>4. QED
  BY <1>2, <1>3, RemoveStep

LEMMA PopFirstStep ==
    ASSUME BufferInv, PopFirst
    PROVE  BufferInv' /\ Abstract!Next
<1>1. list \in Seq(Packet) /\ list # <<>>
  BY DEF BufferInv, BufferTypeOK, PopFirst
<1>2. 1 \in 1 .. Len(list)
  BY <1>1
<1>3. PICK q \in Seq(Packet) : q = Tail(list)
  <2>1. Tail(list) \in Seq(Packet)
    BY <1>1
  <2>2. QED
    BY <2>1, Zenon
<1>4. /\ Len(q) = Len(list) - 1
      /\ \A k \in 1 .. Len(list) - 1 : q[k] = list[k + 1]
  BY <1>1, <1>3
<1>5. \A k \in 1 .. 1 - 1 : q[k] = list[k]
  OBVIOUS
<1>6. list' = q /\ UNCHANGED <<next, corrupt>>
  BY <1>3 DEF PopFirst
<1>7. QED
  BY <1>2, <1>4, <1>5, <1>6, RemoveStep

LEMMA BufferStart == BufferInit => BufferInv /\ Abstract!Init
<1> SUFFICES ASSUME BufferInit PROVE BufferInv /\ Abstract!Init
  OBVIOUS
<1>1. list = <<>> /\ Len(list) = 0 /\ next \in SeqNums /\ corrupt = FALSE
  BY DEF BufferInit
<1>2. BufferInv
  <2>1. BufferTypeOK
    <3>1. <<>> \in Seq(Packet)
      OBVIOUS
    <3>2. corrupt \in BOOLEAN
      BY <1>1
    <3>3. QED
      BY <1>1, <3>1, <3>2, Zenon DEF BufferTypeOK
  <2>2. \A i \in 1 .. Len(list) : FALSE
    BY <1>1
  <2>3. QED
    BY <2>1, <2>2, Zenon DEF BufferInv, Ordered
<1>3. ToSet(list) = {}
  BY <1>1 DEF ToSet
<1>4. QED
  BY <1>1, <1>2, <1>3 DEF Abstract!Init, Abstract!SeqNums, SeqNums

\* A step of the code's list is a step of the set.
LEMMA BufferStep ==
    ASSUME BufferInv, BufferNext
    PROVE  BufferInv' /\ Abstract!Next
<1>1. ASSUME NEW p \in Packet, Insert(p) PROVE BufferInv' /\ Abstract!Next
  BY <1>1, InsertStep
<1>2. ASSUME NEW s \in SeqNums, PopSeqnum(s) PROVE BufferInv' /\ Abstract!Next
  BY <1>2, PopStep
<1>3. CASE PopFirst
  BY <1>3, PopFirstStep
<1>4. CASE Advance
  BY <1>4, AdvanceStep
<1>5. QED
  BY <1>1, <1>2, <1>3, <1>4, Zenon DEF BufferNext

\* A step that leaves the list alone leaves the set alone.
LEMMA BufferStutter ==
    ASSUME BufferInv, UNCHANGED bufferVars
    PROVE  BufferInv' /\ UNCHANGED Abstract!vars
<1>1. list' = list /\ next' = next /\ corrupt' = corrupt
  BY DEF bufferVars
<1>2. BufferInv'
  BY <1>1 DEF BufferInv, BufferTypeOK, Ordered, Ahead, Minus
<1>3. QED
  BY <1>1, <1>2 DEF Abstract!vars, ToSet

\* The list stays sorted by the distance from the number that is expected, without repeats
\* and within the window, wherever the counter wraps (ReliablePacketBuffer::insert).
THEOREM BufferInvariant == BufferSpec => []BufferInv
<1>1. BufferInit => BufferInv
  BY BufferStart
<1>2. BufferInv /\ [BufferNext]_bufferVars => BufferInv'
  BY BufferStep, BufferStutter
<1>3. QED
  BY <1>1, <1>2, PTL DEF BufferSpec

\* The list is the set its callers take it for: no packet is dropped, doubled or replaced,
\* getFirstSeqnum shows the nearest one, and the expected number never passes one that
\* is held (insert, popSeqnum, popFirst, getFirstSeqnum).
THEOREM PacketSetRefinement == BufferSpec => ImplementsPacketSet
<1>1. BufferInit => Abstract!Init
  BY BufferStart
<1>2. BufferInv /\ [BufferNext]_bufferVars => [Abstract!Next]_(Abstract!vars)
  BY BufferStep, BufferStutter
<1>3. QED
  BY <1>1, <1>2, BufferInvariant, PTL DEF BufferSpec, ImplementsPacketSet, Abstract!Spec

\* The types of both parts, as the run checks them side by side.
THEOREM BuffersTypeCorrect == BuffersSpec => []BuffersTypeOK
<1> DEFINE Both == IInv /\ BufferInv
<1>1. BuffersInit => Both
  BY InvariantStart, BufferStart DEF BuffersInit
<1>2. Both /\ [BuffersNext]_<<part, vars, bufferVars>> => Both'
  <2> SUFFICES ASSUME Both, [BuffersNext]_<<part, vars, bufferVars>>
               PROVE  Both'
    OBVIOUS
  <2>1. [Next]_vars /\ [BufferNext]_bufferVars
    BY DEF BuffersNext
  <2>2. QED
    BY <2>1, InvariantStep, BufferStep, BufferStutter
<1>3. Both => BuffersTypeOK
  BY DEF BuffersTypeOK, IInv, BufferInv
<1> HIDE DEF Both
<1>4. QED
  BY <1>1, <1>2, <1>3, PTL DEF BuffersSpec
=============================================================================
