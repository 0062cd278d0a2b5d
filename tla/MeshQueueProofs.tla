-------------------------- MODULE MeshQueueProofs --------------------------
(***************************************************************************)
(* Proofs about MeshQueue, for any number of blocks, cells and threads: a  *)
(* cell has one update in the queue and one thread at a time, what is      *)
(* drawn is what the client has, once nothing is under way for the cell,   *)
(* unless a plain and an urgent result of it waited at once, and no block  *)
(* is acknowledged more often than it has come.  With the proofs about     *)
(* BlockTransfer this gives the type correctness of MCBlocks.              *)
(***************************************************************************)
EXTENDS MCBlocks, BlockTransferProofs, SequenceTheorems

-----------------------------------------------------------------------------
(* The inductive invariant.                                                *)

\* There is an update left for every version to come.
UpdatesLeft == \A b \in MapBlocks : map[b] + updates <= MaxUpdates + 1

\* The calls of addBlock for changed blocks are about blocks the client has.
CallsAreFounded == \A i \in DOMAIN calls : ~calls[i].neighbor => map[calls[i].b] > 0

\* A changed block of the cell is still to be queued.
Pending(c) == \E i \in DOMAIN calls : ~calls[i].neighbor /\ MeshPos[calls[i].b] = c

IsAt(w, place, c) == worker[w].at = place /\ worker[w].task.p = c

\* The newest blocks of the cell are still to be copied.
ToCopy(c) == Pending(c) \/ Queued(c) # {} \/ \E w \in Workers : IsAt(w, "copy", c)

\* What is going to be copied includes all blocks the client has by now.
TasksHoldBlocks ==
    \A c \in Cells : ~Pending(c) =>
        /\ \A i \in DOMAIN queue : queue[i].p = c => Held(c) \subseteq queue[i].blocks
        /\ Queued(c) = {} =>
              \A w \in Workers : IsAt(w, "copy", c) => Held(c) \subseteq worker[w].task.blocks

\* A copy is the newest unless a newer one is to come.
CopiesAreNew ==
    \A c \in Cells : \A w \in Workers :
        IsAt(w, "make", c) /\ ~ToCopy(c) => worker[w].data = Look(c)

\* Where both queues of results had one of the cell is noted.
OvertakenIsNoted == \A c \in Cells \ overtaken : ~Has(outUrgent, c) \/ ~Has(outPlain, c)

LastIs(out, c, look) ==
    \A i \in DOMAIN out :
        out[i].p = c /\ (\A j \in DOMAIN out : out[j].p = c => j <= i) => out[i].data = look

\* What is drawn of the cell at last, when no result is left, is what the client has.
WillBeDrawn(c) ==
    /\ LastIs(outUrgent, c, Look(c)) /\ LastIs(outPlain, c, Look(c))
    /\ ~Has(outUrgent, c) /\ ~Has(outPlain, c) => mesh[c] = Look(c)

MadeIsDrawn ==
    \A c \in Cells \ overtaken :
        ~ToCopy(c) /\ (\A w \in Workers : ~IsAt(w, "make", c)) => WillBeDrawn(c)

MeshInv ==
    /\ MeshTypeOK
    /\ UpdatesLeft /\ CallsAreFounded /\ TasksHoldBlocks /\ CopiesAreNew
    /\ OvertakenIsNoted /\ MadeIsDrawn

-----------------------------------------------------------------------------
(* Sets of numbers, sequences, the calls of updateBlock.                   *)

\* Without the element at i the later ones move up.
LEMMA RemoveAtIs ==
    ASSUME NEW S, NEW s \in Seq(S), NEW i \in 1 .. Len(s)
    PROVE  /\ RemoveAt(s, i) \in Seq(S) /\ Len(RemoveAt(s, i)) = Len(s) - 1
           /\ \A k \in 1 .. Len(s) - 1 : RemoveAt(s, i)[k] = IF k < i THEN s[k] ELSE s[k + 1]
<1> DEFINE a == SubSeq(s, 1, i - 1)
           z == SubSeq(s, i + 1, Len(s))
<1>1. a \in Seq(S) /\ Len(a) = i - 1 /\ \A k \in 1 .. i - 1 : a[k] = s[k]
  OBVIOUS
<1>2. z \in Seq(S) /\ Len(z) = Len(s) - i /\ \A k \in 1 .. Len(s) - i : z[k] = s[k + i]
  OBVIOUS
<1> HIDE DEF a, z
<1>3. /\ a \o z \in Seq(S) /\ Len(a \o z) = Len(s) - 1
      /\ \A k \in 1 .. Len(s) - 1 : (a \o z)[k] = IF k < i THEN a[k] ELSE z[k - (i - 1)]
  <2>1. /\ a \o z \in Seq(S) /\ Len(a \o z) = Len(a) + Len(z)
        /\ \A k \in 1 .. Len(a) + Len(z) :
              (a \o z)[k] = IF k <= Len(a) THEN a[k] ELSE z[k - Len(a)]
    BY <1>1, <1>2, ConcatProperties
  <2> DEFINE az == a \o z
  <2> HIDE DEF az
  <2>2. /\ az \in Seq(S) /\ Len(az) = Len(s) - 1
        /\ \A k \in 1 .. Len(s) - 1 : az[k] = IF k < i THEN a[k] ELSE z[k - (i - 1)]
    BY <1>1, <1>2, <2>1 DEF az
  <2>3. QED
    BY <2>2 DEF az
<1> DEFINE az == a \o z
<1> HIDE DEF az
<1>4. \A k \in 1 .. Len(s) - 1 : az[k] = IF k < i THEN s[k] ELSE s[k + 1]
  <2> SUFFICES ASSUME NEW k \in 1 .. Len(s) - 1
               PROVE  az[k] = IF k < i THEN s[k] ELSE s[k + 1]
    OBVIOUS
  <2> USE DEF az
  <2>1. CASE k < i
    BY <1>1, <1>3, <2>1
  <2>2. CASE k >= i
    <3>1. k - (i - 1) \in 1 .. Len(s) - i /\ k - (i - 1) + i = k + 1
      BY <2>2
    <3>2. QED
      BY <1>2, <1>3, <2>2, <3>1
  <2> HIDE DEF az
  <2>3. QED
    BY <2>1, <2>2
<1>5. RemoveAt(s, i) = az
  BY DEF RemoveAt, a, z, az
<1>6. az \in Seq(S) /\ Len(az) = Len(s) - 1
  BY <1>3 DEF az
<1>7. QED
  BY <1>4, <1>5, <1>6, Zenon

LEMMA MinIn ==
    ASSUME NEW N \in SUBSET Nat, N # {}
    PROVE  Min(N) \in N
<1>1. PICK m \in N : \A k \in N : m <= k
  BY LeastOne
<1>2. QED
  BY <1>1 DEF Min

LEMMA EnumeratesSet ==
    ASSUME NEW S, IsFiniteSet(S)
    PROVE  Cardinality(S) \in Nat /\ SetToSeq(S) \in [1 .. Cardinality(S) -> S]
<1>1. Cardinality(S) \in Nat /\ ExistsBijection(1 .. Cardinality(S), S)
  BY FS_CardinalityType
<1>2. PICK f \in [1 .. Cardinality(S) -> S] : IsInjective(f)
  <2>1. PICK f : f \in Bijection(1 .. Cardinality(S), S)
    BY <1>1 DEF ExistsBijection
  <2>2. f \in [1 .. Cardinality(S) -> S] /\ IsInjective(f)
    BY <2>1 DEF Bijection, Injection, IsInjective
  <2>3. QED
    BY <2>2
<1>3. QED
  BY <1>1, <1>2 DEF SetToSeq

\* updateBlock asks for the block itself first, and then for its neighbours.
LEMMA EdgeIs ==
    ASSUME NEW b \in MapBlocks, NEW ack \in BOOLEAN, NEW urgent \in BOOLEAN
    PROVE  /\ WithEdge(b, ack, urgent) \in Seq(Calls) /\ Len(WithEdge(b, ack, urgent)) >= 1
           /\ WithEdge(b, ack, urgent)[1] = Call(b, ack, urgent, FALSE)
           /\ \A i \in 2 .. Len(WithEdge(b, ack, urgent)) : WithEdge(b, ack, urgent)[i].neighbor
           /\ \A i \in 2 .. Len(WithEdge(b, ack, urgent)) : ~WithEdge(b, ack, urgent)[i].ack
<1> DEFINE n == Cardinality(NextTo[b])
           first == <<Call(b, ack, urgent, FALSE)>>
           rest == [i \in 1 .. n |-> Call(SetToSeq(NextTo[b])[i], FALSE, urgent, TRUE)]
<1>1. n \in Nat /\ SetToSeq(NextTo[b]) \in [1 .. n -> MapBlocks]
  <2>1. IsFiniteSet(NextTo[b]) /\ NextTo[b] \subseteq MapBlocks
    BY MeshAssumption
  <2>2. QED
    BY <2>1, EnumeratesSet
<1>2. first \in Seq(Calls) /\ Len(first) = 1 /\ first[1] = Call(b, ack, urgent, FALSE)
  BY DEF Call, Calls
<1>3. /\ rest \in Seq(Calls) /\ Len(rest) = n
      /\ \A i \in 1 .. n : rest[i].neighbor /\ ~rest[i].ack
  <2>1. \A i \in 1 .. n : Call(SetToSeq(NextTo[b])[i], FALSE, urgent, TRUE) \in Calls
    BY <1>1 DEF Call, Calls
  <2>2. rest \in [1 .. n -> Calls]
    BY <2>1
  <2>3. \A i \in 1 .. n : rest[i] = Call(SetToSeq(NextTo[b])[i], FALSE, urgent, TRUE)
    OBVIOUS
  <2>4. \A i \in 1 .. n : rest[i].neighbor /\ ~rest[i].ack
    BY <2>3 DEF Call
  <2> HIDE DEF n, rest
  <2>5. rest \in Seq(Calls) /\ Len(rest) = n
    BY <1>1, <2>2
  <2>6. QED
    BY <2>4, <2>5, Zenon
<1> HIDE DEF n, first, rest
<1> DEFINE all == first \o rest
<1>4. /\ all \in Seq(Calls) /\ Len(all) = Len(first) + Len(rest)
      /\ \A i \in 1 .. Len(first) + Len(rest) :
            all[i] = IF i <= Len(first) THEN first[i] ELSE rest[i - Len(first)]
  <2>1. first \in Seq(Calls) /\ rest \in Seq(Calls)
    BY <1>2, <1>3
  <2>2. QED
    BY <2>1, ConcatProperties
<1>5. WithEdge(b, ack, urgent) = all
  BY DEF WithEdge, n, first, rest, all
<1> HIDE DEF all
<1>6. Len(all) = 1 + n /\ all[1] = first[1] /\ \A i \in 2 .. 1 + n : all[i] = rest[i - 1]
  <2>1. n \in Nat /\ Len(first) = 1 /\ Len(rest) = n
    BY <1>1, <1>2, <1>3
  <2>2. QED
    BY <2>1, <1>4
<1>7. \A i \in 2 .. Len(all) : all[i].neighbor /\ ~all[i].ack
  <2> SUFFICES ASSUME NEW i \in 2 .. Len(all) PROVE all[i].neighbor /\ ~all[i].ack
    OBVIOUS
  <2>1. i - 1 \in 1 .. n
    BY <1>1, <1>6
  <2>2. QED
    BY <1>1, <1>3, <1>6, <2>1
<1>8. Len(all) >= 1
  BY <1>1, <1>6
<1>9. QED
  BY <1>2, <1>4, <1>5, <1>6, <1>7, <1>8, Zenon

\* The calls of an update begin with the one for the block itself.
LEMMA EdgeStarts ==
    ASSUME NEW b \in MapBlocks, NEW ack \in BOOLEAN, NEW urgent \in BOOLEAN,
           calls' = WithEdge(b, ack, urgent)
    PROVE  /\ calls' \in Seq(Calls) /\ Len(calls') >= 1
           /\ calls'[1].b = b /\ calls'[1].ack = ack /\ ~calls'[1].neighbor
           /\ \A i \in 2 .. Len(calls') : calls'[i].neighbor
           /\ \A i \in 2 .. Len(calls') : ~calls'[i].ack
<1>1. /\ WithEdge(b, ack, urgent) \in Seq(Calls) /\ Len(WithEdge(b, ack, urgent)) >= 1
      /\ WithEdge(b, ack, urgent)[1] = Call(b, ack, urgent, FALSE)
      /\ \A i \in 2 .. Len(WithEdge(b, ack, urgent)) : WithEdge(b, ack, urgent)[i].neighbor
      /\ \A i \in 2 .. Len(WithEdge(b, ack, urgent)) : ~WithEdge(b, ack, urgent)[i].ack
  BY EdgeIs, Zenon
<1>2. /\ calls' \in Seq(Calls) /\ Len(calls') >= 1
      /\ calls'[1] = Call(b, ack, urgent, FALSE)
      /\ \A i \in 2 .. Len(calls') : calls'[i].neighbor
      /\ \A i \in 2 .. Len(calls') : ~calls'[i].ack
  BY <1>1, Zenon
<1>3. /\ Call(b, ack, urgent, FALSE).b = b /\ Call(b, ack, urgent, FALSE).ack = ack
      /\ ~Call(b, ack, urgent, FALSE).neighbor
  BY DEF Call
<1>4. QED
  BY <1>2, <1>3, Zenon

-----------------------------------------------------------------------------
(* The steps.                                                              *)

\* An update begins: a block may have a new version, and addBlock is to be called for it,
\* then for its neighbours.
LEMMA Begins ==
    ASSUME MeshInv, calls = <<>>, updates > 0, updates' = updates - 1,
           NEW b \in MapBlocks,
           calls' \in Seq(Calls), Len(calls') >= 1,
           calls'[1].b = b, ~calls'[1].neighbor,
           \A i \in 2 .. Len(calls') : calls'[i].neighbor,
           map' = map \/ map' = [map EXCEPT ![b] = @ + 1],
           map'[b] > 0,
           unacked' \in [MapBlocks -> Int],
           UNCHANGED <<main, toAck, mesh, queueVars, resultVars, posted, worker>>
    PROVE  MeshInv'
<1> DEFINE c == MeshPos[b]
<1> USE DEF queueVars, resultVars, MeshInv
<1>1. updates \in 1 .. MaxUpdates /\ updates' \in 0 .. MaxUpdates /\ MaxUpdates \in Nat
  BY MeshAssumption DEF MeshTypeOK
<1>2. map' \in [MapBlocks -> Version] /\ UpdatesLeft'
  <2>1. map \in [MapBlocks -> Version] /\ \A x \in MapBlocks : map[x] + updates <= MaxUpdates + 1
    BY DEF MeshTypeOK, UpdatesLeft
  <2>2. \A x \in MapBlocks : map'[x] \in Nat /\ map'[x] + updates' <= MaxUpdates + 1
    BY <1>1, <2>1 DEF Version
  <2>3. map' \in [MapBlocks -> Version]
    BY <1>1, <2>1, <2>2 DEF Version
  <2>4. QED
    BY <2>2, <2>3 DEF UpdatesLeft
<1>3. MeshTypeOK'
  BY <1>1, <1>2 DEF MeshTypeOK, Works
<1>4. CallsAreFounded'
  BY DEF CallsAreFounded
<1>5. \A d \in Cells : Pending(d)' <=> d = c
  BY MeshAssumption DEF Pending
<1>6. \A d \in Cells : d # c => ~Pending(d) /\ Look(d)' = Look(d) /\ Held(d)' = Held(d)
  <2>1. \A x \in MapBlocks : x # b => map'[x] = map[x]
    BY DEF MeshTypeOK
  <2>2. QED
    BY <2>1 DEF Look, Held, InCell, Pending
<1>7. \A d \in Cells : ToCopy(d)' <=> d = c \/ ToCopy(d)
  BY <1>5, <1>6 DEF ToCopy, Queued, IsAt, Pending
<1>8. TasksHoldBlocks'
  BY <1>5, <1>6 DEF TasksHoldBlocks, IsAt, Queued
<1>9. CopiesAreNew'
  BY <1>6, <1>7 DEF CopiesAreNew, IsAt
<1>10. OvertakenIsNoted'
  BY DEF OvertakenIsNoted, Has
<1>11. MadeIsDrawn'
  <2>1. \A d \in Cells : d # c => (WillBeDrawn(d)' <=> WillBeDrawn(d))
    BY <1>6 DEF WillBeDrawn, LastIs, Has
  <2>2. QED
    BY <1>7, <2>1 DEF MadeIsDrawn, IsAt
<1>12. QED
  BY <1>2, <1>3, <1>4, <1>8, <1>9, <1>10, <1>11

LEMMA UpdatesKeepInv ==
    ASSUME MeshInv, NEW b \in MapBlocks, ReceiveBlock(b) \/ ChangeNode(b) \/ Crack(b)
    PROVE  MeshInv'
<1>1. /\ map \in [MapBlocks -> Nat] /\ updates \in Nat
      /\ unacked \in [MapBlocks -> Int]
  BY MeshAssumption DEF MeshInv, MeshTypeOK, Version
<1>2. CASE ReceiveBlock(b)
  <2>1. /\ calls' = WithEdge(b, TRUE, FALSE) /\ calls = <<>> /\ updates > 0
        /\ updates' = updates - 1 /\ map' = [map EXCEPT ![b] = @ + 1]
        /\ unacked' \in [MapBlocks -> Int]
        /\ UNCHANGED <<main, toAck, mesh, queueVars, resultVars, posted, worker>>
    BY <1>1, <1>2 DEF ReceiveBlock, Free
  <2>2. map'[b] > 0
    BY <1>1, <2>1
  <2>3. /\ calls' \in Seq(Calls) /\ Len(calls') >= 1
        /\ calls'[1].b = b /\ ~calls'[1].neighbor
        /\ \A i \in 2 .. Len(calls') : calls'[i].neighbor
    BY <2>1, EdgeStarts, Zenon
  <2>4. QED
    BY <2>1, <2>2, <2>3, Begins
<1>3. CASE ChangeNode(b)
  <2>1. /\ calls' = WithEdge(b, FALSE, TRUE) /\ calls = <<>> /\ updates > 0
        /\ updates' = updates - 1 /\ map' = [map EXCEPT ![b] = @ + 1]
        /\ unacked' \in [MapBlocks -> Int]
        /\ UNCHANGED <<main, toAck, mesh, queueVars, resultVars, posted, worker>>
    BY <1>1, <1>3 DEF ChangeNode, Free
  <2>2. map'[b] > 0
    BY <1>1, <2>1
  <2>3. /\ calls' \in Seq(Calls) /\ Len(calls') >= 1
        /\ calls'[1].b = b /\ ~calls'[1].neighbor
        /\ \A i \in 2 .. Len(calls') : calls'[i].neighbor
    BY <2>1, EdgeStarts, Zenon
  <2>4. QED
    BY <2>1, <2>2, <2>3, Begins
<1>4. CASE Crack(b)
  <2>1. /\ calls' = <<Call(b, FALSE, TRUE, FALSE)>> /\ calls = <<>> /\ updates > 0
        /\ updates' = updates - 1 /\ map' = map /\ map'[b] > 0
        /\ unacked' \in [MapBlocks -> Int]
        /\ UNCHANGED <<main, toAck, mesh, queueVars, resultVars, posted, worker>>
    BY <1>1, <1>4 DEF Crack, Free
  <2>2. /\ calls' \in Seq(Calls) /\ Len(calls') >= 1
        /\ calls'[1].b = b /\ ~calls'[1].neighbor
        /\ \A i \in 2 .. Len(calls') : calls'[i].neighbor
    BY <2>1 DEF Call, Calls
  <2>3. QED
    BY <2>1, <2>2, Begins
<1>5. QED
  BY <1>2, <1>3, <1>4

\* What addBlock does to the queue: the update of the cell, if there is one then, gets all
\* blocks the client has, and there is one then unless the call is about a neighbour.
LEMMA Queues ==
    ASSUME MeshInv, NEW call \in Calls, addBlock(call), ~call.neighbor => map[call.b] > 0
    PROVE  /\ queue' \in Seq(Task) /\ urgents' \subseteq Cells
           /\ \A i, j \in DOMAIN queue' : queue'[i].p = queue'[j].p => i = j
           /\ \A d \in Cells : Queued(d) # {} => Queued(d)' # {}
           /\ ~call.neighbor => Queued(MeshPos[call.b])' # {}
           /\ \/ queue' = queue /\ call.neighbor
              \/ \A i \in DOMAIN queue' :
                    \/ queue'[i].p = MeshPos[call.b] /\ Held(MeshPos[call.b]) \subseteq queue'[i].blocks
                    \/ i \in DOMAIN queue /\ queue'[i] = queue[i] /\ queue[i].p # MeshPos[call.b]
<1> DEFINE c == MeshPos[call.b]
           acks == IF call.ack THEN One(call.b) ELSE NoAcks
           marked == IF call.urgent THEN urgents \union {c} ELSE urgents
           new == [p |-> c, acks |-> acks, urgent |-> call.urgent, blocks |-> Held(c)]
           more(q) == [p |-> c, acks |-> Plus(q.acks, acks), urgent |-> q.urgent \/ call.urgent,
                       blocks |-> q.blocks \union Held(c)]
<1>1. /\ call.b \in MapBlocks /\ call.ack \in BOOLEAN /\ call.urgent \in BOOLEAN
      /\ call.neighbor \in BOOLEAN /\ c \in Cells
  BY MeshAssumption DEF Calls
<1>2. /\ queue \in Seq(Task) /\ urgents \subseteq Cells /\ map \in [MapBlocks -> Nat]
      /\ \A i, j \in DOMAIN queue : queue[i].p = queue[j].p => i = j
  BY MeshAssumption DEF MeshInv, MeshTypeOK, Version
<1>3. acks \in Acks /\ Held(c) \subseteq MapBlocks /\ marked \subseteq Cells
  BY <1>1, <1>2 DEF Acks, NoAcks, One, Held, InCell
<1> HIDE DEF c, acks, marked
<1>4. CASE map[call.b] = 0
  <2>1. queue' = queue /\ urgents' = urgents /\ call.neighbor
    BY <1>4 DEF addBlock
  <2>2. \A d \in Cells : Queued(d)' = Queued(d)
    BY <2>1 DEF Queued
  <2>3. QED
    BY <1>2, <2>1, <2>2
<1>5. CASE map[call.b] # 0 /\ Queued(c) # {}
  <2>1. /\ queue' = [i \in DOMAIN queue |-> IF queue[i].p # c THEN queue[i] ELSE more(queue[i])]
        /\ urgents' = marked
    BY <1>5 DEF addBlock, c, acks, marked
  <2>2. /\ DOMAIN queue' = DOMAIN queue
        /\ \A i \in DOMAIN queue : queue'[i] = IF queue[i].p # c THEN queue[i] ELSE more(queue[i])
    BY <2>1
  <2>3. \A q \in Task : more(q) \in Task
    BY <1>1, <1>3 DEF Task, Acks, Plus
  <2>4. queue' \in Seq(Task)
    <3>1. /\ Len(queue) \in Nat /\ DOMAIN queue = 1 .. Len(queue)
          /\ \A i \in DOMAIN queue : queue[i] \in Task
      BY <1>2
    <3>2. queue' \in [1 .. Len(queue) -> Task]
      BY <2>1, <2>3, <3>1
    <3>3. QED
      BY <3>1, <3>2
  <2>5. \A i \in DOMAIN queue : queue'[i].p = queue[i].p
    BY <2>2
  <2>6. \A d \in Cells : Queued(d)' = Queued(d)
    BY <2>2, <2>5 DEF Queued
  <2>7. \A i \in DOMAIN queue' :
            \/ queue'[i].p = c /\ Held(c) \subseteq queue'[i].blocks
            \/ i \in DOMAIN queue /\ queue'[i] = queue[i] /\ queue[i].p # c
    BY <2>2
  <2>8. QED
    BY <1>1, <1>2, <1>3, <1>5, <2>1, <2>2, <2>4, <2>5, <2>6, <2>7 DEF c
<1>6. CASE map[call.b] # 0 /\ Queued(c) = {} /\ queue' = queue
  <2>1. call.neighbor /\ urgents' \subseteq Cells
    <3>1. \/ queue' = Append(queue, new)
          \/ call.neighbor /\ urgents' = urgents \ {c}
      BY <1>6 DEF addBlock, c, acks, marked
    <3>2. queue' # Append(queue, new)
      BY <1>2, <1>6
    <3>3. QED
      BY <1>2, <3>1, <3>2
  <2>2. \A d \in Cells : Queued(d)' = Queued(d)
    BY <1>6 DEF Queued
  <2>3. QED
    BY <1>2, <1>6, <2>1, <2>2
<1>7. CASE map[call.b] # 0 /\ Queued(c) = {} /\ queue' # queue
  <2>1. queue' = Append(queue, new) /\ urgents' = marked
    BY <1>7 DEF addBlock, c, acks, marked
  <2>2. new \in Task /\ new.p = c /\ new.blocks = Held(c)
    BY <1>1, <1>3 DEF Task
  <2> HIDE DEF new
  <2>3. /\ queue' \in Seq(Task) /\ Len(queue) \in Nat
        /\ DOMAIN queue = 1 .. Len(queue) /\ DOMAIN queue' = 1 .. Len(queue) + 1
        /\ \A i \in DOMAIN queue : queue'[i] = queue[i]
        /\ queue'[Len(queue) + 1] = new
    BY <1>2, <2>1, <2>2
  <2>4. \A i \in DOMAIN queue : queue[i].p # c
    BY <1>7 DEF Queued
  <2>5. \A i \in DOMAIN queue' : i \in DOMAIN queue \/ i = Len(queue) + 1
    BY <2>3
  <2>6. \A i, j \in DOMAIN queue' : queue'[i].p = queue'[j].p => i = j
    BY <1>2, <2>2, <2>3, <2>4, <2>5
  <2>7. \A d \in Cells : Queued(d) # {} => Queued(d)' # {}
    BY <2>3 DEF Queued
  <2>8. Queued(c)' # {}
    <3>1. Len(queue) + 1 \in Queued(c)'
      BY <2>2, <2>3 DEF Queued
    <3>2. QED
      BY <3>1
  <2>9. \A i \in DOMAIN queue' :
            \/ queue'[i].p = c /\ Held(c) \subseteq queue'[i].blocks
            \/ i \in DOMAIN queue /\ queue'[i] = queue[i] /\ queue[i].p # c
    BY <2>2, <2>3, <2>4, <2>5
  <2>10. QED
    BY <1>3, <2>1, <2>3, <2>6, <2>7, <2>8, <2>9 DEF c
<1>8. QED
  BY <1>4, <1>5, <1>6, <1>7

LEMMA AddBlockKeepsInv ==
    ASSUME MeshInv, AddBlock
    PROVE  MeshInv'
<1>0. PICK call : call = Head(calls)
  OBVIOUS
<1>1. /\ calls \in Seq(Calls) /\ calls # <<>> /\ addBlock(call) /\ calls' = Tail(calls)
      /\ UNCHANGED <<map, main, toAck, mesh, unacked, updates, inflight, resultVars, worker>>
  BY <1>0 DEF AddBlock, MeshInv, MeshTypeOK
<1>2. /\ call \in Calls /\ calls' \in Seq(Calls) /\ 1 \in DOMAIN calls /\ call = calls[1]
      /\ \A i \in DOMAIN calls' : i + 1 \in DOMAIN calls /\ calls'[i] = calls[i + 1]
      /\ \A i \in DOMAIN calls : i = 1 \/ (i - 1 \in DOMAIN calls' /\ calls[i] = calls'[i - 1])
  BY <1>0, <1>1
<1>3. PICK c \in Cells : c = MeshPos[call.b]
  BY <1>2, MeshAssumption DEF Calls
<1>4. ~call.neighbor => map[call.b] > 0
  BY <1>2 DEF MeshInv, CallsAreFounded
<1>5. /\ queue' \in Seq(Task) /\ urgents' \subseteq Cells
      /\ \A i, j \in DOMAIN queue' : queue'[i].p = queue'[j].p => i = j
      /\ \A d \in Cells : Queued(d) # {} => Queued(d)' # {}
      /\ ~call.neighbor => Queued(c)' # {}
      /\ \/ queue' = queue /\ call.neighbor
         \/ \A i \in DOMAIN queue' :
               \/ queue'[i].p = c /\ Held(c) \subseteq queue'[i].blocks
               \/ i \in DOMAIN queue /\ queue'[i] = queue[i] /\ queue[i].p # c
  BY <1>1, <1>2, <1>3, <1>4, Queues
<1>6. \A d \in Cells : Pending(d) => Pending(d)' \/ (d = c /\ ~call.neighbor)
  <2> SUFFICES ASSUME NEW d \in Cells, NEW i \in DOMAIN calls,
                      ~calls[i].neighbor, MeshPos[calls[i].b] = d
               PROVE  Pending(d)' \/ (d = c /\ ~call.neighbor)
    BY DEF Pending
  <2>1. CASE i = 1
    BY <1>2, <1>3, <2>1
  <2>2. CASE i - 1 \in DOMAIN calls' /\ calls[i] = calls'[i - 1]
    BY <2>2 DEF Pending
  <2>3. QED
    BY <1>2, <2>1, <2>2
<1>7. \A d \in Cells : /\ Held(d)' = Held(d) /\ Look(d)' = Look(d)
                       /\ \A w \in Workers : \A place \in {"copy", "make"} :
                             IsAt(w, place, d)' <=> IsAt(w, place, d)
  BY <1>1 DEF Held, Look, InCell, IsAt
<1>8. \A d \in Cells : ToCopy(d) => ToCopy(d)'
  <2> SUFFICES ASSUME NEW d \in Cells, ToCopy(d) PROVE ToCopy(d)'
    OBVIOUS
  <2>1. CASE Pending(d)
    BY <1>5, <1>6, <2>1 DEF ToCopy, Queued
  <2>2. CASE Queued(d) # {}
    BY <1>5, <2>2 DEF ToCopy
  <2>3. CASE \E w \in Workers : IsAt(w, "copy", d)
    BY <1>1, <2>3 DEF ToCopy, IsAt
  <2>4. QED
    BY <2>1, <2>2, <2>3 DEF ToCopy
<1>9. MeshTypeOK'
  <2>1. posted' \in [Workers -> BOOLEAN]
    BY DEF AddBlock, MeshInv, MeshTypeOK
  <2>2. QED
    BY <1>1, <1>2, <1>5, <2>1 DEF MeshInv, MeshTypeOK, Works, resultVars
<1>10. UpdatesLeft'
  BY <1>1 DEF MeshInv, UpdatesLeft
<1>11. CallsAreFounded'
  BY <1>1, <1>2 DEF MeshInv, CallsAreFounded
<1>12. TasksHoldBlocks'
  <2> SUFFICES ASSUME NEW d \in Cells, ~Pending(d)'
               PROVE  /\ \A i \in DOMAIN queue' :
                            queue'[i].p = d => Held(d) \subseteq queue'[i].blocks
                      /\ Queued(d)' = {} => \A w \in Workers : IsAt(w, "copy", d) =>
                            Held(d) \subseteq worker[w].task.blocks
    BY <1>1, <1>7 DEF TasksHoldBlocks
  <2>1. CASE Pending(d)
    <3>1. d = c /\ ~call.neighbor
      BY <1>6, <2>1
    <3>2. Queued(d)' # {}
      BY <1>5, <3>1 DEF Queued
    <3>3. QED
      BY <1>5, <3>1, <3>2
  <2>2. CASE ~Pending(d)
    <3>1. /\ \A i \in DOMAIN queue : queue[i].p = d => Held(d) \subseteq queue[i].blocks
          /\ Queued(d) = {} => \A w \in Workers : IsAt(w, "copy", d) =>
                Held(d) \subseteq worker[w].task.blocks
      BY <2>2 DEF MeshInv, TasksHoldBlocks
    <3>2. QED
      BY <1>5, <3>1
  <2>3. QED
    BY <2>1, <2>2
<1>13. CopiesAreNew'
  BY <1>1, <1>7, <1>8 DEF MeshInv, CopiesAreNew
<1>14. OvertakenIsNoted'
  BY <1>1 DEF MeshInv, OvertakenIsNoted, Has, resultVars
<1>15. MadeIsDrawn'
  <2>1. \A d \in Cells : WillBeDrawn(d) => WillBeDrawn(d)'
    BY <1>1, <1>7 DEF WillBeDrawn, LastIs, Has, resultVars
  <2>2. QED
    BY <1>1, <1>7, <1>8, <2>1 DEF MeshInv, MadeIsDrawn, resultVars
<1>16. QED
  BY <1>9, <1>10, <1>11, <1>12, <1>13, <1>14, <1>15 DEF MeshInv

-----------------------------------------------------------------------------
(* The threads.                                                            *)

LEMMA popKeepsInv ==
    ASSUME MeshInv, NEW w \in Workers, pop(w)
    PROVE  MeshInv'
<1>1. /\ queue \in Seq(Task) /\ urgents \subseteq Cells /\ inflight \subseteq Cells
      /\ DOMAIN worker = Workers
      /\ \A i, j \in DOMAIN queue : queue[i].p = queue[j].p => i = j
  BY DEF MeshInv, MeshTypeOK
<1>2. PICK i \in Ready : i = Min(Ready)
  <2>1. Ready \in SUBSET Nat /\ Ready # {}
    BY <1>1 DEF pop, Ready
  <2>2. QED
    BY <2>1, MinIn
<1>3. i \in 1 .. Len(queue) /\ Eligible(queue[i])
  BY <1>1, <1>2 DEF Ready
<1>4. PICK q \in Task : q = queue[i]
  BY <1>1, <1>3
<1>5. /\ worker[w].at = "pop" /\ q.p \in Cells /\ q.p \notin inflight
      /\ queue' = RemoveAt(queue, i) /\ urgents' = urgents \ {q.p}
      /\ inflight' = inflight \union {q.p}
      /\ worker' = [worker EXCEPT ![w] = [at |-> "copy", task |-> q, data |-> <<>>]]
      /\ UNCHANGED <<mainVars, resultVars, posted>>
  BY <1>2, <1>3, <1>4 DEF pop, Busy, Eligible, Task
<1>6. /\ queue' \in Seq(Task) /\ Len(queue') = Len(queue) - 1
      /\ \A k \in 1 .. Len(queue) - 1 : queue'[k] = IF k < i THEN queue[k] ELSE queue[k + 1]
  BY <1>1, <1>3, <1>5, RemoveAtIs
<1> DEFINE was(k) == IF k < i THEN k ELSE k + 1
           now(k) == IF k < i THEN k ELSE k - 1
<1>7. /\ \A k \in DOMAIN queue' : was(k) \in DOMAIN queue /\ was(k) # i /\ queue'[k] = queue[was(k)]
      /\ \A k, m \in DOMAIN queue' : was(k) = was(m) => k = m
      /\ \A k \in DOMAIN queue : k # i => now(k) \in DOMAIN queue' /\ was(now(k)) = k
  <2>1. PICK n \in Nat : n = Len(queue)
    BY <1>1
  <2>2. /\ DOMAIN queue = 1 .. n /\ DOMAIN queue' = 1 .. n - 1 /\ i \in 1 .. n
        /\ \A k \in 1 .. n - 1 : queue'[k] = IF k < i THEN queue[k] ELSE queue[k + 1]
    BY <1>1, <1>3, <1>6, <2>1
  <2>3. /\ \A k \in 1 .. n - 1 : was(k) \in 1 .. n /\ was(k) # i
        /\ \A k, m \in 1 .. n - 1 : was(k) = was(m) => k = m
        /\ \A k \in 1 .. n : k # i => now(k) \in 1 .. n - 1
    BY <2>2
  <2>4. \A k \in 1 .. n : k # i => was(now(k)) = k
    BY <2>2
  <2>5. \A k \in 1 .. n - 1 : queue'[k] = queue[was(k)]
    BY <2>2
  <2> HIDE DEF was, now
  <2>6. QED
    BY <2>2, <2>3, <2>4, <2>5
<1> HIDE DEF was, now
<1>8. \A k, m \in DOMAIN queue' : queue'[k].p = queue'[m].p => k = m
  BY <1>1, <1>7
<1>9. /\ \A k \in DOMAIN queue' : queue'[k].p # q.p
      /\ \A k \in DOMAIN queue : queue[k].p # q.p =>
            \E m \in DOMAIN queue' : queue'[m] = queue[k]
  BY <1>1, <1>3, <1>4, <1>7
<1>10. /\ worker'[w] = [at |-> "copy", task |-> q, data |-> <<>>]
       /\ \A v \in Workers : v # w => worker'[v] = worker[v]
       /\ DOMAIN worker' = Workers
  BY <1>1, <1>5
<1>11. \A d \in Cells : /\ Pending(d)' = Pending(d)
                        /\ Held(d)' = Held(d) /\ Look(d)' = Look(d)
                        /\ WillBeDrawn(d)' = WillBeDrawn(d)
  BY <1>5 DEF Pending, Held, Look, InCell, WillBeDrawn, LastIs, Has, mainVars, resultVars
<1>12. \A d \in Cells : ToCopy(d) => ToCopy(d)'
  <2> SUFFICES ASSUME NEW d \in Cells, ToCopy(d) PROVE ToCopy(d)'
    OBVIOUS
  <2>1. CASE Pending(d)
    BY <1>5, <2>1 DEF ToCopy, Pending, mainVars
  <2>2. CASE d = q.p
    <3>1. worker'[w].at = "copy" /\ worker'[w].task.p = d
      BY <1>10, <2>2
    <3>2. QED
      BY <3>1 DEF ToCopy, IsAt
  <2>3. CASE Queued(d) # {} /\ d # q.p
    <3>1. PICK k \in DOMAIN queue : queue[k].p = d
      BY <2>3 DEF Queued
    <3>2. PICK m \in DOMAIN queue' : queue'[m] = queue[k]
      BY <1>9, <2>3, <3>1
    <3>3. m \in Queued(d)'
      BY <3>1, <3>2 DEF Queued
    <3>4. QED
      BY <3>3 DEF ToCopy
  <2>4. CASE \E v \in Workers : IsAt(v, "copy", d)
    <3>1. PICK v \in Workers : worker[v].at = "copy" /\ worker[v].task.p = d
      BY <2>4 DEF IsAt
    <3>2. v # w
      BY <1>5, <3>1
    <3>3. worker'[v].at = "copy" /\ worker'[v].task.p = d
      BY <1>10, <3>1, <3>2
    <3>4. QED
      BY <3>3 DEF ToCopy, IsAt
  <2>5. QED
    BY <2>1, <2>2, <2>3, <2>4 DEF ToCopy
<1>13. MeshTypeOK'
  <2>1. \A v \in Workers : v # w =>
            /\ Works(v)' = Works(v)
            /\ Works(v) => worker[v].task.p \in inflight /\ worker[v].task.p # q.p
    BY <1>5, <1>10 DEF Works, MeshInv, MeshTypeOK
  <2>2. \A v \in Workers :
            /\ worker'[v].at \in {"idle", "pop", "copy", "make", "done"}
            /\ Works(v)' =>
                  /\ worker'[v] = [at |-> worker'[v].at, task |-> worker'[v].task,
                                  data |-> worker'[v].data]
                  /\ worker'[v].task \in Task /\ worker'[v].task.p \in inflight'
                  /\ worker'[v].at = "make" => worker'[v].data \in Looks
    <3> SUFFICES ASSUME NEW v \in Workers
                 PROVE  /\ worker'[v].at \in {"idle", "pop", "copy", "make", "done"}
                        /\ Works(v)' =>
                              /\ worker'[v] = [at |-> worker'[v].at, task |-> worker'[v].task,
                                              data |-> worker'[v].data]
                              /\ worker'[v].task \in Task /\ worker'[v].task.p \in inflight'
                              /\ worker'[v].at = "make" => worker'[v].data \in Looks
      OBVIOUS
    <3>1. CASE v = w
      BY <1>5, <1>10, <3>1
    <3>2. CASE v # w
      BY <1>5, <1>10, <2>1, <3>2 DEF MeshInv, MeshTypeOK
    <3>3. QED
      BY <3>1, <3>2
  <2>3. \A u, v \in Workers :
            Works(u)' /\ Works(v)' /\ worker'[u].task.p = worker'[v].task.p => u = v
    <3> SUFFICES ASSUME NEW u \in Workers, NEW v \in Workers, Works(u)', Works(v)',
                        worker'[u].task.p = worker'[v].task.p
                 PROVE  u = v
      OBVIOUS
    <3>1. CASE u # w /\ v # w
      BY <1>10, <2>1, <3>1 DEF MeshInv, MeshTypeOK
    <3>2. CASE u = w \/ v = w
      BY <1>10, <2>1, <3>2
    <3>3. QED
      BY <3>1, <3>2
  <2>4. Looks' = Looks /\ Version' = Version
    BY DEF Looks, Version, InCell
  <2>5. inflight' \subseteq Cells /\ urgents' \subseteq Cells
    BY <1>1, <1>5
  <2>6. QED
    BY <1>5, <1>6, <1>8, <1>10, <2>2, <2>3, <2>5
       DEF MeshInv, MeshTypeOK, mainVars, resultVars
<1>14. UpdatesLeft' /\ CallsAreFounded' /\ OvertakenIsNoted'
  BY <1>5 DEF MeshInv, UpdatesLeft, CallsAreFounded, OvertakenIsNoted, Has, mainVars, resultVars
<1>15. TasksHoldBlocks'
  <2> SUFFICES ASSUME NEW d \in Cells, ~Pending(d)
               PROVE  /\ \A k \in DOMAIN queue' :
                            queue'[k].p = d => Held(d) \subseteq queue'[k].blocks
                      /\ Queued(d)' = {} => \A v \in Workers : IsAt(v, "copy", d)' =>
                            Held(d) \subseteq worker'[v].task.blocks
    BY <1>11 DEF TasksHoldBlocks
  <2>1. /\ \A k \in DOMAIN queue : queue[k].p = d => Held(d) \subseteq queue[k].blocks
        /\ Queued(d) = {} => \A v \in Workers : IsAt(v, "copy", d) =>
              Held(d) \subseteq worker[v].task.blocks
    BY DEF MeshInv, TasksHoldBlocks
  <2>2. \A k \in DOMAIN queue' : queue'[k].p = d => Held(d) \subseteq queue'[k].blocks
    BY <1>7, <2>1
  <2>3. ASSUME Queued(d)' = {}, NEW v \in Workers, IsAt(v, "copy", d)'
        PROVE  Held(d) \subseteq worker'[v].task.blocks
    <3>1. CASE v = w
      <4>1. d = q.p /\ worker'[v].task = q
        BY <1>10, <2>3, <3>1 DEF IsAt
      <4>2. QED
        BY <1>3, <1>4, <2>1, <4>1
    <3>2. CASE v # w
      <4>1. worker'[v] = worker[v] /\ IsAt(v, "copy", d)
        BY <1>10, <2>3, <3>2 DEF IsAt
      <4>2. d \in inflight
        BY <4>1 DEF IsAt, MeshInv, MeshTypeOK, Works
      <4>3. d # q.p
        BY <1>5, <4>2
      <4>4. Queued(d) = {}
        BY <1>9, <2>3, <4>3 DEF Queued
      <4>5. QED
        BY <2>1, <4>1, <4>4
    <3>3. QED
      BY <3>1, <3>2
  <2>4. QED
    BY <2>2, <2>3
<1>16. \A d \in Cells : \A v \in Workers : IsAt(v, "make", d)' <=> IsAt(v, "make", d)
  <2> SUFFICES ASSUME NEW d \in Cells, NEW v \in Workers
               PROVE  IsAt(v, "make", d)' <=> IsAt(v, "make", d)
    OBVIOUS
  <2>1. CASE v = w
    BY <1>5, <1>10, <2>1 DEF IsAt
  <2>2. CASE v # w
    BY <1>10, <2>2 DEF IsAt
  <2>3. QED
    BY <2>1, <2>2
<1>17. CopiesAreNew'
  <2> SUFFICES ASSUME NEW d \in Cells, NEW v \in Workers, IsAt(v, "make", d)', ~ToCopy(d)'
               PROVE  worker'[v].data = Look(d)
    BY <1>11 DEF CopiesAreNew
  <2>1. IsAt(v, "make", d) /\ ~ToCopy(d) /\ v # w
    BY <1>5, <1>12, <1>16 DEF IsAt
  <2>2. QED
    BY <1>10, <2>1 DEF MeshInv, CopiesAreNew
<1>18. MadeIsDrawn'
  BY <1>5, <1>11, <1>12, <1>16 DEF MeshInv, MadeIsDrawn, resultVars
<1>19. QED
  BY <1>13, <1>14, <1>15, <1>17, <1>18 DEF MeshInv

\* A thread that works on nothing after the step.
LEMMA Rests ==
    ASSUME MeshInv, NEW w \in Workers,
           DOMAIN worker' = Workers,
           \A v \in Workers : v # w => worker'[v] = worker[v],
           worker'[w].at \in {"idle", "pop"},
           worker[w].at \in {"idle", "pop", "done"},
           posted' \in [Workers -> BOOLEAN],
           inflight' = inflight \ (IF Works(w) THEN {worker[w].task.p} ELSE {}),
           UNCHANGED <<mainVars, queue, urgents, resultVars>>
    PROVE  MeshInv'
<1>1. \A d \in Cells : /\ Pending(d)' = Pending(d) /\ Queued(d)' = Queued(d)
                       /\ Held(d)' = Held(d) /\ Look(d)' = Look(d)
                       /\ WillBeDrawn(d)' = WillBeDrawn(d)
  BY DEF Pending, Queued, Held, Look, InCell, WillBeDrawn, LastIs, Has, mainVars, resultVars
<1>2. ASSUME NEW d \in Cells, NEW v \in Workers
      PROVE  /\ IsAt(v, "make", d)' <=> IsAt(v, "make", d)
             /\ IsAt(v, "copy", d)' <=> IsAt(v, "copy", d)
  <2>1. CASE v = w
    BY <2>1 DEF IsAt
  <2>2. CASE v # w
    BY <2>2 DEF IsAt
  <2>3. QED
    BY <2>1, <2>2
<1>3. \A d \in Cells : ToCopy(d) <=> ToCopy(d)'
  <2> SUFFICES ASSUME NEW d \in Cells PROVE ToCopy(d) <=> ToCopy(d)'
    OBVIOUS
  <2>1. (\E v \in Workers : IsAt(v, "copy", d)) <=> (\E v \in Workers : IsAt(v, "copy", d)')
    BY <1>2
  <2>2. Pending(d)' = Pending(d) /\ Queued(d)' = Queued(d)
    BY <1>1
  <2>3. QED
    BY <2>1, <2>2 DEF ToCopy
<1>4. MeshTypeOK'
  <2>1. \A v \in Workers : Works(v)' => v # w /\ Works(v) /\ worker'[v] = worker[v]
    BY DEF Works
  <2>2. inflight' \subseteq Cells
    BY DEF MeshInv, MeshTypeOK
  <2>3. \A v \in Workers : Works(v)' => worker[v].task.p \in inflight'
    BY <2>1 DEF MeshInv, MeshTypeOK
  <2>4. \A v \in Workers : worker'[v].at \in {"idle", "pop", "copy", "make", "done"}
    BY DEF MeshInv, MeshTypeOK
  <2>5. QED
    BY <2>1, <2>2, <2>3, <2>4 DEF MeshInv, MeshTypeOK, mainVars, resultVars
<1>5. UpdatesLeft' /\ CallsAreFounded' /\ OvertakenIsNoted'
  BY DEF MeshInv, UpdatesLeft, CallsAreFounded, OvertakenIsNoted, Has, mainVars, resultVars
<1>6. \A d \in Cells : \A v \in Workers :
          IsAt(v, "make", d)' \/ IsAt(v, "copy", d)' => worker'[v] = worker[v]
  BY DEF IsAt
<1>7. TasksHoldBlocks'
  BY <1>1, <1>2, <1>6 DEF MeshInv, TasksHoldBlocks
<1>8. CopiesAreNew'
  BY <1>1, <1>2, <1>3, <1>6 DEF MeshInv, CopiesAreNew
<1>9. MadeIsDrawn'
  BY <1>1, <1>2, <1>3 DEF MeshInv, MadeIsDrawn, resultVars
<1>10. QED
  BY <1>4, <1>5, <1>7, <1>8, <1>9 DEF MeshInv

LEMMA IdleKeepsInv ==
    ASSUME MeshInv, NEW w \in Workers, Wake(w) \/ popNothing(w) \/ done(w)
    PROVE  MeshInv'
<1>1. DOMAIN worker = Workers /\ posted \in [Workers -> BOOLEAN]
  BY DEF MeshInv, MeshTypeOK
<1>2. Idle.at = "idle" /\ [Idle EXCEPT !.at = "pop"].at = "pop"
  BY DEF Idle
<1>3. CASE Wake(w)
  <2>1. /\ worker[w].at = "idle" /\ posted' \in [Workers -> BOOLEAN]
        /\ worker' = [worker EXCEPT ![w] = [Idle EXCEPT !.at = "pop"]]
        /\ UNCHANGED <<mainVars, queue, urgents, inflight, resultVars>>
    BY <1>1, <1>3 DEF Wake, Busy, queueVars
  <2>2. inflight' = inflight \ (IF Works(w) THEN {worker[w].task.p} ELSE {})
    BY <2>1 DEF Works
  <2>3. QED
    BY <1>1, <1>2, <2>1, <2>2, Rests
<1>4. CASE popNothing(w)
  <2>1. /\ worker[w].at = "pop" /\ worker' = [worker EXCEPT ![w] = Idle]
        /\ UNCHANGED <<mainVars, queue, urgents, inflight, resultVars, posted>>
    BY <1>4 DEF popNothing, Busy, queueVars
  <2>2. inflight' = inflight \ (IF Works(w) THEN {worker[w].task.p} ELSE {})
    BY <2>1 DEF Works
  <2>3. QED
    BY <1>1, <1>2, <2>1, <2>2, Rests
<1>5. CASE done(w)
  <2>1. /\ worker[w].at = "done" /\ inflight' = inflight \ {worker[w].task.p}
        /\ worker' = [worker EXCEPT ![w] = [Idle EXCEPT !.at = "pop"]]
        /\ UNCHANGED <<mainVars, queue, urgents, resultVars, posted>>
    BY <1>5 DEF done, Busy
  <2>2. inflight' = inflight \ (IF Works(w) THEN {worker[w].task.p} ELSE {})
    BY <2>1 DEF Works
  <2>3. QED
    BY <1>1, <1>2, <2>1, <2>2, Rests
<1>6. QED
  BY <1>3, <1>4, <1>5

LEMMA CopyKeepsInv ==
    ASSUME MeshInv, NEW w \in Workers, Copy(w)
    PROVE  MeshInv'
<1>1. DOMAIN worker = Workers /\ worker[w].at = "copy" /\ Works(w)
  BY DEF MeshInv, MeshTypeOK, Copy, Works
<1>2. PICK q \in Task : q = worker[w].task /\ q.p \in inflight
  BY <1>1 DEF MeshInv, MeshTypeOK
<1>3. PICK data : data = [b \in InCell(q.p) |-> IF b \in q.blocks THEN map[b] ELSE 0]
  OBVIOUS
<1>4. /\ worker'[w] = [at |-> "make", task |-> q, data |-> data]
      /\ \A v \in Workers : v # w => worker'[v] = worker[v]
      /\ DOMAIN worker' = Workers
      /\ UNCHANGED <<mainVars, queueVars, resultVars, posted>>
  BY <1>1, <1>2, <1>3 DEF Copy, Busy
<1>5. q.p \in Cells /\ data \in Looks
  <2>1. q.p \in Cells /\ map \in [MapBlocks -> Version] /\ 0 \in Version
    BY MeshAssumption DEF Task, MeshInv, MeshTypeOK, Version
  <2>2. data \in [InCell(q.p) -> Version]
    BY <1>3, <2>1 DEF InCell
  <2>3. QED
    BY <2>1, <2>2 DEF Looks
<1>6. \A d \in Cells : /\ Pending(d)' = Pending(d) /\ Queued(d)' = Queued(d)
                       /\ Held(d)' = Held(d) /\ Look(d)' = Look(d)
                       /\ WillBeDrawn(d)' = WillBeDrawn(d)
  BY <1>4 DEF Pending, Queued, Held, Look, InCell, WillBeDrawn, LastIs, Has, mainVars,
              queueVars, resultVars
<1>7. \A v \in Workers :
          /\ Works(v)' <=> Works(v)
          /\ worker'[v].task = worker[v].task
  BY <1>1, <1>2, <1>4 DEF Works
<1>8. MeshTypeOK'
  <2>1. \A v \in Workers :
            /\ worker'[v].at \in {"idle", "pop", "copy", "make", "done"}
            /\ Works(v)' =>
                  /\ worker'[v] = [at |-> worker'[v].at, task |-> worker'[v].task,
                                  data |-> worker'[v].data]
                  /\ worker'[v].task \in Task /\ worker'[v].task.p \in inflight
                  /\ worker'[v].at = "make" => worker'[v].data \in Looks
    <3> SUFFICES ASSUME NEW v \in Workers
                 PROVE  /\ worker'[v].at \in {"idle", "pop", "copy", "make", "done"}
                        /\ Works(v)' =>
                              /\ worker'[v] = [at |-> worker'[v].at, task |-> worker'[v].task,
                                              data |-> worker'[v].data]
                              /\ worker'[v].task \in Task /\ worker'[v].task.p \in inflight
                              /\ worker'[v].at = "make" => worker'[v].data \in Looks
      OBVIOUS
    <3>1. CASE v = w
      BY <1>2, <1>4, <1>5, <3>1
    <3>2. CASE v # w
      BY <1>4, <1>7, <3>2 DEF MeshInv, MeshTypeOK
    <3>3. QED
      BY <3>1, <3>2
  <2>2. \A u, v \in Workers :
            Works(u)' /\ Works(v)' /\ worker'[u].task.p = worker'[v].task.p => u = v
    BY <1>7 DEF MeshInv, MeshTypeOK
  <2>3. QED
    BY <1>4, <2>1, <2>2 DEF MeshInv, MeshTypeOK, mainVars, queueVars, resultVars
<1>9. UpdatesLeft' /\ CallsAreFounded' /\ OvertakenIsNoted'
  BY <1>4 DEF MeshInv, UpdatesLeft, CallsAreFounded, OvertakenIsNoted, Has, mainVars, resultVars
<1>10. \A d \in Cells : \A v \in Workers : IsAt(v, "copy", d)' =>
           IsAt(v, "copy", d) /\ worker'[v] = worker[v]
  BY <1>4 DEF IsAt
<1>11. \A d \in Cells : d # q.p => (ToCopy(d)' <=> ToCopy(d))
  <2> SUFFICES ASSUME NEW d \in Cells, d # q.p PROVE ToCopy(d)' <=> ToCopy(d)
    OBVIOUS
  <2>1. \A v \in Workers : IsAt(v, "copy", d)' <=> IsAt(v, "copy", d)
    BY <1>2, <1>4, <1>10 DEF IsAt
  <2>2. (\E v \in Workers : IsAt(v, "copy", d)) <=> (\E v \in Workers : IsAt(v, "copy", d)')
    BY <2>1
  <2>3. Pending(d)' = Pending(d) /\ Queued(d)' = Queued(d)
    BY <1>6
  <2>4. QED
    BY <2>2, <2>3 DEF ToCopy
<1>12. TasksHoldBlocks'
  BY <1>4, <1>6, <1>10 DEF MeshInv, TasksHoldBlocks, queueVars
<1>13. CopiesAreNew'
  <2> SUFFICES ASSUME NEW d \in Cells, NEW v \in Workers, IsAt(v, "make", d)', ~ToCopy(d)'
               PROVE  worker'[v].data = Look(d)
    BY <1>6 DEF CopiesAreNew
  <2>1. ~Pending(d) /\ Queued(d) = {}
    BY <1>6 DEF ToCopy
  <2>2. CASE v = w
    <3>1. d = q.p /\ worker'[v].data = data
      BY <1>4, <2>2 DEF IsAt
    <3>2. Held(d) \subseteq q.blocks
      BY <1>1, <1>2, <2>1, <3>1 DEF MeshInv, TasksHoldBlocks, IsAt
    <3>3. \A b \in InCell(d) : b \in q.blocks \/ map[b] = 0
      BY <3>2 DEF Held, InCell, MeshInv, MeshTypeOK, Version
    <3>4. data = Look(d)
      BY <1>3, <3>1, <3>3 DEF Look
    <3>5. QED
      BY <3>1, <3>4
  <2>3. CASE v # w
    <3>1. worker'[v] = worker[v] /\ IsAt(v, "make", d) /\ Works(v)
      BY <1>4, <2>3 DEF IsAt, Works
    <3>2. d # q.p
      BY <1>1, <1>2, <2>3, <3>1 DEF IsAt, MeshInv, MeshTypeOK
    <3>3. ~ToCopy(d)
      BY <1>11, <3>2
    <3>4. QED
      BY <3>1, <3>3 DEF MeshInv, CopiesAreNew
  <2>4. QED
    BY <2>2, <2>3
<1>14. MadeIsDrawn'
  <2> SUFFICES ASSUME NEW d \in Cells, d \notin overtaken, ~ToCopy(d)',
                      \A v \in Workers : ~IsAt(v, "make", d)'
               PROVE  WillBeDrawn(d)
    BY <1>4, <1>6 DEF MadeIsDrawn, resultVars
  <2>1. d # q.p
    BY <1>4 DEF IsAt
  <2>2. \A v \in Workers : ~IsAt(v, "make", d)
    <3> SUFFICES ASSUME NEW v \in Workers, IsAt(v, "make", d) PROVE IsAt(v, "make", d)'
      OBVIOUS
    <3>1. v # w
      BY <1>1 DEF IsAt
    <3>2. QED
      BY <1>4, <3>1 DEF IsAt
  <2>3. QED
    BY <1>11, <2>1, <2>2 DEF MeshInv, MadeIsDrawn
<1>15. QED
  BY <1>8, <1>9, <1>12, <1>13, <1>14 DEF MeshInv

-----------------------------------------------------------------------------
(* The queues of results.                                                  *)

LEMMA LookIsLook ==
    ASSUME MeshTypeOK, NEW d \in Cells
    PROVE  Look(d) \in Looks
<1>1. Look(d) \in [InCell(d) -> Version]
  BY DEF MeshTypeOK, Look, InCell
<1>2. QED
  BY <1>1 DEF Looks

LEMMA AppendedIsLast ==
    ASSUME NEW s \in Seq(Result), NEW r \in Result, NEW d \in Cells, NEW look \in Looks
    PROVE  /\ Append(s, r) \in Seq(Result)
           /\ Has(Append(s, r), d) <=> Has(s, d) \/ r.p = d
           /\ r.p = d => (LastIs(Append(s, r), d, look) <=> r.data = look)
           /\ r.p # d => (LastIs(Append(s, r), d, look) <=> LastIs(s, d, look))
<1>1. PICK n \in Nat : n = Len(s)
  OBVIOUS
<1>2. PICK a : a = Append(s, r)
  OBVIOUS
<1>3. /\ a \in Seq(Result) /\ DOMAIN s = 1 .. n /\ DOMAIN a = 1 .. n + 1
      /\ a[n + 1] = r /\ \A i \in 1 .. n : a[i] = s[i]
  BY <1>1, <1>2
<1>4. \A i \in 1 .. n + 1 : i \in 1 .. n \/ i = n + 1
  BY <1>1
<1>5. n + 1 \in 1 .. n + 1 /\ \A i \in 1 .. n : i \in 1 .. n + 1 /\ i <= n + 1 /\ i # n + 1
  BY <1>1
<1>6. Has(a, d) <=> Has(s, d) \/ r.p = d
  BY <1>3, <1>4, <1>5 DEF Has
<1>7. ASSUME r.p = d PROVE LastIs(a, d, look) <=> r.data = look
  <2>1. \A i \in 1 .. n + 1 :
            (a[i].p = d /\ \A j \in 1 .. n + 1 : a[j].p = d => j <= i) <=> i = n + 1
    <3> SUFFICES ASSUME NEW i \in 1 .. n + 1
                 PROVE (a[i].p = d /\ \A j \in 1 .. n + 1 : a[j].p = d => j <= i) <=> i = n + 1
      OBVIOUS
    <3>1. ASSUME \A j \in 1 .. n + 1 : a[j].p = d => j <= i PROVE i = n + 1
      BY <1>1, <1>3, <1>5, <1>7, <3>1
    <3>2. ASSUME i = n + 1 PROVE a[i].p = d /\ \A j \in 1 .. n + 1 : j <= i
      BY <1>1, <1>3, <1>7, <3>2
    <3>3. QED
      BY <3>1, <3>2
  <2>2. QED
    BY <1>3, <1>5, <2>1 DEF LastIs
<1>8. ASSUME r.p # d PROVE LastIs(a, d, look) <=> LastIs(s, d, look)
  <2>1. \A i \in 1 .. n + 1 : a[i].p = d => i \in 1 .. n
    BY <1>3, <1>4, <1>8
  <2>2. ASSUME NEW i \in 1 .. n
        PROVE  (\A j \in 1 .. n + 1 : a[j].p = d => j <= i)
                 <=> (\A j \in 1 .. n : s[j].p = d => j <= i)
    BY <1>3, <1>5, <2>1
  <2>3. QED
    BY <1>3, <1>5, <2>1, <2>2 DEF LastIs
<1>9. QED
  BY <1>2, <1>3, <1>6, <1>7, <1>8

LEMMA TailKeepsLast ==
    ASSUME NEW s \in Seq(Result), s # <<>>, NEW d \in Cells, NEW look \in Looks
    PROVE  /\ Head(s) \in Result /\ Tail(s) \in Seq(Result)
           /\ Has(Tail(s), d) => Has(s, d)
           /\ LastIs(s, d, look) => LastIs(Tail(s), d, look)
           /\ Has(s, d) /\ ~Has(Tail(s), d) => Head(s).p = d
           /\ Head(s).p = d /\ ~Has(Tail(s), d) /\ LastIs(s, d, look) => Head(s).data = look
<1>1. PICK n \in Nat : n = Len(s)
  OBVIOUS
<1>2. PICK z : z = Tail(s)
  OBVIOUS
<1>3. /\ z \in Seq(Result) /\ Head(s) \in Result /\ Head(s) = s[1]
      /\ n >= 1 /\ DOMAIN s = 1 .. n /\ DOMAIN z = 1 .. n - 1
      /\ \A i \in 1 .. n - 1 : z[i] = s[i + 1]
  BY <1>1, <1>2
<1>4. /\ \A i \in 1 .. n - 1 : i + 1 \in 1 .. n
      /\ \A i \in 1 .. n : i = 1 \/ (i - 1 \in 1 .. n - 1 /\ s[i] = z[i - 1])
      /\ 1 \in 1 .. n
  BY <1>1, <1>3
<1>5. Has(z, d) => Has(s, d)
  BY <1>3, <1>4 DEF Has
<1>6. ASSUME LastIs(s, d, look) PROVE LastIs(z, d, look)
  <2> SUFFICES ASSUME NEW i \in 1 .. n - 1, z[i].p = d,
                      \A j \in 1 .. n - 1 : z[j].p = d => j <= i
               PROVE  z[i].data = look
    BY <1>3 DEF LastIs
  <2>1. i + 1 \in 1 .. n /\ s[i + 1] = z[i]
    BY <1>3, <1>4
  <2>2. \A j \in 1 .. n : s[j].p = d => j <= i + 1
    <3> SUFFICES ASSUME NEW j \in 1 .. n, s[j].p = d PROVE j <= i + 1
      OBVIOUS
    <3>1. CASE j = 1
      BY <3>1
    <3>2. CASE j - 1 \in 1 .. n - 1 /\ s[j] = z[j - 1]
      <4>1. j - 1 <= i
        BY <3>2
      <4>2. QED
        BY <1>1, <4>1
    <3>3. QED
      BY <1>4, <3>1, <3>2
  <2>3. s[i + 1].data = look
    BY <1>3, <1>6, <2>1, <2>2 DEF LastIs
  <2>4. QED
    BY <2>1, <2>3
<1>7. ASSUME Has(s, d), ~Has(z, d) PROVE Head(s).p = d
  <2>1. PICK i \in 1 .. n : s[i].p = d
    BY <1>3, <1>7 DEF Has
  <2>2. \A j \in 1 .. n - 1 : z[j].p # d
    BY <1>3, <1>7 DEF Has
  <2>3. i = 1
    BY <1>4, <2>1, <2>2
  <2>4. QED
    BY <1>3, <2>1, <2>3
<1>8. ASSUME Head(s).p = d, ~Has(z, d), LastIs(s, d, look) PROVE Head(s).data = look
  <2>0. \A j \in 1 .. n - 1 : z[j].p # d
    BY <1>3, <1>8 DEF Has
  <2>1. \A j \in 1 .. n : s[j].p = d => j = 1
    BY <1>4, <2>0
  <2>2. QED
    BY <1>3, <1>4, <1>8, <2>1 DEF LastIs
<1>9. QED
  BY <1>2, <1>3, <1>5, <1>6, <1>7, <1>8

LEMMA putResultKeepsInv ==
    ASSUME MeshInv, NEW w \in Workers, putResult(w)
    PROVE  MeshInv'
<1>1. /\ DOMAIN worker = Workers /\ worker[w].at = "make" /\ Works(w)
      /\ outUrgent \in Seq(Result) /\ outPlain \in Seq(Result)
  BY DEF MeshInv, MeshTypeOK, putResult, Works
<1>2. PICK q \in Task : q = worker[w].task /\ q.p \in inflight
  BY <1>1 DEF MeshInv, MeshTypeOK
<1>3. PICK data \in Looks : data = worker[w].data
  BY <1>1 DEF MeshInv, MeshTypeOK
<1>4. PICK r \in Result : r = [p |-> q.p, acks |-> q.acks, data |-> data]
  BY DEF Task, Result
<1>5. q.p \in Cells /\ r.p = q.p /\ r.data = data
  BY <1>4 DEF Task
<1>6. /\ worker'[w] = [worker[w] EXCEPT !.at = "done"]
      /\ \A v \in Workers : v # w => worker'[v] = worker[v]
      /\ DOMAIN worker' = Workers
      /\ UNCHANGED <<mainVars, queueVars, posted>>
  BY <1>1 DEF putResult
<1>7. worker[w] = [at |-> "make", task |-> q, data |-> data]
  BY <1>1, <1>2, <1>3 DEF MeshInv, MeshTypeOK
<1>8. worker'[w] = [at |-> "done", task |-> q, data |-> data]
  BY <1>6, <1>7
<1>9. \/ /\ outUrgent' = Append(outUrgent, r) /\ outPlain' = outPlain
         /\ q.p \in overtaken' \/ ~Has(outPlain, q.p)
      \/ /\ outPlain' = Append(outPlain, r) /\ outUrgent' = outUrgent
         /\ q.p \in overtaken' \/ ~Has(outUrgent, q.p)
  BY <1>2, <1>3, <1>4 DEF putResult
<1>10. /\ overtaken' \subseteq Cells
       /\ \A d \in Cells : d # q.p => (d \in overtaken' <=> d \in overtaken)
  <2>1. overtaken \subseteq Cells
    BY DEF MeshInv, MeshTypeOK
  <2>2. \/ overtaken' = overtaken \union {q.p}
        \/ overtaken' = overtaken
        \/ overtaken' = overtaken \ {q.p}
    BY <1>2 DEF putResult
  <2>3. QED
    BY <1>5, <2>1, <2>2
<1>11. \A d \in Cells : /\ Pending(d)' = Pending(d) /\ Queued(d)' = Queued(d)
                        /\ Held(d)' = Held(d) /\ Look(d)' = Look(d)
  BY <1>6 DEF Pending, Queued, Held, Look, InCell, mainVars, queueVars
<1>12. \A d \in Cells : \A v \in Workers :
           /\ IsAt(v, "copy", d)' <=> IsAt(v, "copy", d)
           /\ IsAt(v, "make", d)' <=> v # w /\ IsAt(v, "make", d)
           /\ IsAt(v, "copy", d)' \/ IsAt(v, "make", d)' => worker'[v] = worker[v]
  BY <1>6, <1>7, <1>8 DEF IsAt
<1>13. \A d \in Cells : ToCopy(d)' <=> ToCopy(d)
  <2> SUFFICES ASSUME NEW d \in Cells PROVE ToCopy(d)' <=> ToCopy(d)
    OBVIOUS
  <2>1. (\E v \in Workers : IsAt(v, "copy", d)) <=> (\E v \in Workers : IsAt(v, "copy", d)')
    BY <1>12
  <2>2. Pending(d)' = Pending(d) /\ Queued(d)' = Queued(d)
    BY <1>11
  <2>3. QED
    BY <2>1, <2>2 DEF ToCopy
<1>14. outUrgent' \in Seq(Result) /\ outPlain' \in Seq(Result)
  <2>1. Append(outUrgent, r) \in Seq(Result) /\ Append(outPlain, r) \in Seq(Result)
    BY <1>1
  <2>2. QED
    BY <1>1, <1>9, <2>1, Zenon
<1>15. MeshTypeOK'
  <2>1. \A v \in Workers :
            /\ Works(v)' <=> Works(v)
            /\ worker'[v].task = worker[v].task
    BY <1>1, <1>2, <1>6, <1>8 DEF Works
  <2>2. \A v \in Workers :
            /\ worker'[v].at \in {"idle", "pop", "copy", "make", "done"}
            /\ Works(v)' =>
                  /\ worker'[v] = [at |-> worker'[v].at, task |-> worker'[v].task,
                                  data |-> worker'[v].data]
                  /\ worker'[v].task \in Task /\ worker'[v].task.p \in inflight
                  /\ worker'[v].at = "make" => worker'[v].data \in Looks
    <3> SUFFICES ASSUME NEW v \in Workers
                 PROVE  /\ worker'[v].at \in {"idle", "pop", "copy", "make", "done"}
                        /\ Works(v)' =>
                              /\ worker'[v] = [at |-> worker'[v].at, task |-> worker'[v].task,
                                              data |-> worker'[v].data]
                              /\ worker'[v].task \in Task /\ worker'[v].task.p \in inflight
                              /\ worker'[v].at = "make" => worker'[v].data \in Looks
      OBVIOUS
    <3>1. CASE v = w
      BY <1>2, <1>8, <3>1
    <3>2. CASE v # w
      BY <1>6, <2>1, <3>2 DEF MeshInv, MeshTypeOK
    <3>3. QED
      BY <3>1, <3>2
  <2>3. \A u, v \in Workers :
            Works(u)' /\ Works(v)' /\ worker'[u].task.p = worker'[v].task.p => u = v
    BY <2>1 DEF MeshInv, MeshTypeOK
  <2>4. QED
    BY <1>6, <1>10, <1>14, <2>2, <2>3 DEF MeshInv, MeshTypeOK, mainVars, queueVars
<1>16. UpdatesLeft' /\ CallsAreFounded'
  BY <1>6 DEF MeshInv, UpdatesLeft, CallsAreFounded, mainVars
<1>17. TasksHoldBlocks'
  BY <1>6, <1>11, <1>12 DEF MeshInv, TasksHoldBlocks, queueVars
<1>18. CopiesAreNew'
  BY <1>11, <1>12, <1>13 DEF MeshInv, CopiesAreNew
<1>19. OvertakenIsNoted'
  <2> SUFFICES ASSUME NEW d \in Cells, d \notin overtaken'
               PROVE  ~Has(outUrgent', d) \/ ~Has(outPlain', d)
    BY DEF OvertakenIsNoted, Has
  <2>0. Look(d) \in Looks
    BY LookIsLook DEF MeshInv
  <2>1. CASE d = q.p
    BY <1>9, <2>1
  <2>2. CASE d # q.p
    <3>1. ~Has(outUrgent, d) \/ ~Has(outPlain, d)
      BY <1>10, <2>2 DEF MeshInv, OvertakenIsNoted
    <3>2. Has(outUrgent', d) <=> Has(outUrgent, d)
      <4>1. Has(Append(outUrgent, r), d) <=> Has(outUrgent, d)
        BY <1>1, <1>5, <2>2, <2>0, AppendedIsLast
      <4>2. outUrgent' = outUrgent \/ outUrgent' = Append(outUrgent, r)
        BY <1>9
      <4>3. QED
        BY <4>1, <4>2, Zenon
    <3>3. Has(outPlain', d) <=> Has(outPlain, d)
      <4>1. Has(Append(outPlain, r), d) <=> Has(outPlain, d)
        BY <1>1, <1>5, <2>2, <2>0, AppendedIsLast
      <4>2. outPlain' = outPlain \/ outPlain' = Append(outPlain, r)
        BY <1>9
      <4>3. QED
        BY <4>1, <4>2, Zenon
    <3>4. QED
      BY <3>1, <3>2, <3>3
  <2>3. QED
    BY <2>1, <2>2
<1>20. MadeIsDrawn'
  <2> SUFFICES ASSUME NEW d \in Cells, d \notin overtaken', ~ToCopy(d),
                      \A v \in Workers : ~IsAt(v, "make", d)'
               PROVE  WillBeDrawn(d)'
    BY <1>13 DEF MadeIsDrawn
  <2>1. /\ Look(d)' = Look(d) /\ mesh' = mesh
    BY <1>6, <1>11 DEF mainVars
  <2>0. Look(d) \in Looks
    BY LookIsLook DEF MeshInv
  <2>2. SUFFICES /\ LastIs(outUrgent', d, Look(d)) /\ LastIs(outPlain', d, Look(d))
                 /\ ~Has(outUrgent', d) /\ ~Has(outPlain', d) => mesh[d] = Look(d)
    BY <2>1 DEF WillBeDrawn, LastIs, Has
  <2>3. CASE d = q.p
    <3>1. r.data = Look(d)
      <4>1. IsAt(w, "make", d)
        BY <1>7, <2>3 DEF IsAt
      <4>2. QED
        BY <1>3, <1>5, <4>1 DEF MeshInv, CopiesAreNew
    <3>2. CASE outUrgent' = Append(outUrgent, r) /\ outPlain' = outPlain /\ ~Has(outPlain, d)
      <4>1. LastIs(outUrgent', d, Look(d)) /\ Has(outUrgent', d)
        BY <1>1, <1>5, <2>0, <2>3, <3>1, <3>2, AppendedIsLast
      <4>2. LastIs(outPlain', d, Look(d))
        BY <3>2 DEF LastIs, Has
      <4>3. QED
        BY <4>1, <4>2
    <3>3. CASE outPlain' = Append(outPlain, r) /\ outUrgent' = outUrgent /\ ~Has(outUrgent, d)
      <4>1. LastIs(outPlain', d, Look(d)) /\ Has(outPlain', d)
        BY <1>1, <1>5, <2>0, <2>3, <3>1, <3>3, AppendedIsLast
      <4>2. LastIs(outUrgent', d, Look(d))
        BY <3>3 DEF LastIs, Has
      <4>3. QED
        BY <4>1, <4>2
    <3>4. QED
      BY <1>9, <2>3, <3>2, <3>3
  <2>4. CASE d # q.p
    <3>1. d \notin overtaken /\ \A v \in Workers : ~IsAt(v, "make", d)
      <4>1. ~IsAt(w, "make", d)
        BY <1>7, <2>4 DEF IsAt
      <4>2. QED
        BY <1>10, <1>12, <2>4, <4>1
    <3>2. /\ LastIs(outUrgent, d, Look(d)) /\ LastIs(outPlain, d, Look(d))
          /\ ~Has(outUrgent, d) /\ ~Has(outPlain, d) => mesh[d] = Look(d)
      BY <3>1 DEF MeshInv, MadeIsDrawn, WillBeDrawn
    <3>3. /\ Has(outUrgent', d) <=> Has(outUrgent, d)
          /\ Has(outPlain', d) <=> Has(outPlain, d)
          /\ LastIs(outUrgent', d, Look(d)) <=> LastIs(outUrgent, d, Look(d))
          /\ LastIs(outPlain', d, Look(d)) <=> LastIs(outPlain, d, Look(d))
      <4>1. CASE outUrgent' = Append(outUrgent, r) /\ outPlain' = outPlain
        BY <1>1, <1>5, <2>0, <2>4, <4>1, AppendedIsLast
      <4>2. CASE outPlain' = Append(outPlain, r) /\ outUrgent' = outUrgent
        BY <1>1, <1>5, <2>0, <2>4, <4>2, AppendedIsLast
      <4>3. QED
        BY <1>9, <4>1, <4>2
    <3>4. QED
      BY <3>2, <3>3
  <2>5. QED
    BY <2>3, <2>4
<1>21. QED
  BY <1>15, <1>16, <1>17, <1>18, <1>19, <1>20 DEF MeshInv

-----------------------------------------------------------------------------
(* The main thread takes the results.                                      *)

\* A result is taken from one of the queues, or none.
LEMMA Takes ==
    ASSUME MeshInv, NEW r \in Result,
           \/ /\ outUrgent # <<>> /\ r = Head(outUrgent)
              /\ outUrgent' = Tail(outUrgent) /\ outPlain' = outPlain
           \/ /\ outPlain # <<>> /\ r = Head(outPlain)
              /\ outPlain' = Tail(outPlain) /\ outUrgent' = outUrgent,
           Replace(r),
           main' \in {"step", "urgent", "plain"},
           UNCHANGED <<map, calls, unacked, updates, queueVars, overtaken, posted, worker>>
    PROVE  MeshInv'
<1>1. /\ outUrgent \in Seq(Result) /\ outPlain \in Seq(Result)
      /\ mesh \in [Cells -> Looks] /\ toAck \in Acks
  BY DEF MeshInv, MeshTypeOK
<1>2. r.p \in Cells /\ r.acks \in Acks /\ r.data \in Looks
  BY DEF Result
<1>3. /\ outUrgent' \in Seq(Result) /\ outPlain' \in Seq(Result)
      /\ mesh' \in [Cells -> Looks] /\ toAck' \in Acks
  <2>1. mesh' = [mesh EXCEPT ![r.p] = r.data] /\ toAck' = Plus(toAck, r.acks)
    BY DEF Replace
  <2>2. mesh' \in [Cells -> Looks]
    BY <1>1, <1>2, <2>1
  <2>3. toAck' \in Acks
    BY <1>1, <1>2, <2>1 DEF Plus, Acks
  <2>4. outUrgent' \in Seq(Result) /\ outPlain' \in Seq(Result)
    <3>1. outUrgent # <<>> => Tail(outUrgent) \in Seq(Result)
      BY <1>1
    <3>2. outPlain # <<>> => Tail(outPlain) \in Seq(Result)
      BY <1>1
    <3>3. QED
      BY <1>1, <3>1, <3>2, Zenon
  <2>5. QED
    BY <2>2, <2>3, <2>4
<1>4. /\ Looks' = Looks
      /\ \A d \in Cells : /\ Pending(d)' = Pending(d) /\ Queued(d)' = Queued(d)
                          /\ Held(d)' = Held(d) /\ Look(d)' = Look(d)
                          /\ ToCopy(d)' = ToCopy(d)
                          /\ \A w \in Workers : IsAt(w, "make", d)' = IsAt(w, "make", d)
  BY DEF Pending, Queued, Held, Look, Looks, InCell, Version, ToCopy, IsAt, queueVars
<1>5. MeshTypeOK'
  BY <1>3, <1>4 DEF MeshInv, MeshTypeOK, Works, queueVars
<1>6. UpdatesLeft' /\ CallsAreFounded'
  BY DEF MeshInv, UpdatesLeft, CallsAreFounded
<1>7. TasksHoldBlocks' /\ CopiesAreNew'
  BY <1>4 DEF MeshInv, TasksHoldBlocks, CopiesAreNew, IsAt, queueVars
<1>8. ASSUME NEW d \in Cells
      PROVE  /\ Has(outUrgent', d) => Has(outUrgent, d)
             /\ Has(outPlain', d) => Has(outPlain, d)
             /\ LastIs(outUrgent, d, Look(d)) => LastIs(outUrgent', d, Look(d))
             /\ LastIs(outPlain, d, Look(d)) => LastIs(outPlain', d, Look(d))
             /\ ~Has(outUrgent', d) /\ ~Has(outPlain', d) =>
                   IF r.p = d
                   THEN LastIs(outUrgent, d, Look(d)) /\ LastIs(outPlain, d, Look(d)) =>
                            r.data = Look(d)
                   ELSE ~Has(outUrgent, d) /\ ~Has(outPlain, d)
  <2>1. Look(d) \in Looks
    BY LookIsLook DEF MeshInv
  <2>2. CASE /\ outUrgent # <<>> /\ r = Head(outUrgent)
             /\ outUrgent' = Tail(outUrgent) /\ outPlain' = outPlain
    BY <1>1, <2>1, <2>2, TailKeepsLast
  <2>3. CASE /\ outPlain # <<>> /\ r = Head(outPlain)
             /\ outPlain' = Tail(outPlain) /\ outUrgent' = outUrgent
    BY <1>1, <2>1, <2>3, TailKeepsLast
  <2>4. QED
    BY <2>2, <2>3
<1>9. OvertakenIsNoted'
  <2> SUFFICES ASSUME NEW d \in Cells, d \notin overtaken
               PROVE  ~Has(outUrgent', d) \/ ~Has(outPlain', d)
    BY DEF OvertakenIsNoted, Has
  <2>1. ~Has(outUrgent, d) \/ ~Has(outPlain, d)
    BY DEF MeshInv, OvertakenIsNoted
  <2>2. QED
    BY <1>8, <2>1
<1>10. MadeIsDrawn'
  <2> SUFFICES ASSUME NEW d \in Cells, d \notin overtaken, WillBeDrawn(d)
               PROVE  WillBeDrawn(d)'
    BY <1>4 DEF MeshInv, MadeIsDrawn
  <2>1. SUFFICES /\ LastIs(outUrgent', d, Look(d)) /\ LastIs(outPlain', d, Look(d))
                 /\ ~Has(outUrgent', d) /\ ~Has(outPlain', d) => mesh'[d] = Look(d)
    BY <1>4 DEF WillBeDrawn, LastIs, Has
  <2>2. /\ LastIs(outUrgent, d, Look(d)) /\ LastIs(outPlain, d, Look(d))
        /\ ~Has(outUrgent, d) /\ ~Has(outPlain, d) => mesh[d] = Look(d)
    BY DEF WillBeDrawn
  <2>3. ASSUME ~Has(outUrgent', d), ~Has(outPlain', d) PROVE mesh'[d] = Look(d)
    <3>1. CASE r.p = d
      <4>1. r.data = Look(d)
        BY <1>8, <2>2, <2>3, <3>1
      <4>2. QED
        BY <1>1, <3>1, <4>1 DEF Replace
    <3>2. CASE r.p # d
      <4>1. ~Has(outUrgent, d) /\ ~Has(outPlain, d)
        BY <1>8, <2>3, <3>2
      <4>2. QED
        BY <1>1, <2>2, <3>2, <4>1 DEF Replace
    <3>3. QED
      BY <3>1, <3>2
  <2>4. QED
    BY <1>8, <2>2, <2>3
<1>11. QED
  BY <1>5, <1>6, <1>7, <1>9, <1>10 DEF MeshInv

\* Neither blocks, updates nor results change.
LEMMA Proceeds ==
    ASSUME MeshInv, main' \in {"step", "urgent", "plain"},
           toAck' \in Acks, unacked' \in [MapBlocks -> Int],
           UNCHANGED <<map, calls, mesh, updates, queueVars, resultVars, posted, worker>>
    PROVE  MeshInv'
<1>1. MeshTypeOK'
  BY DEF MeshInv, MeshTypeOK, Works, queueVars, resultVars
<1>2. UpdatesLeft' /\ CallsAreFounded' /\ OvertakenIsNoted'
  BY DEF MeshInv, UpdatesLeft, CallsAreFounded, OvertakenIsNoted, Has, resultVars
<1>3. \A d \in Cells : /\ Pending(d)' = Pending(d) /\ Queued(d)' = Queued(d)
                       /\ Held(d)' = Held(d) /\ Look(d)' = Look(d)
                       /\ ToCopy(d)' = ToCopy(d) /\ WillBeDrawn(d)' = WillBeDrawn(d)
                       /\ \A w \in Workers : IsAt(w, "make", d)' = IsAt(w, "make", d)
  BY DEF Pending, Queued, Held, Look, InCell, ToCopy, IsAt, WillBeDrawn, LastIs, Has,
         queueVars, resultVars
<1>4. TasksHoldBlocks' /\ CopiesAreNew' /\ MadeIsDrawn'
  BY <1>3 DEF MeshInv, TasksHoldBlocks, CopiesAreNew, MadeIsDrawn, IsAt, queueVars, resultVars
<1>5. QED
  BY <1>1, <1>2, <1>4 DEF MeshInv

LEMMA ResultsKeepInv ==
    ASSUME MeshInv, StartReplacing \/ TakeUrgent \/ TakePlain \/ EndReplacing
    PROVE  MeshInv'
<1>1. /\ outUrgent \in Seq(Result) /\ outPlain \in Seq(Result)
      /\ toAck \in Acks /\ unacked \in [MapBlocks -> Int]
  BY DEF MeshInv, MeshTypeOK
<1>2. CASE StartReplacing
  BY <1>1, <1>2, Proceeds DEF StartReplacing
<1>3. CASE TakeUrgent
  <2>1. CASE outUrgent = <<>>
    BY <1>1, <1>3, <2>1, Proceeds DEF TakeUrgent, resultVars
  <2>2. CASE outUrgent # <<>>
    <3>1. PICK r \in Result : r = Head(outUrgent)
      BY <1>1, <2>2
    <3>2. /\ Replace(r) /\ outUrgent' = Tail(outUrgent) /\ outPlain' = outPlain
          /\ main' \in {"step", "urgent", "plain"}
          /\ UNCHANGED <<map, calls, unacked, updates, queueVars, overtaken, posted, worker>>
      BY <1>3, <2>2, <3>1 DEF TakeUrgent
    <3>3. QED
      BY <2>2, <3>1, <3>2, Takes
  <2>3. QED
    BY <2>1, <2>2
<1>4. CASE TakePlain
  <2>1. PICK r \in Result : r = Head(outPlain)
    BY <1>1, <1>4 DEF TakePlain
  <2>2. /\ Replace(r) /\ outPlain # <<>> /\ outPlain' = Tail(outPlain) /\ outUrgent' = outUrgent
        /\ main' \in {"step", "urgent", "plain"}
        /\ UNCHANGED <<map, calls, unacked, updates, queueVars, overtaken, posted, worker>>
    BY <1>4, <2>1 DEF TakePlain
  <2>3. QED
    BY <2>1, <2>2, Takes
<1>5. CASE EndReplacing
  <2>1. toAck' \in Acks /\ unacked' \in [MapBlocks -> Int]
    BY <1>1, <1>5 DEF EndReplacing, Acks, NoAcks
  <2>2. QED
    BY <1>5, <2>1, Proceeds DEF EndReplacing
<1>6. QED
  BY <1>2, <1>3, <1>4, <1>5

-----------------------------------------------------------------------------
(* The invariant, and what follows from it.                                *)

LEMMA MeshInvInitially == MeshInit => MeshInv
<1> SUFFICES ASSUME MeshInit PROVE MeshInv
  OBVIOUS
<1>1. map \in [MapBlocks -> Version] /\ UpdatesLeft /\ updates \in 0 .. MaxUpdates
  BY MeshAssumption DEF MeshInit, Version, UpdatesLeft
<1>2. mesh \in [Cells -> Looks]
  <2>1. \A c \in Cells : Look(c) \in [InCell(c) -> Version]
    BY <1>1 DEF Look, InCell
  <2>2. \A c \in Cells : Look(c) \in Looks
    BY <2>1 DEF Looks
  <2>3. QED
    BY <2>2 DEF MeshInit
<1>3. \A w \in Workers : worker[w].at = "idle" /\ ~Works(w)
  BY DEF MeshInit, Idle, Works
<1>4. toAck \in Acks /\ unacked \in [MapBlocks -> Int]
  BY DEF MeshInit, NoAcks, Acks
<1>5. MeshTypeOK
  BY <1>1, <1>2, <1>3, <1>4 DEF MeshInit, MeshTypeOK
<1>6. CallsAreFounded /\ OvertakenIsNoted
  BY DEF MeshInit, CallsAreFounded, OvertakenIsNoted, Has
<1>7. TasksHoldBlocks /\ CopiesAreNew
  BY <1>3 DEF MeshInit, TasksHoldBlocks, CopiesAreNew, IsAt
<1>8. MadeIsDrawn
  BY DEF MeshInit, MadeIsDrawn, WillBeDrawn, LastIs, Has
<1>9. QED
  BY <1>1, <1>5, <1>6, <1>7, <1>8 DEF MeshInv

LEMMA MeshInvKept == MeshInv /\ [MeshNext]_meshVars => MeshInv'
<1> SUFFICES ASSUME MeshInv, [MeshNext]_meshVars PROVE MeshInv'
  OBVIOUS
<1>1. CASE MainStep
  BY <1>1, AddBlockKeepsInv, ResultsKeepInv DEF MainStep
<1>2. ASSUME NEW b \in MapBlocks, ReceiveBlock(b) \/ ChangeNode(b) \/ Crack(b) PROVE MeshInv'
  BY <1>2, UpdatesKeepInv
<1>3. ASSUME NEW w \in Workers, Work(w) PROVE MeshInv'
  BY <1>3, IdleKeepsInv, popKeepsInv, CopyKeepsInv, putResultKeepsInv DEF Work
<1>4. CASE UNCHANGED meshVars
  <2>1. /\ main' \in {"step", "urgent", "plain"}
        /\ toAck' \in Acks /\ unacked' \in [MapBlocks -> Int]
        /\ UNCHANGED <<map, calls, mesh, updates, queueVars, resultVars, posted, worker>>
    BY <1>4 DEF meshVars, mainVars, MeshInv, MeshTypeOK
  <2>2. QED
    BY <2>1, Proceeds
<1>5. QED
  BY <1>1, <1>2, <1>3, <1>4 DEF MeshNext

THEOREM MeshInvariant == MeshSpec => []MeshInv
<1>1. MeshInit => MeshInv
  BY MeshInvInitially
<1>2. MeshInv /\ [MeshNext]_meshVars => MeshInv'
  BY MeshInvKept
<1>3. QED
  BY <1>1, <1>2, PTL DEF MeshSpec

\* Type correctness: in particular a cell has at most one update in the queue, and at most
\* one thread makes a mesh for it (m_queue, m_inflight_blocks).
THEOREM MeshTypeCorrect == MeshSpec => []MeshTypeOK
<1>1. MeshInv => MeshTypeOK
  BY DEF MeshInv
<1>2. QED
  BY <1>1, MeshInvariant, PTL

LEMMA RestShowsNewest == MeshInv => NewestIsDrawn
<1> SUFFICES ASSUME MeshInv, NEW c \in Cells, c \notin overtaken, AtRest(c)
             PROVE  mesh[c] = Look(c)
  BY DEF NewestIsDrawn
<1>1. Queued(c) = {} /\ c \notin inflight /\ ~Pending(c)
  BY DEF AtRest, Pending
<1>2. \A w \in Workers : ~IsAt(w, "copy", c) /\ ~IsAt(w, "make", c)
  BY <1>1 DEF MeshInv, MeshTypeOK, IsAt, Works
<1>3. ~Has(outUrgent, c) /\ ~Has(outPlain, c)
  <2>1. outUrgent \in Seq(Result) /\ outPlain \in Seq(Result)
    BY DEF MeshInv, MeshTypeOK
  <2>2. PICK m \in Nat, n \in Nat : m = Len(outUrgent) /\ n = Len(outPlain)
    BY <2>1
  <2>3. PICK all : all = outUrgent \o outPlain
    OBVIOUS
  <2>4. /\ all \in Seq(Result) /\ Len(all) = m + n
        /\ \A i \in 1 .. m + n : all[i] = IF i <= m THEN outUrgent[i] ELSE outPlain[i - m]
    BY <2>1, <2>2, <2>3, ConcatProperties
  <2>5. /\ DOMAIN all = 1 .. m + n /\ DOMAIN outUrgent = 1 .. m /\ DOMAIN outPlain = 1 .. n
    BY <2>1, <2>2, <2>4
  <2>6. \A i \in 1 .. m + n : all[i].p # c
    BY <2>3, <2>5 DEF AtRest, Has
  <2>7. \A i \in 1 .. m : i \in 1 .. m + n /\ all[i] = outUrgent[i]
    BY <2>2, <2>4
  <2>8. \A i \in 1 .. n : i + m \in 1 .. m + n /\ all[i + m] = outPlain[i]
    <3> SUFFICES ASSUME NEW i \in 1 .. n
                 PROVE  i + m \in 1 .. m + n /\ all[i + m] = outPlain[i]
      OBVIOUS
    <3>1. i + m \in 1 .. m + n /\ ~(i + m <= m) /\ (i + m) - m = i
      BY <2>2
    <3>2. QED
      BY <2>4, <3>1
  <2>9. QED
    BY <2>5, <2>6, <2>7, <2>8 DEF Has
<1>4. WillBeDrawn(c)
  BY <1>1, <1>2 DEF MeshInv, MadeIsDrawn, ToCopy
<1>5. QED
  BY <1>3, <1>4 DEF WillBeDrawn

\* What is drawn of a cell is what the client has, once no update, copy or result of it is
\* under way (updateBlock, pop, putResult, Client::step), whatever the number of threads,
\* unless a plain and an urgent result of it waited at once.
THEOREM NewestDrawn == MeshSpec => []NewestIsDrawn
BY MeshInvariant, RestShowsNewest, PTL

-----------------------------------------------------------------------------
(* Sums along a sequence of natural numbers.                               *)

\* t is what the first n elements of x add up to: f has the sums on the way.
SumIs(x, n, t) ==
    \E f \in [0 .. n -> Nat] :
        f[0] = 0 /\ (\A k \in 1 .. n : f[k] = f[k - 1] + x[k]) /\ f[n] = t

\* What holds at first and after every step holds at last.
LEMMA StepByStep ==
    ASSUME NEW n \in Nat, NEW good, 0 \in good, \A k \in 1 .. n : k - 1 \in good => k \in good
    PROVE  \A k \in 0 .. n : k \in good
<1> DEFINE bad == {k \in 0 .. n : k \notin good}
<1>1. SUFFICES ASSUME bad # {} PROVE FALSE
  OBVIOUS
<1>2. PICK k \in bad : \A j \in bad : k <= j
  <2>1. bad \in SUBSET Nat
    OBVIOUS
  <2>2. QED
    BY <1>1, <2>1, LeastOne
<1>3. k \in 1 .. n /\ k - 1 \in 0 .. n /\ ~ (k <= k - 1)
  BY <1>2
<1>4. k - 1 \in good
  BY <1>2, <1>3
<1>5. QED
  BY <1>2, <1>3, <1>4

LEMMA SumOfNone == ASSUME NEW x PROVE SumIs(x, 0, 0)
<1>1. PICK f : f = [k \in 0 .. 0 |-> 0]
  OBVIOUS
<1>2. f \in [0 .. 0 -> Nat] /\ f[0] = 0 /\ \A k \in 1 .. 0 : f[k] = f[k - 1] + x[k]
  BY <1>1
<1>3. QED
  BY <1>2 DEF SumIs

LEMMA SumOfFirst ==
    ASSUME NEW n \in Nat, n >= 1, NEW x, x[1] \in Nat, \A k \in 2 .. n : x[k] = 0
    PROVE  SumIs(x, n, x[1])
<1>1. PICK v \in Nat : v = x[1]
  OBVIOUS
<1>2. PICK f : f = [k \in 0 .. n |-> IF k = 0 THEN 0 ELSE v]
  OBVIOUS
<1>3. f \in [0 .. n -> Nat] /\ f[0] = 0 /\ f[n] = v
  BY <1>2
<1>4. ASSUME NEW k \in 1 .. n PROVE f[k] = f[k - 1] + x[k]
  <2>1. k - 1 \in 0 .. n /\ k \in 0 .. n /\ f[k] = v
    BY <1>2
  <2>2. CASE k = 1
    BY <1>1, <1>3, <2>1, <2>2
  <2>3. CASE k # 1
    BY <1>2, <2>1, <2>3
  <2>4. QED
    BY <2>2, <2>3
<1>5. QED
  BY <1>1, <1>3, <1>4 DEF SumIs

LEMMA SumOfSame ==
    ASSUME NEW n \in Nat, NEW x, NEW y, NEW t, SumIs(x, n, t), \A k \in 1 .. n : y[k] = x[k]
    PROVE  SumIs(y, n, t)
BY DEF SumIs

LEMMA SumOfMore ==
    ASSUME NEW n \in Nat, NEW x, NEW y, NEW t \in Nat, SumIs(x, n, t),
           \A k \in 1 .. n : y[k] = x[k], y[n + 1] \in Nat
    PROVE  SumIs(y, n + 1, t + y[n + 1])
<1>1. PICK f \in [0 .. n -> Nat] :
          f[0] = 0 /\ (\A k \in 1 .. n : f[k] = f[k - 1] + x[k]) /\ f[n] = t
  BY DEF SumIs
<1>2. PICK v \in Nat : v = y[n + 1]
  OBVIOUS
<1>3. PICK g : g = [k \in 0 .. n + 1 |-> IF k = n + 1 THEN t + v ELSE f[k]]
  OBVIOUS
<1>4. g \in [0 .. n + 1 -> Nat] /\ g[0] = 0 /\ g[n + 1] = t + v
  BY <1>1, <1>3
<1>5. ASSUME NEW k \in 1 .. n + 1 PROVE g[k] = g[k - 1] + y[k]
  <2>1. k - 1 \in 0 .. n /\ g[k - 1] = f[k - 1]
    BY <1>3
  <2>2. CASE k = n + 1
    BY <1>1, <1>2, <1>4, <2>1, <2>2
  <2>3. CASE k # n + 1
    BY <1>1, <1>3, <2>1, <2>3
  <2>4. QED
    BY <2>2, <2>3
<1>6. QED
  BY <1>2, <1>4, <1>5 DEF SumIs

\* No element is more than the sum of all, and the sum without it is that much less.
LEMMA SumOfLess ==
    ASSUME NEW n \in Nat, n >= 1, NEW i \in 1 .. n, NEW x, \A k \in 1 .. n : x[k] \in Nat,
           NEW t \in Nat, SumIs(x, n, t),
           NEW y, \A k \in 1 .. n - 1 : y[k] = IF k < i THEN x[k] ELSE x[k + 1]
    PROVE  x[i] <= t /\ SumIs(y, n - 1, t - x[i])
<1>1. PICK f \in [0 .. n -> Nat] :
          f[0] = 0 /\ (\A k \in 1 .. n : f[k] = f[k - 1] + x[k]) /\ f[n] = t
  BY DEF SumIs
<1>2. PICK v \in Nat : v = x[i]
  OBVIOUS
<1>3. ASSUME NEW k \in i .. n PROVE v <= f[k]
  <2>1. PICK good : good = {m \in Nat : i <= m /\ m <= n => v <= f[m]}
    OBVIOUS
  <2>2. 0 \in good
    BY <2>1
  <2>3. ASSUME NEW m \in 1 .. n, m - 1 \in good PROVE m \in good
    <3>1. f[m] = f[m - 1] + x[m] /\ f[m - 1] \in Nat /\ x[m] \in Nat /\ f[m] \in Nat
      BY <1>1
    <3>2. CASE m = i
      BY <1>2, <2>1, <3>1, <3>2
    <3>3. CASE m # i
      BY <1>2, <2>1, <2>3, <3>1, <3>3
    <3>4. QED
      BY <3>2, <3>3
  <2>4. \A m \in 0 .. n : m \in good
    BY <2>2, <2>3, StepByStep
  <2>5. k \in good
    BY <2>4
  <2>6. QED
    BY <2>1, <2>5
<1>4. PICK g : g = [k \in 0 .. n - 1 |-> IF k < i THEN f[k] ELSE f[k + 1] - v]
  OBVIOUS
<1>5. g \in [0 .. n - 1 -> Nat]
  <2>1. ASSUME NEW k \in 0 .. n - 1 PROVE (IF k < i THEN f[k] ELSE f[k + 1] - v) \in Nat
    <3>1. k \in 0 .. n /\ k + 1 \in 0 .. n /\ f[k] \in Nat /\ f[k + 1] \in Nat
      BY <1>1
    <3>2. k >= i => v <= f[k + 1]
      BY <1>3
    <3>3. QED
      BY <1>2, <3>1, <3>2
  <2>2. QED
    BY <1>4, <2>1
<1>6. ASSUME NEW k \in 1 .. n - 1 PROVE g[k] = g[k - 1] + y[k]
  <2>1. /\ k - 1 \in 0 .. n - 1 /\ k \in 0 .. n - 1 /\ k \in 1 .. n /\ k + 1 \in 1 .. n
        /\ f[k] = f[k - 1] + x[k] /\ f[k + 1] = f[k] + x[k + 1]
        /\ f[k - 1] \in Nat /\ f[k] \in Nat /\ f[k + 1] \in Nat /\ x[k] \in Nat /\ x[k + 1] \in Nat
    <3>1. k - 1 \in 0 .. n - 1 /\ k \in 0 .. n - 1 /\ k \in 1 .. n /\ k + 1 \in 1 .. n
          /\ (k + 1) - 1 = k /\ k - 1 \in 0 .. n /\ k \in 0 .. n /\ k + 1 \in 0 .. n
      OBVIOUS
    <3>2. f[k] = f[k - 1] + x[k] /\ f[k + 1] = f[(k + 1) - 1] + x[k + 1]
      BY <1>1, <3>1
    <3>3. QED
      BY <1>1, <3>1, <3>2
  <2>2. CASE k < i
    <3>1. g[k] = f[k] /\ g[k - 1] = f[k - 1] /\ y[k] = x[k]
      BY <1>4, <2>1, <2>2
    <3>2. QED
      BY <2>1, <3>1
  <2> DEFINE a == f[k - 1]
             b == f[k]
             c == f[k + 1]
             u == x[k]
             w == x[k + 1]
  <2>6. b = a + u /\ c = b + w /\ a \in Nat /\ b \in Nat /\ c \in Nat /\ u \in Nat /\ w \in Nat
    BY <2>1, Zenon
  <2>3. CASE k = i
    <3>1. g[k] = c - v /\ g[k - 1] = a /\ y[k] = w /\ v = u
      BY <1>2, <1>4, <2>1, <2>3
    <3> HIDE DEF a, b, c, u, w
    <3>2. c - v = a + w
      BY <1>2, <2>6, <3>1
    <3>3. QED
      BY <3>1, <3>2, Zenon
  <2>4. CASE k > i
    <3>1. g[k] = c - v /\ g[k - 1] = b - v /\ y[k] = w
      <4>1. ~ (k < i) /\ ~ (k - 1 < i) /\ (k - 1) + 1 = k
        BY <2>4
      <4>2. QED
        BY <1>4, <2>1, <4>1
    <3> HIDE DEF a, b, c, u, w
    <3>2. c - v = (b - v) + w
      BY <1>2, <2>6
    <3>3. QED
      BY <3>1, <3>2, Zenon
  <2>5. QED
    BY <2>2, <2>3, <2>4
<1>7. g[0] = 0 /\ g[n - 1] = t - v /\ v <= t
  <2>1. n \in i .. n /\ 0 \in 0 .. n - 1 /\ n - 1 \in 0 .. n - 1 /\ 0 < i
        /\ n \in 1 .. n /\ n - 1 \in 0 .. n /\ (n - 1) + 1 = n
    OBVIOUS
  <2>2. v <= f[n] /\ g[0] = f[0]
    BY <1>3, <1>4, <2>1
  <2>3. g[n - 1] = f[n] - v
    <3>1. CASE i = n
      <4>1. n - 1 < i
        BY <3>1
      <4>2. g[n - 1] = f[n - 1]
        BY <1>4, <2>1, <4>1
      <4>3. f[n] = f[n - 1] + v
        BY <1>1, <1>2, <2>1, <3>1
      <4>4. f[n - 1] \in Nat
        BY <1>1, <2>1
      <4>5. QED
        BY <1>2, <4>2, <4>3, <4>4
    <3>2. CASE i # n
      <4>1. ~ (n - 1 < i)
        BY <3>2
      <4>2. g[n - 1] = f[(n - 1) + 1] - v
        BY <1>4, <2>1, <4>1
      <4>3. QED
        BY <2>1, <4>2
    <3>3. QED
      BY <3>1, <3>2
  <2>4. QED
    BY <1>1, <2>2, <2>3
<1>8. QED
  BY <1>2, <1>5, <1>6, <1>7 DEF SumIs

LEMMA SumOfRaised ==
    ASSUME NEW n \in Nat, NEW i \in 1 .. n, NEW x, \A k \in 1 .. n : x[k] \in Nat,
           NEW t \in Nat, SumIs(x, n, t), NEW v \in Nat,
           NEW y, y[i] = x[i] + v, \A k \in 1 .. n : k # i => y[k] = x[k]
    PROVE  SumIs(y, n, t + v)
<1>1. PICK f \in [0 .. n -> Nat] :
          f[0] = 0 /\ (\A k \in 1 .. n : f[k] = f[k - 1] + x[k]) /\ f[n] = t
  BY DEF SumIs
<1>2. PICK g : g = [k \in 0 .. n |-> IF k < i THEN f[k] ELSE f[k] + v]
  OBVIOUS
<1>3. g \in [0 .. n -> Nat] /\ g[0] = 0 /\ g[n] = t + v
  <2>1. 0 \in 0 .. n /\ n \in 0 .. n /\ 0 < i /\ ~ (n < i)
    OBVIOUS
  <2>2. g[0] = f[0] /\ g[n] = f[n] + v
    BY <1>2, <2>1
  <2>3. \A k \in 0 .. n : f[k] \in Nat /\ f[k] + v \in Nat
    BY <1>1
  <2>4. g \in [0 .. n -> Nat]
    BY <1>2, <2>3
  <2>5. QED
    BY <1>1, <2>2, <2>4
<1>4. ASSUME NEW k \in 1 .. n PROVE g[k] = g[k - 1] + y[k]
  <2>1. /\ k - 1 \in 0 .. n /\ k \in 0 .. n /\ f[k] = f[k - 1] + x[k]
        /\ f[k - 1] \in Nat /\ f[k] \in Nat /\ x[k] \in Nat
    BY <1>1
  <2>2. CASE k < i
    <3>1. g[k] = f[k] /\ g[k - 1] = f[k - 1] /\ y[k] = x[k]
      BY <1>2, <2>1, <2>2
    <3>2. QED
      BY <2>1, <3>1
  <2>3. CASE k = i
    <3>1. g[k] = f[k] + v /\ g[k - 1] = f[k - 1] /\ y[k] = x[k] + v
      BY <1>2, <2>1, <2>3
    <3>2. QED
      BY <2>1, <3>1
  <2>4. CASE k > i
    <3>1. g[k] = f[k] + v /\ g[k - 1] = f[k - 1] + v /\ y[k] = x[k]
      <4>1. ~ (k < i) /\ ~ (k - 1 < i) /\ k # i
        BY <2>4
      <4>2. QED
        BY <1>2, <2>1, <4>1
    <3>2. QED
      BY <2>1, <3>1
  <2>5. QED
    BY <2>2, <2>3, <2>4
<1>5. QED
  BY <1>3, <1>4 DEF SumIs

LEMMA SumOfNothing == ASSUME NEW x, NEW t, SumIs(x, 0, t) PROVE t = 0
BY DEF SumIs

-----------------------------------------------------------------------------
(* Where the acknowledgements of a block are.                              *)

\* Only the call for the block itself is to be acknowledged.
AcksFirst == \A i \in DOMAIN calls : calls[i].ack => ~calls[i].neighbor

CallAcks(s, b) == [k \in DOMAIN s |-> IF s[k].ack /\ s[k].b = b THEN 1 ELSE 0]
CallsHave(b, t) == t \in Nat /\ SumIs(CallAcks(calls, b), Len(calls), t)

AcksFor(s, b) == [k \in DOMAIN s |-> s[k].acks[b]]
Have(s, b, t) == t \in Nat /\ SumIs(AcksFor(s, b), Len(s), t)

\* The threads at work on a mesh, in some order.
InHand(w) == worker[w].at \in {"copy", "make"}
Hands(e) ==
    /\ e \in Seq(Workers) /\ \A i, j \in DOMAIN e : e[i] = e[j] => i = j
    /\ \A w \in Workers : InHand(w) <=> \E i \in DOMAIN e : e[i] = w
HandAcks(e, b) == [k \in DOMAIN e |-> worker[e[k]].task.acks[b]]
HandsHave(b, t) == t \in Nat /\ \E e : Hands(e) /\ SumIs(HandAcks(e, b), Len(e), t)

\* All that is to be acknowledged is in one of these places.
AcksAdd(b) ==
    \E c, q, h, u, p \in Nat :
        /\ CallsHave(b, c) /\ Have(queue, b, q) /\ HandsHave(b, h)
        /\ Have(outUrgent, b, u) /\ Have(outPlain, b, p)
        /\ unacked[b] = c + q + h + u + p + toAck[b]

AckInv == MeshInv /\ AcksFirst /\ \A b \in MapBlocks : AcksAdd(b)

LEMMA AppendHas ==
    ASSUME NEW S, NEW s \in Seq(S), NEW r \in S, NEW b, NEW v \in Nat, r.acks[b] = v,
           NEW t, Have(s, b, t)
    PROVE  Have(Append(s, r), b, t + v)
<1> DEFINE z == Append(s, r)
           x == AcksFor(s, b)
           y == AcksFor(z, b)
<1>1. Len(s) \in Nat /\ Len(z) = Len(s) + 1 /\ DOMAIN s = 1 .. Len(s) /\ DOMAIN z = 1 .. Len(s) + 1
      /\ z[Len(s) + 1] = r /\ \A k \in 1 .. Len(s) : z[k] = s[k]
  OBVIOUS
<1> HIDE DEF z
<1>2. y[Len(s) + 1] = v /\ \A k \in 1 .. Len(s) : y[k] = x[k]
  BY <1>1 DEF AcksFor
<1>3. t \in Nat /\ SumIs(x, Len(s), t)
  BY DEF Have
<1> HIDE DEF x, y
<1>4. SumIs(y, Len(s) + 1, t + v)
  BY <1>1, <1>2, <1>3, SumOfMore
<1>5. SumIs(y, Len(z), t + v) /\ t + v \in Nat
  BY <1>1, <1>3, <1>4
<1>6. QED
  BY <1>5 DEF Have, y, z

LEMMA RemoveHas ==
    ASSUME NEW S, NEW s \in Seq(S), NEW i \in 1 .. Len(s), NEW b,
           \A k \in 1 .. Len(s) : s[k].acks[b] \in Nat,
           NEW t, Have(s, b, t),
           NEW z \in Seq(S), Len(z) = Len(s) - 1,
           \A k \in 1 .. Len(s) - 1 : z[k] = IF k < i THEN s[k] ELSE s[k + 1]
    PROVE  s[i].acks[b] <= t /\ Have(z, b, t - s[i].acks[b])
<1> DEFINE x == AcksFor(s, b)
           y == AcksFor(z, b)
<1>1. PICK n \in Nat : n = Len(s) /\ n >= 1 /\ i \in 1 .. n /\ DOMAIN s = 1 .. n
                       /\ Len(z) = n - 1 /\ DOMAIN z = 1 .. n - 1
  OBVIOUS
<1>2. \A k \in 1 .. n : x[k] = s[k].acks[b] /\ x[k] \in Nat
  BY <1>1 DEF AcksFor
<1>3. \A k \in 1 .. n - 1 : y[k] = IF k < i THEN x[k] ELSE x[k + 1]
  <2> SUFFICES ASSUME NEW k \in 1 .. n - 1 PROVE y[k] = IF k < i THEN x[k] ELSE x[k + 1]
    OBVIOUS
  <2>1. k \in 1 .. n /\ k + 1 \in 1 .. n /\ y[k] = z[k].acks[b]
    BY <1>1 DEF AcksFor
  <2>2. x[k] = s[k].acks[b] /\ x[k + 1] = s[k + 1].acks[b]
    BY <1>2, <2>1
  <2>3. z[k] = IF k < i THEN s[k] ELSE s[k + 1]
    BY <1>1
  <2> HIDE DEF x, y
  <2>4. QED
    BY <2>1, <2>2, <2>3
<1>4. t \in Nat /\ SumIs(x, n, t) /\ \A k \in 1 .. n : x[k] \in Nat
  BY <1>1, <1>2 DEF Have
<1> HIDE DEF x, y
<1>5. x[i] <= t /\ SumIs(y, n - 1, t - x[i])
  <2>1. i \in 1 .. n /\ n >= 1
    BY <1>1
  <2>2. QED
    BY <1>3, <1>4, <2>1, SumOfLess
<1>6. t - x[i] \in Nat
  BY <1>1, <1>2, <1>4, <1>5
<1>7. SumIs(y, Len(z), t - x[i])
  BY <1>1, <1>5
<1>8. QED
  BY <1>1, <1>2, <1>5, <1>6, <1>7 DEF Have, y

\* The first result is taken from a queue.
LEMMA TailHas ==
    ASSUME NEW S, NEW s \in Seq(S), s # <<>>, NEW b,
           \A k \in 1 .. Len(s) : s[k].acks[b] \in Nat, NEW t, Have(s, b, t)
    PROVE  /\ Head(s).acks[b] \in Nat /\ Head(s).acks[b] <= t
           /\ Have(Tail(s), b, t - Head(s).acks[b])
<1>1. 1 \in 1 .. Len(s) /\ Head(s) = s[1] /\ Tail(s) \in Seq(S) /\ Len(Tail(s)) = Len(s) - 1
  OBVIOUS
<1>2. \A k \in 1 .. Len(s) - 1 : Tail(s)[k] = IF k < 1 THEN s[k] ELSE s[k + 1]
  OBVIOUS
<1>3. s[1].acks[b] <= t /\ Have(Tail(s), b, t - s[1].acks[b])
  BY <1>1, <1>2, RemoveHas
<1>4. QED
  BY <1>1, <1>3

-----------------------------------------------------------------------------
(* What the threads have in their hands.                                   *)

\* The threads at work stay the same, and their tasks.
LEMMA HandsStay ==
    ASSUME NEW b, NEW t, HandsHave(b, t),
           \A w \in Workers : /\ InHand(w)' <=> InHand(w)
                              /\ InHand(w) => worker'[w].task = worker[w].task
    PROVE  HandsHave(b, t)'
<1>1. PICK e : Hands(e) /\ SumIs(HandAcks(e, b), Len(e), t)
  BY DEF HandsHave
<1>2. Hands(e)'
  BY <1>1 DEF Hands
<1>3. Len(e) \in Nat /\ DOMAIN e = 1 .. Len(e)
  BY <1>1 DEF Hands
<1>4. \A k \in 1 .. Len(e) : HandAcks(e, b)'[k] = HandAcks(e, b)[k]
  BY <1>1, <1>3 DEF Hands, HandAcks
<1>5. SumIs(HandAcks(e, b)', Len(e), t)
  BY <1>1, <1>3, <1>4, SumOfSame
<1>6. (\E d : Hands(d) /\ SumIs(HandAcks(d, b), Len(d), t))'
  BY <1>2, <1>5 DEF SumIs, HandAcks
<1>7. QED
  BY <1>6 DEF HandsHave

LEMMA HandsTake ==
    ASSUME NEW w \in Workers, ~InHand(w), NEW b, NEW t, HandsHave(b, t),
           NEW v \in Nat, InHand(w)', worker'[w].task.acks[b] = v,
           \A x \in Workers : x # w => worker'[x] = worker[x]
    PROVE  HandsHave(b, t + v)'
<1>1. PICK e : Hands(e) /\ SumIs(HandAcks(e, b), Len(e), t)
  BY DEF HandsHave
<1> DEFINE z == Append(e, w)
           x == HandAcks(e, b)
           y == HandAcks(z, b)'
<1>2. e \in Seq(Workers) /\ t \in Nat
  BY <1>1 DEF Hands, HandsHave
<1>3. PICK n \in Nat : n = Len(e) /\ DOMAIN e = 1 .. n /\ z \in Seq(Workers) /\ Len(z) = n + 1
                       /\ DOMAIN z = 1 .. n + 1 /\ z[n + 1] = w /\ \A k \in 1 .. n : z[k] = e[k]
  BY <1>2
<1> HIDE DEF z
<1>4. \A k \in 1 .. n : e[k] \in Workers /\ e[k] # w
  BY <1>1, <1>3 DEF Hands
<1>5. Hands(z)'
  <2>1. \A i, j \in DOMAIN z : z[i] = z[j] => i = j
    <3> SUFFICES ASSUME NEW i \in 1 .. n + 1, NEW j \in 1 .. n + 1, z[i] = z[j] PROVE i = j
      BY <1>3
    <3>1. CASE i = n + 1
      BY <1>3, <1>4, <3>1
    <3>2. CASE j = n + 1
      BY <1>3, <1>4, <3>2
    <3>3. CASE i \in 1 .. n /\ j \in 1 .. n
      BY <1>1, <1>3, <3>3 DEF Hands
    <3>4. QED
      BY <3>1, <3>2, <3>3
  <2>2. ASSUME NEW d \in Workers PROVE InHand(d)' <=> \E i \in DOMAIN z : z[i] = d
    <3>1. CASE d = w
      <4>1. n + 1 \in 1 .. n + 1
        OBVIOUS
      <4>2. QED
        BY <1>3, <3>1, <4>1
    <3>2. CASE d # w
      <4>1. InHand(d)' <=> InHand(d)
        BY <3>2 DEF InHand
      <4>2. InHand(d) <=> \E i \in 1 .. n : e[i] = d
        BY <1>1, <1>3 DEF Hands
      <4>3. (\E i \in 1 .. n : e[i] = d) <=> \E i \in 1 .. n + 1 : z[i] = d
        BY <1>3, <3>2
      <4>4. QED
        BY <1>3, <4>1, <4>2, <4>3
    <3>3. QED
      BY <3>1, <3>2
  <2>3. QED
    BY <1>3, <2>1, <2>2 DEF Hands
<1>6. y[n + 1] = v /\ \A k \in 1 .. n : y[k] = x[k]
  <2>1. \A k \in 1 .. n + 1 : y[k] = worker'[z[k]].task.acks[b]
    BY <1>3 DEF HandAcks
  <2>2. \A k \in 1 .. n : x[k] = worker[e[k]].task.acks[b]
    BY <1>3 DEF HandAcks
  <2> HIDE DEF x, y
  <2>3. n + 1 \in 1 .. n + 1 /\ \A k \in 1 .. n : k \in 1 .. n + 1
    OBVIOUS
  <2>4. QED
    BY <1>3, <1>4, <2>1, <2>2, <2>3
<1>7. SumIs(x, n, t)
  BY <1>1, <1>3
<1> HIDE DEF x, y
<1>8. SumIs(y, n + 1, t + v)
  BY <1>2, <1>6, <1>7, SumOfMore
<1>9. SumIs(y, Len(z), t + v) /\ t + v \in Nat
  BY <1>2, <1>3, <1>8
<1>10. (\E d : Hands(d) /\ SumIs(HandAcks(d, b), Len(d), t + v))'
  BY <1>5, <1>9 DEF y, SumIs, HandAcks
<1>11. QED
  BY <1>9, <1>10 DEF HandsHave

LEMMA HandsGive ==
    ASSUME NEW w \in Workers, InHand(w), NEW b, NEW t, HandsHave(b, t),
           \A x \in Workers : InHand(x) => worker[x].task.acks[b] \in Nat,
           NEW v \in Nat, worker[w].task.acks[b] = v,
           ~InHand(w)', \A x \in Workers : x # w => worker'[x] = worker[x]
    PROVE  v <= t /\ HandsHave(b, t - v)'
<1>1. PICK e : Hands(e) /\ SumIs(HandAcks(e, b), Len(e), t)
  BY DEF HandsHave
<1>2. PICK n \in Nat : e \in Seq(Workers) /\ n = Len(e) /\ DOMAIN e = 1 .. n /\ t \in Nat
  BY <1>1 DEF Hands, HandsHave
<1>3. PICK i \in 1 .. n : e[i] = w
  BY <1>1, <1>2 DEF Hands
<1> DEFINE z == RemoveAt(e, i)
           x == HandAcks(e, b)
           y == HandAcks(z, b)'
<1>4. /\ z \in Seq(Workers) /\ Len(z) = n - 1
      /\ \A k \in 1 .. n - 1 : z[k] = IF k < i THEN e[k] ELSE e[k + 1]
  BY <1>2, RemoveAtIs
<1> HIDE DEF z
<1>5. n - 1 \in Nat /\ DOMAIN z = 1 .. n - 1 /\ n >= 1
  BY <1>3, <1>4
<1>6. ASSUME NEW k \in 1 .. n - 1
      PROVE  /\ k \in 1 .. n /\ k + 1 \in 1 .. n
             /\ z[k] = e[IF k < i THEN k ELSE k + 1] /\ z[k] \in Workers /\ z[k] # w
  <2>1. k \in 1 .. n /\ k + 1 \in 1 .. n
    OBVIOUS
  <2>2. z[k] = e[IF k < i THEN k ELSE k + 1]
    BY <1>4
  <2>3. PICK j \in 1 .. n : j = (IF k < i THEN k ELSE k + 1) /\ j # i
    BY <2>1
  <2>4. e[j] \in Workers /\ e[j] # e[i]
    <3>1. \A l, m \in 1 .. n : e[l] = e[m] => l = m
      BY <1>1, <1>2, Zenon DEF Hands
    <3>2. e[j] \in Workers
      BY <1>2
    <3>3. QED
      BY <2>3, <3>1, <3>2, Zenon
  <2>5. z[k] \in Workers /\ z[k] # w
    BY <1>3, <2>2, <2>3, <2>4
  <2>6. QED
    BY <2>1, <2>2, <2>5
<1>7. Hands(z)'
  <2>1. \A k, j \in DOMAIN z : z[k] = z[j] => k = j
    <3> SUFFICES ASSUME NEW k \in 1 .. n - 1, NEW j \in 1 .. n - 1, z[k] = z[j] PROVE k = j
      BY <1>5
    <3>1. (IF k < i THEN k ELSE k + 1) = (IF j < i THEN j ELSE j + 1)
      <4>1. /\ (IF k < i THEN k ELSE k + 1) \in 1 .. n
            /\ (IF j < i THEN j ELSE j + 1) \in 1 .. n
        BY <1>6
      <4>2. e[IF k < i THEN k ELSE k + 1] = e[IF j < i THEN j ELSE j + 1]
        BY <1>6
      <4>3. QED
        BY <1>1, <1>2, <4>1, <4>2 DEF Hands
    <3>2. QED
      BY <3>1
  <2>2. ASSUME NEW d \in Workers PROVE InHand(d)' <=> \E k \in 1 .. n - 1 : z[k] = d
    <3>1. CASE d = w
      BY <1>6, <3>1
    <3>2. CASE d # w
      <4>1. InHand(d)' <=> InHand(d)
        BY <3>2 DEF InHand
      <4>2. InHand(d) <=> \E j \in 1 .. n : e[j] = d
        BY <1>1, <1>2 DEF Hands
      <4>3. ASSUME NEW j \in 1 .. n, e[j] = d PROVE \E k \in 1 .. n - 1 : z[k] = d
        <5>1. j # i
          BY <1>3, <3>2, <4>3
        <5>2. CASE j < i
          <6>1. j \in 1 .. n - 1
            BY <5>2
          <6>2. QED
            BY <1>4, <4>3, <5>2, <6>1
        <5>3. CASE j > i
          <6>1. j - 1 \in 1 .. n - 1 /\ ~ (j - 1 < i) /\ (j - 1) + 1 = j
            BY <5>3
          <6>2. z[j - 1] = e[j]
            BY <1>4, <6>1
          <6>3. QED
            BY <4>3, <6>1, <6>2
        <5>4. QED
          BY <5>1, <5>2, <5>3
      <4>4. ASSUME NEW k \in 1 .. n - 1, z[k] = d PROVE \E j \in 1 .. n : e[j] = d
        BY <1>6, <4>4
      <4>5. QED
        BY <4>1, <4>2, <4>3, <4>4
    <3>3. QED
      BY <3>1, <3>2
  <2>3. QED
    BY <1>4, <1>5, <2>1, <2>2 DEF Hands
<1>8. \A k \in 1 .. n : x[k] = worker[e[k]].task.acks[b] /\ x[k] \in Nat
  BY <1>1, <1>2 DEF HandAcks, Hands
<1>9. \A k \in 1 .. n - 1 : y[k] = IF k < i THEN x[k] ELSE x[k + 1]
  <2> SUFFICES ASSUME NEW k \in 1 .. n - 1 PROVE y[k] = IF k < i THEN x[k] ELSE x[k + 1]
    OBVIOUS
  <2>1. y[k] = worker'[z[k]].task.acks[b]
    BY <1>5 DEF HandAcks
  <2> HIDE DEF x, y
  <2>2. y[k] = worker[z[k]].task.acks[b]
    BY <1>6, <2>1
  <2>3. x[k] = worker[e[k]].task.acks[b] /\ x[k + 1] = worker[e[k + 1]].task.acks[b]
    BY <1>6, <1>8
  <2>4. z[k] = IF k < i THEN e[k] ELSE e[k + 1]
    BY <1>4
  <2>5. QED
    BY <2>2, <2>3, <2>4
<1>10. SumIs(x, n, t)
  BY <1>1, <1>2
<1> HIDE DEF x, y
<1>11. x[i] <= t /\ SumIs(y, n - 1, t - x[i])
  <2>1. n >= 1 /\ t \in Nat /\ \A k \in 1 .. n : x[k] \in Nat
    BY <1>2, <1>5, <1>8
  <2>2. QED
    BY <1>9, <1>10, <2>1, SumOfLess
<1>12. x[i] = v /\ t - v \in Nat
  BY <1>2, <1>3, <1>8, <1>11
<1>13. Hands(z)' /\ SumIs(y, Len(z), t - v)
  <2>1. Len(z) = n - 1 /\ t - x[i] = t - v
    BY <1>4, <1>12
  <2>2. QED
    BY <1>7, <1>11, <2>1, Zenon
<1>14. HandsHave(b, t - v)'
  BY <1>12, <1>13 DEF y, HandsHave, SumIs, HandAcks
<1>15. QED
  BY <1>11, <1>12, <1>14

-----------------------------------------------------------------------------
(* The steps.                                                              *)

LEMMA AckTypes ==
    ASSUME MeshInv, NEW b \in MapBlocks
    PROVE  /\ toAck[b] \in Nat /\ unacked \in [MapBlocks -> Int]
           /\ queue \in Seq(Task) /\ \A k \in 1 .. Len(queue) : queue[k].acks[b] \in Nat
           /\ outUrgent \in Seq(Result) /\ \A k \in 1 .. Len(outUrgent) : outUrgent[k].acks[b] \in Nat
           /\ outPlain \in Seq(Result) /\ \A k \in 1 .. Len(outPlain) : outPlain[k].acks[b] \in Nat
           /\ \A w \in Workers : InHand(w) => worker[w].task.acks[b] \in Nat
<1>1. /\ toAck \in Acks /\ unacked \in [MapBlocks -> Int] /\ queue \in Seq(Task)
      /\ outUrgent \in Seq(Result) /\ outPlain \in Seq(Result)
      /\ \A w \in Workers : Works(w) => worker[w].task \in Task
  BY DEF MeshInv, MeshTypeOK
<1>2. \A t \in Task : t.acks[b] \in Nat
  BY DEF Task, Acks
<1>3. \A r \in Result : r.acks[b] \in Nat
  BY DEF Result, Acks
<1>4. toAck[b] \in Nat
  BY <1>1 DEF Acks
<1>5. \A k \in 1 .. Len(queue) : queue[k] \in Task
  BY <1>1
<1>6. \A k \in 1 .. Len(outUrgent) : outUrgent[k] \in Result
  BY <1>1
<1>7. \A k \in 1 .. Len(outPlain) : outPlain[k] \in Result
  BY <1>1
<1>8. \A w \in Workers : InHand(w) => worker[w].task \in Task
  BY <1>1 DEF InHand, Works
<1>9. QED
  BY <1>1, <1>2, <1>3, <1>4, <1>5, <1>6, <1>7, <1>8, Zenon

\* A changed block, with an acknowledgement due if it came from the server.
LEMMA BeginsAcks ==
    ASSUME AckInv, calls = <<>>, NEW x \in MapBlocks, NEW ack \in BOOLEAN,
           calls' \in Seq(Calls), Len(calls') >= 1,
           calls'[1].b = x, calls'[1].ack = ack, ~calls'[1].neighbor,
           \A i \in 2 .. Len(calls') : ~calls'[i].ack,
           unacked' = IF ack THEN [unacked EXCEPT ![x] = @ + 1] ELSE unacked,
           UNCHANGED <<toAck, queue, outUrgent, outPlain, worker>>
    PROVE  AcksFirst' /\ \A b \in MapBlocks : AcksAdd(b)'
<1>1. AcksFirst'
  BY DEF AcksFirst
<1>2. ASSUME NEW b \in MapBlocks PROVE AcksAdd(b)'
  <2>1. PICK c, q, h, u, p \in Nat :
            /\ CallsHave(b, c) /\ Have(queue, b, q) /\ HandsHave(b, h)
            /\ Have(outUrgent, b, u) /\ Have(outPlain, b, p)
            /\ unacked[b] = c + q + h + u + p + toAck[b]
    BY DEF AckInv, AcksAdd
  <2>2. c = 0
    <3>1. SumIs(CallAcks(calls, b), 0, c)
      BY <2>1 DEF CallsHave
    <3>2. QED
      BY <3>1, SumOfNothing
  <2>3. PICK v \in Nat : v = IF ack /\ x = b THEN 1 ELSE 0
    OBVIOUS
  <2>4. CallsHave(b, v)'
    <3> DEFINE y == CallAcks(calls', b)
    <3>1. PICK n \in Nat : n >= 1 /\ n = Len(calls') /\ DOMAIN calls' = 1 .. n
      OBVIOUS
    <3>2. y[1] = v /\ \A k \in 2 .. n : y[k] = 0
      BY <2>3, <3>1 DEF CallAcks
    <3> HIDE DEF y
    <3>3. SumIs(y, n, v)
      BY <3>1, <3>2, SumOfFirst
    <3>4. QED
      BY <3>1, <3>3 DEF y, CallsHave
  <2>5. HandsHave(b, h)'
    BY <2>1, HandsStay DEF InHand
  <2>6. unacked'[b] = v + q + h + u + p + toAck'[b]
    <3>1. unacked'[b] = unacked[b] + v /\ toAck'[b] = toAck[b] /\ toAck[b] \in Nat
      BY <2>3, AckTypes DEF AckInv
    <3>2. QED
      BY <2>1, <2>2, <3>1
  <2>7. QED
    BY <2>1, <2>4, <2>5, <2>6 DEF AcksAdd
<1>3. QED
  BY <1>1, <1>2

LEMMA UpdatesKeepAcks ==
    ASSUME AckInv, NEW x \in MapBlocks, ReceiveBlock(x) \/ ChangeNode(x) \/ Crack(x)
    PROVE  AcksFirst' /\ \A b \in MapBlocks : AcksAdd(b)'
<1>1. CASE ReceiveBlock(x)
  <2>1. /\ calls' = WithEdge(x, TRUE, FALSE) /\ calls = <<>>
        /\ unacked' = [unacked EXCEPT ![x] = @ + 1]
        /\ UNCHANGED <<toAck, queue, outUrgent, outPlain, worker>>
    BY <1>1 DEF ReceiveBlock, Free, queueVars, resultVars
  <2>2. /\ calls' \in Seq(Calls) /\ Len(calls') >= 1
        /\ calls'[1].b = x /\ calls'[1].ack = TRUE /\ ~calls'[1].neighbor
        /\ \A i \in 2 .. Len(calls') : ~calls'[i].ack
    BY <2>1, EdgeStarts, Zenon
  <2>3. QED
    BY <2>1, <2>2, BeginsAcks
<1>2. CASE ChangeNode(x)
  <2>1. /\ calls' = WithEdge(x, FALSE, TRUE) /\ calls = <<>> /\ unacked' = unacked
        /\ UNCHANGED <<toAck, queue, outUrgent, outPlain, worker>>
    BY <1>2 DEF ChangeNode, Free, queueVars, resultVars
  <2>2. /\ calls' \in Seq(Calls) /\ Len(calls') >= 1
        /\ calls'[1].b = x /\ calls'[1].ack = FALSE /\ ~calls'[1].neighbor
        /\ \A i \in 2 .. Len(calls') : ~calls'[i].ack
    BY <2>1, EdgeStarts, Zenon
  <2>3. QED
    BY <2>1, <2>2, BeginsAcks
<1>3. CASE Crack(x)
  <2>1. /\ calls' = <<Call(x, FALSE, TRUE, FALSE)>> /\ calls = <<>> /\ unacked' = unacked
        /\ UNCHANGED <<toAck, queue, outUrgent, outPlain, worker>>
    BY <1>3 DEF Crack, Free, queueVars, resultVars
  <2>2. /\ calls' \in Seq(Calls) /\ Len(calls') = 1
        /\ calls'[1].b = x /\ calls'[1].ack = FALSE /\ ~calls'[1].neighbor
    BY <2>1 DEF Call, Calls
  <2>3. /\ FALSE \in BOOLEAN /\ \A i \in 2 .. Len(calls') : ~calls'[i].ack
        /\ unacked' = IF FALSE THEN [unacked EXCEPT ![x] = @ + 1] ELSE unacked
        /\ Len(calls') >= 1
    BY <2>1, <2>2
  <2>4. QED
    BY <2>1, <2>2, <2>3, BeginsAcks
<1>4. QED
  BY <1>1, <1>2, <1>3

\* addBlock adds the acknowledgement to the update of the cell.
LEMMA addBlockAcks ==
    ASSUME MeshInv, NEW call \in Calls, addBlock(call),
           call.ack => map[call.b] > 0 /\ ~call.neighbor,
           NEW b \in MapBlocks, NEW v \in Nat, v = IF call.ack /\ call.b = b THEN 1 ELSE 0,
           NEW q, Have(queue, b, q)
    PROVE  Have(queue, b, q + v)'
<1> DEFINE c == MeshPos[call.b]
           acks == IF call.ack THEN One(call.b) ELSE NoAcks
           new == [p |-> c, acks |-> acks, urgent |-> call.urgent, blocks |-> Held(c)]
           more(t) == [p |-> c, acks |-> Plus(t.acks, acks), urgent |-> t.urgent \/ call.urgent,
                       blocks |-> t.blocks \union Held(c)]
<1>1. /\ call.b \in MapBlocks /\ call.ack \in BOOLEAN /\ call.urgent \in BOOLEAN /\ c \in Cells
  BY MeshAssumption DEF Calls
<1>2. /\ queue \in Seq(Task) /\ map \in [MapBlocks -> Nat]
      /\ \A i, j \in DOMAIN queue : queue[i].p = queue[j].p => i = j
      /\ \A k \in 1 .. Len(queue) : queue[k].acks[b] \in Nat
  BY MeshAssumption, AckTypes DEF MeshInv, MeshTypeOK, Version
<1>3. acks \in Acks /\ Held(c) \subseteq MapBlocks /\ acks[b] = v
  BY <1>1, <1>2 DEF Acks, NoAcks, One, Held, InCell
<1>4. q \in Nat /\ SumIs(AcksFor(queue, b), Len(queue), q)
  BY DEF Have
<1> HIDE DEF c, acks
<1>5. CASE queue' = queue /\ ~call.ack
  <2>1. q + v = q
    BY <1>4, <1>5
  <2>2. QED
    BY <1>5, <2>1
<1>6. CASE /\ Queued(c) # {}
           /\ queue' = [i \in DOMAIN queue |-> IF queue[i].p # c THEN queue[i] ELSE more(queue[i])]
  <2>1. PICK i \in DOMAIN queue : queue[i].p = c
    BY <1>6 DEF Queued
  <2>2. PICK n \in Nat : n = Len(queue) /\ DOMAIN queue = 1 .. n /\ i \in 1 .. n
    BY <1>2
  <2>3. DOMAIN queue' = 1 .. n /\ Len(queue') = n
    BY <1>6, <2>2
  <2> DEFINE x == AcksFor(queue, b)
             y == AcksFor(queue', b)
  <2>4. \A k \in 1 .. n : x[k] = queue[k].acks[b] /\ y[k] = queue'[k].acks[b]
    BY <2>2, <2>3 DEF AcksFor
  <2> HIDE DEF x, y
  <2>5. \A k \in 1 .. n : x[k] \in Nat
    BY <1>2, <2>2, <2>4
  <2>6. ASSUME NEW k \in 1 .. n PROVE y[k] = IF k = i THEN x[k] + v ELSE x[k]
    <3>1. CASE k = i
      <4>1. queue'[k] = more(queue[k])
        BY <1>6, <2>1, <2>2, <3>1
      <4>2. more(queue[k]).acks[b] = queue[k].acks[b] + v
        BY <1>3 DEF Plus
      <4>3. QED
        BY <2>4, <3>1, <4>1, <4>2
    <3>2. CASE k # i
      <4>1. queue[k].p # c
        BY <1>2, <2>1, <2>2, <3>2
      <4>2. queue'[k] = queue[k]
        BY <1>6, <2>2, <4>1
      <4>3. QED
        BY <2>4, <3>2, <4>2
    <3>3. QED
      BY <3>1, <3>2
  <2>7. SumIs(x, n, q)
    BY <1>4, <2>2 DEF x
  <2>8. SumIs(y, n, q + v)
    <3>1. i \in 1 .. n /\ q \in Nat
      BY <1>4, <2>2
    <3>2. y[i] = x[i] + v /\ \A k \in 1 .. n : k # i => y[k] = x[k]
      BY <2>6, <3>1
    <3>3. QED
      BY <2>5, <2>7, <3>1, <3>2, SumOfRaised
  <2>9. q + v \in Nat
    BY <1>4
  <2>10. QED
    BY <2>3, <2>8, <2>9 DEF Have, y
<1>7. CASE queue' = Append(queue, new)
  <2>1. new \in Task /\ new.acks[b] = v
    BY <1>1, <1>3 DEF Task
  <2> HIDE DEF new
  <2>2. Have(Append(queue, new), b, q + v)
    BY <1>2, <2>1, AppendHas
  <2>3. QED
    BY <1>7, <2>2
<1>8. QED
  <2>1. \/ queue' = queue /\ (map[call.b] = 0 \/ call.neighbor)
        \/ /\ Queued(c) # {}
           /\ queue' = [i \in DOMAIN queue |-> IF queue[i].p # c THEN queue[i] ELSE more(queue[i])]
        \/ queue' = Append(queue, new)
    BY DEF addBlock, c, acks
  <2>2. queue' = queue /\ (map[call.b] = 0 \/ call.neighbor) => ~call.ack
    BY <1>2
  <2>3. QED
    BY <1>5, <1>6, <1>7, <2>1, <2>2

LEMMA AddBlockKeepsAcks ==
    ASSUME AckInv, AddBlock
    PROVE  AcksFirst' /\ \A b \in MapBlocks : AcksAdd(b)'
<1>0. PICK call : call = Head(calls)
  OBVIOUS
<1>1. /\ calls \in Seq(Calls) /\ calls # <<>> /\ addBlock(call) /\ calls' = Tail(calls)
      /\ UNCHANGED <<toAck, unacked, outUrgent, outPlain, worker>>
  BY <1>0 DEF AddBlock, AckInv, MeshInv, MeshTypeOK, resultVars
<1>2. /\ call \in Calls /\ calls' \in Seq(Calls) /\ 1 \in DOMAIN calls /\ call = calls[1]
      /\ \A i \in DOMAIN calls' : i + 1 \in DOMAIN calls /\ calls'[i] = calls[i + 1]
  BY <1>0, <1>1
<1>3. AcksFirst'
  BY <1>1, <1>2 DEF AckInv, AcksFirst
<1>4. call.ack => map[call.b] > 0 /\ ~call.neighbor
  BY <1>2 DEF AckInv, MeshInv, AcksFirst, CallsAreFounded
<1>5. ASSUME NEW b \in MapBlocks PROVE AcksAdd(b)'
  <2>1. PICK c, q, h, u, p \in Nat :
            /\ CallsHave(b, c) /\ Have(queue, b, q) /\ HandsHave(b, h)
            /\ Have(outUrgent, b, u) /\ Have(outPlain, b, p)
            /\ unacked[b] = c + q + h + u + p + toAck[b]
    BY DEF AckInv, AcksAdd
  <2>2. PICK v \in Nat : v = IF call.ack /\ call.b = b THEN 1 ELSE 0
    OBVIOUS
  <2>3. v <= c /\ CallsHave(b, c - v)'
    <3> DEFINE x == CallAcks(calls, b)
               y == CallAcks(calls', b)
    <3>1. PICK n \in Nat : n = Len(calls) /\ n >= 1 /\ DOMAIN calls = 1 .. n
                           /\ Len(calls') = n - 1 /\ DOMAIN calls' = 1 .. n - 1
      BY <1>1
    <3>2. \A k \in 1 .. n : x[k] = IF calls[k].ack /\ calls[k].b = b THEN 1 ELSE 0
      BY <3>1 DEF CallAcks
    <3>3. \A k \in 1 .. n - 1 : y[k] = IF calls'[k].ack /\ calls'[k].b = b THEN 1 ELSE 0
      BY <3>1 DEF CallAcks
    <3>4. SumIs(x, n, c)
      BY <2>1, <3>1 DEF CallsHave
    <3> HIDE DEF x, y
    <3>5. \A k \in 1 .. n : x[k] \in Nat
      BY <3>2
    <3>6. \A k \in 1 .. n - 1 : y[k] = IF k < 1 THEN x[k] ELSE x[k + 1]
      <4> SUFFICES ASSUME NEW k \in 1 .. n - 1 PROVE y[k] = x[k + 1]
        OBVIOUS
      <4>1. k + 1 \in 1 .. n /\ calls'[k] = calls[k + 1]
        BY <1>2, <3>1
      <4>2. QED
        BY <3>2, <3>3, <4>1
    <3>7. 1 \in 1 .. n
      BY <3>1
    <3>8. x[1] <= c /\ SumIs(y, n - 1, c - x[1])
      BY <3>1, <3>4, <3>5, <3>6, <3>7, SumOfLess
    <3>9. x[1] = v
      BY <1>2, <2>2, <3>2, <3>7
    <3>10. v <= c /\ c - v \in Nat /\ SumIs(y, Len(calls'), c - v)
      BY <3>1, <3>8, <3>9
    <3>11. QED
      BY <3>10 DEF CallsHave, y
  <2>4. Have(queue, b, q + v)'
    BY <1>1, <1>2, <1>4, <2>1, <2>2, addBlockAcks DEF AckInv
  <2>5. HandsHave(b, h)'
    BY <1>1, <2>1, HandsStay DEF InHand
  <2>6. unacked'[b] = (c - v) + (q + v) + h + u + p + toAck'[b]
    <3>1. unacked'[b] = unacked[b] /\ toAck'[b] = toAck[b] /\ toAck[b] \in Nat
      BY <1>1, AckTypes DEF AckInv
    <3>2. QED
      BY <2>1, <3>1
  <2>7. c - v \in Nat /\ q + v \in Nat
    BY <2>3
  <2>8. Have(outUrgent, b, u)' /\ Have(outPlain, b, p)'
    BY <1>1, <2>1
  <2>9. QED
    BY <2>3, <2>4, <2>5, <2>6, <2>7, <2>8 DEF AcksAdd
<1>6. QED
  BY <1>3, <1>5

\* A thread without a task, or with the one it had.
LEMMA TasksStay ==
    ASSUME AckInv, \A w \in Workers : /\ InHand(w)' <=> InHand(w)
                                      /\ InHand(w) => worker'[w].task = worker[w].task,
           UNCHANGED <<calls, toAck, unacked, queue, outUrgent, outPlain>>
    PROVE  AcksFirst' /\ \A b \in MapBlocks : AcksAdd(b)'
<1>1. ASSUME NEW b \in MapBlocks PROVE AcksAdd(b)'
  <2>1. PICK c, q, h, u, p \in Nat :
            /\ CallsHave(b, c) /\ Have(queue, b, q) /\ HandsHave(b, h)
            /\ Have(outUrgent, b, u) /\ Have(outPlain, b, p)
            /\ unacked[b] = c + q + h + u + p + toAck[b]
    BY DEF AckInv, AcksAdd
  <2>2. HandsHave(b, h)'
    BY <2>1, HandsStay
  <2>3. CallsHave(b, c)'
    BY <2>1 DEF CallsHave
  <2>4. QED
    BY <2>1, <2>2, <2>3 DEF AcksAdd
<1>2. QED
  BY <1>1 DEF AckInv, AcksFirst

LEMMA popKeepsAcks ==
    ASSUME AckInv, NEW w \in Workers, pop(w)
    PROVE  AcksFirst' /\ \A b \in MapBlocks : AcksAdd(b)'
<1>1. queue \in Seq(Task) /\ DOMAIN worker = Workers
  BY DEF AckInv, MeshInv, MeshTypeOK
<1>2. PICK i \in Ready : i = Min(Ready)
  <2>1. Ready \in SUBSET Nat /\ Ready # {}
    BY <1>1 DEF pop, Ready
  <2>2. QED
    BY <2>1, MinIn
<1>3. i \in 1 .. Len(queue)
  BY <1>1, <1>2 DEF Ready
<1>4. /\ queue' = RemoveAt(queue, i) /\ worker[w].at = "pop"
      /\ worker' = [worker EXCEPT ![w] = [at |-> "copy", task |-> queue[i], data |-> <<>>]]
      /\ UNCHANGED <<calls, toAck, unacked, outUrgent, outPlain>>
  BY <1>2 DEF pop, Busy, mainVars, resultVars
<1>5. /\ queue' \in Seq(Task) /\ Len(queue') = Len(queue) - 1
      /\ \A k \in 1 .. Len(queue) - 1 : queue'[k] = IF k < i THEN queue[k] ELSE queue[k + 1]
  BY <1>1, <1>3, <1>4, RemoveAtIs
<1>6. /\ ~InHand(w) /\ InHand(w)' /\ worker'[w].task = queue[i]
      /\ \A x \in Workers : x # w => worker'[x] = worker[x]
  BY <1>1, <1>4 DEF InHand
<1>7. ASSUME NEW b \in MapBlocks PROVE AcksAdd(b)'
  <2>1. PICK c, q, h, u, p \in Nat :
            /\ CallsHave(b, c) /\ Have(queue, b, q) /\ HandsHave(b, h)
            /\ Have(outUrgent, b, u) /\ Have(outPlain, b, p)
            /\ unacked[b] = c + q + h + u + p + toAck[b]
    BY DEF AckInv, AcksAdd
  <2>2. toAck[b] \in Nat /\ \A k \in 1 .. Len(queue) : queue[k].acks[b] \in Nat
    BY AckTypes DEF AckInv
  <2>3. PICK v \in Nat : v = queue[i].acks[b]
    BY <1>3, <2>2
  <2>4. v <= q /\ Have(queue', b, q - v)
    BY <1>1, <1>3, <1>5, <2>1, <2>2, <2>3, RemoveHas
  <2>5. HandsHave(b, h + v)'
    BY <1>6, <2>1, <2>3, HandsTake
  <2>6. CallsHave(b, c)'
    BY <1>4, <2>1 DEF CallsHave
  <2>7. q - v \in Nat /\ h + v \in Nat
    BY <2>4
  <2>8. unacked'[b] = c + (q - v) + (h + v) + u + p + toAck'[b]
    BY <1>4, <2>1, <2>2
  <2>9. Have(queue, b, q - v)' /\ Have(outUrgent, b, u)' /\ Have(outPlain, b, p)'
    BY <1>4, <2>1, <2>4
  <2>10. QED
    BY <2>1, <2>5, <2>6, <2>7, <2>8, <2>9 DEF AcksAdd
<1>8. QED
  BY <1>4, <1>7 DEF AckInv, AcksFirst

LEMMA putResultKeepsAcks ==
    ASSUME AckInv, NEW w \in Workers, putResult(w)
    PROVE  AcksFirst' /\ \A b \in MapBlocks : AcksAdd(b)'
<1>1. /\ DOMAIN worker = Workers /\ worker[w].at = "make" /\ InHand(w)
      /\ outUrgent \in Seq(Result) /\ outPlain \in Seq(Result)
  BY DEF AckInv, MeshInv, MeshTypeOK, putResult, InHand
<1>2. PICK r : r = [p |-> worker[w].task.p, acks |-> worker[w].task.acks, data |-> worker[w].data]
  OBVIOUS
<1>3. r \in Result
  BY <1>1, <1>2 DEF AckInv, MeshInv, MeshTypeOK, Works, Task, Result
<1>4. /\ ~InHand(w)' /\ \A x \in Workers : x # w => worker'[x] = worker[x]
      /\ UNCHANGED <<calls, toAck, unacked, queue>>
  BY <1>1 DEF putResult, InHand, mainVars, queueVars
<1>5. \/ outUrgent' = Append(outUrgent, r) /\ outPlain' = outPlain
      \/ outPlain' = Append(outPlain, r) /\ outUrgent' = outUrgent
  BY <1>2 DEF putResult
<1>6. ASSUME NEW b \in MapBlocks PROVE AcksAdd(b)'
  <2>1. PICK c, q, h, u, p \in Nat :
            /\ CallsHave(b, c) /\ Have(queue, b, q) /\ HandsHave(b, h)
            /\ Have(outUrgent, b, u) /\ Have(outPlain, b, p)
            /\ unacked[b] = c + q + h + u + p + toAck[b]
    BY DEF AckInv, AcksAdd
  <2>2. toAck[b] \in Nat /\ \A x \in Workers : InHand(x) => worker[x].task.acks[b] \in Nat
    BY AckTypes DEF AckInv
  <2>3. PICK v \in Nat : v = worker[w].task.acks[b]
    BY <1>1, <2>2
  <2>4. v <= h /\ HandsHave(b, h - v)'
    BY <1>1, <1>4, <2>1, <2>2, <2>3, HandsGive
  <2>5. r.acks[b] = v
    BY <1>2, <2>3
  <2>6. CallsHave(b, c)' /\ Have(queue, b, q)'
    BY <1>4, <2>1 DEF CallsHave
  <2>7. h - v \in Nat /\ u + v \in Nat /\ p + v \in Nat
    BY <2>4
  <2>8. CASE outUrgent' = Append(outUrgent, r) /\ outPlain' = outPlain
    <3>1. Have(Append(outUrgent, r), b, u + v)
      BY <1>1, <1>3, <2>1, <2>5, AppendHas
    <3>2. Have(outUrgent, b, u + v)' /\ Have(outPlain, b, p)'
      BY <2>1, <2>8, <3>1
    <3>3. unacked'[b] = c + q + (h - v) + (u + v) + p + toAck'[b]
      BY <1>4, <2>1, <2>2
    <3>4. QED
      BY <2>4, <2>6, <2>7, <3>2, <3>3 DEF AcksAdd
  <2>9. CASE outPlain' = Append(outPlain, r) /\ outUrgent' = outUrgent
    <3>1. Have(Append(outPlain, r), b, p + v)
      BY <1>1, <1>3, <2>1, <2>5, AppendHas
    <3>2. Have(outUrgent, b, u)' /\ Have(outPlain, b, p + v)'
      BY <2>1, <2>9, <3>1
    <3>3. unacked'[b] = c + q + (h - v) + u + (p + v) + toAck'[b]
      BY <1>4, <2>1, <2>2
    <3>4. QED
      BY <2>4, <2>6, <2>7, <3>2, <3>3 DEF AcksAdd
  <2>10. QED
    BY <1>5, <2>8, <2>9
<1>7. QED
  BY <1>4, <1>6 DEF AckInv, AcksFirst

\* A result is taken, and what it acknowledges is to be sent.
LEMMA TakesAcks ==
    ASSUME AckInv, NEW r,
           \/ /\ outUrgent # <<>> /\ r = Head(outUrgent)
              /\ outUrgent' = Tail(outUrgent) /\ outPlain' = outPlain
           \/ /\ outPlain # <<>> /\ r = Head(outPlain)
              /\ outPlain' = Tail(outPlain) /\ outUrgent' = outUrgent,
           Replace(r), UNCHANGED <<calls, unacked, queue, worker>>
    PROVE  AcksFirst' /\ \A b \in MapBlocks : AcksAdd(b)'
<1>1. ASSUME NEW b \in MapBlocks PROVE AcksAdd(b)'
  <2>1. PICK c, q, h, u, p \in Nat :
            /\ CallsHave(b, c) /\ Have(queue, b, q) /\ HandsHave(b, h)
            /\ Have(outUrgent, b, u) /\ Have(outPlain, b, p)
            /\ unacked[b] = c + q + h + u + p + toAck[b]
    BY DEF AckInv, AcksAdd
  <2>2. /\ toAck[b] \in Nat
        /\ outUrgent \in Seq(Result) /\ \A k \in 1 .. Len(outUrgent) : outUrgent[k].acks[b] \in Nat
        /\ outPlain \in Seq(Result) /\ \A k \in 1 .. Len(outPlain) : outPlain[k].acks[b] \in Nat
    BY AckTypes DEF AckInv
  <2>3. PICK v : v = r.acks[b]
    OBVIOUS
  <2>4. toAck'[b] = toAck[b] + v
    BY <2>3 DEF Replace, Plus
  <2>5. CallsHave(b, c)' /\ Have(queue, b, q)' /\ HandsHave(b, h)'
    BY <2>1, HandsStay DEF CallsHave, InHand
  <2>6. CASE /\ outUrgent # <<>> /\ r = Head(outUrgent)
             /\ outUrgent' = Tail(outUrgent) /\ outPlain' = outPlain
    <3>1. v \in Nat /\ v <= u /\ Have(Tail(outUrgent), b, u - v)
      BY <2>1, <2>2, <2>3, <2>6, TailHas
    <3>2. Have(outUrgent, b, u - v)' /\ Have(outPlain, b, p)' /\ u - v \in Nat
      BY <2>1, <2>6, <3>1
    <3>3. unacked'[b] = c + q + h + (u - v) + p + toAck'[b]
      BY <2>1, <2>2, <2>4, <3>1
    <3>4. QED
      BY <2>5, <3>2, <3>3 DEF AcksAdd
  <2>7. CASE /\ outPlain # <<>> /\ r = Head(outPlain)
             /\ outPlain' = Tail(outPlain) /\ outUrgent' = outUrgent
    <3>1. v \in Nat /\ v <= p /\ Have(Tail(outPlain), b, p - v)
      BY <2>1, <2>2, <2>3, <2>7, TailHas
    <3>2. Have(outUrgent, b, u)' /\ Have(outPlain, b, p - v)' /\ p - v \in Nat
      BY <2>1, <2>7, <3>1
    <3>3. unacked'[b] = c + q + h + u + (p - v) + toAck'[b]
      BY <2>1, <2>2, <2>4, <3>1
    <3>4. QED
      BY <2>5, <3>2, <3>3 DEF AcksAdd
  <2>8. QED
    BY <2>6, <2>7
<1>2. QED
  BY <1>1 DEF AckInv, AcksFirst

LEMMA ResultsKeepAcks ==
    ASSUME AckInv, StartReplacing \/ TakeUrgent \/ TakePlain \/ EndReplacing
    PROVE  AcksFirst' /\ \A b \in MapBlocks : AcksAdd(b)'
<1>1. CASE StartReplacing \/ (TakeUrgent /\ outUrgent = <<>>)
  BY <1>1, TasksStay DEF StartReplacing, TakeUrgent, InHand, queueVars, resultVars
<1>2. CASE TakeUrgent /\ outUrgent # <<>>
  BY <1>2, TakesAcks DEF TakeUrgent, queueVars
<1>3. CASE TakePlain
  BY <1>3, TakesAcks DEF TakePlain, queueVars
<1>4. CASE EndReplacing
  <2>1. ASSUME NEW b \in MapBlocks PROVE AcksAdd(b)'
    <3>1. PICK c, q, h, u, p \in Nat :
              /\ CallsHave(b, c) /\ Have(queue, b, q) /\ HandsHave(b, h)
              /\ Have(outUrgent, b, u) /\ Have(outPlain, b, p)
              /\ unacked[b] = c + q + h + u + p + toAck[b]
      BY DEF AckInv, AcksAdd
    <3>2. toAck[b] \in Nat /\ unacked'[b] = unacked[b] - toAck[b] /\ toAck'[b] = 0
      BY <1>4, AckTypes DEF EndReplacing, NoAcks, AckInv
    <3>3. unacked'[b] = c + q + h + u + p + toAck'[b]
      BY <3>1, <3>2
    <3>4. CallsHave(b, c)' /\ HandsHave(b, h)'
      BY <1>4, <3>1, HandsStay DEF EndReplacing, CallsHave, InHand
    <3>5. Have(queue, b, q)' /\ Have(outUrgent, b, u)' /\ Have(outPlain, b, p)'
      BY <1>4, <3>1 DEF EndReplacing, queueVars, resultVars
    <3>6. QED
      BY <3>3, <3>4, <3>5 DEF AcksAdd
  <2>2. QED
    BY <1>4, <2>1 DEF EndReplacing, AckInv, AcksFirst
<1>5. QED
  BY <1>1, <1>2, <1>3, <1>4

LEMMA AckInvInitially == MeshInit => AckInv
<1> SUFFICES ASSUME MeshInit PROVE AckInv
  OBVIOUS
<1>1. MeshInv /\ AcksFirst
  BY MeshInvInitially DEF MeshInit, AcksFirst
<1>2. ASSUME NEW b \in MapBlocks PROVE AcksAdd(b)
  <2>1. CallsHave(b, 0)
    BY SumOfNone DEF MeshInit, CallsHave
  <2>2. Have(queue, b, 0) /\ Have(outUrgent, b, 0) /\ Have(outPlain, b, 0)
    BY SumOfNone DEF MeshInit, Have
  <2>3. HandsHave(b, 0)
    <3>1. Hands(<<>>)
      BY DEF MeshInit, Hands, InHand, Idle
    <3>2. SumIs(HandAcks(<<>>, b), Len(<<>>), 0)
      BY SumOfNone
    <3>3. QED
      BY <3>1, <3>2 DEF HandsHave
  <2>4. unacked[b] = 0 /\ toAck[b] = 0
    BY DEF MeshInit, NoAcks
  <2>5. unacked[b] = 0 + 0 + 0 + 0 + 0 + toAck[b]
    BY <2>4
  <2>6. QED
    BY <2>1, <2>2, <2>3, <2>5 DEF AcksAdd
<1>3. QED
  BY <1>1, <1>2 DEF AckInv

LEMMA AckInvKept == AckInv /\ [MeshNext]_meshVars => AckInv'
<1> SUFFICES ASSUME AckInv, [MeshNext]_meshVars PROVE AckInv'
  OBVIOUS
<1> DEFINE Kept == AcksFirst' /\ \A b \in MapBlocks : AcksAdd(b)'
<1>1. MeshInv'
  BY MeshInvKept DEF AckInv
<1>2. ASSUME MainStep PROVE Kept
  BY <1>2, AddBlockKeepsAcks, ResultsKeepAcks DEF MainStep
<1>3. ASSUME NEW b \in MapBlocks, ReceiveBlock(b) \/ ChangeNode(b) \/ Crack(b) PROVE Kept
  BY <1>3, UpdatesKeepAcks
<1>4. ASSUME NEW w \in Workers, Work(w) PROVE Kept
  <2>1. DOMAIN worker = Workers
    BY DEF AckInv, MeshInv, MeshTypeOK
  <2>2. CASE Wake(w) \/ popNothing(w) \/ Copy(w) \/ done(w)
    <3>1. UNCHANGED <<calls, toAck, unacked, queue, outUrgent, outPlain>>
      BY <2>2 DEF Wake, popNothing, Copy, done, mainVars, queueVars, resultVars
    <3>2. ASSUME NEW x \in Workers
          PROVE  /\ InHand(x)' <=> InHand(x)
                 /\ InHand(x) => worker'[x].task = worker[x].task
      BY <2>1, <2>2 DEF Wake, popNothing, Copy, done, Busy, Idle, InHand
    <3>3. QED
      BY <3>1, <3>2, TasksStay
  <2>3. QED
    BY <1>4, <2>2, popKeepsAcks, putResultKeepsAcks DEF Work
<1>5. ASSUME UNCHANGED meshVars PROVE Kept
  <2>1. UNCHANGED <<calls, toAck, unacked, queue, outUrgent, outPlain, worker>>
    BY <1>5 DEF meshVars, mainVars, queueVars, resultVars
  <2>2. QED
    BY <2>1, TasksStay DEF InHand
<1>6. Kept
  BY <1>2, <1>3, <1>4, <1>5 DEF MeshNext
<1>7. QED
  BY <1>1, <1>6 DEF AckInv

THEOREM AckInvariant == MeshSpec => []AckInv
<1>1. MeshInit => AckInv
  BY AckInvInitially
<1>2. AckInv /\ [MeshNext]_meshVars => AckInv'
  BY AckInvKept
<1>3. QED
  BY <1>1, <1>2, PTL DEF MeshSpec

LEMMA PlacesAddUp == AckInv => AckedOnce
<1> SUFFICES ASSUME AckInv, NEW b \in MapBlocks PROVE unacked[b] \in Nat
  BY DEF AckInv, MeshInv, MeshTypeOK, AckedOnce, Acks
<1>1. toAck[b] \in Nat
  BY AckTypes DEF AckInv
<1>2. PICK c, q, h, u, p \in Nat : unacked[b] = c + q + h + u + p + toAck[b]
  BY DEF AckInv, AcksAdd
<1>3. QED
  BY <1>1, <1>2

\* No block is acknowledged more often than it has come: an acknowledgement due is in one
\* call, update, task or result, whatever addBlock merges or takes for air (addBlock,
\* putResult, "Replace updated meshes" of Client::step).
THEOREM NoneAckedTwice == MeshSpec => []AckedOnce
BY AckInvariant, PlacesAddUp, PTL

-----------------------------------------------------------------------------
(* Both parts of MCBlocks.                                                 *)

\* A behaviour of one part leaves the other as it began.
BlocksInv == Ground /\ AckInv

\* MCBlocks' BlocksTypeOK: type correctness of the transfer and of the meshes, and no
\* block is acknowledged more often than it has come.
THEOREM BlocksTypeCorrect == BlocksSpec => []BlocksTypeOK
<1>1. BlocksInit => BlocksInv
  BY GroundInit, AckInvInitially DEF BlocksInit, BlocksInv
<1>2. BlocksInv /\ [BlocksNext]_allVars => BlocksInv'
  <2> SUFFICES ASSUME BlocksInv, [BlocksNext]_allVars PROVE BlocksInv'
    OBVIOUS
  <2>1. [Next]_vars /\ [MeshNext]_meshVars
    BY DEF BlocksNext, Transfer, Meshing, allVars
  <2>2. QED
    BY <2>1, GroundKept, AckInvKept DEF BlocksInv
<1>3. BlocksInv => BlocksTypeOK
  BY PlacesAddUp DEF BlocksInv, BlocksTypeOK, Ground, AckInv, MeshInv
<1>4. QED
  BY <1>1, <1>2, <1>3, PTL DEF BlocksSpec
=============================================================================
