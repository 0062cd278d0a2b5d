----------------------------- MODULE MeshQueue -----------------------------
(***************************************************************************)
(* How the client makes the meshes of its map                              *)
(* (src/client/mesh_generator_thread.cpp, and "Replace updated meshes" of  *)
(* Client::step): the main thread queues updates of changed blocks, worker *)
(* threads copy the blocks and make the meshes, the main thread takes the  *)
(* results and acknowledges the blocks that came from the server.          *)
(*                                                                         *)
(* A mesh covers the blocks of one cell of the mesh grid.  What a block    *)
(* looks like is a version.  A copy made while the main thread writes to   *)
(* the block (the data race the code notes) is like one of the old         *)
(* version: all that matters is whether it is the newest.  The end of the  *)
(* game session, which empties the queues, is not modelled.                *)
(***************************************************************************)
EXTENDS Integers, Sequences, FiniteSets, SequencesExt, FiniteSetsExt

CONSTANTS
    MapBlocks,
    Cells,          \* mesh positions
    MeshPos,        \* MapBlocks -> Cells: getMeshPos
    NextTo,         \* MapBlocks -> SUBSET MapBlocks: neighbours whose mesh may change, too
    AtFirst,        \* the blocks that are there, and drawn, from the start
    Workers,
    MaxUpdates      \* bound: blocks received, changed nodes and cracks

ASSUME MeshAssumption ==
    /\ MeshPos \in [MapBlocks -> Cells] /\ NextTo \in [MapBlocks -> SUBSET MapBlocks]
    /\ \A b \in MapBlocks : IsFiniteSet(NextTo[b])
    /\ MaxUpdates \in Nat

VARIABLES
    map,            \* MapBlocks -> version, 0 while the client has no such block
    calls,          \* the addBlock calls that updateBlock still has to make
    main,           \* "step", or where the loop over the results is: "urgent", "plain"
    toAck,          \* blocks_to_ack
    queue,          \* m_queue
    urgents,        \* m_urgents
    inflight,       \* m_inflight_blocks
    posted,         \* Workers -> whether m_update_sem is above zero
    worker,         \* Workers -> where its thread is, and with what
    outUrgent, outPlain,    \* m_queue_out_urgent, m_queue_out
    mesh,           \* Cells -> what is drawn: the versions the mesh was made from
    unacked,        \* MapBlocks -> how many BLOCKDATA have not been acknowledged
    overtaken,      \* history: cells that had results in both queues
    updates         \* what is left of MaxUpdates

mainVars == <<map, calls, main, toAck, mesh, unacked, updates>>
queueVars == <<queue, urgents, inflight>>
resultVars == <<outUrgent, outPlain, overtaken>>

meshVars == <<mainVars, queueVars, resultVars, posted, worker>>

InCell(c) == {b \in MapBlocks : MeshPos[b] = c}

\* What the mesh of a cell should be made from, given the blocks the client has.
Look(c) == [b \in InCell(c) |-> map[b]]

NoAcks == [b \in MapBlocks |-> 0]
Plus(f, g) == [b \in MapBlocks |-> f[b] + g[b]]
One(b) == [NoAcks EXCEPT ![b] = 1]

Idle == [at |-> "idle", task |-> [p |-> 0], data |-> <<>>]

MeshInit ==
    /\ map = [b \in MapBlocks |-> IF b \in AtFirst THEN 1 ELSE 0]
    /\ calls = <<>> /\ main = "step" /\ toAck = NoAcks
    /\ queue = <<>> /\ urgents = {} /\ inflight = {}
    /\ posted = [w \in Workers |-> FALSE] /\ worker = [w \in Workers |-> Idle]
    /\ outUrgent = <<>> /\ outPlain = <<>> /\ overtaken = {}
    /\ mesh = [c \in Cells |-> Look(c)]
    /\ unacked = NoAcks /\ updates = MaxUpdates

-----------------------------------------------------------------------------
(* The main thread: updates *)

Call(b, ack, urgent, neighbor) ==
    [b |-> b, ack |-> ack, urgent |-> urgent, neighbor |-> neighbor]

\* updateBlock with the blocks around it: the calls of addBlock it makes one by one.
WithEdge(b, ack, urgent) ==
    <<Call(b, ack, urgent, FALSE)>> \o
        [i \in 1..Cardinality(NextTo[b]) |->
            Call(SetToSeq(NextTo[b])[i], FALSE, urgent, TRUE)]

Free == main = "step" /\ calls = <<>> /\ updates > 0

\* handleCommand_BlockData: the block replaces the one the client has.
ReceiveBlock(b) ==
    /\ Free
    /\ map' = [map EXCEPT ![b] = @ + 1]
    /\ calls' = WithEdge(b, TRUE, FALSE)
    /\ unacked' = [unacked EXCEPT ![b] = @ + 1]
    /\ updates' = updates - 1
    /\ UNCHANGED <<main, toAck, mesh, queueVars, resultVars, posted, worker>>

\* addNode, removeNode and the prediction of a dig or a placed node.
ChangeNode(b) ==
    /\ Free /\ map[b] > 0
    /\ map' = [map EXCEPT ![b] = @ + 1]
    /\ calls' = WithEdge(b, FALSE, TRUE)
    /\ updates' = updates - 1
    /\ UNCHANGED <<main, toAck, mesh, unacked, queueVars, resultVars, posted, worker>>

\* setCrack: the mesh changes, the block does not.
Crack(b) ==
    /\ Free /\ map[b] > 0
    /\ calls' = <<Call(b, FALSE, TRUE, FALSE)>>
    /\ updates' = updates - 1
    /\ UNCHANGED <<map, main, toAck, mesh, unacked, queueVars, resultVars, posted, worker>>

\* The blocks a task holds references to: those the client has by now.
Held(c) == {b \in InCell(c) : map[b] > 0}

Queued(c) == {i \in DOMAIN queue : queue[i].p = c}

addBlock(call) ==
    LET c == MeshPos[call.b]
        acks == IF call.ack THEN One(call.b) ELSE NoAcks
        marked == IF call.urgent THEN urgents \union {c} ELSE urgents
    IN  IF map[call.b] = 0 THEN UNCHANGED <<queue, urgents>>
        ELSE IF Queued(c) # {}
        THEN /\ queue' = [i \in DOMAIN queue |->
                            IF queue[i].p # c THEN queue[i]
                            ELSE [p |-> c, acks |-> Plus(queue[i].acks, acks),
                                  urgent |-> queue[i].urgent \/ call.urgent,
                                  blocks |-> queue[i].blocks \union Held(c)]]
             /\ urgents' = marked
        ELSE \/ /\ queue' = Append(queue, [p |-> c, acks |-> acks, urgent |-> call.urgent,
                                           blocks |-> Held(c)])
                /\ urgents' = marked
             \/ /\ call.neighbor        \* and all of the cell is air
                /\ urgents' = urgents \ {c}
                /\ UNCHANGED queue

\* One call; after the last one the workers are woken.
AddBlock ==
    /\ calls # <<>>
    /\ addBlock(Head(calls))
    /\ calls' = Tail(calls)
    /\ posted' = IF Tail(calls) = <<>> THEN [w \in Workers |-> TRUE] ELSE posted
    /\ UNCHANGED <<map, main, toAck, mesh, unacked, updates, inflight, resultVars, worker>>

-----------------------------------------------------------------------------
(* A worker thread *)

Busy(w, x) == worker' = [worker EXCEPT ![w] = x]

\* run: it waits for the semaphore and sets it to zero before it looks at the queue.
Wake(w) ==
    /\ worker[w].at = "idle" /\ posted[w]
    /\ posted' = [posted EXCEPT ![w] = FALSE]
    /\ Busy(w, [Idle EXCEPT !.at = "pop"])
    /\ UNCHANGED <<mainVars, queueVars, resultVars>>

\* Fault: two threads may work on one cell.
EligibleTwice(q) == urgents # {} => q.p \in urgents

\* While any update is urgent only urgent ones are taken, and never one of a cell that
\* another thread works on.
Eligible(q) == (urgents # {} => q.p \in urgents) /\ q.p \notin inflight

Ready == {i \in DOMAIN queue : Eligible(queue[i])}

pop(w) ==
    /\ worker[w].at = "pop" /\ Ready # {}
    /\ LET i == Min(Ready)
           q == queue[i]
       IN  /\ queue' = RemoveAt(queue, i)
           /\ urgents' = urgents \ {q.p}
           /\ inflight' = inflight \union {q.p}
           /\ Busy(w, [at |-> "copy", task |-> q, data |-> <<>>])
    /\ UNCHANGED <<mainVars, resultVars, posted>>

popNothing(w) ==
    /\ worker[w].at = "pop" /\ Ready = {}
    /\ Busy(w, Idle)
    /\ UNCHANGED <<mainVars, queueVars, resultVars, posted>>

\* fillDataFromMapBlocks, without the lock.
Copy(w) ==
    /\ worker[w].at = "copy"
    /\ LET q == worker[w].task
       IN  Busy(w, [at |-> "make", task |-> q,
                    data |-> [b \in InCell(q.p) |-> IF b \in q.blocks THEN map[b] ELSE 0]])
    /\ UNCHANGED <<mainVars, queueVars, resultVars, posted>>

Has(out, c) == \E i \in DOMAIN out : out[i].p = c

putResult(w) ==
    /\ worker[w].at = "make"
    /\ LET q == worker[w].task
           r == [p |-> q.p, acks |-> q.acks, data |-> worker[w].data]
           other == IF q.urgent THEN outPlain ELSE outUrgent
       IN  /\ outUrgent' = IF q.urgent THEN Append(outUrgent, r) ELSE outUrgent
           /\ outPlain' = IF q.urgent THEN outPlain ELSE Append(outPlain, r)
           /\ overtaken' = IF Has(other, q.p) THEN overtaken \union {q.p}
                           ELSE IF Has(outUrgent \o outPlain, q.p) THEN overtaken
                           ELSE overtaken \ {q.p}
    /\ worker' = [worker EXCEPT ![w].at = "done"]
    /\ UNCHANGED <<mainVars, queueVars, posted>>

done(w) ==
    /\ worker[w].at = "done"
    /\ inflight' = inflight \ {worker[w].task.p}
    /\ Busy(w, [Idle EXCEPT !.at = "pop"])
    /\ UNCHANGED <<mainVars, queue, urgents, resultVars, posted>>

-----------------------------------------------------------------------------
(* The main thread: results, until both queues have been found empty *)

StartReplacing ==
    /\ main = "step" /\ calls = <<>>
    /\ main' = "urgent"
    /\ UNCHANGED <<map, calls, toAck, mesh, unacked, updates, queueVars, resultVars, posted, worker>>

Replace(r) ==
    /\ mesh' = [mesh EXCEPT ![r.p] = r.data]
    /\ toAck' = Plus(toAck, r.acks)

TakeUrgent ==
    /\ main = "urgent"
    /\ IF outUrgent # <<>>
       THEN Replace(Head(outUrgent)) /\ outUrgent' = Tail(outUrgent) /\ UNCHANGED main
       ELSE main' = "plain" /\ UNCHANGED <<mesh, toAck, outUrgent>>
    /\ UNCHANGED <<map, calls, unacked, updates, queueVars, outPlain, overtaken, posted, worker>>

TakePlain ==
    /\ main = "plain" /\ outPlain # <<>>
    /\ Replace(Head(outPlain))
    /\ outPlain' = Tail(outPlain)
    /\ main' = "urgent"
    /\ UNCHANGED <<map, calls, unacked, updates, queueVars, outUrgent, overtaken, posted, worker>>

\* sendGotBlocks.
EndReplacing ==
    /\ main = "plain" /\ outPlain = <<>>
    /\ main' = "step"
    /\ unacked' = [b \in MapBlocks |-> unacked[b] - toAck[b]]
    /\ toAck' = NoAcks
    /\ UNCHANGED <<map, calls, mesh, updates, queueVars, resultVars, posted, worker>>

-----------------------------------------------------------------------------
Work(w) == Wake(w) \/ pop(w) \/ popNothing(w) \/ Copy(w) \/ putResult(w) \/ done(w)

MainStep == AddBlock \/ StartReplacing \/ TakeUrgent \/ TakePlain \/ EndReplacing

MeshNext ==
    \/ MainStep
    \/ \E b \in MapBlocks : ReceiveBlock(b) \/ ChangeNode(b) \/ Crack(b)
    \/ \E w \in Workers : Work(w)

\* The threads run.
MeshSpec ==
    /\ MeshInit /\ [][MeshNext]_meshVars
    /\ WF_meshVars(MainStep) /\ \A w \in Workers : WF_meshVars(Work(w))

-----------------------------------------------------------------------------
(* Properties *)

Acks == [MapBlocks -> Nat]
Calls == [b : MapBlocks, ack : BOOLEAN, urgent : BOOLEAN, neighbor : BOOLEAN]
Task == [p : Cells, acks : Acks, urgent : BOOLEAN, blocks : SUBSET MapBlocks]
Version == 0..(MaxUpdates + 1)
Looks == UNION {[InCell(c) -> Version] : c \in Cells}
Result == [p : Cells, acks : Acks, data : Looks]

Works(w) == worker[w].at \in {"copy", "make", "done"}

\* Type correctness.  A cell has at most one update in the queue and one in the hands of a
\* thread.
MeshTypeOK ==
    /\ map \in [MapBlocks -> Version] /\ calls \in Seq(Calls) /\ main \in {"step", "urgent", "plain"}
    /\ toAck \in Acks /\ unacked \in [MapBlocks -> Int] /\ updates \in 0..MaxUpdates
    /\ urgents \subseteq Cells /\ inflight \subseteq Cells /\ overtaken \subseteq Cells
    /\ queue \in Seq(Task)
    /\ \A i, j \in DOMAIN queue : queue[i].p = queue[j].p => i = j
    /\ outUrgent \in Seq(Result) /\ outPlain \in Seq(Result) /\ mesh \in [Cells -> Looks]
    /\ posted \in [Workers -> BOOLEAN] /\ DOMAIN worker = Workers
    /\ \A w \in Workers :
          /\ worker[w].at \in {"idle", "pop", "copy", "make", "done"}
          /\ Works(w) =>
                /\ worker[w] = [at |-> worker[w].at, task |-> worker[w].task,
                                data |-> worker[w].data]
                /\ worker[w].task \in Task /\ worker[w].task.p \in inflight
                /\ worker[w].at = "make" => worker[w].data \in Looks
    /\ \A v, w \in Workers :
          Works(v) /\ Works(w) /\ worker[v].task.p = worker[w].task.p => v = w

\* No block is acknowledged more often than it has come.
AckedOnce == unacked \in Acks

\* Nothing is under way for the cell.
AtRest(c) ==
    /\ Queued(c) = {} /\ c \notin inflight /\ ~Has(outUrgent \o outPlain, c)
    /\ \A i \in DOMAIN calls : MeshPos[calls[i].b] # c

\* What is drawn is what the client has, once nothing is under way, however many threads
\* make meshes and whichever results are taken first, unless a cell had a plain and an
\* urgent result waiting at once: the urgent one is then taken first even if it is newer,
\* and the older mesh replaces it.
NewestIsDrawn == \A c \in Cells \ overtaken : AtRest(c) => mesh[c] = Look(c)

\* Every update is made and every block received is acknowledged in the end, once: no
\* wake-up is lost, and no mark of urgency without an update stops all others.
Finished == unacked = NoAcks /\ \A c \in Cells : AtRest(c)

MeshesFinish == <>[]Finished
=============================================================================
