--------------------------- MODULE BlockTransfer ---------------------------
(***************************************************************************)
(* How the blocks of the map reach a client and stay up to date there:     *)
(* RemoteClient (src/server/clientiface.cpp), Server::SendBlocks and the   *)
(* map edit queue (src/server.cpp), the server's handlers of GOTBLOCKS,    *)
(* DELETEDBLOCKS and INTERACT, and what the client does with BLOCKDATA and *)
(* with single changed nodes.                                              *)
(*                                                                         *)
(* One client: RemoteClient is kept per client and clients meet only in    *)
(* the server-wide limit of transfers, which one client cannot reach.      *)
(* The contents of a block are the versions of its nodes.  Each reliable   *)
(* MTP channel keeps its order (FifoChannel); there is none between two    *)
(* channels.  At most one block of the view is at each distance.           *)
(***************************************************************************)
EXTENDS Integers, Sequences, FiniteSets, SequencesExt, FiniteSetsExt

CONSTANTS
    Blocks,             \* the blocks in the client's view
    Dist,               \* Blocks -> Nat: the cube surface a block lies on
    None,               \* no block: not made, or not with the client
    Air,                \* a node the player has dug, the server's answer pending
    Nodes,              \* positions within a block
    FarAway,            \* blocks more than 30 nodes from the player
    Close,              \* blocks no node of which is more than 5 nodes from the player
    Made,               \* blocks the server has from the start
    FullD,              \* full_d_max
    Increment,          \* max_d_increment_at_time
    CullDistance,       \* m_block_cull_optimize_distance
    MaxSimul,           \* m_max_simul_sends
    SingleChangeLimit,  \* queued edits from which only changes in Close are sent singly
    MaxEvents           \* bound: edits, digs, unloaded blocks, restarts of the scan and
                        \* changes of what is hidden

ASSUME DistancesDiffer ==
    \A b, c \in Blocks : Dist[b] \in 0..FullD /\ (Dist[b] = Dist[c] => b = c)

\* In a view that one pass covers, the distance from which the scan goes on never changes
\* and the occlusion cache is never emptied: see EventuallyShown.
ASSUME ViewNeedsTwoPasses == FullD > Increment

ASSUME CloseIsNotFar == Close \intersect FarAway = {}

Versions == 0..MaxEvents

\* A block has nodes, and no block is a block's contents.
ASSUME BlocksAssumption ==
    /\ {FullD, Increment, MaxSimul, MaxEvents} \subseteq Nat
    /\ Nodes # {} /\ None \notin Nodes
    /\ None \notin [Nodes -> Versions \union {Air}]

VARIABLES
    world,      \* Blocks -> contents, or None while a block has not been made
    edits,      \* m_unsent_map_edit_queue
    phase,      \* "step": between SendBlocks and the edit queue; "receive": after it
    rc,         \* RemoteClient: sending, sent, occ, nearest, paused
    queued,     \* blocks in the emerge queue
    hidden,     \* blocks that isBlockOccluded finds occluded
    bulk,       \* channel 2 to the client: BLOCKDATA
    changes,    \* channel 0 to the client: ADDNODE, REMOVENODE
    reports,    \* channel 2 to the server: GOTBLOCKS, DELETEDBLOCKS
    digs,       \* channel 0 to the server: INTERACT_DIGGING_COMPLETED
    copy,       \* the client's map
    owed,       \* Blocks -> Nat: BLOCKDATA received and not yet acknowledged
    crossed,    \* history: blocks of which both channels carried news at a time
    left        \* what is left of MaxEvents

vars == <<world, edits, phase, rc, queued, hidden, bulk, changes, reports, digs, copy,
          owed, crossed, left>>

Occludable == {b \in Blocks : Dist[b] > 0}      \* not the block the player is in

Contents == [Nodes -> Versions]
Nothing == [n \in Nodes |-> 0]

TypeOK ==
    /\ world \in [Blocks -> Contents \union {None}]
    /\ edits \in Seq([b : Blocks, n : Nodes \union {None}, v : Versions, low : BOOLEAN])
    /\ phase \in {"step", "receive"}
    /\ rc \in [sending : SUBSET Blocks, sent : SUBSET Blocks, occ : SUBSET Blocks,
               nearest : 0..(FullD + 1), paused : BOOLEAN]
    /\ queued \subseteq Blocks /\ hidden \subseteq Blocks
    /\ bulk \in Seq([b : Blocks, c : Contents])
    /\ changes \in Seq([b : Blocks, n : Nodes, v : Versions])
    /\ reports \in Seq([type : {"got", "deleted"}, b : Blocks])
    /\ digs \in Seq([b : Blocks, n : Nodes])
    /\ copy \in [Blocks -> [Nodes -> Versions \union {Air}] \union {None}]
    /\ owed \in [Blocks -> Nat]
    /\ crossed \subseteq Blocks /\ left \in 0..MaxEvents

Init ==
    /\ world = [b \in Blocks |-> IF b \in Made THEN Nothing ELSE None]
    /\ edits = <<>> /\ phase = "receive"
    /\ rc = [sending |-> {}, sent |-> {}, occ |-> {}, nearest |-> 0, paused |-> FALSE]
    /\ queued = {} /\ hidden \in SUBSET Occludable
    /\ bulk = <<>> /\ changes = <<>> /\ reports = <<>> /\ digs = <<>>
    /\ copy = [b \in Blocks |-> None]
    /\ owed = [b \in Blocks |-> 0]
    /\ crossed = {}
    /\ left = MaxEvents

-----------------------------------------------------------------------------
(* RemoteClient *)

\* Fault: only a transfer in progress is forgotten.
NotSentIfSending(c, b, low) ==
    [c EXCEPT !.paused = FALSE, !.sending = @ \ {b}, !.nearest = Min({@, Dist[b]})]

\* A change of low priority in a block that is not close waits until the scan comes round.
SetBlockNotSent(c, b, low) ==
    IF b \in c.sending \union c.sent
    THEN [c EXCEPT !.paused = FALSE, !.sending = @ \ {b}, !.sent = @ \ {b},
                   !.nearest = IF low /\ Dist[b] >= CullDistance THEN @
                               ELSE Min({@, Dist[b]})]
    ELSE [c EXCEPT !.paused = FALSE]

ResendBlockIfOnWire(c, b) == IF b \in c.sending THEN SetBlockNotSent(c, b, FALSE) ELSE c

\* Fault: what the client acknowledges counts as sent, whatever has happened meanwhile.
GotAnyBlock(c, b) == [c EXCEPT !.sending = @ \ {b}, !.sent = @ \union {b}]

\* Only a block that was being sent becomes a sent one: it may have been modified since.
GotBlock(c, b) ==
    IF b \in c.sending THEN [c EXCEPT !.sending = @ \ {b}, !.sent = @ \union {b}] ELSE c

SentBlock(c, b) == [c EXCEPT !.sending = @ \union {b}]

\* One pass over the cube surfaces from distance "start" on: which blocks it selects
\* for sending, asks the emerge threads for or finds occluded, and where it ends.
Scan(start) ==
    LET last == Min({FullD, start + Increment})
        visited == {b \in Blocks : Dist[b] \in start..last}
        fresh == visited \ (rc.sending \union rc.sent)
        culled == {b \in fresh \intersect (rc.occ \union hidden) :
                       world[b] # None \/ b \notin queued}
        ready == {b \in fresh \ culled : world[b] # None}
        room == MaxSimul - Cardinality(rc.sending)
        reached == {b \in visited : Cardinality({c \in ready : Dist[c] < Dist[b]}) < room}
    IN  [selected |-> ready \intersect reached,
         emerging |-> ((fresh \ culled) \ ready) \intersect reached,
         occluded |-> culled \intersect reached,
         d |-> IF reached = visited THEN last + 1
               ELSE Min({Dist[b] : b \in visited \ reached})]

\* Fault: the scan goes on behind where it stopped.
NearestBehind(scan) == scan.d + 1

\* From where the next pass goes on.
NextNearest(scan) ==
    IF scan.emerging # {} THEN Min({Dist[b] : b \in scan.emerging})
    ELSE IF scan.d > FullD THEN 0
    ELSE IF scan.selected # {} THEN Min({Dist[b] : b \in scan.selected})
    ELSE scan.d

\* Fault: blocks found occluded stay so.
AfterScanOccluded(scan, start) ==
    [rc EXCEPT !.nearest = NextNearest(scan),
               !.paused = scan.emerging = {} /\ scan.d > FullD,
               !.occ = @ \union scan.occluded]

AfterScan(scan, start) ==
    LET nearest == NextNearest(scan)
    IN  [rc EXCEPT !.nearest = nearest,
                   !.paused = scan.emerging = {} /\ scan.d > FullD,
                   !.occ = IF nearest # start THEN {} ELSE @ \union scan.occluded]

\* They are sent in the order of their distances.
Closest(S, i) == CHOOSE b \in S : Cardinality({c \in S : Dist[c] <= Dist[b]}) = i

-----------------------------------------------------------------------------
(* The server *)

InFlight(b) ==
    [bulk |-> \E i \in DOMAIN bulk : bulk[i].b = b,
     changes |-> \E i \in DOMAIN changes : changes[i].b = b]

\* GetNextBlocks and the transfers it asks for.  While the pause lasts, or all
\* transfers are in use, nothing happens; a turn of the camera, a step into another
\* block or a scan that takes too long starts it again at the player.
SendBlocks ==
    /\ phase = "receive"
    /\ phase' = "step"
    /\ \/ /\ rc.paused \/ Cardinality(rc.sending) >= MaxSimul
          /\ UNCHANGED <<rc, queued, bulk, crossed, left>>
       \/ \E reset \in (IF left > 0 THEN BOOLEAN ELSE {FALSE}) :
             LET start == IF reset THEN 0 ELSE rc.nearest
                 scan == Scan(start)
                 S == scan.selected
             IN  /\ ~rc.paused /\ Cardinality(rc.sending) < MaxSimul
                 /\ rc' = [AfterScan(scan, start) EXCEPT !.sending = @ \union S]
                 /\ queued' = queued \union scan.emerging
                 /\ bulk' = bulk \o [i \in 1..Cardinality(S) |->
                                        LET b == Closest(S, i) IN [b |-> b, c |-> world[b]]]
                 /\ crossed' = (crossed \union {b \in S : InFlight(b).changes})
                               \ {b \in S : ~InFlight(b).bulk /\ ~InFlight(b).changes}
                 /\ left' = IF reset THEN left - 1 ELSE left
    /\ UNCHANGED <<world, edits, hidden, changes, reports, digs, copy, owed>>

\* send_mapblock of the Lua API sends a block out of turn and does not note it.
SendBlock(b) ==
    /\ left > 0 /\ world[b] # None /\ b \notin rc.sent
    /\ bulk' = Append(bulk, [b |-> b, c |-> world[b]])
    /\ crossed' = IF InFlight(b).changes THEN crossed \union {b} ELSE crossed
    /\ left' = left - 1
    /\ UNCHANGED <<queued, world, edits, phase, rc, hidden, changes, reports, digs, copy, owed>>

\* m_nothing_to_send_pause_timer runs out.
PauseEnds ==
    /\ rc.paused
    /\ rc' = [rc EXCEPT !.paused = FALSE]
    /\ UNCHANGED <<queued, world, edits, phase, hidden, bulk, changes, reports, digs, copy, owed,
                   crossed, left>>

Edit(b, n, v) == [b |-> b, n |-> n, v |-> v, low |-> FALSE]

\* An emerge thread has loaded or generated a block and reports it as modified.
BlockMade(b) ==
    /\ b \in queued
    /\ queued' = queued \ {b}
    /\ world' = [world EXCEPT ![b] = Nothing]
    /\ edits' = Append(edits, Edit(b, None, 0))
    /\ UNCHANGED <<phase, rc, hidden, bulk, changes, reports, digs, copy, owed, crossed, left>>

NextVersion(b) == 1 + Max({world[b][n] : n \in Nodes})

\* Lua, liquids or another player change a node: MEET_ADDNODE, MEET_REMOVENODE.
EditNode(b, n) ==
    /\ left > 0 /\ world[b] # None
    /\ world' = [world EXCEPT ![b][n] = NextVersion(b)]
    /\ edits' = Append(edits, Edit(b, n, NextVersion(b)))
    /\ left' = left - 1
    /\ UNCHANGED <<queued, phase, rc, hidden, bulk, changes, reports, digs, copy, owed, crossed>>

\* A whole block changes (MEET_OTHER), with low priority if liquids or light did it.
EditBlock(b, low) ==
    /\ left > 0 /\ world[b] # None
    /\ world' = [world EXCEPT ![b] = [n \in Nodes |-> NextVersion(b)]]
    /\ edits' = Append(edits, [Edit(b, None, NextVersion(b)) EXCEPT !.low = low])
    /\ left' = left - 1
    /\ UNCHANGED <<queued, phase, rc, hidden, bulk, changes, reports, digs, copy, owed, crossed>>

\* A long queue lowers the distance within which a change is sent singly from 30 to 5 nodes.
OutOfRange(b) == b \in FarAway \/ (Len(edits) >= SingleChangeLimit /\ b \notin Close)

\* sendNodeChangePkt: a client that has not got the block yet, or is far from the node,
\* is not told of the node: the block is sent to it again.
SendChange(acc, e) ==
    IF e.n = None \/ e.b \notin acc.rc.sent \/ OutOfRange(e.b)
    THEN [acc EXCEPT !.rc = SetBlockNotSent(@, e.b, e.low)]
    ELSE [acc EXCEPT !.changes = Append(@, [b |-> e.b, n |-> e.n, v |-> e.v])]

SendEdits ==
    LET acc == FoldLeft(SendChange, [rc |-> rc, changes |-> changes], edits)
    IN  /\ phase = "step"
        /\ phase' = "receive"
        /\ edits' = <<>>
        /\ rc' = acc.rc /\ changes' = acc.changes
        /\ crossed' = crossed \union {b \in Blocks : InFlight(b).bulk /\
                         \E i \in DOMAIN acc.changes : acc.changes[i].b = b}
        /\ UNCHANGED <<queued, world, hidden, bulk, reports, digs, copy, owed, left>>

handleCommand_GotBlocks ==
    /\ phase = "receive" /\ reports # <<>> /\ Head(reports).type = "got"
    /\ rc' = GotBlock(rc, Head(reports).b)
    /\ reports' = Tail(reports)
    /\ UNCHANGED <<queued, world, edits, phase, hidden, bulk, changes, digs, copy, owed, crossed, left>>

handleCommand_DeletedBlocks ==
    /\ phase = "receive" /\ reports # <<>> /\ Head(reports).type = "deleted"
    /\ rc' = SetBlockNotSent(rc, Head(reports).b, FALSE)
    /\ reports' = Tail(reports)
    /\ UNCHANGED <<queued, world, edits, phase, hidden, bulk, changes, digs, copy, owed, crossed, left>>

\* A completed dig: carried out, or not, and then the block is sent again to put the
\* client's prediction right.
handleCommand_Interact ==
    /\ phase = "receive" /\ digs # <<>>
    /\ digs' = Tail(digs)
    /\ LET b == Head(digs).b
           n == Head(digs).n
           v == NextVersion(b)
       IN  \/ /\ world' = [world EXCEPT ![b][n] = v]
              /\ edits' = Append(edits, Edit(b, n, v))
              /\ rc' = ResendBlockIfOnWire(rc, b)
           \/ /\ rc' = SetBlockNotSent(rc, b, FALSE)
              /\ UNCHANGED <<world, edits>>
    /\ UNCHANGED <<queued, phase, hidden, bulk, changes, reports, copy, owed, crossed, left>>

-----------------------------------------------------------------------------
(* The client *)

handleCommand_BlockData ==
    /\ bulk # <<>>
    /\ bulk' = Tail(bulk)
    /\ copy' = [copy EXCEPT ![Head(bulk).b] = Head(bulk).c]
    /\ owed' = [owed EXCEPT ![Head(bulk).b] = @ + 1]
    /\ UNCHANGED <<queued, world, edits, phase, rc, hidden, changes, reports, digs, crossed, left>>

\* A change of a node in a block the client does not have is dropped.
handleCommand_AddNode ==
    /\ changes # <<>>
    /\ changes' = Tail(changes)
    /\ LET e == Head(changes)
       IN  copy' = IF copy[e.b] = None THEN copy ELSE [copy EXCEPT ![e.b][e.n] = e.v]
    /\ UNCHANGED <<queued, world, edits, phase, rc, hidden, bulk, reports, digs, owed, crossed, left>>

\* A received block has been meshed (MeshQueue): it is acknowledged.
sendGotBlocks(b) ==
    /\ owed[b] > 0
    /\ owed' = [owed EXCEPT ![b] = @ - 1]
    /\ reports' = Append(reports, [type |-> "got", b |-> b])
    /\ UNCHANGED <<queued, world, edits, phase, rc, hidden, bulk, changes, digs, copy, crossed, left>>

\* timerUpdate: a block unused for long is dropped, unless the mesh threads hold it.
UnloadBlock(b) ==
    /\ left > 0 /\ copy[b] # None /\ owed[b] = 0
    /\ copy' = [copy EXCEPT ![b] = None]
    /\ reports' = Append(reports, [type |-> "deleted", b |-> b])
    /\ left' = left - 1
    /\ UNCHANGED <<queued, world, edits, phase, rc, hidden, bulk, changes, digs, owed, crossed>>

\* The player digs a node: the client shows the result before the server has decided.
Dig(b, n) ==
    /\ left > 0 /\ copy[b] # None
    /\ copy' = [copy EXCEPT ![b][n] = Air]
    /\ digs' = Append(digs, [b |-> b, n |-> n])
    /\ left' = left - 1
    /\ UNCHANGED <<queued, world, edits, phase, rc, hidden, bulk, changes, reports, owed, crossed>>

\* What stood between the player and a block has gone, or something is put there.
Occlude(b) ==
    /\ left > 0
    /\ hidden' = IF b \in hidden THEN hidden \ {b} ELSE hidden \union {b}
    /\ left' = left - 1
    /\ UNCHANGED <<queued, world, edits, phase, rc, bulk, changes, reports, digs, copy, owed, crossed>>

-----------------------------------------------------------------------------
ServerStep == SendBlocks \/ SendEdits

ServerReceive ==
    handleCommand_GotBlocks \/ handleCommand_DeletedBlocks \/ handleCommand_Interact

ClientReceive == handleCommand_BlockData \/ handleCommand_AddNode

Next ==
    \/ ServerStep \/ PauseEnds \/ ServerReceive \/ ClientReceive
    \/ \E b \in Blocks : \/ BlockMade(b) \/ sendGotBlocks(b)
                         \/ UnloadBlock(b) \/ SendBlock(b)
                         \/ \E low \in BOOLEAN : EditBlock(b, low)
                         \/ \E n \in Nodes : EditNode(b, n) \/ Dig(b, n)
    \/ \E b \in Occludable : Occlude(b)

\* The server steps and reads its packets, the emerge threads and the mesh threads
\* finish what they were asked for, reliable messages arrive, and timers run out.
Fairness ==
    /\ WF_vars(ServerStep) /\ SF_vars(ServerReceive) /\ WF_vars(PauseEnds)
    /\ WF_vars(ClientReceive)
    /\ WF_vars(\E b \in Blocks : BlockMade(b)) /\ WF_vars(\E b \in Blocks : sendGotBlocks(b))

Spec == Init /\ [][Next]_vars /\ Fairness

-----------------------------------------------------------------------------
(* Properties *)

Reported(type, b) == \E i \in DOMAIN reports : reports[i] = [type |-> type, b |-> b]

\* Nothing that concerns the block is on its way or waiting.
Settled(b) ==
    /\ ~InFlight(b).bulk /\ ~InFlight(b).changes /\ ~Reported("deleted", b)
    /\ \A i \in DOMAIN edits : edits[i].b # b
    /\ \A i \in DOMAIN digs : digs[i].b # b

\* clientiface.h:349, "Blocks that have been sent to client. These don't have to be sent
\* again": once nothing is on its way, the client shows a sent block as the server has it.
SentIsUpToDate == \A b \in rc.sent : Settled(b) => copy[b] = world[b]

\* It does, whatever is edited, dug, unloaded or acknowledged late, unless news of the
\* block has been on its way in both channels at once: then one can overtake the other.
UpToDateUnlessCrossed == \A b \in rc.sent \ crossed : Settled(b) => copy[b] = world[b]

\* What the server notes of a client is true of it.  A block counts as sent only while the
\* client has it or its report of having dropped it is still to come: a block wrongly
\* thought sent would stay a hole in the map.  And every transfer in m_blocks_sending will
\* be acknowledged: a lost one would take one of MaxSimul places for good, and with the
\* last of them all sending would end.
BooksAreRight ==
    /\ \A b \in rc.sent : copy[b] # None \/ InFlight(b).bulk \/ Reported("deleted", b)
    /\ \A b \in rc.sending : InFlight(b).bulk \/ owed[b] > 0 \/ Reported("got", b)

\* When the world has come to rest the client shows every block in its view that is not
\* occluded (and in which no news has crossed), made by the emerge threads if need be.
Shown == \A b \in Blocks \ (hidden \union crossed) : copy[b] # None /\ copy[b] = world[b]

EventuallyShown == <>[]Shown
=============================================================================
