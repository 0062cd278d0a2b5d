# OpenClassCraft: a TLA+ development of its concurrent core

OpenClassCraft is a classroom distribution of the Luanti (Minetest) engine: a C++
client/server voxel engine, Lua classroom mods that run on its server, and an Electron
"teacher console" that keeps the class roster and looks after the worlds. This directory
holds TLA+ modules for the parts whose correctness depends on order, loss, concurrency
and recovery, TLC configurations that check them on small instances, and TLAPS proofs of
the results that matter most. `PROJECT.json` lists the runs, the lines each definition
models, the hazards and the theorems; this file is the reader's guide to them.

    tlc -workers 2 -config MCMtpChannel.cfg MCMtpChannel.tla     # a run
    tlapm MtpChannelProofs.tla                                   # the proofs

## 1. Inventory of the system

### 1.1 MTP, the reliable UDP transport (`src/src/network/mtp`)

*State.* Per peer three `Channel`s, each with 16-bit counters `next_outgoing_seqnum`,
`next_incoming_seqnum` (both start at 65500) and `next_outgoing_split_seqnum`,
`queued_commands` (messages not yet cut into packets), `queued_reliables` (numbered
packets that wait for the window), `outgoing_reliables_sent` and `incoming_reliables`
(ordered buffers), a window of 32 to 2048 packets and a buffer of split messages. Per
connection a table of reference-counted peers, a command and an event queue, two threads.

*Operations.* The application queues commands. The send thread numbers, sends, resends,
pings, adjusts windows and times peers out. The receive thread handles ACK, SET_PEER_ID,
PING, DISCO, ORIGINAL, SPLIT and RELIABLE packets and asks the send thread for ACKs.

*Interaction.* Both threads work on the same `Channel` under several small locks; peers
are found by id and held by `PeerHelper`; the server sees only the event queue.

*Hard.* Loss, duplication and reordering; counters that wrap; ACKs lost after the
receiver has moved on; a peer used by one thread and dropped by another; ids given again.

*Right when* packets are processed once and in order; an unacknowledged packet is never
forgotten; a message is put together from its own chunks only; accepted messages arrive;
nobody touches a deleted peer; the server's clients follow the connection's peers.

### 1.2 Server sessions (`server/clientiface`, `network/serverpackethandler`, `serverenvironment`)

*State.* `m_clients` (a `RemoteClient` per peer with one of ten states, the name, the
captured verifier, allowed and chosen mechanisms), `m_players` (players, which outlive
their peer until they are saved and removed), the authentication database.

*Operations.* INIT, FIRST_SRP, SRP_BYTES_A, SRP_BYTES_M, INIT2, CLIENT_READY, the peer
events of the connection, denial, kick, the periodic removal of players.

*Hard.* Packets in any order; several clients under one name at different stages; a user
limit that counts active clients only; players without peer; a database that may throw.

*Right when* a player has a client and a client in the game one player; the limit holds;
no order of packets drives the state machine into an event it rejects; a name is
registered once; one player with a given name is in the game.

### 1.3 Teacher console (`teacher-console`)

*State.* The workspace file, its backup, the main process's copy (`activeState`), the
passphrase, the renderer's own copy; for each managed world its directory, archives and
snapshots.

*Operations.* Load and unlock, save, events posted by games over the LAN bridge, switch
of encryption; install, snapshot, reset, restore of worlds.

*Hard.* Asynchronous file operations that overlap; crashes between two of them; damaged
files; a passphrase that changes while older files exist; copies that fail half-way.

*Right when* what was answered with success is on disk; a backup is never damaged; one
damaged file costs one save; no world is destroyed.

### 1.4 Emerge queue, map generation threads and the map (`emerge.cpp`, `servermap.cpp`, `map.cpp`)

*State.* `m_blocks_enqueued` with the flags and callbacks of every entry, a count per
peer, a queue and an event per thread; the blocks in memory with their reference counts,
the database, `m_chunks_in_progress`; the mutexes of the environment and of the queue.

*Operations.* Clients, Lua code and the map ask for blocks. A thread takes one, looks in
memory, reads the database without the environment lock, looks again, generates without
the lock, writes the result back and runs the callbacks. The server thread edits, saves,
unloads and deletes blocks meanwhile, and in the end stops the threads.

*Hard.* What was read or copied without the lock is old when it is used; two locks, taken
in both orders; entries that are joined; callbacks owed by a thread that ends.

*Right when* the queue's records agree; a callback is called once; blocks stay in memory
while a chunk is made of them; no edit is lost or brought back; nobody waits in a circle.

### 1.5 The map at the client (`server/clientiface`, `server.cpp`, `client/client.cpp`, `client/mesh_generator_thread.cpp`)

*State.* At the server, per client: `m_blocks_sending`, `m_blocks_sent`, the distance the
scan has reached, its pause, the cache of occluded blocks; the queue of map edits. At the
client: its map, the blocks to acknowledge, the queue of mesh updates with urgent and
in-flight marks, two queues of results, the worker threads.

*Operations.* Each server step sends the nearest blocks the client lacks, as far as
the limit of transfers allows, then the edits: single nodes on channel 0 or, in bulk, whole
blocks again on channel 2. The client acknowledges a block when it has been meshed, digs
ahead of the server's answer, and drops blocks it has not used. Threads take
updates, copy the blocks, make meshes; the main thread takes the results.

*Hard.* Two channels without an order between them; late acknowledgements; edits
during a transfer; a scan that only goes on from where it was; threads that make meshes
of one place from copies of different age.

*Right when* the client's copy of a sent block is the server's; the server never thinks
sent what the client lacks; each transfer ends; what is in view is shown in the end; the
newest mesh is drawn; every received block is acknowledged once.

### 1.6 Active objects (`serverenvironment.cpp`, `mapblock.cpp`, `staticobject.h`)

*State.* The list of active objects, each with the block that has its static copy;
per block the stored and the active copies, a time stamp, a level of modification; the
list of active blocks; the count of clients that know an object.

*Operations.* Adding, moving and removing objects; the update of the active blocks, which
stores and activates; telling clients; sweeping what is gone; saving, unloading,
deleting and generating blocks; clearing objects, full or quick; the shutdown.

*Hard.* An object and its copy are changed by different steps; a client holds back the end
of an object while its block goes away; marks for writing decide what survives.

*Right when* an object nobody removed is in the world once, what was removed or cleared is
not; the two lists of a block agree with the active objects; an unmarked block
is in the database as it is in memory.

### 1.7 Robot programs (`luanti_coding`, `luanti_robot`)

*State.* For each run of a program its list of instructions, index and counts; the robot's
position and animation; the timers of `minetest.after`.

*Operations.* A click on START parses the blocks in a row and executes one instruction
every half second; WHILE and LOOP insert instructions into the list they are run from.

*Hard.* Indices into a list that grows; two programs on one robot; a robot that is
unloaded; moves that are animated while the next instruction falls due.

*Right when* a loop body is executed as often as the loop says; a move reported as done has been
made; every program ends.

### 1.8 Not modelled

| part | state and operations | why not |
|---|---|---|
| inventories (`inventory*.cpp`) | lists, moves with Lua callbacks that allow a part | next in the plan; items should be conserved |
| rollback, bans, mod channels, LAN announcement | small tables | little interaction; unit tests reach them |
| rest of the server step | ABMs, node timers, liquids, weather of mods | content, one thread |
| class bridge, electronics, ecology mods | lesson progress, circuits, populations | the bridge's events are in `ConsoleStore`; the rest is content |
| console contents and rest of the renderer | roster, lessons, reports | pure functions with unit tests beside them |
| map, light, map generators, noise | voxel data | sequential algorithms on large data |
| databases, script API, settings, HTTP | wrappers | no protocol of their own; used here as external |
| rendering, GUI, sound, creator app, website, Android, `lib/`, `irr/` | presentation, platform, third party | outside the system's core; by far the most lines |

`PROJECT.json` names the sources of each part and the reason for its status.

## 2. Modules

| module | models | state and actions against the code |
|---|---|---|
| `SeqNum` | `internal.h` | arithmetic on sequence numbers, its width a parameter |
| `MtpChannel` | `impl.cpp`, `threads.cpp`, `internal.h` | both ends of a reliable channel and the network. Variables carry the names of `Channel`'s members; an action is one critical section or one pass of a loop of a thread: `SendNow`/`SendLater` (PutReliableSendCommand), `RunCommandQueue`, `SendQueued`, `Ping`, `Resend`, `GrowWindow`/`ShrinkWindow`, `ReceiveAck`, `ReceiveInOrder`/`Ahead`/`Outside`/`Corrupt` (the branches of handlePacketType_Reliable), `Unbuffer` (checkIncomingBuffers) |
| `Null` | - | the constant `None`: a null pointer, a field not set, a file that is not there |
| `FifoChannel` | - | abstract: a lossless FIFO of messages |
| `ReliableBuffer` | `ReliablePacketBuffer` | the sorted list, insertion walked step for step as in the code |
| `PacketSet` | - | abstract: a set of packets with the nearest in front; what `MtpChannel` uses |
| `RttStatistics` | `reportRTT`, `RTTStatistics` | average and resend timeout with the code's integer division |
| `SplitReassembly` | `makeSplitPacket`, `IncomingSplitBuffer` | reliable and unreliable messages over a shared split counter and buffer; implements `FifoChannel` |
| `PeerTable` | `Connection`, `Peer`, `PeerHelper`, `ClientInterface` | three threads with a program counter each (`at`); a step is one critical section |
| `ClientSession` | `RemoteClient`, packet handlers, `m_players` | one action per handler, complete with the denials it ends in |
| `Emerge` | `EmergeManager`, `EmergeThread`, `ServerMap` | a section that holds a mutex and waits for nothing is one action; a mutex stays held (`env`, `queue_lock`) only where its holder needs the other. `Take`, `Decide`, `Read`, `DecideAgain`, `FinishMake`/`FailMake`, `RunCallback` are the steps of `run()`; `CancelNext` is the loop of cancelPendingItems; `Ask`, `EditBlock`, `UnloadBlock`, `DeleteBlock`, ... are the server thread |
| `BlockTransfer` | `RemoteClient::GetNextBlocks`, `SendBlocks`, the edit queue, packet handlers of both sides | `rc` is the `RemoteClient`; `bulk`, `changes`, `reports`, `digs` are the channels, each a FIFO; a server step is `SendBlocks` and then `SendEdits`, packets are read between two steps; an action per packet handler |
| `MeshQueue` | `MeshUpdateQueue`, `MeshUpdateManager`, `Client::step` | threads with a program counter (`worker[w].at`): `pop`, `Copy`, `putResult`, `done` are the sections of doUpdate; the main thread queues (`AddBlock`) and takes results (`TakeUrgent`, `TakePlain`) one at a time |
| `ActiveObjects` | `ServerEnvironment`, `MapBlock`, `StaticObjectList` | the helpers of the environment are operators on a record of blocks and objects; `deactivateFarObjects`, `activateBlock` and `removeRemovedObjects` fold them over the objects; an action is what the server thread does at once (`Manage`, `removeRemovedObjects`, `SaveMap`, `clearObjects`, ...) |
| `RobotProgram` | `executor.lua`, `luanti_robot`, `after.lua` | one `execute_step` per action, an operator per kind of instruction; `GlobalStep` and `on_step` are the two halves of a server step |
| `ConsoleStore` | `readState`, `writeState`, bridge | one step per awaited file operation; several calls in progress if `Overlap` |
| `ManagedWorld` | `installWorld` ... `restoreWorldSnapshot` | one step per file operation, each of which may fail or be the last before a crash |
| `MCMtpChannel`, `MCEmerge`, `MCBlockTransfer` | - | what TLC needs: instances, a state constraint, properties about messages |
| `MCMtpBuffers`, `MCConnections`, `MCProgress`, `MCBlocks`, `MCStorage` | - | two or three modules that share no state, side by side in one run |
| `MtpChannelProofs`, `EmergeProofs`, `BlockTransferProofs`, `MeshQueueProofs`, `RobotProofs` (of `RobotProgram`) | - | theorems about the module each is named after, `MeshQueueProofs` also about `MCBlocks` (section 4) |
| `MtpBuffersProofs`, `ConnectionsProofs`, `StorageProofs` | - | theorems about `SplitReassembly` and `ReliableBuffer`, about `PeerTable` and `ClientSession`, and about `ActiveObjects`, `ConsoleStore` and `ManagedWorld` |

In the runs side by side a variable `part` names the module whose behaviour a state
belongs to; the variables of the others stay as they began. So the states of such a run are the sum of those of its parts,
not their product, and a property of a part is checked exactly as it would be alone. Where
such a run extends several modules they share no name: `ReliableBuffer` has `BufferInit`,
`BufferNext`, `BufferSpec`; `PeerTable` `TableSpec`; `ConsoleStore` `StoreSpec`; `ManagedWorld` `WorldSpec`;
`MeshQueue` `MeshSpec`.

How they fit together: `ReliableBuffer` shows that the ordered lists behave as the sets
`MtpChannel` computes with. `MtpChannel` shows that packets of a channel arrive once and in order; that
is the `pipe` of `SplitReassembly`, the order in which `PeerTable` queues events, and
what `BlockTransfer` assumes of each of its channels.
`PeerTable` shows when the server's clients mirror the peers; its added and removed
events are `PeerAdded` and `DeletingPeer` of `ClientSession`. `BlockMade` of `BlockTransfer` is what
`Emerge` answers, and `sendGotBlocks` is what `MeshQueue` shows in detail. `Emerge` and
`ActiveObjects` work on the same blocks: the first on their nodes, with several threads,
the second on their objects, under the environment lock. Operators whose comment
starts with "Fault:" are plausible bugs: each is substituted for a definition to see that
the property it is listed with notices (`PROJECT.json`, "mutants").

Common abstractions: a message, name or password is an index or a model value; the contents of a block are
versions; time is
nondeterminism (a timer may expire whenever it is set), except in `RobotProgram`, whose
point is the race of two timers; the history variables (`log`,
`delivered`, `overrun`, `reused`, `hasty`, `previous`, `acked`, `crossed`, `overtaken`, `shared`, `hiccup`, `fate`,
`wiped`, `unaware`, `adrift`, ...) are marked as such
and no guard reads them, except as bounds: on counters, on the lifetime of datagrams, on how
often a thing is added to the world.

## 3. Runs

| run | instance | shows |
|---|---|---|
| `mtp_channel` | 8 numbers, half window 4, first number 6, window 3..4, 5 packets, messages of 1 and 2 chunks, 1 ping, at most 2 messages in the network | `SafeUnlessOverrun`, `FifoUntilOverrun`: until half of the number space is overrun, packets come out once and in order, none is forgotten, and the channel is the FIFO of what was handed in |
| `mtp_buffers` | split: 3 split numbers, 2 reliable and 2 unreliable messages of up to 3 chunks, 1 cut in vain; list: 10 numbers, two sizes, all positions of the counter | `WholeMessages`, `NothingLeftBehind`, `ImplementsFifo`; `ImplementsPacketSet` |
| `connections` | sessions: 3 peers, 2 names, 2 passwords, 2 users; peers: 3 threads, 3 objects, 2 ids, 2 addresses | `PlayersAreClients`, `UserLimitHeld`, `NothingUnexpected`, `RegisteredOnce`, `OnePlayerUnlessHasty`; `PeersOutliveTheirUse`, `SessionsFollowPeers`, no deadlock |
| `progress` | programs: all rows of up to 3 of the blocks that jump or move, longer ones with the other blocks, wires and STOP, two programs on a robot, loops of 3, server steps of 1 and 3 ticks; channel: 10 numbers, window 2, 3 packets, loss without bound | `MovesAddUp`, `LoopsKeepCount`, `ProgramsEnd`; `EveryMessageArrives` |
| `emerge` | 2 threads, 2 chunks that border on each other, a block over the limit of the map, 4 requests (one from within callbacks), 3 sections of the server thread, 1 Lua error | `QueueIsShared`, `CallbacksConserved`, `GrabbedWhileMade`, `LatestIsKept`, `NoDeadlock`, `Answered` |
| `blocks` | transfer: 2 blocks, the player's own and one still to be made further off, room for 1 transfer, 2 events, 2 queued edits make a long queue; meshing: 3 blocks in 2 cells, 2 threads, 2 updates | `UpToDateUnlessCrossed`, `BooksAreRight`, `NewestIsDrawn`, `MapReachesScreen` |
| `storage` | objects: 1 thing, 2 ids, 2 blocks, 1 area deleted or clearing; workspace: 2 events, 1 edit, 2 passphrases, one damage, one failed write, one crash, calls one at a time; worlds: 3 plays, 2 failures or crashes | `OneOfEach`, `ListsAgree`, `SavedUnlessMarked`; `AckedIsKept`, `BackupHelps`; `NothingDestroyed` |
| `rtt_average` | the real constants, five round trip times | violation of `AverageMoves` |
| `console_lost` | two calls in progress at once | violation of `AckedIsKept` |
| `session_twins` | 3 peers under one name | violation of `OnePlayerPerName` |
| `block_stale` | the transfer of `blocks`, one block more than 30 nodes away | violation of `SentIsUpToDate` |
| `objects_return` | the objects of `storage`, nothing deleted or cleared | violation of `RemovedStayGone` |

`SessionsFollowPeers` is two claims: when nothing is queued the server has a client for
exactly the peers (`ClientsMirrorPeers`), and data is handled in the session it came from
(`DataInItsSession`). So is `BackupHelps`: the backup is never a copy of a damaged file and
has nothing the file has not (`BackupIsGood`), and one damaged file costs the last save at
most (`OneSaveBehind`).

Each passing run also checks the `TypeOK` of its modules, which for the C++ parts includes the
bounds of windows, counters and usage counts.

*Why the bounds are enough.* In `mtp_channel` the counter wraps after two packets and half of its
space is four, so all comparisons are made on both sides of the wrap and of the half, and
the run reaches an overrun and the branch IncomingDataCorruption; two messages in the
network at a time already lose, repeat and swap packets and ACKs. The theorems
(section 4) remove these bounds for `SafeUnlessOverrun` and, in `mtp_buffers`, `connections`,
`emerge`, `blocks`, `progress` and `storage`, for most of the safety properties. In `mtp_buffers` the split counter comes
round after three cuts while four messages use it. In `connections` an id and an address
are reused while objects and events of their former owner are still around, and
three peers fit a limit of two and two names, so that the limit, a
second registration and a second join each have a competitor. In `emerge` two
threads are what every race in it takes, chunks that border on each other make each chunk's
copy overlap the other's, and three sections let the server load, edit and unload a block
between two steps of a thread. The branch for chunks outside the limits of map
generation is in the module and not in this instance. In `blocks` one block has to wait for
the other's transfer, both kinds of edits meet transfers, a long queue of edits ends
single changes for the further block and not for the near one (`Close`), and the two blocks in one cell of
the mesh grid have a neighbour in the other. In `storage` two ids let an object exist twice,
and two blocks let its place and its copy part; the distance from which a
copy follows its object within the active blocks is three and does not occur in two
blocks, a copy in an inactive block does. In `progress` three blocks give every pair of
jumps a successor; rows in which a WHILE or LOOP repeats a LOOP are left out, since they never
end (section 5). The counters of the
console parts bound how often the environment interferes, not what the program does.

*Assumptions about the network.* A datagram does not survive the use of half of the
number space (`Fresh`; 32768 packets on a channel), and no chunk the use of all 65536
split numbers (`OldOnesGone`). Without them no protocol with these counters is safe.
Corrupted and forged packets are left out.

*Overrun.* `getOutgoingSequenceNumber` limits nothing while `outgoing_reliables_sent` is
empty, and `sendAsPacketReliable` sends a packet that its resend buffer has refused. So a
queue long enough can span half of the number space; from then on the comparisons no
longer mean what they say, packets can be lost for ever or taken for corrupt. The
properties are therefore stated up to the state variable `overrun`, which is exactly
that condition. `PeerTable`'s last two properties are stated up to `reused`: an id was
given to a new peer while the server had not yet handled the removal of the old one.
`createPeer` draws ids at random from 65534, so a new peer seldom gets the id that has just
become free, yet nothing excludes it.

*What `Emerge` excepts.* Each exception was seen to be needed, by checking the property
without it. `LatestIsKept` leaves out blocks that were changed while a thread worked on an
older copy (`disturbed`): `blitBackAll` writes the copy taken before generation over
what a player has built in the border meanwhile, and a row deleted or rewritten between
`Read` and `DecideAgain` comes back as it was read. `NoDeadlock` leaves out two causes:
`cancelPendingItems` calls Lua with the queue's mutex held, so a callback of a cancelled
block that calls `core.emerge_area` locks a mutex its own thread holds, and a thread that
an unreadable block has ended cancels while the server still enqueues with the
environment locked. `Answered` leaves out requests queued at a thread that has ended.

*What `blocks`, `progress` and `storage` except.* `UpToDateUnlessCrossed` and the end of a
transfer leave out blocks of which news was on its way in both channels at once
(`crossed`): the run `block_stale` shows why. `NewestIsDrawn` leaves out cells that had an
urgent and a plain result waiting at once (`overtaken`): `getNextResult` takes
the urgent one first even if it is newer. `MapReachesScreen` assumes a view that takes more than one
pass of the scan (`ViewNeedsTwoPasses`): in a smaller one the cache of occluded blocks
is never emptied. `MovesAddUp` leaves out robots that two programs drive (`shared`), and server
steps longer than the gap of 0.18 s between the end of a move and the next instruction
(`hiccup`): both lose moves. `OneOfEach` leaves out three things: an object whose block
was unloaded under it, because its usage timer ran out just when the object came to rest there
(`adrift`; after that it can be activated twice, as a FIXME in the unit test `test_sao.cpp`
says); one stored after a quick clearing in a block that was not used since and is taken for old
(`wiped`); and, of the claim that cleared objects stay away, those in blocks that had no time
stamp or were generated since (`unaware`). Behaviours of `storage` end where its only object is
`adrift` or `wiped`, since nothing is claimed of it from there.

*Deadlock* is not checked where the system may stop: counters of the environment run out
in `MtpChannel`, `SplitReassembly`, `BlockTransfer`, `MeshQueue` and the console modules, a
program ends, and `Emerge` and `ActiveObjects` stop when the server ends; `Emerge` states its
circular waits as `NoDeadlock`. It is checked in `connections`.

*Fairness* is assumed in three runs. In `emerge` every emerge thread runs, and an
actor that waits for the queue's mutex gets it (weak fairness of `EmergeThread` and
`Enqueue`); nobody has to ask, edit or stop. In `progress` the server goes on
stepping (weak fairness of `ServerStep`: timers, instructions, objects), and nobody has to
click or leave the robot alone; of the channel, send and receive threads loop for ever, and
each pass runs the command queue, sends what is queued and resends what has timed out:
weak fairness of `RunCommandQueue`, `SendQueued`, `Unbuffer`, and of `Resend` for each
packet. The network is a fair lossy link: what is sent again and again arrives in the
end, which is strong fairness of the receive actions, per packet and per ACK, because each
copy may be lost in between. No fairness is assumed of the application, of losses, of
pings or of window changes. In `blocks` the server steps, its pause ends, emerge threads
finish blocks, both mesh threads and the client's main thread run, and reliable messages
arrive (weak fairness; strong for the server's reception, which only happens between two
of its steps). No fairness is assumed of edits, digs, unloading or occlusion.

## 4. Proofs

Eight modules hold theorems, each about the module or modules it extends, for every value of the
constants that satisfies the assumptions named below, which TLC evaluates in the runs.

| module | theorems for properties of runs | also | assumptions |
|---|---|---|---|
| `MtpChannelProofs` | `TypeCorrect`, `ReliableDelivery` (`SafeUnlessOverrun`) | `InductiveInvariant` | `WindowIsHalfOfSpace` (`SeqNum`), `ChannelAssumption`: messages have fewer chunks than half the space |
| `MtpBuffersProofs` | `MessagesAreWhole` (`WholeMessages`), `NothingStays` (`NothingLeftBehind`), `Refinement` (`ImplementsFifo`), `PacketSetRefinement` (`ImplementsPacketSet`), `BuffersTypeCorrect` (`BuffersTypeOK`) | `TypeCorrect`, `Invariant`, `BufferInvariant` | `SplitAssumption`: at least two split numbers; `WindowIsHalfOfSpace` |
| `ConnectionsProofs` | `PeersLiveLongEnough` (`PeersOutliveTheirUse`), `SessionsFollow` (`SessionsFollowPeers`), `PlayersHaveTheirClients` (`PlayersAreClients`), `LimitIsHeld` (`UserLimitHeld`), `EventsAreExpected` (`NothingUnexpected`), `NamesAreRegisteredOnce` (`RegisteredOnce`), `NamesHaveOnePlayer` (`OnePlayerUnlessHasty`), `ConnectionsTypeCorrect` (`ConnectionsTypeOK`) | `TableTypeCorrect`, `HandsHold`, `TableInvariant`, `ClientsTypeCorrect`, `ClientsInvariant` | `PeerTableAssumption`: `None` is no id, peer or address; `SessionAssumption`: finitely many peers (ids have 16 bits); `ClientAssumption`: `None` is no client |
| `EmergeProofs` | `TypeCorrect` (`TypeOK`), `NoCircularWait` (`NoDeadlock`), `EntriesAreQueuedOnce` (`QueueIsShared`), `CallbacksHaveOnePlace` (`CallbacksConserved`), `AreasStayGrabbed` (`GrabbedWhileMade`), `LatestChangesShow` (`LatestIsKept`) | `Invariant` | `SettingsAssumption` (the limits, as the settings are clamped), `MapAssumption`: finitely many threads and blocks, a block in one chunk |
| `BlockTransferProofs` | `BooksStayRight` (`BooksAreRight`), `UpToDate` (`UpToDateUnlessCrossed`) | `TypeCorrect` | `DistancesDiffer`: no two blocks are equally near; `BlocksAssumption`: a block has nodes, `None` is neither a node nor contents; `ViewNeedsTwoPasses` and `CloseIsNotFar` are not used |
| `MeshQueueProofs` | `NewestDrawn` (`NewestIsDrawn`), `BlocksTypeCorrect` (`BlocksTypeOK`, of both parts of `MCBlocks`) | `MeshTypeCorrect`, `MeshInvariant`, `NoneAckedTwice`, `AckInvariant` | `MeshAssumption`: each block in one cell, finitely many neighbours; for `BlocksTypeCorrect` those of `BlockTransferProofs`, too |
| `StorageProofs` | `ListsAreRight` (`ListsAgree`), `AcknowledgedIsKept` (`AckedIsKept`), `BackupIsWorthHaving` (`BackupHelps`), `NothingIsDestroyed` (`NothingDestroyed`), `StorageTypeCorrect` (`StorageTypeOK`) | `ObjectsInvariant`, `StorageInvariant`, `StoreTypeCorrect`, `StoreInvariant`, `WorldTypeCorrect`, `WorldInvariant` | `ObjectsAssumption`: finitely many ids, none of them 0, things and blocks; `None` is none of them; `StoreAssumption`, `ManagedWorldAssumption`: `None` is no world; `AcknowledgedIsKept` and `BackupIsWorthHaving` for calls that do not overlap |
| `RobotProofs` | `RobotTypeCorrect` (`TypeOK`), `MovesAreMade` (`MovesAddUp`) | `RobotInvariant`, `JumpsGoBack` | `AnimationFits`: 0.32 s is less than 0.5 s; `RobotAssumption`: times are whole ticks, a server step takes one at least, a LOOP counts to one at least; `RowsAreParsed`: a row is parsed into instructions (the walk along the row is recursive) |

`~ Overlap` is a hypothesis and not an assumption, since the program does not guarantee it:
with overlapping calls the run `console_lost` refutes `AckedIsKept`. So is `LessonsAreFlat` of
`JumpsGoBack`: a pupil may put a WHILE in front of a LOOP, whose copies push the jump away
from its WHILE; the other theorems of `RobotProofs` hold for such rows too.

The counters that bound TLC's runs (`MaxEvents`, `MaxFaults`, ...) are any natural number in
the theorems, the sets of threads, peers, blocks, chunks or names any set, finite only where
the table says so.

*`MtpChannel`.* `SafeUnlessOverrun` is not inductive: it says nothing of numbers. `IInv` adds
`Aligned`: as long as there was no overrun,

- `NumbersInUse`: each number on the wire, in an ACK or at the sender is as far behind
  `next_outgoing`, modulo the space, as its packet is behind the end of the stream, and
  that distance is at most half of the space;
- `ReceiverBehind`: the same for `next_incoming` and the number of packets processed;
- `BufferedAhead`: what the receiver has buffered lies less than half the space ahead;
- `AcksAreReceipts`: an ACK exists only for a packet the receiver has.

From it, equal numbers mean equal packets and the 16-bit comparisons agree with the true
order, so the packet the receiver takes is the next one, and the one an ACK frees has
arrived. The arithmetic on `%` is done once, in lemmas about `Plus` and `Minus`
(`PlusBehind`, `PlusAhead`, `SameDistance`, `DrainedAhead`, `WirePosition`, ...);
`NumberKeepsInv`, `SendKeepsInv` and `ProcessKeepsInv` then carry the step of several
actions each, and `InductiveInvariant` has one step per action.

*`SplitReassembly`.* A chunk remembers before which cut it was made. Its split number is that far
behind the counter, and at most all numbers behind (`ChunksAreSound`), so chunks alive at the
same time with one number are of one message (`OneMessageOfANumber`). What the buffer
holds under a number is then part of that message (`EntriesAreSound`). For the
reliable ones the channel adds an order (`PipeInOrder`), and `ReceiverKeepsUp` says what the
receiver has: an entry exactly while it is within a message, with exactly the chunks before
the next one. With this, each step of `SplitReassembly` is a step of `FifoChannel` or
changes nothing there: a message is accepted when its chunks enter the channel, however many
cuts were made in vain before, and delivered when its last chunk is processed.

*`ReliableBuffer`.* The list is sorted by how far a number is behind the expected one (`Ahead`), and
all distances are within the window (`Ordered`). Then the comparisons of `insert`, which have one
form for each side of the wrap, compare distances (`PassesIs`, `AcceptableIs`), the walk
stops where the distance is reached (`PlaceIs`), and a packet with the same number can only be
there (`RepeatIs`). So the list stays sorted when a packet is put in (`InPlace`), taken out
(`StaysOrdered`) or all distances shrink by one (`AdvanceStep`), its front is the nearest packet
(`FrontIsNearest`), and each step is one of `PacketSet`.

*`PeerTable`.* `HandsInv` relates use counts to program counters: the count of a peer is
the number of helpers on it; a peer in the table is alive; a dropped one is in somebody's
hands, and in one hand only when it is deleted. It needs `ReceiverAlone`: while the
receive thread holds a peer nobody gets its id, because at a server only that thread makes peers.
`SessionInv` follows the news of a peer to the server: all that refers to an id (client, events, table,
the thread that is removing it) means one peer (`OneHome`), one thread takes it away
(`OneTakesAway`), and "added" comes first and "removed" last (`AnnouncedFirst`,
`PresentAreAnnounced`). It holds until an id is `reused`; `QuietSteps` disposes of the steps
that touch none of this.

*`ClientSession`.* The properties are inductive together with what is known of a client by its
state: from HELLO on it has a name, and a password if it may be asked for one
(`ClientsAreNamed`). "One player per client in game" is split into existence
(`InGameHavePlayer`), uniqueness (`OnePlayerPerPeer`) and the converse
(`PlayersHaveClients`). A packet handler ends in an answer; lemmas about the answers
(`DeniedAnswers`, `NotifiedAnswers`, `ChosenAnswers`) carry most handlers.
The two that change `m_players` reason about the sequence without an element (`WithoutOne`,
`JoinedDrops`), and the one that joins about the cardinality of the set of those in game.

*`Emerge`.* Five invariants, each stable under every step given the types:
`LocksAreRight` (who holds which mutex, by where he is), `QueueIsRight` and `CountIsRight`
(entries and queue positions, charges), `CallsAreRight` and `OnePlace` (where a callback can
be), `MapInv`. The last is stated for any map, since the operators that load, grab and
write back blocks are applied one after the other within a step: `BlockIsRight` relates
a block in memory to its row, its makers and the latest changes, `WorkIsRight` a thread's copy
and the row it has read to both. `Makers` of a block that is in two chunks' areas
are why the reference count is a cardinality and not a flag. `LatestIsKept` needs all of it:
a thread that reads the database without the lock must still have the present row when
it decides again. `OptimalThreadExists` shows that the choice of the shortest queue
always finds a thread. That callbacks keep their place is shown per kind of step
(`EnqueueKeepsPlaces`, `PopKeepsPlaces`, `ThreadKeepsPlaces`, ...).

*`BlockTransfer`.* The server's books are true (`Books`) because what it has been told is ahead of
what it knows: a report that a block was got is followed by one that it was dropped, unless
the client still has it (`ReportsAreTrue`). That the client is up to date is said of the time to
come: for a node of which nothing is still to be told (`IsTold`: no edit is queued, no dig
or drop on its way) the last message that carries it, in the channel that has one, has the
node as the server has it, and where there is none the client's copy does (`WillShow`).
`CrossedIsNoted` says that there is one such channel, `EditsAreNews` that the last queued edit of
a node is its present state. `OnlyMadeBlocks` and `VersionsLeft` bound what the rest talks about.
`SendEdits` tells all queued edits in one fold; `FoldExists`, `FoldIs` and `ToldInOrder` show that
an invariant of the single edit (`OneEditTold`, `ToldRightStep`) is one of the fold, by
well-founded induction on what is left, and `ScanFinds` that a scan sends only blocks in reach.

*`MeshQueue`.* What is drawn is the newest when nobody has anything to do for the cell. Before that,
something newer is to come: a call that will queue the cell, a queued update, a thread that
has yet to copy (`ToCopy`). `TasksHoldBlocks` says that such an update holds all blocks of
the cell that the client has, so that the copy will not miss one; `CopiesAreNew` that a
finished copy is the newest unless another is to come; `MadeIsDrawn` that the last result of the cell
in its queue is, or else what is drawn. One thread per cell, one queued update
per cell (both in `MeshTypeOK`) and `OvertakenIsNoted` make "the last" well defined.
That no block is acknowledged too often (`AckedOnce`) is a conservation law: what is due for a
block is the sum of what the calls, the queue, the tasks of the threads, the two queues of
results and `toAck` have of it (`AcksAdd`). Merging two updates, a removal from the middle of the
queue and a thread's taking and giving away its task keep the sum (`SumOfRaised`, `SumOfLess`,
`HandsTake`, `HandsGive`); a call that queues nothing must have none to lose (`AcksFirst` with
`CallsAreFounded`). A sum along a sequence is given by its partial sums (`SumIs`), without recursion.

*`ActiveObjects`.* A step walks along all objects and may load, fill and empty several
blocks on the way, so the invariant (`Right`) is stated for any blocks and objects, and for any
list of blocks in use: while `Manage` renews the list, what has been activated grows it block by
block. It adds to `ListsAgree` that every copy has its owner, adrift or not (`CopiesHaveOwners`),
that a block in use is in memory if it exists (`NothingToLoad`: loading one would bring
back who rests there), and that an object that is stored under its id until its client knows is
stored outside (`RestsOutside`), which holds because its turn comes before the list changes
again (`RoundIsRight`). What one object's turn does to the others is `Touches`; if it does no
more, only the copies of that one object have to be looked at (`OneTouched`). `DeactivateOne`,
`RemoveOne`, `AddOne`, `ActivateOne` and `ClearOneKept` are the turns. `DeactivateFold`,
`AddFold`, ... name the states between the turns of a fold, by well-founded induction on what is
left (`FoldExists`), and `InOrderIs` shows that finitely many keys can be put in order.

*`ConsoleStore`.* A call changes the file, its backup, the main process's copy and the
renderer's in different steps. `CopiesAgree` says which is ahead of which by
the step of the call, `CopyInHand` that what was verified for the backup is still the file,
`BackupBehind`, `SoundDisk` and `BackupIsFresh` what the files are worth.

*`ManagedWorld`.* `OpInHand` says what an operation in progress relies on: it copies
to a target that is not there, and keeps the archive it may have to put back. An action
property follows from it action by action.

*`RobotProgram`.* `MovesAddUp` is not inductive: it says nothing of the animation. `AnimationEnds` adds
that with one program and no long step what is left of the animation ends a gap (`Gap`)
before the next instruction: `run[r].delay + dtime >= robot.left + Gap`. So an instruction that is
due finds the robot at rest (`AtRestWhenDue`). The delay and the animation are counted down in
the two halves of a server step, which is why `dtime` is in it. That an index stays in the list
(`StaysInCode`) and that the jumps lead back (`WellBuilt`) rests on what an instruction can
make of a program (`Becomes`: it goes on, goes back, or grows) and on where the elements of the
list are after an insertion (`Inserted`, `WhilePutsIn`, `LoopPutsIn`). `JumpsAreNear` is the
strengthening for the jumps: none lies where a WHILE would put another one in, and none ahead of a LOOP.

Model-checked only, and why:

- liveness (`Answered`, `EveryMessageArrives`, `ProgramsEnd`, `MapReachesScreen`): fairness is
  out of TLAPS's reach;
- `FifoUntilOverrun`: its mapping uses `SelectSeq`, which is defined by recursion, and
  facts about it need induction over data;
- of `LoopsKeepCount` the half that counts moves (`NoMoveTooMany`): a sum over the
  instructions of a row; the other half, `JumpsHitTheirWhile`, is `JumpsGoBack`;
- `OneOfEach` and `SavedUnlessMarked` of `ActiveObjects`: they count the copies of a thing, and
  hold only while there are enough ids, since a block's objects are dropped when it is
  activated without a free one; what is proved is the agreement of the lists that does not
  depend on it (`ListsAgree`).

## 5. Findings, observations and plan

Five disagreements between code and text are runs that TLC must find violated:

1. `rtt_average`: the running average of round trip times divides unsigned integers, so it never moves.
2. `console_lost`: of two overlapping changes of the workspace, both acknowledged, one is lost.
3. `session_twins`: two players of one name are in the game when a third client joins
   while the name's former player has not been removed.
4. `block_stale`: a changed node overtakes an older copy of its block on another channel,
   the block puts the old node back, and the server thinks the client up to date.
5. `objects_return`: objects that were removed just before the server stops are stored
   by the shutdown and are back when it starts again.

A sixth is not a run. `blocks.lua:173-177` says that ELSE goes on to the block behind it when the IF
before has skipped its action. In `executor.lua:196-199`, and so in `else_block`, ELSE leaves that
block out whichever way it was reached: past an action that ran, or past one that IF
skipped (187-194). So after IF, action, ELSE the alternate block never runs. No property
asks for it to run, nor that it stays out: `progress` bounds how often moves are made. The repository's README calls the branch
behaviour of ELSE experimental.

Observed while modelling, and not stated as properties since no text claims otherwise:

- *Console.* A reset that fails half-way leaves half a template in the world's place (the
  world is safe in its archive); an install that fails half-way can neither be repeated nor
  reset; a damaged encrypted workspace is not recovered from its backup.
- *Sessions.* A returning player may be loaded before the old one is saved; with a default
  password two clients may create one account.
- *Emerge queue.* Edits in the border of a chunk that is being generated are overwritten;
  callbacks of cancelled blocks run with the queue's mutex held; blocks over the limit of the
  map are never answered.
- *Map at the client.* An urgent mesh can be overtaken by an older plain one; in a view of one pass
  an occluded block is not sent until the player moves.
- *Robots.* A LOOP or WHILE in front of a LOOP makes new LOOPs faster than it executes them;
  two programs may drive one robot; a server step of more than 0.18 s can lose a move.
- *Objects.* The three exceptions of `OneOfEach` above; `delete_area` looks for the
  deleted block to correct its active objects and never finds it; without a free id the
  stored objects of a block are dropped when it is activated.

Most of these are listed as hazards with their lines.

Plan, in order: (1) `OneOfEach` of `ActiveObjects` for every number of
objects that leaves an id free; (2) inventory moves and
conservation of items; (3) MTP connection set-up and end: half-open peers, SET_PEER_ID and
DISCO, with `PeerTable`; (4) `PeerTable` composed with `ClientSession` by the event queue;
(5) the smaller tables: mod channels, bans, rollback.
