------------------------------- MODULE Emerge -------------------------------
(***************************************************************************)
(* The emerge queue of the server (src/src/emerge.cpp) together with what  *)
(* it does to the map (src/src/servermap.cpp, src/src/map.cpp).  The       *)
(* server thread and Lua code ask for blocks; every emerge thread takes    *)
(* blocks from its own queue, looks in memory, reads the database without  *)
(* the environment lock, looks again, generates the chunk without the lock *)
(* and calls the mod's callbacks back.                                     *)
(*                                                                         *)
(* Two mutexes matter: env (Server::m_env_mutex) and queue_lock            *)
(* (EmergeManager::m_queue_mutex).  A section that holds a mutex and waits *)
(* for nothing is one action guarded by the mutex being free; a mutex is   *)
(* held across actions only where its holder needs the other one.          *)
(*                                                                         *)
(* Abstractions: the contents of a block are the set of edits it shows;    *)
(* a request is made at most once; a block's callbacks run in any order.   *)
(***************************************************************************)
EXTENDS Integers, Sequences, FiniteSets

CONSTANTS
  Thread,          \* the emerge threads, 1..n in the order of m_threads
  Block,           \* block positions, numbered in the order loops visit them
  Peer,            \* peers that ask for blocks
  Edit,            \* changes to blocks, each made at most once
  Wanted, Nested,  \* what the server thread asks for, and what Lua code does from
                   \* callbacks: records [block, peer, gen, lua]
  ChunkOf,         \* getContainingChunk
  Area,            \* the blocks of a chunk and of the border around it
  Limited,         \* chunks that are not fully inside the mapgen limits
  Over,            \* blocks over the limit of the map
  Disks,           \* what the database may hold at the start
  None, Unreadable,
  QLimitTotal, QLimitDiskonly, QLimitGenerate,
  MaxErrors,       \* bound: errors of Lua code in the emerge environment
  MaxTurns         \* bound: sections of the server thread

Request == Wanted \cup Nested
Server == 0
Actor == Thread \cup {Server}
Chunk == DOMAIN Area
Body(c) == {b \in Block \ Over : ChunkOf[b] = c}

ASSUME SettingsAssumption ==
  /\ Thread \subseteq Nat \ {0} /\ Block \subseteq Nat /\ Over \subseteq Block
  /\ QLimitDiskonly \in Nat \ {0, 1} /\ QLimitGenerate \in Nat \ {0}
  /\ QLimitTotal \in Nat /\ \A r \in Nested : r.lua
  /\ QLimitTotal >= QLimitDiskonly /\ QLimitTotal >= QLimitGenerate

Row == [gen : BOOLEAN, edits : SUBSET Edit]
MapBlock == [gen : BOOLEAN, edits : SUBSET Edit, refs : Int, dirty : BOOLEAN]
BlockEmergeData == [gen : BOOLEAN, peer : Peer \cup {None}, calls : SUBSET Request]
Job == [block : Block \cup {None}, gen : BOOLEAN, calls : SUBSET Request,
        data : Row \cup {None, Unreadable}, copy : [Block -> SUBSET Edit]]
NoCopy == [b \in Block |-> {}]
Idle == [block |-> None, gen |-> FALSE, calls |-> {}, data |-> None, copy |-> NoCopy]

\* A block lies in one chunk; requests and rows are what they are said to be; a null
\* pointer is none of them.
ASSUME MapAssumption ==
  /\ IsFiniteSet(Thread) /\ Thread # {} /\ IsFiniteSet(Block)
  /\ ChunkOf \in [Block \ Over -> Chunk] /\ Area \in [Chunk -> SUBSET Block]
  /\ Request \subseteq [block : Block, peer : Peer \cup {None}, gen : BOOLEAN, lua : BOOLEAN]
  /\ Disks \subseteq [Block -> Row \cup {None, Unreadable}]
  /\ None \notin Actor /\ None \notin Request /\ None # Unreadable
  /\ {None, Unreadable} \cap (Row \cup MapBlock \cup BlockEmergeData) = {}
  /\ MaxErrors \in Nat /\ MaxTurns \in Nat

VARIABLES
  enqueued,      \* m_blocks_enqueued
  count,         \* m_peer_queue_count
  queue,         \* m_block_queue of every thread
  event,         \* m_queue_event of every thread
  at, job,       \* where a thread is in run(), and its locals there
  env,           \* who holds m_env_mutex across actions, or None
  queue_lock,    \* who holds m_queue_mutex across actions, or None
  wants,         \* the request an actor that holds env is about to enqueue
  server,        \* "running", "stopped" (its thread), "stopping" (the threads)
  memory,        \* the blocks of the map, None when not loaded
  stored,        \* the rows of the database
  making,        \* m_chunks_in_progress
  asked, ran,    \* requests made, and those whose callback has run
  dropped,       \* callbacks the program no longer knows of
  died,          \* threads that an unreadable block ended
  errors, turns, \* errors of Lua code and sections of the server thread so far
  latest,        \* the edits every block ought to show
  disturbed      \* blocks edited, deleted or written while a thread worked
                 \* on a copy of them it had taken before

queueVars == <<enqueued, count, queue, event>>
mapVars == <<memory, stored, making>>
lockVars == <<env, queue_lock, wants>>
historyVars == <<ran, dropped, died, errors, latest, disturbed>>
vars == <<enqueued, count, queue, event, at, job, env, queue_lock, wants, server, memory,
          stored, making, asked, ran, dropped, died, errors, turns, latest, disturbed>>

Init ==
  /\ enqueued = [b \in Block |-> None]
  /\ count = [p \in Peer \cup {None} |-> 0]
  /\ queue = [t \in Thread |-> <<>>]
  /\ event = [t \in Thread |-> FALSE]
  /\ at = [t \in Thread |-> "loop"]
  /\ job = [t \in Thread |-> Idle]
  /\ env = None /\ queue_lock = None /\ wants = [a \in Actor |-> None]
  /\ server = "running"
  /\ memory = [b \in Block |-> None] /\ stored \in Disks /\ making = {}
  /\ asked = {} /\ ran = {} /\ dropped = {} /\ died = {}
  /\ errors = 0 /\ turns = 0
  /\ latest = [b \in Block |-> IF stored[b] \in Row THEN stored[b].edits ELSE {}]
  /\ disturbed = {}

---------------------------------------------------------------------------
(* The queue *)

Enqueued == {b \in Block : enqueued[b] # None}

\* The callbacks a request brings along.
CallsOf(r) == IF r.lua THEN {r} ELSE {}

\* The limits at the head of pushBlockEmergeData; emerge_area forces its way in.
Admitted(r) ==
  \/ r.lua
  \/ /\ Cardinality(Enqueued) < QLimitTotal
     /\ IF r.peer = None THEN count[None] * 2 < QLimitTotal
        ELSE count[r.peer] < (IF r.gen THEN QLimitGenerate ELSE QLimitDiskonly)

\* Fault: who joins an entry is charged for it as well.
JoinAndPay(r) ==
  /\ enqueued' = [enqueued EXCEPT ![r.block].gen = @ \/ r.gen,
                                  ![r.block].calls = @ \cup CallsOf(r)]
  /\ count' = [count EXCEPT ![r.peer] = @ + 1]

\* Fault: the callback of who joins an entry is not kept.
JoinSilently(r) ==
  /\ enqueued' = [enqueued EXCEPT ![r.block].gen = @ \/ r.gen]
  /\ UNCHANGED count

MergeEntry(r) ==
  /\ enqueued' = [enqueued EXCEPT ![r.block].gen = @ \/ r.gen,
                                  ![r.block].calls = @ \cup CallsOf(r)]
  /\ UNCHANGED count

\* Fault: a new entry is not counted.
EnterUnpaid(r) ==
  /\ enqueued' = [enqueued EXCEPT ![r.block] =
                    [gen |-> r.gen, peer |-> r.peer, calls |-> CallsOf(r)]]
  /\ UNCHANGED count

NewEntry(r) ==
  /\ enqueued' = [enqueued EXCEPT ![r.block] =
                    [gen |-> r.gen, peer |-> r.peer, calls |-> CallsOf(r)]]
  /\ count' = [count EXCEPT ![r.peer] = @ + 1]

\* getOptimalThread: the first of the threads with the shortest queue.
OptimalThread ==
  CHOOSE t \in Thread : \A u \in Thread :
    \/ Len(queue[t]) < Len(queue[u])
    \/ Len(queue[t]) = Len(queue[u]) /\ t <= u

\* Fault: another thread than the one that got the block is signalled.
PushAndMissignal(b) ==
  LET t == OptimalThread
  IN  /\ queue' = [queue EXCEPT ![t] = Append(@, b)]
      /\ event' = [u \in Thread |-> u # t \/ event[u]]

\* pushBlock and signal: m_queue_event remembers a signal nobody waits for.
Push(b) ==
  LET t == OptimalThread
  IN  /\ queue' = [queue EXCEPT ![t] = Append(@, b)]
      /\ event' = [event EXCEPT ![t] = TRUE]

\* An actor that holds env gets to m_queue_mutex: enqueueBlockEmergeEx, after
\* which it leaves its section.
Enqueue(a) ==
  /\ wants[a] # None /\ queue_lock = None
  /\ LET r == wants[a]
     IN  IF ~Admitted(r) THEN UNCHANGED queueVars
         ELSE IF r.block \in Enqueued THEN MergeEntry(r) /\ UNCHANGED <<queue, event>>
         ELSE NewEntry(r) /\ Push(r.block)
  /\ wants' = [wants EXCEPT ![a] = None] /\ env' = None
  /\ UNCHANGED <<queue_lock, at, job, server, turns, asked, mapVars, historyVars>>

\* Lua code that runs under env may call core.emerge_area before it returns.
Leave(t) == env' = None /\ UNCHANGED <<wants, asked>>
AskFromLua(t) ==
  \E r \in Nested \ asked :
    env' = t /\ wants' = [wants EXCEPT ![t] = r] /\ asked' = asked \cup {r}
LeaveOrAsk(t) == Leave(t) \/ AskFromLua(t)

\* popBlockEmergeData and the pop of m_block_queue before it.
PopBlockEmerge(t) ==
  LET b == Head(queue[t])
      data == enqueued[b]
  IN  /\ queue' = [queue EXCEPT ![t] = Tail(@)]
      /\ IF data = None THEN UNCHANGED <<enqueued, count>>
         ELSE /\ enqueued' = [enqueued EXCEPT ![b] = None]
              /\ count' = [count EXCEPT ![data.peer] = @ - 1]
      /\ UNCHANGED event

Taken(t) ==
  LET b == Head(queue[t])
  IN  IF b \notin Enqueued THEN [Idle EXCEPT !.block = b]  \* ruled out by QueueIsShared
      ELSE [Idle EXCEPT !.block = b, !.gen = enqueued[b].gen, !.calls = enqueued[b].calls]

Goto(t, where) == at' = [at EXCEPT ![t] = where]

\* The head of the loop in run().  The callbacks of a block over the limit of
\* the map are not called, whoever waits for them.
Take(t) ==
  /\ at[t] = "loop" /\ server # "stopping" /\ queue_lock = None
  /\ queue[t] # <<>>
  /\ PopBlockEmerge(t)
  /\ IF Head(queue[t]) \in Over
     THEN dropped' = dropped \cup Taken(t).calls /\ UNCHANGED <<at, job>>
     ELSE Goto(t, "decide") /\ job' = [job EXCEPT ![t] = Taken(t)] /\ UNCHANGED dropped
  /\ UNCHANGED <<lockVars, server, turns, asked, mapVars, ran, died, errors, latest, disturbed>>

Sleep(t) ==
  /\ at[t] = "loop" /\ server # "stopping" /\ queue_lock = None
  /\ queue[t] = <<>>
  /\ Goto(t, "wait")
  /\ UNCHANGED <<queueVars, job, lockVars, server, turns, asked, mapVars, historyVars>>

Wake(t) ==
  /\ at[t] = "wait" /\ event[t]
  /\ event' = [event EXCEPT ![t] = FALSE]
  /\ Goto(t, "loop")
  /\ UNCHANGED <<enqueued, count, queue, job, lockVars, server, turns, asked, mapVars, historyVars>>

---------------------------------------------------------------------------
(* Loading and generating *)

Blank == [gen |-> FALSE, edits |-> {}, refs |-> 0, dirty |-> TRUE]
FromRow(row) == [gen |-> row.gen, edits |-> row.edits, refs |-> 0, dirty |-> FALSE]
Emerged(m, b) ==
  IF m[b] # None THEN m[b] ELSE IF stored[b] # None THEN FromRow(stored[b]) ELSE Blank

IsGenerated(m, b) == m[b] # None /\ m[b].gen

Making(t) == at[t] = "make"
AreaOf(t) == Area[ChunkOf[job[t].block]]
Makers(b) == {t \in Thread : Making(t) /\ b \in AreaOf(t)}

\* A thread that holds data it has read of b and will decide again.
Readers(b) == {t \in Thread : at[t] = "again" /\ job[t].block = b}

\* The rest of the section ends the work on a block, or ends the thread.
Answer(t) == Goto(t, "answer") /\ UNCHANGED <<job, dropped, died, disturbed>>
Die(t, leaked) ==
  /\ Goto(t, "shutdown") /\ died' = died \cup {t}
  /\ dropped' = dropped \cup job[t].calls
  /\ job' = [job EXCEPT ![t] = Idle]
  /\ disturbed' = disturbed \cup leaked

\* initBlockMake when the chunk is nobody else's and inside the limits: the
\* blocks of the area are loaded or created and grabbed one by one.
GrabArea(t, m, c) ==
  LET unreadable == {b \in Area[c] : m[b] = None /\ stored[b] = Unreadable}
      reached == {b \in Area[c] : \A q \in unreadable : b < q}
      grabbed == [b \in Block |-> IF b \in reached
                    THEN [Emerged(m, b) EXCEPT !.refs = @ + 1] ELSE m[b]]
  IN  /\ memory' = grabbed
      /\ IF unreadable # {} THEN Die(t, reached)
         ELSE /\ Goto(t, "make")
              /\ job' = [job EXCEPT ![t].data = None,
                                    ![t].copy = [b \in Block |-> IF b \in Area[c]
                                                  THEN grabbed[b].edits ELSE {}]]
              /\ UNCHANGED <<dropped, died, disturbed>>

\* Generation is wanted and the chunk is not in progress already.
MayMake(t) == job[t].gen /\ ChunkOf[job[t].block] \notin making

\* Step 3 of getBlockOrStartGen with the map as m.  A chunk that is over the
\* mapgen limits stays in m_chunks_in_progress.
StartGen(t, m) ==
  LET c == ChunkOf[job[t].block]
  IN  IF ~MayMake(t) THEN memory' = m /\ UNCHANGED making /\ Answer(t)
      ELSE /\ making' = making \cup {c}
           /\ IF c \in Limited THEN memory' = m /\ Answer(t) ELSE GrabArea(t, m, c)

\* getBlockOrStartGen without data: memory, or the database has to be read.
Decide(t) ==
  /\ at[t] = "decide" /\ env = None
  /\ LET b == job[t].block
     IN  IF IsGenerated(memory, b) THEN Answer(t) /\ UNCHANGED <<memory, making>>
         ELSE IF memory[b] = None
         THEN Goto(t, "read") /\ UNCHANGED <<job, dropped, died, disturbed, memory, making>>
         ELSE StartGen(t, memory)
  /\ UNCHANGED <<queueVars, lockVars, server, turns, stored, asked, ran, errors, latest>>

\* m_db.loadBlock under the mutex of the database only.
Read(t) ==
  /\ at[t] = "read"
  /\ job' = [job EXCEPT ![t].data = stored[job[t].block]]
  /\ Goto(t, "again")
  /\ UNCHANGED <<queueVars, lockVars, server, turns, mapVars, asked, historyVars>>

\* "That means someone else was faster.  Don't touch it to prevent data loss."
NeverRaced(t) == FALSE           \* Fault: the data read is loaded regardless
Raced(t) == memory[job[t].block] # None

\* getBlockOrStartGen with the data: a block that came into memory meanwhile is
\* not touched, an unreadable one ends the thread.
DecideAgain(t) ==
  /\ at[t] = "again" /\ env = None
  /\ LET b == job[t].block
         data == job[t].data
         loaded == [memory EXCEPT ![b] = FromRow(data)]
     IN  IF Raced(t)
         THEN IF memory[b].gen THEN Answer(t) /\ UNCHANGED <<memory, making>>
              ELSE StartGen(t, memory)
         ELSE IF data = None THEN StartGen(t, memory)
         ELSE IF data = Unreadable THEN Die(t, {}) /\ UNCHANGED <<memory, making>>
         ELSE IF data.gen THEN memory' = loaded /\ Answer(t) /\ UNCHANGED making
         ELSE StartGen(t, loaded)
  /\ UNCHANGED <<queueVars, lockVars, server, turns, stored, asked, ran, errors, latest>>

\* finishGen: blitBackAll writes the whole copy, generated border blocks too,
\* and reloads or creates what has gone; finishBlockMake drops a reference by
\* position; the on_generated callbacks of the server environment run.
FinishMake(t) ==
  /\ Making(t) /\ env = None
  /\ LET c == ChunkOf[job[t].block]
     IN  /\ memory' = [b \in Block |->
             IF b \notin Area[c] THEN memory[b]
             ELSE LET old == Emerged(memory, b)
                  IN  [gen |-> old.gen \/ b \in Body(c), edits |-> job[t].copy[b],
                       refs |-> old.refs - 1, dirty |-> TRUE]]
         /\ making' = making \ {c}
  /\ Goto(t, "answer") /\ job' = [job EXCEPT ![t].copy = NoCopy]
  /\ LeaveOrAsk(t)
  /\ UNCHANGED <<queueVars, queue_lock, server, turns, stored, historyVars>>

\* An error in on_generated of the emerge environment: cancelBlockMake drops
\* the references without the environment lock, so any of the decrements may
\* be lost to another thread's; the chunk stays in m_chunks_in_progress.
FailMake(t) ==
  /\ Making(t) /\ errors < MaxErrors
  /\ \E D \in SUBSET AreaOf(t) :
       memory' = [b \in Block |-> IF b \in D /\ memory[b] # None
                    THEN [memory[b] EXCEPT !.refs = @ - 1] ELSE memory[b]]
  /\ disturbed' = disturbed \cup AreaOf(t)
  /\ errors' = errors + 1
  /\ Goto(t, "answer") /\ job' = [job EXCEPT ![t].copy = NoCopy]
  /\ UNCHANGED <<queueVars, lockVars, server, turns, stored, making, asked, ran, dropped, died, latest>>

---------------------------------------------------------------------------
(* Answers, and the end of a thread *)

\* LuaEmergeAreaCallback takes the environment lock, after a block has been
\* worked on and, with m_queue_mutex held, for a block that is cancelled.
RunCallback(t) ==
  /\ at[t] \in {"answer", "cancelling"} /\ wants[t] = None /\ env = None
  /\ \E r \in job[t].calls :
       /\ job' = [job EXCEPT ![t].calls = @ \ {r}]
       /\ ran' = ran \cup {r}
  /\ LeaveOrAsk(t)
  /\ UNCHANGED <<queueVars, at, queue_lock, server, turns, mapVars, dropped, died, errors, latest,
                 disturbed>>

AllAnswered(t) ==
  /\ at[t] \in {"answer", "cancelling"} /\ wants[t] = None /\ job[t].calls = {}
  /\ Goto(t, IF at[t] = "answer" THEN "loop" ELSE "cancel")
  /\ job' = [job EXCEPT ![t] = Idle]
  /\ UNCHANGED <<queueVars, lockVars, server, turns, mapVars, asked, historyVars>>

LeaveLoop(t) ==
  /\ at[t] = "loop" /\ server = "stopping"
  /\ Goto(t, "shutdown")
  /\ UNCHANGED <<queueVars, job, lockVars, server, turns, mapVars, asked, historyVars>>

\* cancelPendingItems holds m_queue_mutex from its first line to its last.
CancelPendingItems(t) ==
  /\ at[t] = "shutdown" /\ queue_lock = None
  /\ queue_lock' = t /\ Goto(t, "cancel")
  /\ UNCHANGED <<queueVars, job, env, wants, server, turns, mapVars, asked, historyVars>>

CancelNext(t) ==
  /\ at[t] = "cancel" /\ queue[t] # <<>>
  /\ PopBlockEmerge(t)
  /\ job' = [job EXCEPT ![t] = Taken(t)]
  /\ Goto(t, "cancelling")
  /\ UNCHANGED <<lockVars, server, turns, mapVars, asked, historyVars>>

EndThread(t) ==
  /\ at[t] = "cancel" /\ queue[t] = <<>>
  /\ queue_lock' = None /\ Goto(t, "ended")
  /\ UNCHANGED <<queueVars, job, env, wants, server, turns, mapVars, asked, historyVars>>

---------------------------------------------------------------------------
(* The server thread *)

ServerSection ==
  server = "running" /\ env = None /\ turns < MaxTurns /\ turns' = turns + 1

\* GetNextBlocks, the handler of INTERACT, getBlockOrEmerge and core.emerge_area: all
\* of them hold the environment lock.
Ask ==
  /\ ServerSection
  /\ \E r \in Wanted \ asked :
       asked' = asked \cup {r} /\ wants' = [wants EXCEPT ![Server] = r]
  /\ env' = Server
  /\ UNCHANGED <<queueVars, at, job, queue_lock, server, mapVars, historyVars>>

EditBlock ==
  /\ ServerSection
  /\ \E b \in Block, e \in Edit :
       /\ memory[b] # None /\ \A q \in Block : e \notin latest[q]
       /\ memory' = [memory EXCEPT ![b].edits = @ \cup {e}, ![b].dirty = TRUE]
       /\ latest' = [latest EXCEPT ![b] = @ \cup {e}]
       /\ disturbed' = disturbed \cup {q \in {b} : Makers(q) # {}}
  /\ UNCHANGED <<queueVars, lockVars, at, job, server, stored, making, asked, ran, dropped, died,
                 errors>>

\* emergeBlock for clear_objects, load_area and forced blocks.
LoadBlock ==
  /\ ServerSection
  /\ \E b \in Block :
       /\ memory[b] = None /\ stored[b] \in Row
       /\ memory' = [memory EXCEPT ![b] = FromRow(stored[b])]
  /\ UNCHANGED <<queueVars, lockVars, at, job, server, stored, making, asked, historyVars>>

WriteRow(b) ==
  /\ stored' = [stored EXCEPT ![b] = [gen |-> memory[b].gen, edits |-> memory[b].edits]]
  /\ disturbed' = disturbed \cup {q \in {b} : Readers(q) # {}}

SaveBlock ==
  /\ ServerSection
  /\ \E b \in Block :
       /\ memory[b] # None /\ memory[b].dirty
       /\ memory' = [memory EXCEPT ![b].dirty = FALSE]
       /\ WriteRow(b)
  /\ UNCHANGED <<queueVars, lockVars, at, job, server, making, asked, ran, dropped, died, errors,
                 latest>>

MayUnloadGrabbed(b) == memory[b] # None      \* Fault: references do not matter
MayUnload(b) == memory[b] # None /\ memory[b].refs = 0

\* timerUpdate and unloadUnreferencedBlocks.
UnloadBlock ==
  /\ ServerSection
  /\ \E b \in Block :
       /\ MayUnload(b)
       /\ IF memory[b].dirty THEN WriteRow(b) ELSE UNCHANGED <<stored, disturbed>>
       /\ memory' = [memory EXCEPT ![b] = None]
  /\ UNCHANGED <<queueVars, lockVars, at, job, server, making, asked, ran, dropped, died, errors,
                 latest>>

\* deleteBlock for core.delete_area, whoever holds the block.
DeleteBlock ==
  /\ ServerSection
  /\ \E b \in Block :
       /\ memory[b] # None \/ stored[b] # None
       /\ stored' = [stored EXCEPT ![b] = None]
       /\ memory' = [memory EXCEPT ![b] = None]
       /\ latest' = [latest EXCEPT ![b] = {}]
       /\ disturbed' = disturbed \cup {q \in {b} : Makers(q) \cup Readers(q) # {}}
  /\ UNCHANGED <<queueVars, lockVars, at, job, server, making, asked, ran, dropped, died, errors>>

\* ~Server stops its own thread first, then the emerge threads.
StopServer ==
  /\ server = "running" /\ wants[Server] = None
  /\ server' = "stopped"
  /\ UNCHANGED <<queueVars, lockVars, at, job, turns, mapVars, asked, historyVars>>

StopThreadsFirst == server \in {"running", "stopped"}    \* Fault: the order reversed
MayStopThreads == server = "stopped"

StopThreads ==
  /\ MayStopThreads
  /\ server' = "stopping" /\ event' = [t \in Thread |-> TRUE]
  /\ UNCHANGED <<enqueued, count, queue, lockVars, at, job, turns, mapVars, asked, historyVars>>

EmergeThread(t) ==
  \/ Take(t) \/ Sleep(t) \/ Wake(t) \/ Decide(t) \/ Read(t) \/ DecideAgain(t)
  \/ FinishMake(t) \/ FailMake(t) \/ RunCallback(t) \/ AllAnswered(t)
  \/ LeaveLoop(t) \/ CancelPendingItems(t) \/ CancelNext(t) \/ EndThread(t)

ServerThread ==
  Ask \/ EditBlock \/ LoadBlock \/ SaveBlock \/ UnloadBlock \/ DeleteBlock

Shutdown == StopServer \/ StopThreads

Next ==
  \/ \E t \in Thread : EmergeThread(t)
  \/ \E a \in Actor : Enqueue(a)
  \/ ServerThread
  \/ Shutdown

\* The operating system runs every thread; nothing makes the server stop, and
\* nothing makes anybody ask.
Fairness ==
  /\ \A t \in Thread : WF_vars(EmergeThread(t))
  /\ \A a \in Actor : WF_vars(Enqueue(a))

Spec == Init /\ [][Next]_vars /\ Fairness

---------------------------------------------------------------------------
(* Properties *)

\* Every variable keeps to its set (the declarations of EmergeManager, EmergeThread
\* and MapBlock).
TypeOK ==
  /\ enqueued \in [Block -> BlockEmergeData \cup {None}]
  /\ count \in [Peer \cup {None} -> Nat]
  /\ queue \in [Thread -> Seq(Block)] /\ event \in [Thread -> BOOLEAN]
  /\ at \in [Thread -> {"loop", "wait", "decide", "read", "again", "make", "answer",
                        "shutdown", "cancel", "cancelling", "ended"}]
  /\ job \in [Thread -> Job]
  /\ env \in Actor \cup {None} /\ queue_lock \in Thread \cup {None}
  /\ wants \in [Actor -> Request \cup {None}]
  /\ server \in {"running", "stopped", "stopping"}
  /\ memory \in [Block -> MapBlock \cup {None}]
  /\ stored \in [Block -> Row \cup {None, Unreadable}]
  /\ making \subseteq Chunk /\ errors \in 0..MaxErrors /\ turns \in 0..MaxTurns
  /\ died \subseteq Thread
  /\ asked \subseteq Request /\ ran \subseteq asked /\ dropped \subseteq asked
  /\ latest \in [Block -> SUBSET Edit] /\ disturbed \subseteq Block

\* The three records of what waits agree: a block is in the queue of a thread, of one
\* thread and once, exactly when it has an entry, and every peer is charged for
\* the entries it made, not for those it joined (m_blocks_enqueued, m_block_queue,
\* m_peer_queue_count).
QueueIsShared ==
  /\ \A b \in Block :
       Cardinality({p \in Thread \X (1..Cardinality(Block)) :
                      p[2] <= Len(queue[p[1]]) /\ queue[p[1]][p[2]] = b})
         = (IF b \in Enqueued THEN 1 ELSE 0)
  /\ \A p \in Peer \cup {None} :
       count[p] = Cardinality({b \in Enqueued : enqueued[b].peer = p})

\* A callback is at one place from the call of core.emerge_area until it runs: with the
\* caller, in the queue, with a thread, done.  The program loses only those of blocks
\* over the limit of the map and of the block that ends a thread (run's
\* `continue` and its catch clauses).
CallbacksConserved ==
  /\ \A r \in {q \in asked : q.lua} :
       Cardinality({a \in Actor : wants[a] = r})
       + Cardinality({b \in Enqueued : r \in enqueued[b].calls})
       + Cardinality({t \in Thread : r \in job[t].calls})
       + Cardinality({s \in {ran, dropped} : r \in s}) = 1
  /\ died = {} => \A r \in dropped : r.block \in Over

\* While a chunk is made its blocks and the border stay in memory, and the references
\* to a block are those of its makers: it can be unloaded again afterwards.  Holds
\* for blocks nobody deletes, and as long as no generation fails.
GrabbedWhileMade ==
  \A b \in Block \ disturbed :
    IF memory[b] = None THEN Makers(b) = {}
    ELSE memory[b].refs = Cardinality(Makers(b))

\* A block shows the changes made to it and no others: generation, reading without the
\* lock, unloading and loading lose none and bring none back.  Not so where a block is
\* changed while its chunk is made (blitBackAll writes the older copy), or where its
\* row is written or deleted between Read and DecideAgain.
LatestIsKept ==
  \A b \in Block \ disturbed :
    latest[b] = (IF memory[b] # None THEN memory[b].edits
                 ELSE IF stored[b] \in Row THEN stored[b].edits ELSE {})

\* Who waits for whom: for m_queue_mutex with env held, and the other way round.
Waits(a, u) ==
  \/ wants[a] # None /\ queue_lock = u
  \/ a \in Thread /\ at[a] = "cancelling" /\ job[a].calls # {} /\ env = u
Deadlocked == \E a, u \in Actor : Waits(a, u) /\ Waits(u, a)

\* cancelPendingItems calls Lua with m_queue_mutex held, the opposite of the order
\* everywhere else.  Server and emerge threads still never wait for each other in a
\* circle, unless an unreadable block has ended a thread of a running server or a mod's
\* callback asks for more blocks while threads are being cancelled.
NoDeadlock ==
  Deadlocked => died # {} \/ \E t \in Thread : wants[t] # None

\* An entry that a thread no longer takes: pushed after its end.
Orphaned(r) == \E t \in Thread, b \in Enqueued :
  /\ at[t] = "ended" /\ r \in enqueued[b].calls
  /\ \E i \in DOMAIN queue[t] : queue[t][i] = b

\* core.emerge_area answers: every callback runs in the end, whichever thread has the
\* block, whatever else is asked and even when the server stops; not over the limit of
\* the map, after a deadlock, or for what is asked of a thread that has ended.
Answered ==
  <>[](\A r \in asked :
         r.lua => r \in ran \/ r \in dropped \/ Deadlocked \/ Orphaned(r))
=============================================================================
