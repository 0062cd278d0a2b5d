----------------------------- MODULE EmergeProofs -----------------------------
(***************************************************************************)
(* Proofs about Emerge, for any number of threads, blocks, peers and       *)
(* requests: who holds which mutex, what waits in the queues, where the    *)
(* callbacks are, and what the map shows.                                  *)
(***************************************************************************)
EXTENDS Emerge, FiniteSetTheorems, WellFoundedInduction, TLAPS

Ending == {"shutdown", "cancel", "cancelling", "ended"}

\* The environment lock is held across actions by who is about to enqueue, m_queue_mutex
\* by who cancels; only a stopping server and an unreadable block end threads.
LocksAreRight ==
  /\ \A a \in Actor : wants[a] # None <=> env = a
  /\ \A t \in Thread :
       /\ queue_lock = t <=> at[t] \in {"cancel", "cancelling"}
       /\ at[t] \in Ending => server = "stopping" \/ t \in died
  /\ server # "running" => wants[Server] = None

\* What waits is in one queue, once.
QueueIsRight ==
  /\ \A t \in Thread : \A n \in DOMAIN queue[t] : queue[t][n] \in Enqueued
  /\ \A b \in Enqueued : \E t \in Thread : \E n \in DOMAIN queue[t] : queue[t][n] = b
  /\ \A t, u \in Thread : \A n \in DOMAIN queue[t], m \in DOMAIN queue[u] :
       queue[t][n] = queue[u][m] => t = u /\ n = m

Charged(p) == {b \in Enqueued : enqueued[b].peer = p}

\* Every peer is charged for its entries.
CountIsRight == \A p \in Peer \cup {None} : count[p] = Cardinality(Charged(p))

\* A callback waits for the block it was asked for, with the entry or with the job.
CallsAreRight ==
  /\ \A b \in Enqueued : \A r \in enqueued[b].calls : r.lua /\ r.block = b
  /\ \A t \in Thread :
       /\ \A r \in job[t].calls : r.lua /\ r.block = job[t].block
       /\ at[t] \in {"decide", "read", "again", "make"} => job[t].block \in Block \ Over
       /\ at[t] \notin {"decide", "read", "again", "make", "answer", "cancelling"} =>
            job[t].calls = {}

\* Where a callback can be.
Wishing(r) == {a \in Actor : wants[a] = r}
Waiting(r) == {b \in Enqueued : r \in enqueued[b].calls}
Working(r) == {t \in Thread : r \in job[t].calls}
Settled(r) == {s \in {ran, dropped} : r \in s}

\* It is somewhere once it is asked for, and nowhere else.
OnePlace ==
  /\ \A a \in Actor : wants[a] # None => wants[a] \in asked
  /\ \A b \in Enqueued : enqueued[b].calls \subseteq asked
  /\ \A t \in Thread : job[t].calls \subseteq asked
  /\ \A r \in asked : r.lua =>
       /\ \/ Wishing(r) # {}
          \/ Waiting(r) # {}
          \/ Working(r) # {}
          \/ r \in ran \cup dropped
       /\ Wishing(r) # {} => Waiting(r) = {} /\ Working(r) = {} /\ r \notin ran \cup dropped
       /\ Waiting(r) # {} => Working(r) = {} /\ r \notin ran \cup dropped
       /\ Working(r) # {} => r \notin ran \cup dropped
       /\ r \in ran => r \notin dropped
       /\ \A t, u \in Working(r) : t = u
  /\ died = {} => \A r \in dropped : r.block \in Over

\* With m as the map a block shows the latest changes and is referenced by its makers;
\* one that need not be saved is what its row says, and one that cannot be read is not
\* loaded.
BlockIsRight(m, b) ==
  /\ stored[b] = Unreadable => m[b] = None
  /\ b \notin disturbed =>
       IF m[b] = None
       THEN /\ Makers(b) = {}
            /\ latest[b] = (IF stored[b] \in Row THEN stored[b].edits ELSE {})
       ELSE /\ m[b].refs = Cardinality(Makers(b)) /\ m[b].edits = latest[b]
            /\ ~ m[b].dirty => stored[b] \in Row /\ stored[b].edits = m[b].edits

\* A thread that works on a copy of a block has what the block shows; one that has read a
\* row has the row of the database.
WorkIsRight(t, b) ==
  /\ t \in Makers(b) =>
       /\ stored[b] # Unreadable
       /\ b \notin disturbed => job[t].copy[b] = latest[b]
  /\ t \in Readers(b) =>
       /\ b \notin disturbed => job[t].data = stored[b]
       /\ stored[b] = Unreadable => job[t].data = Unreadable

MapInv == \A b \in Block : BlockIsRight(memory, b) /\ \A t \in Thread : WorkIsRight(t, b)

IInv ==
  /\ TypeOK /\ LocksAreRight /\ QueueIsRight /\ CountIsRight /\ CallsAreRight /\ OnePlace
  /\ MapInv

-----------------------------------------------------------------------------
(* The mutexes.                                                            *)

\* The server thread is not an emerge thread, and nobody is None.
LEMMA Actors ==
  /\ Thread \subseteq Actor /\ Server \in Actor /\ Server \notin Thread /\ None \notin Actor
  /\ Actor = Thread \cup {Server}
BY SettingsAssumption, MapAssumption DEF Actor, Server

\* Steps that take and release nothing.
LEMMA LocksFrame ==
  ASSUME LocksAreRight, UNCHANGED <<wants, env, queue_lock, server>>, died \subseteq died',
         \A t \in Thread :
           /\ at'[t] \in {"cancel", "cancelling"} <=> at[t] \in {"cancel", "cancelling"}
           /\ at'[t] \in Ending => at[t] \in Ending \/ server = "stopping" \/ t \in died'
  PROVE  LocksAreRight'
BY DEF LocksAreRight

\* A thread moves between places outside cancelPendingItems or inside it.
LEMMA LocksMove ==
  ASSUME TypeOK, LocksAreRight, UNCHANGED <<wants, env, queue_lock, server>>,
         NEW t \in Thread, NEW place, Goto(t, place),
         place \in {"cancel", "cancelling"} <=> at[t] \in {"cancel", "cancelling"},
         died \subseteq died',
         place \in Ending => at[t] \in Ending \/ server = "stopping" \/ t \in died'
  PROVE  LocksAreRight'
<1>1. at'[t] = place /\ \A u \in Thread \ {t} : at'[u] = at[u]
  BY DEF Goto, TypeOK
<1>2. QED
  BY <1>1, LocksFrame

\* Who holds the environment lock may take it along to the queue.
LEMMA LocksLeaveOrAsk ==
  ASSUME TypeOK, LocksAreRight, UNCHANGED <<queue_lock, server, died>>, env = None,
         NEW t \in Thread, LeaveOrAsk(t),
         \A u \in Thread :
           /\ at'[u] \in {"cancel", "cancelling"} <=> at[u] \in {"cancel", "cancelling"}
           /\ at'[u] \in Ending <=> at[u] \in Ending
  PROVE  LocksAreRight'
<1>1. CASE Leave(t)
  BY <1>1, LocksFrame DEF Leave
<1>2. CASE AskFromLua(t)
  <2>1. PICK r \in Nested : env' = t /\ wants' = [wants EXCEPT ![t] = r]
    BY <1>2 DEF AskFromLua
  <2>2. /\ wants'[t] = r /\ r # None
        /\ \A a \in Actor \ {t} : wants'[a] = wants[a]
    BY <2>1, MapAssumption, Actors DEF TypeOK, Request
  <2>3. \A a \in Actor : wants'[a] # None <=> env' = a
    BY <2>1, <2>2, Actors DEF LocksAreRight
  <2>4. QED
    BY <2>2, <2>3, Actors DEF LocksAreRight
<1>3. QED
  BY <1>1, <1>2 DEF LeaveOrAsk

\* LocksAreRight holds initially,
LEMMA LocksInit ==
  Init => LocksAreRight
BY MapAssumption, Actors DEF Init, LocksAreRight, Ending

\* and every step keeps it.
LEMMA LocksStep ==
  ASSUME TypeOK, LocksAreRight, [Next]_vars
  PROVE  LocksAreRight'
<1>1. CASE UNCHANGED vars
  BY <1>1, LocksFrame DEF vars
<1>2. ASSUME NEW t \in Thread, Take(t)
      PROVE  LocksAreRight'
  <2>1. UNCHANGED <<wants, env, queue_lock, server, died>> /\ at[t] = "loop"
    BY <1>2 DEF Take, lockVars
  <2>2. at' = at \/ Goto(t, "decide")
    BY <1>2 DEF Take
  <2>3. QED
    BY <2>1, <2>2, LocksFrame, LocksMove DEF Ending
<1>3. ASSUME NEW t \in Thread, Sleep(t) \/ Wake(t) \/ Read(t) \/ FailMake(t) \/ LeaveLoop(t)
                                 \/ AllAnswered(t) \/ CancelNext(t)
      PROVE  LocksAreRight'
  <2>1. UNCHANGED <<wants, env, queue_lock, server, died>>
    BY <1>3 DEF Sleep, Wake, Read, FailMake, LeaveLoop, AllAnswered, CancelNext, lockVars,
                historyVars
  <2>2. \/ at[t] = "loop" /\ Goto(t, "wait")
        \/ at[t] = "wait" /\ Goto(t, "loop")
        \/ at[t] = "read" /\ Goto(t, "again")
        \/ at[t] = "make" /\ Goto(t, "answer")
        \/ at[t] = "loop" /\ server = "stopping" /\ Goto(t, "shutdown")
        \/ at[t] = "answer" /\ Goto(t, "loop")
        \/ at[t] = "cancelling" /\ Goto(t, "cancel")
        \/ at[t] = "cancel" /\ Goto(t, "cancelling")
    BY <1>3 DEF Sleep, Wake, Read, FailMake, Making, LeaveLoop, AllAnswered, CancelNext
  <2>3. QED
    BY <2>1, <2>2, LocksMove DEF Ending
<1>4. ASSUME NEW t \in Thread, Decide(t) \/ DecideAgain(t)
      PROVE  LocksAreRight'
  <2>1. UNCHANGED <<wants, env, queue_lock, server>> /\ at[t] \in {"decide", "again"}
    BY <1>4 DEF Decide, DecideAgain, lockVars
  <2>2. ASSUME NEW m, StartGen(t, m)
        PROVE  \/ UNCHANGED died /\ \E place \in {"answer", "make"} : Goto(t, place)
               \/ Goto(t, "shutdown") /\ died' = died \cup {t}
    BY <2>2 DEF StartGen, GrabArea, Answer, Die
  <2>3. \/ UNCHANGED died /\ \E place \in {"answer", "make", "read"} : Goto(t, place)
        \/ Goto(t, "shutdown") /\ died' = died \cup {t}
    BY <1>4, <2>2 DEF Decide, DecideAgain, Answer, Die
  <2>4. QED
    BY <2>1, <2>3, LocksMove DEF Ending
<1>5. ASSUME NEW t \in Thread, FinishMake(t) \/ RunCallback(t)
      PROVE  LocksAreRight'
  <2>1. UNCHANGED <<queue_lock, server, died>> /\ env = None /\ LeaveOrAsk(t)
    BY <1>5 DEF FinishMake, RunCallback, historyVars
  <2>2. at' = at \/ (at[t] = "make" /\ Goto(t, "answer"))
    BY <1>5 DEF FinishMake, RunCallback, Making
  <2>3. QED
    BY <2>1, <2>2, LocksLeaveOrAsk DEF Goto, TypeOK, Ending
<1>6. ASSUME NEW t \in Thread, CancelPendingItems(t) \/ EndThread(t)
      PROVE  LocksAreRight'
  <2>1. /\ UNCHANGED <<wants, env, server, died>> /\ at[t] \in Ending
        /\ \/ at[t] = "shutdown" /\ queue_lock = None /\ queue_lock' = t /\ at'[t] = "cancel"
           \/ at[t] = "cancel" /\ queue_lock' = None /\ at'[t] = "ended"
        /\ \A u \in Thread \ {t} : at'[u] = at[u]
    BY <1>6 DEF CancelPendingItems, EndThread, Goto, TypeOK, historyVars, Ending
  <2>2. QED
    BY <2>1, Actors DEF LocksAreRight, Ending
<1>7. ASSUME NEW a \in Actor, Enqueue(a)
      PROVE  LocksAreRight'
  <2>1. /\ UNCHANGED <<at, queue_lock, server, died>>
        /\ wants[a] # None /\ wants'[a] = None /\ env' = None
        /\ \A u \in Actor \ {a} : wants'[u] = wants[u]
    BY <1>7 DEF Enqueue, TypeOK, historyVars
  <2>2. \A u \in Actor : wants'[u] # None <=> env' = u
    BY <2>1, Actors DEF LocksAreRight
  <2>3. QED
    BY <2>1, <2>2, Actors DEF LocksAreRight
<1>8. CASE Ask
  <2>1. PICK r \in Wanted : wants' = [wants EXCEPT ![Server] = r]
    BY <1>8 DEF Ask
  <2>2. /\ UNCHANGED <<at, queue_lock, server, died>>
        /\ server = "running" /\ env = None /\ env' = Server
        /\ wants'[Server] = r /\ r # None
        /\ \A u \in Actor \ {Server} : wants'[u] = wants[u]
    BY <1>8, <2>1, MapAssumption, Actors DEF Ask, ServerSection, TypeOK, historyVars, Request
  <2>3. \A u \in Actor : wants'[u] # None <=> env' = u
    BY <2>2, Actors DEF LocksAreRight
  <2>4. QED
    BY <2>2, <2>3 DEF LocksAreRight
<1>9. CASE EditBlock \/ LoadBlock \/ SaveBlock \/ UnloadBlock \/ DeleteBlock
  <2>1. UNCHANGED <<wants, env, queue_lock, server, at, died>>
    BY <1>9 DEF EditBlock, LoadBlock, SaveBlock, UnloadBlock, DeleteBlock, lockVars, historyVars
  <2>2. QED
    BY <2>1, LocksFrame
<1>10. CASE StopServer \/ StopThreads
  <2>1. /\ UNCHANGED <<wants, env, queue_lock, at, died>> /\ server' \in {"stopped", "stopping"}
        /\ server = "stopping" => server' = "stopping"
        /\ wants[Server] = None
    BY <1>10 DEF StopServer, StopThreads, MayStopThreads, lockVars, historyVars, LocksAreRight
  <2>2. QED
    BY <2>1 DEF LocksAreRight
<1>11. QED
  BY <1>1, <1>2, <1>3, <1>4, <1>5, <1>6, <1>7, <1>8, <1>9, <1>10
     DEF Next, EmergeThread, ServerThread, Shutdown

-----------------------------------------------------------------------------
(* The queue.                                                              *)

\* A set of natural numbers has a least one.
LEMMA LeastOne ==
    ASSUME NEW N \in SUBSET Nat, N # {}
    PROVE  \E m \in N : \A k \in N : m <= k
<1> DEFINE UpTo == {1 .. n : n \in N}
           Less == StrictSubsetOrdering(Nat)
<1>1. UpTo \subseteq FiniteSubsetsOf(Nat) /\ UpTo # {}
  <2>1. ASSUME NEW n \in N PROVE 1 .. n \in SUBSET Nat /\ IsFiniteSet(1 .. n)
    BY FS_Interval
  <2>2. QED
    BY <2>1 DEF FiniteSubsetsOf
<1>2. PICK S \in UpTo : \A T \in UpTo : <<T, S>> \notin Less
  <2>1. IsWellFoundedOn(Less, FiniteSubsetsOf(Nat))
    BY FS_StrictSubsetOrderingWellFounded
  <2>2. QED
    BY <1>1, <2>1, WFMin
<1>3. PICK m \in N : S = 1 .. m
  BY <1>2
<1>4. ASSUME NEW k \in N, k < m PROVE FALSE
  <2>1. 1 .. k \subseteq 1 .. m /\ 1 .. k # 1 .. m
    BY <1>4
  <2>2. <<1 .. k, 1 .. m>> \in Less
    BY <2>1 DEF StrictSubsetOrdering
  <2>3. QED
    BY <1>2, <1>3, <2>2
<1>5. QED
  BY <1>4


\* getOptimalThread finds one.
LEMMA OptimalThreadExists ==
  ASSUME TypeOK
  PROVE  OptimalThread \in Thread
<1> DEFINE lengths == {Len(queue[t]) : t \in Thread}
<1>1. \A t \in Thread : Len(queue[t]) \in Nat
  BY DEF TypeOK
<1>2. PICK n \in lengths : \A k \in lengths : n <= k
  <2>1. PICK t \in Thread : TRUE
    BY MapAssumption
  <2>2. Len(queue[t]) \in lengths
    OBVIOUS
  <2>3. lengths \in SUBSET Nat /\ lengths # {}
    BY <1>1, <2>2
  <2>4. QED
    BY <2>3, LeastOne
<1> DEFINE shortest == {t \in Thread : Len(queue[t]) = n}
<1>3. PICK t \in shortest : \A u \in shortest : t <= u
  <2>1. shortest \in SUBSET Nat /\ shortest # {}
    BY <1>2, SettingsAssumption
  <2>2. QED
    BY <2>1, LeastOne
<1>4. \A u \in Thread : \/ Len(queue[t]) < Len(queue[u])
                        \/ Len(queue[t]) = Len(queue[u]) /\ t <= u
  <2>1. ASSUME NEW u \in Thread
        PROVE  n <= Len(queue[u]) /\ (Len(queue[u]) = n => t <= u)
    BY <1>2, <1>3
  <2>2. Len(queue[t]) = n /\ n \in Nat
    BY <1>1, <1>3
  <2>3. QED
    BY <1>1, <2>1, <2>2
<1>5. \E u \in Thread : \A w \in Thread :
        \/ Len(queue[u]) < Len(queue[w])
        \/ Len(queue[u]) = Len(queue[w]) /\ u <= w
  BY <1>3, <1>4
<1> HIDE DEF lengths, shortest
<1>6. QED
  BY <1>5, Zenon DEF OptimalThread

\* An entry is kept in mind of one more request.
LEMMA MergeChanges ==
  ASSUME TypeOK, NEW r \in Request, r.block \in Enqueued, MergeEntry(r)
  PROVE  /\ enqueued' \in [Block -> BlockEmergeData \cup {None}]
         /\ enqueued'[r.block] # None
         /\ enqueued'[r.block].peer = enqueued[r.block].peer
         /\ enqueued'[r.block].calls = enqueued[r.block].calls \cup CallsOf(r)
         /\ \A b \in Block \ {r.block} : enqueued'[b] = enqueued[b]
<1>1. PICK b, o : /\ b = r.block
                  /\ o = [enqueued[b] EXCEPT !.gen = @ \/ r.gen, !.calls = @ \cup CallsOf(r)]
  OBVIOUS
<1>2. b \in Block /\ enqueued[b] \in BlockEmergeData /\ r.gen \in BOOLEAN
  BY <1>1, MapAssumption DEF TypeOK, Enqueued
<1>3. CallsOf(r) \subseteq Request
  BY DEF CallsOf
<1>4. /\ o \in BlockEmergeData /\ o.peer = enqueued[b].peer
      /\ o.calls = enqueued[b].calls \cup CallsOf(r)
  BY <1>1, <1>2, <1>3 DEF BlockEmergeData
<1>5. enqueued' = [enqueued EXCEPT ![b] = o]
  BY <1>1, <1>2 DEF MergeEntry, TypeOK
<1>6. o # None
  BY <1>4, MapAssumption
<1>7. QED
  BY <1>1, <1>2, <1>4, <1>5, <1>6 DEF TypeOK

\* A new entry is counted.
LEMMA NewChanges ==
  ASSUME TypeOK, NEW r \in Request, r.block \notin Enqueued, NewEntry(r)
  PROVE  /\ enqueued' \in [Block -> BlockEmergeData \cup {None}]
         /\ enqueued'[r.block] # None
         /\ enqueued'[r.block].peer = r.peer
         /\ enqueued'[r.block].calls = CallsOf(r)
         /\ \A b \in Block \ {r.block} : enqueued'[b] = enqueued[b]
         /\ r.block \in Block /\ r.peer \in Peer \cup {None}
         /\ count'[r.peer] = count[r.peer] + 1
         /\ \A p \in (Peer \cup {None}) \ {r.peer} : count'[p] = count[p]
         /\ count' \in [Peer \cup {None} -> Nat]
<1>1. r.block \in Block /\ r.peer \in Peer \cup {None} /\ r.gen \in BOOLEAN
  BY MapAssumption
<1>2. PICK o : o = [gen |-> r.gen, peer |-> r.peer, calls |-> CallsOf(r)]
  OBVIOUS
<1>3. o \in BlockEmergeData /\ o.peer = r.peer /\ o.calls = CallsOf(r)
  BY <1>1, <1>2 DEF BlockEmergeData, CallsOf
<1>4. o # None
  BY <1>3, MapAssumption
<1>5. enqueued' = [enqueued EXCEPT ![r.block] = o]
  BY <1>2 DEF NewEntry
<1>6. QED
  BY <1>1, <1>3, <1>4, <1>5 DEF NewEntry, TypeOK

\* What a pop changes; there is an entry to take.
LEMMA PopChanges ==
  ASSUME TypeOK, QueueIsRight, CountIsRight, NEW t \in Thread, queue[t] # <<>>,
         PopBlockEmerge(t), NEW b, b = Head(queue[t])
  PROVE  /\ b \in Enqueued /\ b \in Block /\ enqueued[b] \in BlockEmergeData
         /\ queue[t] \in Seq(Block) /\ b = queue[t][1] /\ 1 \in DOMAIN queue[t]
         /\ queue'[t] = Tail(queue[t]) /\ \A u \in Thread \ {t} : queue'[u] = queue[u]
         /\ queue' \in [Thread -> Seq(Block)]
         /\ enqueued' \in [Block -> BlockEmergeData \cup {None}]
         /\ enqueued'[b] = None /\ \A c \in Block \ {b} : enqueued'[c] = enqueued[c]
         /\ enqueued[b].peer \in Peer \cup {None}
         /\ count'[enqueued[b].peer] = count[enqueued[b].peer] - 1
         /\ \A p \in (Peer \cup {None}) \ {enqueued[b].peer} : count'[p] = count[p]
         /\ count' \in [Peer \cup {None} -> Nat]
<1>1. queue[t] \in Seq(Block) /\ b = queue[t][1] /\ 1 \in DOMAIN queue[t]
  BY DEF TypeOK
<1>2. b \in Enqueued /\ b \in Block /\ enqueued[b] # None
  BY <1>1 DEF QueueIsRight, Enqueued
<1>3. enqueued[b] \in BlockEmergeData
  BY <1>2 DEF TypeOK
<1>4. PICK p \in Peer \cup {None} : p = enqueued[b].peer
  BY <1>3 DEF BlockEmergeData
<1>5. /\ queue' = [queue EXCEPT ![t] = Tail(@)]
      /\ enqueued' = [enqueued EXCEPT ![b] = None]
      /\ count' = [count EXCEPT ![p] = @ - 1]
  BY <1>2, <1>4 DEF PopBlockEmerge
<1>6. Tail(queue[t]) \in Seq(Block)
  BY <1>1
<1>7. count[p] \in Nat \ {0}
  <2>1. b \in Charged(p) /\ Charged(p) \in SUBSET Block
    BY <1>2, <1>4 DEF Charged, Enqueued
  <2>2. IsFiniteSet(Charged(p))
    BY <2>1, FS_Subset, MapAssumption
  <2>3. Cardinality(Charged(p)) # 0
    BY <2>1, <2>2, FS_EmptySet
  <2>4. QED
    BY <1>4, <2>3 DEF CountIsRight, TypeOK
<1>8. /\ queue'[t] = Tail(queue[t]) /\ \A u \in Thread \ {t} : queue'[u] = queue[u]
      /\ queue' \in [Thread -> Seq(Block)]
  BY <1>5, <1>6 DEF TypeOK
<1>9. /\ enqueued' \in [Block -> BlockEmergeData \cup {None}]
      /\ enqueued'[b] = None /\ \A c \in Block \ {b} : enqueued'[c] = enqueued[c]
  BY <1>2, <1>5 DEF TypeOK
<1>10. /\ count'[p] = count[p] - 1
       /\ \A q \in (Peer \cup {None}) \ {p} : count'[q] = count[q]
       /\ count' \in [Peer \cup {None} -> Nat]
  BY <1>5, <1>7 DEF TypeOK
<1>11. QED
  BY <1>1, <1>2, <1>3, <1>4, <1>8, <1>9, <1>10

\* A queue and one more block.
LEMMA Appended ==
  ASSUME NEW S, NEW s \in Seq(S), NEW e \in S, NEW r, r = Append(s, e)
  PROVE  /\ r \in Seq(S)
         /\ \E last \in Nat :
              /\ DOMAIN r = DOMAIN s \cup {last} /\ last \notin DOMAIN s
              /\ r[last] = e /\ \A n \in DOMAIN s : r[n] = s[n]
<1>1. PICK last \in Nat : last = Len(s) + 1
  OBVIOUS
<1>2. DOMAIN s = 1 .. Len(s) /\ DOMAIN r = 1 .. last /\ Len(s) \in Nat
  BY <1>1
<1>3. r[last] = e /\ \A n \in DOMAIN s : r[n] = s[n]
  BY <1>1, <1>2
<1>4. DOMAIN r = DOMAIN s \cup {last} /\ last \notin DOMAIN s
  BY <1>1, <1>2
<1>5. r \in Seq(S)
  OBVIOUS
<1>6. QED
  BY <1>3, <1>4, <1>5

\* A queue without its first block.
LEMMA Dequeued ==
  ASSUME NEW S, NEW s \in Seq(S), s # <<>>, NEW r, r = Tail(s)
  PROVE  /\ \A n \in DOMAIN s : n \in Nat /\ n >= 1
         /\ \A n \in DOMAIN r : n \in Nat /\ n >= 1
         /\ \A n \in DOMAIN r : n + 1 \in DOMAIN s /\ r[n] = s[n + 1]
         /\ \A n \in DOMAIN s \ {1} : n - 1 \in DOMAIN r /\ r[n - 1] = s[n]
<1>1. Len(s) \in Nat \ {0} /\ DOMAIN s = 1 .. Len(s)
  OBVIOUS
<1>2. Len(r) = Len(s) - 1 /\ DOMAIN r = 1 .. Len(s) - 1
  BY <1>1
<1>3. \A n \in 1 .. Len(s) - 1 : r[n] = s[n + 1]
  BY <1>1
<1>4. QED
  BY <1>1, <1>2, <1>3

\* Who is charged for what is finite, and one more is one more.
LEMMA ChargedMore ==
  ASSUME NEW A \in SUBSET Block, NEW b, b \notin A
  PROVE  /\ Cardinality(A) \in Nat /\ IsFiniteSet(A)
         /\ Cardinality(A \cup {b}) = Cardinality(A) + 1
<1>1. IsFiniteSet(A)
  BY FS_Subset, MapAssumption
<1>2. QED
  BY <1>1, FS_AddElement, FS_CardinalityType

\* The entries and the queues agree after a request was queued or joined an entry.
LEMMA EnqueueKeepsQueue ==
  ASSUME TypeOK, QueueIsRight, CountIsRight, NEW a \in Actor, Enqueue(a)
  PROVE  QueueIsRight' /\ CountIsRight'
<1>1. PICK r \in Request : r = wants[a]
  BY DEF Enqueue, TypeOK
<1>2. CASE UNCHANGED queueVars
  BY <1>2 DEF QueueIsRight, CountIsRight, Charged, Enqueued, queueVars
<1>3. CASE r.block \in Enqueued /\ MergeEntry(r) /\ UNCHANGED queue
  <2>1. /\ enqueued'[r.block] # None /\ r.block \in Block
        /\ enqueued'[r.block].peer = enqueued[r.block].peer
        /\ \A b \in Block \ {r.block} : enqueued'[b] = enqueued[b]
    BY <1>3, MergeChanges, MapAssumption
  <2>2. Enqueued' = Enqueued
    BY <1>3, <2>1 DEF Enqueued
  <2>3. ASSUME NEW p
        PROVE  Charged(p)' = Charged(p)
    BY <1>3, <2>1, <2>2 DEF Charged, Enqueued
  <2>4. count' = count
    BY <1>3 DEF MergeEntry
  <2>5. QED
    BY <1>3, <2>2, <2>3, <2>4 DEF QueueIsRight, CountIsRight
<1>4. CASE r.block \notin Enqueued /\ NewEntry(r) /\ Push(r.block)
  <2>1. /\ enqueued'[r.block] # None /\ enqueued'[r.block].peer = r.peer
        /\ \A b \in Block \ {r.block} : enqueued'[b] = enqueued[b]
        /\ r.block \in Block /\ r.peer \in Peer \cup {None}
        /\ count'[r.peer] = count[r.peer] + 1
        /\ \A p \in (Peer \cup {None}) \ {r.peer} : count'[p] = count[p]
    BY <1>4, NewChanges
  <2>2. Enqueued' = Enqueued \cup {r.block} /\ r.block \notin Enqueued
    BY <1>4, <2>1 DEF Enqueued
  <2>3. PICK b \in Block : b = r.block
    BY <2>1
  <2>4. PICK t \in Thread : t = OptimalThread
    BY OptimalThreadExists
  <2>5. queue[t] \in Seq(Block)
    BY DEF TypeOK
  <2>6. /\ queue'[t] = Append(queue[t], b)
        /\ \A u \in Thread \ {t} : queue'[u] = queue[u]
    BY <1>4, <2>3, <2>4 DEF Push, TypeOK
  <2>7. PICK last \in Nat :
          /\ DOMAIN queue'[t] = DOMAIN queue[t] \cup {last} /\ last \notin DOMAIN queue[t]
          /\ queue'[t][last] = b /\ \A n \in DOMAIN queue[t] : queue'[t][n] = queue[t][n]
    BY <2>5, <2>6, Appended
  <2>8. ASSUME NEW u \in Thread, NEW n \in DOMAIN queue'[u]
        PROVE  \/ u = t /\ n = last /\ queue'[u][n] = b
               \/ n \in DOMAIN queue[u] /\ queue'[u][n] = queue[u][n] /\ queue'[u][n] # b
    <3>1. CASE u = t /\ n = last
      BY <2>7, <3>1
    <3>2. CASE ~ (u = t /\ n = last)
      <4>1. n \in DOMAIN queue[u] /\ queue'[u][n] = queue[u][n]
        BY <2>6, <2>7, <2>8, <3>2
      <4>2. QED
        BY <2>2, <2>3, <4>1 DEF QueueIsRight
    <3>3. QED
      BY <3>1, <3>2
  <2>9. \A u \in Thread : \A n \in DOMAIN queue'[u] : queue'[u][n] \in Enqueued'
    BY <2>2, <2>3, <2>8 DEF QueueIsRight
  <2>10. ASSUME NEW c \in Enqueued'
         PROVE  \E u \in Thread : \E n \in DOMAIN queue'[u] : queue'[u][n] = c
    <3>1. CASE c = b
      BY <2>7, <3>1
    <3>2. CASE c # b
      <4>1. PICK u \in Thread : \E n \in DOMAIN queue[u] : queue[u][n] = c
        BY <2>2, <2>3, <3>2 DEF QueueIsRight
      <4>2. QED
        BY <2>6, <2>7, <4>1
    <3>3. QED
      BY <3>1, <3>2
  <2>11. \A u, w \in Thread : \A n \in DOMAIN queue'[u], m \in DOMAIN queue'[w] :
           queue'[u][n] = queue'[w][m] => u = w /\ n = m
    BY <2>8 DEF QueueIsRight
  <2>12. QueueIsRight'
    BY <2>9, <2>10, <2>11 DEF QueueIsRight
  <2>13. ASSUME NEW p \in Peer \cup {None}
         PROVE  count'[p] = Cardinality(Charged(p)')
    <3>1. count[p] = Cardinality(Charged(p)) /\ Charged(p) \in SUBSET Block /\ b \notin Charged(p)
      BY <2>2, <2>3 DEF CountIsRight, Charged, Enqueued
    <3>2. CASE p = r.peer
      <4>1. Charged(p)' = Charged(p) \cup {b}
        BY <2>1, <2>2, <2>3, <3>2 DEF Charged, Enqueued
      <4>2. QED
        BY <2>1, <3>1, <3>2, <4>1, ChargedMore
    <3>3. CASE p # r.peer
      <4>1. Charged(p)' = Charged(p)
        BY <2>1, <2>2, <2>3, <3>3 DEF Charged, Enqueued
      <4>2. QED
        BY <2>1, <3>1, <3>3, <4>1
    <3>4. QED
      BY <3>2, <3>3
  <2>14. QED
    BY <2>12, <2>13 DEF CountIsRight
<1>5. QED
  BY <1>1, <1>2, <1>3, <1>4 DEF Enqueue

\* They agree after a block was taken.
LEMMA PopKeepsQueue ==
  ASSUME TypeOK, QueueIsRight, CountIsRight, NEW t \in Thread, queue[t] # <<>>,
         PopBlockEmerge(t)
  PROVE  QueueIsRight' /\ CountIsRight'
<1>1. PICK b : b = Head(queue[t])
  OBVIOUS
<1>2. /\ b \in Enqueued /\ b \in Block /\ enqueued[b] \in BlockEmergeData
      /\ queue[t] \in Seq(Block) /\ b = queue[t][1] /\ 1 \in DOMAIN queue[t]
      /\ queue'[t] = Tail(queue[t]) /\ \A u \in Thread \ {t} : queue'[u] = queue[u]
      /\ enqueued'[b] = None /\ \A c \in Block \ {b} : enqueued'[c] = enqueued[c]
      /\ enqueued[b].peer \in Peer \cup {None}
      /\ count'[enqueued[b].peer] = count[enqueued[b].peer] - 1
      /\ \A p \in (Peer \cup {None}) \ {enqueued[b].peer} : count'[p] = count[p]
  BY <1>1, PopChanges
<1>3. Enqueued' = Enqueued \ {b}
  BY <1>2 DEF Enqueued
<1>4. /\ \A n \in DOMAIN queue[t] : n \in Nat /\ n >= 1
      /\ \A n \in DOMAIN queue'[t] : n \in Nat /\ n >= 1
      /\ \A n \in DOMAIN queue'[t] : n + 1 \in DOMAIN queue[t] /\ queue'[t][n] = queue[t][n + 1]
      /\ \A n \in DOMAIN queue[t] \ {1} :
           n - 1 \in DOMAIN queue'[t] /\ queue'[t][n - 1] = queue[t][n]
  BY <1>2, Dequeued
<1>5. ASSUME NEW u \in Thread, NEW n \in DOMAIN queue'[u]
      PROVE  queue'[u][n] \in Enqueued \ {b}
  <2>1. CASE u = t
    <3>1. /\ n + 1 \in DOMAIN queue[t] /\ queue'[u][n] = queue[t][n + 1]
          /\ n + 1 # 1
      BY <1>4, <1>5, <2>1
    <3>2. QED
      BY <1>2, <3>1 DEF QueueIsRight
  <2>2. CASE u # t
    BY <1>2, <1>5, <2>2 DEF QueueIsRight
  <2>3. QED
    BY <2>1, <2>2
<1>6. ASSUME NEW c \in Enqueued'
      PROVE  \E u \in Thread : \E n \in DOMAIN queue'[u] : queue'[u][n] = c
  <2>1. PICK u \in Thread : \E n \in DOMAIN queue[u] : queue[u][n] = c
    BY <1>3 DEF QueueIsRight
  <2>2. PICK n \in DOMAIN queue[u] : queue[u][n] = c
    BY <2>1
  <2>3. CASE u = t
    <3>1. n # 1
      BY <1>2, <1>3, <1>6, <2>2, <2>3
    <3>2. QED
      BY <1>4, <2>2, <2>3, <3>1
  <2>4. CASE u # t
    BY <1>2, <2>2, <2>4
  <2>5. QED
    BY <2>3, <2>4
<1>7. ASSUME NEW u \in Thread, NEW w \in Thread, NEW n \in DOMAIN queue'[u],
             NEW m \in DOMAIN queue'[w], queue'[u][n] = queue'[w][m]
      PROVE  u = w /\ n = m
  <2>1. PICK k \in DOMAIN queue[u] :
          /\ queue[u][k] = queue'[u][n]
          /\ u = t => n \in Nat /\ k = n + 1
          /\ u # t => k = n
    <3>1. CASE u = t
      BY <1>4, <1>7, <3>1
    <3>2. CASE u # t
      BY <1>2, <1>7, <3>2
    <3>3. QED
      BY <3>1, <3>2
  <2>2. PICK l \in DOMAIN queue[w] :
          /\ queue[w][l] = queue'[w][m]
          /\ w = t => m \in Nat /\ l = m + 1
          /\ w # t => l = m
    <3>1. CASE w = t
      BY <1>4, <1>7, <3>1
    <3>2. CASE w # t
      BY <1>2, <1>7, <3>2
    <3>3. QED
      BY <3>1, <3>2
  <2>3. u = w /\ k = l
    BY <1>7, <2>1, <2>2 DEF QueueIsRight
  <2>4. QED
    BY <2>1, <2>2, <2>3
<1>8. QueueIsRight'
  BY <1>3, <1>5, <1>6, <1>7 DEF QueueIsRight
<1>9. ASSUME NEW p \in Peer \cup {None}
      PROVE  count'[p] = Cardinality(Charged(p)')
  <2>1. count[p] = Cardinality(Charged(p)) /\ Charged(p) \in SUBSET Block
    BY DEF CountIsRight, Charged, Enqueued
  <2>2. Charged(p)' = Charged(p) \ {b}
    BY <1>2, <1>3 DEF Charged, Enqueued
  <2>3. CASE p = enqueued[b].peer
    <3>1. b \in Charged(p)
      BY <1>2, <2>3 DEF Charged
    <3>2. PICK A \in SUBSET Block : A = Charged(p) \ {b}
      BY <2>1
    <3>3. Charged(p) = A \cup {b} /\ b \notin A /\ Charged(p)' = A
      BY <2>2, <3>1, <3>2
    <3>4. Cardinality(A) \in Nat /\ Cardinality(A \cup {b}) = Cardinality(A) + 1
      BY <3>3, ChargedMore
    <3>5. count[p] = Cardinality(A) + 1 /\ count'[p] = count[p] - 1
      BY <1>2, <2>1, <2>3, <3>3, <3>4
    <3>6. QED
      BY <3>3, <3>4, <3>5
  <2>4. CASE p # enqueued[b].peer
    <3>1. Charged(p)' = Charged(p)
      BY <2>2, <2>4 DEF Charged
    <3>2. QED
      BY <1>2, <2>1, <2>4, <3>1
  <2>5. QED
    BY <2>3, <2>4
<1>10. QED
  BY <1>8, <1>9 DEF CountIsRight

\* Every step keeps entries and queues in agreement.
LEMMA QueueStep ==
  ASSUME TypeOK, QueueIsRight, CountIsRight, [Next]_vars
  PROVE  QueueIsRight' /\ CountIsRight'
<1>1. CASE UNCHANGED <<enqueued, count, queue>>
  BY <1>1 DEF QueueIsRight, CountIsRight, Charged, Enqueued
<1>2. CASE \E t \in Thread : Take(t) \/ CancelNext(t)
  BY <1>2, PopKeepsQueue DEF Take, CancelNext
<1>3. CASE \E a \in Actor : Enqueue(a)
  BY <1>3, EnqueueKeepsQueue
<1>4. CASE \E t \in Thread : Sleep(t) \/ Wake(t) \/ Decide(t) \/ Read(t) \/ DecideAgain(t)
  BY <1>1, <1>4 DEF Sleep, Wake, Decide, Read, DecideAgain, queueVars
<1>5. CASE \E t \in Thread : FinishMake(t) \/ FailMake(t) \/ RunCallback(t) \/ AllAnswered(t)
  BY <1>1, <1>5 DEF FinishMake, FailMake, RunCallback, AllAnswered, queueVars
<1>6. CASE \E t \in Thread : LeaveLoop(t) \/ CancelPendingItems(t) \/ EndThread(t)
  BY <1>1, <1>6 DEF LeaveLoop, CancelPendingItems, EndThread, queueVars
<1>7. CASE ServerThread \/ Shutdown
  BY <1>1, <1>7 DEF ServerThread, Shutdown, Ask, EditBlock, LoadBlock, SaveBlock, UnloadBlock,
       DeleteBlock, StopServer, StopThreads, queueVars
<1>8. CASE UNCHANGED vars
  BY <1>1, <1>8 DEF vars
<1>9. QED
  BY <1>2, <1>3, <1>4, <1>5, <1>6, <1>7, <1>8 DEF Next, EmergeThread

-----------------------------------------------------------------------------
(* The types.                                                              *)

\* A block that is in memory, or can be read or created, is a block.
LEMMA EmergedIsBlock ==
  ASSUME TypeOK, NEW m \in [Block -> MapBlock \cup {None}], NEW b \in Block,
         m[b] # None \/ stored[b] # Unreadable
  PROVE  Emerged(m, b) \in MapBlock
<1>1. stored[b] \in Row \cup {None, Unreadable}
  BY DEF TypeOK
<1>2. CASE m[b] # None
  BY <1>2 DEF Emerged
<1>3. CASE m[b] = None /\ stored[b] = None
  BY <1>3 DEF Emerged, Blank, MapBlock
<1>4. CASE m[b] = None /\ stored[b] \in Row
  <2>1. stored[b] # None
    BY <1>4, MapAssumption
  <2>2. QED
    BY <1>4, <2>1 DEF Emerged, FromRow, Row, MapBlock
<1>5. QED
  BY <1>1, <1>2, <1>3, <1>4

\* What grabbing an area changes.
LEMMA GrabTypes ==
  ASSUME TypeOK, OnePlace, NEW t \in Thread, NEW m \in [Block -> MapBlock \cup {None}],
         NEW c \in Chunk, GrabArea(t, m, c)
  PROVE  /\ memory' \in [Block -> MapBlock \cup {None}]
         /\ at' \in [Thread -> {"loop", "wait", "decide", "read", "again", "make", "answer",
                                "shutdown", "cancel", "cancelling", "ended"}]
         /\ job' \in [Thread -> Job] /\ dropped' \subseteq asked /\ died' \subseteq Thread
         /\ disturbed' \subseteq Block
<1> DEFINE unreadable == {b \in Area[c] : m[b] = None /\ stored[b] = Unreadable}
           reached == {b \in Area[c] : \A q \in unreadable : b < q}
           grabbed == [b \in Block |-> IF b \in reached
                         THEN [Emerged(m, b) EXCEPT !.refs = @ + 1] ELSE m[b]]
<1>1. Area[c] \subseteq Block
  BY MapAssumption
<1>2. ASSUME NEW b \in Block
      PROVE  grabbed[b] \in MapBlock \cup {None}
  <2>1. CASE b \in reached
    <3>1. b \notin unreadable
      BY <2>1, <1>1, SettingsAssumption
    <3>2. PICK e \in MapBlock : e = Emerged(m, b)
      BY <2>1, <3>1, EmergedIsBlock
    <3>3. [e EXCEPT !.refs = @ + 1] \in MapBlock
      BY DEF MapBlock
    <3>4. QED
      BY <2>1, <3>2, <3>3
  <2>2. CASE b \notin reached
    BY <2>2
  <2>3. QED
    BY <2>1, <2>2
<1>3. ASSUME NEW b \in Block, b \in reached
      PROVE  grabbed[b] \in MapBlock
  <2>1. b \notin unreadable
    BY <1>3, <1>1, SettingsAssumption
  <2>2. PICK e \in MapBlock : e = Emerged(m, b)
    BY <1>3, <2>1, EmergedIsBlock
  <2>3. [e EXCEPT !.refs = @ + 1] \in MapBlock
    BY DEF MapBlock
  <2>4. QED
    BY <1>3, <2>2, <2>3
<1>4. memory' = grabbed
  BY DEF GrabArea
<1>5. grabbed \in [Block -> MapBlock \cup {None}]
  BY <1>2
<1>6. job[t] \in Job /\ job \in [Thread -> Job]
  BY DEF TypeOK
<1>7. CASE unreadable # {}
  <2>1. Die(t, reached)
    BY <1>7 DEF GrabArea
  <2>2. Idle \in Job
    BY DEF Idle, Job, NoCopy
  <2>3. reached \subseteq Block
    BY <1>1
  <2>4. QED
    BY <1>4, <1>5, <1>6, <2>1, <2>2, <2>3 DEF Die, Goto, TypeOK, OnePlace
<1>8. CASE unreadable = {}
  <2>1. PICK cp : cp = [b \in Block |-> IF b \in Area[c] THEN grabbed[b].edits ELSE {}]
    OBVIOUS
  <2>2. \A b \in Block : b \in Area[c] => grabbed[b] \in MapBlock
    BY <1>3, <1>8
  <2>3. cp \in [Block -> SUBSET Edit]
    BY <2>1, <2>2 DEF MapBlock
  <2>4. Goto(t, "make") /\ UNCHANGED <<dropped, died, disturbed>>
    BY <1>8 DEF GrabArea
  <2>5. job' = [job EXCEPT ![t] = [job[t] EXCEPT !.data = None, !.copy = cp]]
    BY <1>6, <1>8, <2>1 DEF GrabArea
  <2>6. [job[t] EXCEPT !.data = None, !.copy = cp] \in Job
    BY <1>6, <2>3 DEF Job
  <2>7. job' \in [Thread -> Job]
    BY <1>6, <2>5, <2>6
  <2>8. QED
    BY <1>4, <1>5, <2>4, <2>7 DEF Goto, TypeOK
<1>9. QED
  BY <1>7, <1>8

\* What starting a generation, or finding that there is nothing to start, changes.
LEMMA StartTypes ==
  ASSUME TypeOK, OnePlace, NEW t \in Thread, NEW m \in [Block -> MapBlock \cup {None}],
         job[t].block \in Block \ Over, StartGen(t, m)
  PROVE  /\ memory' \in [Block -> MapBlock \cup {None}] /\ making' \subseteq Chunk
         /\ at' \in [Thread -> {"loop", "wait", "decide", "read", "again", "make", "answer",
                                "shutdown", "cancel", "cancelling", "ended"}]
         /\ job' \in [Thread -> Job] /\ dropped' \subseteq asked /\ died' \subseteq Thread
         /\ disturbed' \subseteq Block
<1>1. PICK c \in Chunk : c = ChunkOf[job[t].block]
  BY MapAssumption
<1>2. CASE ~ MayMake(t) \/ c \in Limited
  <2>1. memory' = m /\ (making' = making \/ making' = making \cup {c}) /\ Answer(t)
    BY <1>1, <1>2 DEF StartGen
  <2>2. QED
    BY <2>1 DEF Answer, Goto, TypeOK, OnePlace
<1>3. CASE MayMake(t) /\ c \notin Limited
  <2>1. making' = making \cup {c} /\ GrabArea(t, m, c)
    BY <1>1, <1>3 DEF StartGen
  <2>2. making' \subseteq Chunk
    BY <2>1 DEF TypeOK
  <2>3. QED
    BY <2>1, <2>2, GrabTypes
<1>4. QED
  BY <1>2, <1>3

\* Looking for a block keeps the types.
LEMMA DecideTypes ==
  ASSUME TypeOK, OnePlace, CallsAreRight, NEW t \in Thread, Decide(t) \/ DecideAgain(t)
  PROVE  TypeOK'
<1>1. PICK b \in Block \ Over : b = job[t].block
  BY DEF CallsAreRight, Decide, DecideAgain
<1>2. UNCHANGED <<queueVars, lockVars, server, turns, stored, asked, ran, errors, latest>>
  BY DEF Decide, DecideAgain
<1>3. /\ memory' \in [Block -> MapBlock \cup {None}] /\ making' \subseteq Chunk
      /\ at' \in [Thread -> {"loop", "wait", "decide", "read", "again", "make", "answer",
                             "shutdown", "cancel", "cancelling", "ended"}]
      /\ job' \in [Thread -> Job] /\ dropped' \subseteq asked /\ died' \subseteq Thread
      /\ disturbed' \subseteq Block
  <2>1. CASE /\ UNCHANGED <<memory, making, job, dropped, died, disturbed>>
             /\ Goto(t, "answer") \/ Goto(t, "read")
    BY <2>1, <1>2 DEF Goto, TypeOK
  <2>2. CASE StartGen(t, memory)
    BY <1>1, <2>2, StartTypes DEF TypeOK
  <2>3. CASE Die(t, {}) /\ UNCHANGED <<memory, making>>
    <3>1. Idle \in Job
      BY DEF Idle, Job, NoCopy
    <3>2. job[t].calls \subseteq asked
      BY DEF OnePlace
    <3>3. QED
      BY <1>2, <2>3, <3>1, <3>2 DEF Die, Goto, TypeOK
  <2>4. ASSUME NEW data \in Row, NEW loaded, loaded = [memory EXCEPT ![b] = FromRow(data)],
               \/ memory' = loaded /\ Answer(t) /\ UNCHANGED making
               \/ StartGen(t, loaded)
        PROVE  <1>3!:
    <3>1. FromRow(data) \in MapBlock
      BY DEF FromRow, Row, MapBlock
    <3>2. loaded \in [Block -> MapBlock \cup {None}]
      BY <2>4, <3>1 DEF TypeOK
    <3>3. CASE memory' = loaded /\ Answer(t) /\ UNCHANGED making
      BY <3>2, <3>3, <1>2 DEF Answer, Goto, TypeOK
    <3>4. CASE StartGen(t, loaded)
      BY <1>1, <3>2, <3>4, StartTypes
    <3>5. QED
      BY <2>4, <3>3, <3>4
  <2>5. CASE Decide(t)
    BY <1>1, <2>1, <2>2, <2>5 DEF Decide, Answer
  <2>6. CASE DecideAgain(t)
    <3>1. job[t].data \in Row \cup {None, Unreadable}
      BY DEF TypeOK, Job
    <3>2. QED
      BY <1>1, <2>1, <2>2, <2>3, <2>4, <2>6, <3>1 DEF DecideAgain, Answer
  <2>7. QED
    BY <2>5, <2>6
<1>4. QED
  BY <1>2, <1>3 DEF TypeOK, queueVars, lockVars

\* A section of an emerge thread that ends, or goes on to ask.
LEMMA LeaveTypes ==
  ASSUME TypeOK, NEW t \in Thread, LeaveOrAsk(t)
  PROVE  /\ env' \in Actor \cup {None} /\ wants' \in [Actor -> Request \cup {None}]
         /\ asked \subseteq asked' /\ asked' \subseteq Request
<1>1. CASE Leave(t)
  BY <1>1 DEF Leave, TypeOK
<1>2. CASE AskFromLua(t)
  <2>1. PICK r \in Request : /\ env' = t /\ wants' = [wants EXCEPT ![t] = r]
                             /\ asked' = asked \cup {r}
    BY <1>2 DEF AskFromLua, Request
  <2>2. QED
    BY <2>1, Actors DEF TypeOK
<1>3. QED
  BY <1>1, <1>2 DEF LeaveOrAsk

\* Giving a chunk back keeps the types, whether it was made or not.
LEMMA MakeTypes ==
  ASSUME TypeOK, LocksAreRight, CallsAreRight, MapInv, NEW t \in Thread,
         FinishMake(t) \/ FailMake(t)
  PROVE  TypeOK'
<1>1. /\ Making(t) /\ job[t].block \in Block \ Over /\ Area[ChunkOf[job[t].block]] \subseteq Block
      /\ job[t] \in Job
  BY MapAssumption DEF FinishMake, FailMake, CallsAreRight, Making, TypeOK
<1>2. at' \in [Thread -> {"loop", "wait", "decide", "read", "again", "make", "answer",
                          "shutdown", "cancel", "cancelling", "ended"}]
  BY DEF FinishMake, FailMake, Goto, TypeOK
<1>3. job' \in [Thread -> Job]
  <2>1. [job[t] EXCEPT !.copy = NoCopy] \in Job
    BY <1>1 DEF Job, NoCopy
  <2>2. job' = [job EXCEPT ![t] = [job[t] EXCEPT !.copy = NoCopy]]
    BY <1>1 DEF FinishMake, FailMake, TypeOK
  <2>3. QED
    BY <2>1, <2>2 DEF TypeOK
<1>4. CASE FinishMake(t)
  <2>1. PICK c : c = ChunkOf[job[t].block]
    OBVIOUS
  <2>2. ASSUME NEW b \in Block
        PROVE  memory'[b] \in MapBlock \cup {None}
    <3>1. CASE b \notin Area[c]
      BY <1>4, <2>1, <3>1 DEF FinishMake, TypeOK
    <3>2. CASE b \in Area[c]
      <4>1. stored[b] # Unreadable
        BY <1>1, <2>1, <3>2 DEF MapInv, WorkIsRight, Makers, AreaOf
      <4>2. PICK old \in MapBlock : old = Emerged(memory, b)
        BY <4>1, EmergedIsBlock DEF TypeOK
      <4>3. memory'[b] = [gen |-> old.gen \/ b \in Body(c), edits |-> job[t].copy[b],
                          refs |-> old.refs - 1, dirty |-> TRUE]
        BY <1>4, <2>1, <3>2, <4>2 DEF FinishMake
      <4>4. job[t].copy[b] \in SUBSET Edit
        BY <1>1 DEF Job
      <4>5. QED
        BY <4>3, <4>4 DEF MapBlock
    <3>3. QED
      BY <3>1, <3>2
  <2>3. memory' \in [Block -> MapBlock \cup {None}]
    BY <1>4, <2>2 DEF FinishMake
  <2>4. making' \subseteq Chunk
        /\ UNCHANGED <<queueVars, queue_lock, server, turns, stored, historyVars>>
    BY <1>4 DEF FinishMake, TypeOK
  <2>5. env' \in Actor \cup {None} /\ wants' \in [Actor -> Request \cup {None}]
        /\ asked \subseteq asked' /\ asked' \subseteq Request
    BY <1>4, LeaveTypes DEF FinishMake
  <2>6. QED
    BY <1>2, <1>3, <2>3, <2>4, <2>5 DEF TypeOK, queueVars, historyVars
<1>5. CASE FailMake(t)
  <2>1. PICK D \in SUBSET AreaOf(t) :
          memory' = [b \in Block |-> IF b \in D /\ memory[b] # None
                       THEN [memory[b] EXCEPT !.refs = @ - 1] ELSE memory[b]]
    BY <1>5 DEF FailMake
  <2>2. ASSUME NEW o \in MapBlock
        PROVE  [o EXCEPT !.refs = @ - 1] \in MapBlock
    BY DEF MapBlock
  <2>3. memory' \in [Block -> MapBlock \cup {None}]
    BY <2>1, <2>2 DEF TypeOK
  <2>4. disturbed' \subseteq Block /\ errors' \in 0..MaxErrors
    BY <1>1, <1>5, MapAssumption DEF FailMake, AreaOf, TypeOK
  <2>5. UNCHANGED <<queueVars, lockVars, server, turns, stored, making, asked, ran, dropped, died,
                    latest>>
    BY <1>5 DEF FailMake
  <2>6. QED
    BY <1>2, <1>3, <2>3, <2>4, <2>5 DEF TypeOK, queueVars, lockVars
<1>6. QED
  BY <1>4, <1>5

\* Answering, and coming to an end.
LEMMA AnswerTypes ==
  ASSUME TypeOK, OnePlace, NEW t \in Thread, RunCallback(t) \/ AllAnswered(t)
  PROVE  TypeOK'
<1>1. job' \in [Thread -> Job] /\ ran' \subseteq asked
  <2>1. CASE AllAnswered(t)
    <3>1. Idle \in Job
      BY DEF Idle, Job, NoCopy
    <3>2. QED
      BY <2>1, <3>1 DEF AllAnswered, historyVars, TypeOK
  <2>2. CASE RunCallback(t)
    <3>1. PICK r \in job[t].calls :
            job' = [job EXCEPT ![t].calls = @ \ {r}] /\ ran' = ran \cup {r}
      BY <2>2 DEF RunCallback
    <3>2. job[t] \in Job
      BY DEF TypeOK
    <3>3. [job[t] EXCEPT !.calls = @ \ {r}] \in Job
      BY <3>2 DEF Job
    <3>4. QED
      BY <3>1, <3>3 DEF TypeOK, OnePlace
  <2>3. QED
    BY <2>1, <2>2
<1>2. at' \in [Thread -> {"loop", "wait", "decide", "read", "again", "make", "answer",
                          "shutdown", "cancel", "cancelling", "ended"}]
  BY DEF RunCallback, AllAnswered, Goto, TypeOK
<1>3. /\ env' \in Actor \cup {None} /\ wants' \in [Actor -> Request \cup {None}]
      /\ asked \subseteq asked' /\ asked' \subseteq Request
  <2>1. CASE RunCallback(t)
    BY <2>1, LeaveTypes DEF RunCallback
  <2>2. CASE AllAnswered(t)
    BY <2>2 DEF AllAnswered, lockVars, TypeOK
  <2>3. QED
    BY <2>1, <2>2
<1>4. UNCHANGED <<queueVars, queue_lock, server, turns, mapVars, dropped, died, errors, latest,
                  disturbed>>
  BY DEF RunCallback, AllAnswered, lockVars, historyVars
<1>5. QED
  BY <1>1, <1>2, <1>3, <1>4 DEF TypeOK, queueVars, mapVars

\* The types hold initially,
LEMMA TypesInit ==
  Init => TypeOK
<1> SUFFICES ASSUME Init PROVE TypeOK
  OBVIOUS
<1>1. Idle \in Job
  BY DEF Idle, Job, NoCopy
<1>2. latest \in [Block -> SUBSET Edit]
  BY DEF Init, Row
<1>3. stored \in [Block -> Row \cup {None, Unreadable}]
  BY MapAssumption DEF Init
<1>4. /\ enqueued \in [Block -> BlockEmergeData \cup {None}]
      /\ count \in [Peer \cup {None} -> Nat]
      /\ queue \in [Thread -> Seq(Block)]
      /\ wants \in [Actor -> Request \cup {None}]
      /\ memory \in [Block -> MapBlock \cup {None}]
  BY DEF Init
<1>5. QED
  BY <1>1, <1>2, <1>3, <1>4, MapAssumption DEF Init, TypeOK

\* A player's change to a block.
LEMMA EditChanges ==
  ASSUME TypeOK, EditBlock
  PROVE  \E b \in Block, e \in Edit, o \in MapBlock :
           /\ memory[b] # None /\ memory[b] \in MapBlock
           /\ o = [memory[b] EXCEPT !.edits = @ \cup {e}, !.dirty = TRUE]
           /\ memory' = [memory EXCEPT ![b] = o]
           /\ latest' = [latest EXCEPT ![b] = latest[b] \cup {e}]
           /\ disturbed' = disturbed \cup {q \in {b} : Makers(q) # {}}
           /\ memory' \in [Block -> MapBlock \cup {None}]
           /\ latest' \in [Block -> SUBSET Edit] /\ disturbed' \subseteq Block
<1>1. PICK b \in Block, e \in Edit :
        /\ memory[b] # None
        /\ memory' = [memory EXCEPT ![b].edits = @ \cup {e}, ![b].dirty = TRUE]
        /\ latest' = [latest EXCEPT ![b] = @ \cup {e}]
        /\ disturbed' = disturbed \cup {q \in {b} : Makers(q) # {}}
  BY DEF EditBlock
<1>2. PICK o : o = [memory[b] EXCEPT !.edits = @ \cup {e}, !.dirty = TRUE]
  OBVIOUS
<1>3. memory[b] \in MapBlock /\ memory \in [Block -> MapBlock \cup {None}]
  BY <1>1 DEF TypeOK
<1>4. o \in MapBlock
  BY <1>2, <1>3 DEF MapBlock
<1>5. memory' = [memory EXCEPT ![b] = o]
  BY <1>1, <1>2, <1>3
<1>6. /\ memory' \in [Block -> MapBlock \cup {None}]
      /\ latest' \in [Block -> SUBSET Edit] /\ disturbed' \subseteq Block
  <2>1. memory' \in [Block -> MapBlock \cup {None}]
    BY <1>3, <1>4, <1>5
  <2>2. latest' \in [Block -> SUBSET Edit]
    <3>1. latest \in [Block -> SUBSET Edit] /\ latest[b] \cup {e} \in SUBSET Edit
      BY DEF TypeOK
    <3>2. QED
      BY <1>1, <3>1
  <2>3. disturbed' \subseteq Block
    BY <1>1 DEF TypeOK
  <2>4. QED
    BY <2>1, <2>2, <2>3
<1>7. QED
  BY <1>1, <1>2, <1>3, <1>4, <1>5, <1>6

\* The server thread keeps them,
LEMMA ServerTypes ==
  ASSUME TypeOK, ServerThread
  PROVE  TypeOK'
<1>1. turns' \in 0..MaxTurns
  BY MapAssumption DEF ServerThread, Ask, EditBlock, LoadBlock, SaveBlock, UnloadBlock, DeleteBlock,
     ServerSection, TypeOK
<1>2. CASE Ask
  <2>1. PICK r \in Request : asked' = asked \cup {r} /\ wants' = [wants EXCEPT ![Server] = r]
    BY <1>2 DEF Ask, Request
  <2>2. env' = Server /\ UNCHANGED <<queueVars, at, job, queue_lock, server, mapVars, historyVars>>
    BY <1>2 DEF Ask
  <2>3. QED
    BY <1>1, <2>1, <2>2, Actors DEF TypeOK, queueVars, mapVars, historyVars
<1>3. ASSUME EditBlock \/ LoadBlock \/ SaveBlock \/ UnloadBlock \/ DeleteBlock
      PROVE  TypeOK'
  <2>1. UNCHANGED <<queueVars, lockVars, at, job, server, making, asked, ran, dropped, died,
                    errors>>
    BY <1>3 DEF EditBlock, LoadBlock, SaveBlock, UnloadBlock, DeleteBlock, historyVars
  <2>2. latest' \in [Block -> SUBSET Edit] /\ disturbed' \subseteq Block
    <3>1. CASE EditBlock
      BY <3>1, EditChanges
    <3>2. CASE LoadBlock \/ SaveBlock \/ UnloadBlock \/ DeleteBlock
      <4>1. latest' = latest \/ \E b \in Block : latest' = [latest EXCEPT ![b] = {}]
        BY <3>2 DEF LoadBlock, SaveBlock, UnloadBlock, DeleteBlock, historyVars
      <4>2. disturbed' = disturbed \/ \E b \in Block : disturbed' \subseteq disturbed \cup {b}
        BY <3>2 DEF LoadBlock, SaveBlock, UnloadBlock, DeleteBlock, WriteRow, historyVars
      <4>3. QED
        BY <4>1, <4>2 DEF TypeOK
    <3>3. QED
      BY <1>3, <3>1, <3>2
  <2>3. ASSUME NEW b \in Block, memory[b] # None
        PROVE  /\ memory[b] \in MapBlock
               /\ [gen |-> memory[b].gen, edits |-> memory[b].edits] \in Row
               /\ [memory[b] EXCEPT !.dirty = FALSE] \in MapBlock
    <3>1. memory[b] \in MapBlock
      BY <2>3 DEF TypeOK
    <3>2. QED
      BY <3>1 DEF MapBlock, Row
  <2>4. memory' \in [Block -> MapBlock \cup {None}]
    <3>1. CASE EditBlock
      BY <3>1, EditChanges
    <3>2. CASE LoadBlock
      <4>1. PICK b \in Block : /\ stored[b] \in Row
                              /\ memory' = [memory EXCEPT ![b] = FromRow(stored[b])]
        BY <3>2 DEF LoadBlock
      <4>2. FromRow(stored[b]) \in MapBlock
        BY <4>1 DEF FromRow, Row, MapBlock
      <4>3. QED
        BY <4>1, <4>2 DEF TypeOK
    <3>3. CASE SaveBlock
      <4>1. PICK b \in Block :
              /\ memory[b] # None
              /\ memory' = [memory EXCEPT ![b] = [memory[b] EXCEPT !.dirty = FALSE]]
        BY <3>3 DEF SaveBlock, TypeOK
      <4>2. QED
        BY <2>3, <4>1 DEF TypeOK
    <3>4. CASE UnloadBlock \/ DeleteBlock
      BY <3>4 DEF UnloadBlock, DeleteBlock, TypeOK
    <3>5. QED
      BY <1>3, <3>1, <3>2, <3>3, <3>4
  <2>5. stored' \in [Block -> Row \cup {None, Unreadable}]
    <3>1. CASE UNCHANGED stored
      BY <3>1 DEF TypeOK
    <3>2. ASSUME NEW b \in Block, memory[b] # None, WriteRow(b)
          PROVE  <2>5!:
      BY <2>3, <3>2 DEF WriteRow, TypeOK
    <3>3. CASE DeleteBlock
      BY <3>3 DEF DeleteBlock, TypeOK
    <3>4. QED
      BY <1>3, <3>1, <3>2, <3>3 DEF EditBlock, LoadBlock, SaveBlock, UnloadBlock, MayUnload
  <2>6. QED
    BY <1>1, <2>1, <2>2, <2>4, <2>5 DEF TypeOK, queueVars, lockVars
<1>4. QED
  BY <1>2, <1>3 DEF ServerThread

\* and so does every step.
LEMMA TypesStep ==
  ASSUME TypeOK, LocksAreRight, QueueIsRight, CountIsRight, CallsAreRight, OnePlace,
         MapInv, [Next]_vars
  PROVE  TypeOK'
<1>1. CASE UNCHANGED vars
  BY <1>1 DEF vars, TypeOK
<1>2. ASSUME NEW a \in Actor, Enqueue(a)
      PROVE  TypeOK'
  <2>1. PICK r \in Request : r = wants[a]
    BY <1>2 DEF Enqueue, TypeOK
  <2>2. wants' \in [Actor -> Request \cup {None}] /\ env' = None
    BY <1>2 DEF Enqueue, TypeOK
  <2>3. UNCHANGED <<queue_lock, at, job, server, turns, asked, mapVars, historyVars>>
    BY <1>2 DEF Enqueue
  <2>4. /\ enqueued' \in [Block -> BlockEmergeData \cup {None}]
        /\ count' \in [Peer \cup {None} -> Nat]
        /\ queue' \in [Thread -> Seq(Block)] /\ event' \in [Thread -> BOOLEAN]
    <3>1. CASE UNCHANGED queueVars
      BY <3>1 DEF TypeOK, queueVars
    <3>2. CASE r.block \in Enqueued /\ MergeEntry(r) /\ UNCHANGED <<queue, event>>
      <4>1. enqueued' \in [Block -> BlockEmergeData \cup {None}]
        BY <3>2, MergeChanges
      <4>2. UNCHANGED <<count, queue, event>>
        BY <3>2 DEF MergeEntry
      <4>3. QED
        BY <4>1, <4>2 DEF TypeOK
    <3>3. CASE r.block \notin Enqueued /\ NewEntry(r) /\ Push(r.block)
      <4>1. /\ enqueued' \in [Block -> BlockEmergeData \cup {None}]
            /\ count' \in [Peer \cup {None} -> Nat] /\ r.block \in Block
        BY <3>3, NewChanges
      <4>2. PICK t \in Thread : t = OptimalThread
        BY OptimalThreadExists
      <4>3. Append(queue[t], r.block) \in Seq(Block)
        BY <4>1 DEF TypeOK
      <4>4. QED
        BY <3>3, <4>1, <4>2, <4>3 DEF Push, TypeOK
    <3>4. QED
      BY <1>2, <2>1, <3>1, <3>2, <3>3 DEF Enqueue
  <2>5. QED
    BY <2>2, <2>3, <2>4 DEF TypeOK, mapVars, historyVars
<1>3. ASSUME NEW t \in Thread, Take(t) \/ CancelNext(t)
      PROVE  TypeOK'
  <2>1. queue[t] # <<>> /\ PopBlockEmerge(t)
    BY <1>3 DEF Take, CancelNext
  <2>2. PICK b : b = Head(queue[t])
    OBVIOUS
  <2>3. /\ b \in Enqueued /\ b \in Block /\ enqueued[b] \in BlockEmergeData
        /\ queue' \in [Thread -> Seq(Block)]
        /\ enqueued' \in [Block -> BlockEmergeData \cup {None}]
        /\ count' \in [Peer \cup {None} -> Nat]
    BY <2>1, <2>2, PopChanges
  <2>4. event' = event
    BY <2>1 DEF PopBlockEmerge
  <2>5. Idle \in Job
    BY DEF Idle, Job, NoCopy
  <2>6. Taken(t) \in Job /\ Taken(t).calls = enqueued[b].calls
    BY <2>2, <2>3, <2>5 DEF Taken, Job, BlockEmergeData
  <2>7. job' \in [Thread -> Job]
    BY <1>3, <2>6 DEF Take, CancelNext, TypeOK
  <2>8. dropped' \subseteq asked
    BY <1>3, <2>3, <2>6 DEF Take, CancelNext, historyVars, TypeOK, OnePlace
  <2>9. at' \in [Thread -> {"loop", "wait", "decide", "read", "again", "make", "answer",
                            "shutdown", "cancel", "cancelling", "ended"}]
    BY <1>3 DEF Take, CancelNext, Goto, TypeOK
  <2>10. UNCHANGED <<lockVars, server, turns, asked, mapVars, ran, died, errors, latest, disturbed>>
    BY <1>3 DEF Take, CancelNext, historyVars
  <2>11. QED
    BY <2>3, <2>4, <2>7, <2>8, <2>9, <2>10 DEF TypeOK, lockVars, mapVars
<1>4. ASSUME NEW t \in Thread, Decide(t) \/ DecideAgain(t)
      PROVE  TypeOK'
  BY <1>4, DecideTypes
<1>5. ASSUME NEW t \in Thread, FinishMake(t) \/ FailMake(t)
      PROVE  TypeOK'
  BY <1>5, MakeTypes
<1>6. ASSUME NEW t \in Thread, RunCallback(t) \/ AllAnswered(t)
      PROVE  TypeOK'
  BY <1>6, AnswerTypes
<1>7. ASSUME NEW t \in Thread, Read(t)
      PROVE  TypeOK'
  <2>1. job[t] \in Job /\ stored[job[t].block] \in Row \cup {None, Unreadable}
    BY <1>7 DEF Read, CallsAreRight, TypeOK
  <2>2. [job[t] EXCEPT !.data = stored[job[t].block]] \in Job
    BY <2>1 DEF Job
  <2>3. job' = [job EXCEPT ![t] = [job[t] EXCEPT !.data = stored[job[t].block]]]
    BY <1>7 DEF Read, TypeOK
  <2>4. job' \in [Thread -> Job]
    BY <2>2, <2>3 DEF TypeOK
  <2>5. Goto(t, "again")
        /\ UNCHANGED <<queueVars, lockVars, server, turns, mapVars, asked, historyVars>>
    BY <1>7 DEF Read
  <2>6. QED
    BY <2>4, <2>5 DEF Goto, TypeOK, queueVars, lockVars, mapVars, historyVars
<1>8. ASSUME NEW t \in Thread, Sleep(t) \/ Wake(t) \/ LeaveLoop(t) \/ CancelPendingItems(t)
                                 \/ EndThread(t)
      PROVE  TypeOK'
  <2>1. UNCHANGED <<enqueued, count, queue, job, env, wants, server, turns, mapVars, asked,
                    historyVars>>
    BY <1>8 DEF Sleep, Wake, LeaveLoop, CancelPendingItems, EndThread, queueVars, lockVars
  <2>2. /\ event' \in [Thread -> BOOLEAN] /\ queue_lock' \in Thread \cup {None}
        /\ at' \in [Thread -> {"loop", "wait", "decide", "read", "again", "make", "answer",
                               "shutdown", "cancel", "cancelling", "ended"}]
    BY <1>8 DEF Sleep, Wake, LeaveLoop, CancelPendingItems, EndThread, Goto, TypeOK, queueVars,
       lockVars
  <2>3. QED
    BY <2>1, <2>2 DEF TypeOK, mapVars, historyVars
<1>9. CASE ServerThread
  BY <1>9, ServerTypes
<1>10. CASE Shutdown
  BY <1>10 DEF Shutdown, StopServer, StopThreads, MayStopThreads, TypeOK, queueVars, lockVars,
     mapVars, historyVars
<1>11. QED
  BY <1>1, <1>2, <1>3, <1>4, <1>5, <1>6, <1>7, <1>8, <1>9, <1>10 DEF Next, EmergeThread

-----------------------------------------------------------------------------
(* The callbacks.                                                          *)

\* A thread that looks for a block goes on, makes the chunk or ends.
LEMMA DecideMoves ==
  ASSUME TypeOK, NEW t \in Thread, Decide(t) \/ DecideAgain(t)
  PROVE  /\ \A u \in Thread \ {t} : at'[u] = at[u] /\ job'[u] = job[u]
         /\ \/ /\ at'[t] \in {"answer", "read"} /\ job' = job
               /\ UNCHANGED <<dropped, died, disturbed>>
            \/ /\ at'[t] = "make"
               /\ job'[t].block = job[t].block /\ job'[t].calls = job[t].calls
               /\ UNCHANGED <<dropped, died, disturbed>>
            \/ /\ at'[t] = "shutdown" /\ job'[t] = Idle
               /\ died' = died \cup {t} /\ dropped' = dropped \cup job[t].calls
<1> DEFINE Goes ==
      \/ (Goto(t, "answer") \/ Goto(t, "read")) /\ UNCHANGED <<job, dropped, died, disturbed>>
      \/ /\ Goto(t, "make") /\ UNCHANGED <<dropped, died, disturbed>>
         /\ \E cp : job' = [job EXCEPT ![t].data = None, ![t].copy = cp]
      \/ \E leaked : Die(t, leaked)
<1>1. ASSUME NEW m, NEW c, GrabArea(t, m, c)
      PROVE  Goes
  BY <1>1 DEF GrabArea
<1>2. ASSUME NEW m, StartGen(t, m)
      PROVE  Goes
  BY <1>1, <1>2 DEF StartGen, Answer
<1>3. Goes
  BY <1>2 DEF Decide, DecideAgain, Answer
<1>4. job \in [Thread -> Job] /\ job[t] \in Job /\ DOMAIN at = Thread /\ DOMAIN job = Thread
  BY DEF TypeOK
<1>5. CASE (Goto(t, "answer") \/ Goto(t, "read")) /\ UNCHANGED <<job, dropped, died, disturbed>>
  BY <1>4, <1>5 DEF Goto
<1>6. CASE Goto(t, "make") /\ \E cp : job' = [job EXCEPT ![t].data = None, ![t].copy = cp]
           /\ UNCHANGED <<dropped, died, disturbed>>
  <2>1. PICK cp : job' = [job EXCEPT ![t].data = None, ![t].copy = cp]
    BY <1>6
  <2>2. job' = [job EXCEPT ![t] = [job[t] EXCEPT !.data = None, !.copy = cp]]
    BY <1>4, <2>1
  <2>3. /\ job'[t].block = job[t].block /\ job'[t].calls = job[t].calls
        /\ \A u \in Thread \ {t} : job'[u] = job[u]
    BY <1>4, <2>2 DEF Job
  <2>4. QED
    BY <1>4, <1>6, <2>3 DEF Goto
<1>7. CASE \E leaked : Die(t, leaked)
  BY <1>4, <1>7 DEF Die, Goto
<1>8. QED
  BY <1>3, <1>5, <1>6, <1>7

\* CallsAreRight where nothing enters or leaves the queue: a thread keeps its block or
\* has no callbacks left.
LEMMA CallsFrame ==
  ASSUME CallsAreRight, enqueued' = enqueued, NEW t \in Thread,
         \A u \in Thread \ {t} : at'[u] = at[u] /\ job'[u] = job[u],
         \/ job'[t].calls = {} /\ at'[t] \notin {"decide", "read", "again", "make"}
         \/ /\ job'[t].calls \subseteq job[t].calls /\ job'[t].block = job[t].block
            /\ at'[t] \in {"decide", "read", "again", "make"} =>
                 at[t] \in {"decide", "read", "again", "make"}
            /\ at'[t] \notin {"decide", "read", "again", "make", "answer", "cancelling"} =>
                 at[t] \notin {"decide", "read", "again", "make", "answer", "cancelling"}
  PROVE  CallsAreRight'
BY DEF CallsAreRight, Enqueued

\* Steps that leave all callbacks where they are.
LEMMA PlacesFrame ==
  ASSUME OnePlace, UNCHANGED <<enqueued, wants, asked, ran, dropped, died>>,
         \A u \in Thread : job'[u].calls = job[u].calls
  PROVE  OnePlace'
<1>1. \A r : /\ Wishing(r)' = Wishing(r) /\ Waiting(r)' = Waiting(r)
             /\ Working(r)' = Working(r)
  BY DEF Wishing, Waiting, Working, Enqueued
<1>2. QED
  BY <1>1 DEF OnePlace, Enqueued

\* A thread ends, and drops what it was working for.
LEMMA PlacesDie ==
  ASSUME TypeOK, OnePlace, NEW t \in Thread, UNCHANGED <<enqueued, wants, asked, ran>>,
         \A u \in Thread \ {t} : job'[u] = job[u], job'[t].calls = {},
         died' # {}, dropped' = dropped \cup job[t].calls
  PROVE  OnePlace'
<1>1. \A r : /\ Wishing(r)' = Wishing(r) /\ Waiting(r)' = Waiting(r)
             /\ Working(r)' = Working(r) \ {t}
             /\ r \in job[t].calls <=> t \in Working(r)
  BY DEF Wishing, Waiting, Working, Enqueued
<1>2. \A u \in Thread : job'[u].calls \subseteq asked'
  BY DEF OnePlace
<1>3. QED
  BY <1>1, <1>2 DEF OnePlace, Enqueued

\* A thread runs a callback, or none, and Lua code may ask for another block.
LEMMA PlacesLeaveOrAsk ==
  ASSUME TypeOK, OnePlace, LocksAreRight, NEW t \in Thread, NEW done, done \subseteq job[t].calls,
         env = None, UNCHANGED <<enqueued, dropped, died>>, ran' = ran \cup done,
         \A u \in Thread \ {t} : job'[u].calls = job[u].calls,
         job'[t].calls = job[t].calls \ done, LeaveOrAsk(t)
  PROVE  OnePlace'
<1>1. \A r : /\ Waiting(r)' = Waiting(r)
             /\ r \notin done => Working(r)' = Working(r)
             /\ r \in done => Working(r)' = Working(r) \ {t} /\ t \in Working(r)
  BY DEF Waiting, Working, Enqueued
<1>2. \A a \in Actor : wants[a] = None
  BY Actors DEF LocksAreRight
<1>3. CASE Leave(t)
  <2>1. wants' = wants /\ asked' = asked /\ \A r : Wishing(r)' = Wishing(r)
    BY <1>3 DEF Leave, Wishing
  <2>2. QED
    BY <1>1, <2>1 DEF OnePlace, Enqueued
<1>4. CASE AskFromLua(t)
  <2>1. PICK q \in Nested \ asked :
          wants' = [wants EXCEPT ![t] = q] /\ asked' = asked \cup {q}
    BY <1>4 DEF AskFromLua
  <2>2. wants'[t] = q /\ \A a \in Actor \ {t} : wants'[a] = None
    BY <1>2, <2>1, Actors DEF TypeOK
  <2>3. \A r : r # None => (Wishing(r)' # {} <=> r = q) /\ Wishing(r) = {}
    BY <1>2, <2>2, Actors DEF Wishing
  <2>4. Waiting(q) = {} /\ Working(q) = {} /\ q \notin ran \cup dropped
    BY <2>1 DEF Waiting, Working, OnePlace, TypeOK
  <2>5. q # None /\ q \notin done /\ None \notin asked
    BY <2>1, MapAssumption DEF Request, OnePlace, TypeOK
  <2>6. /\ \A a \in Actor : wants'[a] # None => wants'[a] \in asked'
        /\ \A b \in Enqueued' : enqueued'[b].calls \subseteq asked'
        /\ \A u \in Thread : job'[u].calls \subseteq asked'
    BY <2>1, <2>2 DEF OnePlace, Enqueued
  <2>7. ASSUME NEW r \in asked', r.lua
        PROVE  /\ \/ Wishing(r)' # {}
                  \/ Waiting(r)' # {}
                  \/ Working(r)' # {}
                  \/ r \in ran' \cup dropped'
               /\ Wishing(r)' # {} =>
                    Waiting(r)' = {} /\ Working(r)' = {} /\ r \notin ran' \cup dropped'
               /\ Waiting(r)' # {} => Working(r)' = {} /\ r \notin ran' \cup dropped'
               /\ Working(r)' # {} => r \notin ran' \cup dropped'
               /\ r \in ran' => r \notin dropped'
               /\ \A u, w \in Working(r)' : u = w
    <3>1. CASE r = q
      BY <1>1, <2>3, <2>4, <2>5, <3>1
    <3>2. CASE r # q
      <4>1. r \in asked /\ r # None
        BY <2>1, <2>5, <2>7, <3>2
      <4>2. Wishing(r)' = {} /\ Wishing(r) = {}
        BY <2>3, <3>2, <4>1
      <4>3. QED
        BY <1>1, <2>7, <4>1, <4>2 DEF OnePlace
    <3>3. QED
      BY <3>1, <3>2
  <2>8. QED
    BY <2>6, <2>7 DEF OnePlace
<1>5. QED
  BY <1>3, <1>4 DEF LeaveOrAsk

\* The callbacks of a request go with it into the queue.
LEMMA EnqueueKeepsPlaces ==
  ASSUME TypeOK, LocksAreRight, CallsAreRight, OnePlace, NEW a \in Actor, Enqueue(a)
  PROVE  CallsAreRight' /\ OnePlace'
<1>1. PICK q \in Request : q = wants[a]
  BY DEF Enqueue, TypeOK
<1>2. /\ UNCHANGED <<at, job, asked, ran, dropped, died>>
      /\ wants'[a] = None /\ \A u \in Actor \ {a} : wants'[u] = wants[u]
      /\ wants[a] # None /\ \A u \in Actor \ {a} : wants[u] = None
  BY Actors DEF Enqueue, historyVars, LocksAreRight, TypeOK
<1>3. \A r : r # None => Wishing(r)' = {} /\ (Wishing(r) # {} <=> r = q)
  BY <1>1, <1>2, Actors DEF Wishing
<1>4. \A r : Working(r)' = Working(r)
  BY <1>2 DEF Working
<1>5. /\ q \in asked /\ q # None /\ None \notin asked /\ q.block \in Block
      /\ q.lua => Waiting(q) = {} /\ Working(q) = {} /\ q \notin ran \cup dropped
  BY <1>1, <1>2, <1>3, MapAssumption DEF OnePlace, TypeOK
<1>6. /\ \A b \in Enqueued' : \A r \in enqueued'[b].calls :
           \/ b \in Enqueued /\ r \in enqueued[b].calls
           \/ b = q.block /\ r = q /\ q.lua
      /\ \A b \in Enqueued : b \in Enqueued' /\ enqueued[b].calls \subseteq enqueued'[b].calls
      /\ q.lua => q.block \in Enqueued' /\ q \in enqueued'[q.block].calls
  <2>1. CASE UNCHANGED queueVars /\ ~ q.lua
    BY <2>1 DEF queueVars, Enqueued
  <2>2. CASE q.block \in Enqueued /\ MergeEntry(q)
    <3>1. /\ enqueued'[q.block] # None
          /\ enqueued'[q.block].calls = enqueued[q.block].calls \cup CallsOf(q)
          /\ \A b \in Block \ {q.block} : enqueued'[b] = enqueued[b]
      BY <2>2, MergeChanges
    <3>2. QED
      BY <1>5, <2>2, <3>1 DEF Enqueued, CallsOf
  <2>3. CASE q.block \notin Enqueued /\ NewEntry(q)
    <3>1. /\ enqueued'[q.block] # None
          /\ enqueued'[q.block].calls = CallsOf(q)
          /\ \A b \in Block \ {q.block} : enqueued'[b] = enqueued[b]
      BY <2>3, NewChanges
    <3>2. QED
      BY <1>5, <2>3, <3>1 DEF Enqueued, CallsOf
  <2>4. QED
    BY <1>1, <2>1, <2>2, <2>3 DEF Enqueue, Admitted
<1>7. CallsAreRight'
  BY <1>2, <1>6 DEF CallsAreRight
<1>8. /\ \A r : r # q => Waiting(r)' = Waiting(r)
      /\ q.lua => Waiting(q)' # {}
  BY <1>6 DEF Waiting
<1>9. /\ \A u \in Actor : wants'[u] # None => wants'[u] \in asked'
      /\ \A b \in Enqueued' : enqueued'[b].calls \subseteq asked'
      /\ \A t \in Thread : job'[t].calls \subseteq asked'
  BY <1>2, <1>5, <1>6 DEF OnePlace
<1>10. ASSUME NEW r \in asked', r.lua
       PROVE  /\ \/ Wishing(r)' # {}
                 \/ Waiting(r)' # {}
                 \/ Working(r)' # {}
                 \/ r \in ran' \cup dropped'
              /\ Wishing(r)' # {} =>
                   Waiting(r)' = {} /\ Working(r)' = {} /\ r \notin ran' \cup dropped'
              /\ Waiting(r)' # {} => Working(r)' = {} /\ r \notin ran' \cup dropped'
              /\ Working(r)' # {} => r \notin ran' \cup dropped'
              /\ r \in ran' => r \notin dropped'
              /\ \A t, u \in Working(r)' : t = u
  <2>1. r \in asked /\ r # None
    BY <1>2, <1>5, <1>10
  <2>2. CASE r = q
    BY <1>2, <1>3, <1>4, <1>5, <1>8, <1>10, <2>2
  <2>3. CASE r # q
    <3>1. /\ Wishing(r)' = {} /\ Wishing(r) = {} /\ Waiting(r)' = Waiting(r)
          /\ Working(r)' = Working(r)
      BY <1>3, <1>4, <1>8, <2>1, <2>3
    <3>2. QED
      BY <1>2, <1>10, <2>1, <3>1 DEF OnePlace
  <2>4. QED
    BY <2>2, <2>3
<1>11. OnePlace'
  BY <1>2, <1>9, <1>10 DEF OnePlace
<1>12. QED
  BY <1>7, <1>11

\* They go with the block to the thread that takes it, or are dropped with a block over
\* the limit.
LEMMA PopKeepsPlaces ==
  ASSUME TypeOK, QueueIsRight, CountIsRight, CallsAreRight, OnePlace,
         NEW t \in Thread, Take(t) \/ CancelNext(t)
  PROVE  CallsAreRight' /\ OnePlace'
<1>1. PICK b : b = Head(queue[t])
  OBVIOUS
<1>2. /\ b \in Enqueued /\ b \in Block /\ enqueued[b] \in BlockEmergeData
      /\ enqueued'[b] = None /\ \A c \in Block \ {b} : enqueued'[c] = enqueued[c]
  <2>1. queue[t] # <<>> /\ PopBlockEmerge(t)
    BY DEF Take, CancelNext
  <2>2. QED
    BY <1>1, <2>1, PopChanges
<1>3. PICK C : C = enqueued[b].calls
  OBVIOUS
<1>4. Taken(t).block = b /\ Taken(t).calls = C
  BY <1>1, <1>2, <1>3 DEF Taken, Idle
<1>5. /\ UNCHANGED <<wants, asked, ran, died>> /\ job[t].calls = {}
      /\ \A u \in Thread \ {t} : job'[u] = job[u] /\ at'[u] = at[u]
  <2>1. UNCHANGED <<wants, asked, ran, died>> /\ at[t] \in {"loop", "cancel"}
    BY DEF Take, CancelNext, lockVars, historyVars
  <2>2. job[t].calls = {}
    BY <2>1 DEF CallsAreRight
  <2>3. \A u \in Thread \ {t} : job'[u] = job[u] /\ at'[u] = at[u]
    BY DEF Take, CancelNext, TypeOK, Goto
  <2>4. QED
    BY <2>1, <2>2, <2>3
<1>6. \/ /\ dropped' = dropped \cup C /\ b \in Over
         /\ job' = job /\ at' = at
      \/ /\ dropped' = dropped /\ job'[t].block = b /\ job'[t].calls = C
         /\ (at'[t] = "decide" /\ b \notin Over) \/ at'[t] = "cancelling"
  BY <1>1, <1>4 DEF Take, CancelNext, historyVars, TypeOK, Goto
<1>7. /\ Enqueued' = Enqueued \ {b}
      /\ \A c \in Enqueued' : enqueued'[c] = enqueued[c]
  BY <1>2 DEF Enqueued
<1>8. CallsAreRight'
  BY <1>2, <1>3, <1>5, <1>6, <1>7 DEF CallsAreRight
<1>9. /\ \A r : Wishing(r)' = Wishing(r)
      /\ \A r \in C : /\ Waiting(r) # {} /\ Waiting(r)' = {}
                      /\ Working(r)' # {} => Working(r)' = {t} /\ dropped' = dropped
                      /\ Working(r)' # {} \/ r \in dropped'
      /\ \A r : r \notin C => /\ Waiting(r)' = Waiting(r) /\ Working(r)' = Working(r)
                              /\ r \in dropped' <=> r \in dropped
  <2>1. \A r : Wishing(r)' = Wishing(r)
    BY <1>5 DEF Wishing
  <2>2. ASSUME NEW r, r \notin C
        PROVE  /\ Waiting(r)' = Waiting(r) /\ Working(r)' = Working(r)
               /\ r \in dropped' <=> r \in dropped
    BY <1>2, <1>3, <1>5, <1>6, <1>7, <2>2 DEF Waiting, Working
  <2>3. ASSUME NEW r \in C
        PROVE  /\ Waiting(r) # {} /\ Waiting(r)' = {} /\ r \in asked /\ r.lua
    BY <1>2, <1>3, <1>7, <2>3 DEF Waiting, CallsAreRight, OnePlace
  <2>4. ASSUME NEW r \in C
        PROVE  /\ Working(r)' # {} => Working(r)' = {t} /\ dropped' = dropped
               /\ Working(r)' # {} \/ r \in dropped'
    <3>1. Working(r) = {}
      BY <2>3, <2>4 DEF OnePlace
    <3>2. QED
      BY <1>5, <1>6, <2>4, <3>1 DEF Working
  <2>5. QED
    BY <2>1, <2>2, <2>3, <2>4
<1>10. /\ \A a \in Actor : wants'[a] # None => wants'[a] \in asked'
       /\ \A c \in Enqueued' : enqueued'[c].calls \subseteq asked'
       /\ \A u \in Thread : job'[u].calls \subseteq asked'
       /\ died' = {} => \A r \in dropped' : r.block \in Over
  BY <1>2, <1>3, <1>5, <1>6, <1>7 DEF OnePlace, CallsAreRight
<1>11. ASSUME NEW r \in asked', r.lua
       PROVE  /\ \/ Wishing(r)' # {}
                 \/ Waiting(r)' # {}
                 \/ Working(r)' # {}
                 \/ r \in ran' \cup dropped'
              /\ Wishing(r)' # {} =>
                   Waiting(r)' = {} /\ Working(r)' = {} /\ r \notin ran' \cup dropped'
              /\ Waiting(r)' # {} => Working(r)' = {} /\ r \notin ran' \cup dropped'
              /\ Working(r)' # {} => r \notin ran' \cup dropped'
              /\ r \in ran' => r \notin dropped'
              /\ \A u, w \in Working(r)' : u = w
  BY <1>5, <1>9, <1>11 DEF OnePlace
<1>12. QED
  BY <1>8, <1>10, <1>11 DEF OnePlace

\* The server thread asks for a block.
LEMMA AskKeepsPlaces ==
  ASSUME TypeOK, LocksAreRight, OnePlace, Ask
  PROVE  OnePlace'
<1>1. PICK q \in Wanted \ asked :
        asked' = asked \cup {q} /\ wants' = [wants EXCEPT ![Server] = q]
  BY DEF Ask
<1>2. env = None /\ UNCHANGED <<enqueued, job, ran, dropped, died>>
  BY DEF Ask, ServerSection, queueVars, historyVars
<1>3. /\ \A a \in Actor : wants[a] = None
      /\ wants'[Server] = q /\ \A a \in Actor \ {Server} : wants'[a] = None
  BY <1>1, <1>2, Actors DEF LocksAreRight, TypeOK
<1>4. /\ \A r : r # None => (Wishing(r)' # {} <=> r = q) /\ Wishing(r) = {}
      /\ \A r : Waiting(r)' = Waiting(r) /\ Working(r)' = Working(r)
  BY <1>2, <1>3, Actors DEF Wishing, Waiting, Working, Enqueued
<1>5. Waiting(q) = {} /\ Working(q) = {} /\ q \notin ran \cup dropped
  BY <1>1 DEF Waiting, Working, OnePlace, TypeOK
<1>6. q # None /\ None \notin asked
  BY <1>1, MapAssumption DEF Request, TypeOK
<1>7. /\ \A a \in Actor : wants'[a] # None => wants'[a] \in asked'
      /\ \A b \in Enqueued' : enqueued'[b].calls \subseteq asked'
      /\ \A u \in Thread : job'[u].calls \subseteq asked'
  BY <1>1, <1>2, <1>3 DEF OnePlace, Enqueued
<1>8. ASSUME NEW r \in asked', r.lua
      PROVE  /\ \/ Wishing(r)' # {}
                \/ Waiting(r)' # {}
                \/ Working(r)' # {}
                \/ r \in ran' \cup dropped'
             /\ Wishing(r)' # {} =>
                  Waiting(r)' = {} /\ Working(r)' = {} /\ r \notin ran' \cup dropped'
             /\ Waiting(r)' # {} => Working(r)' = {} /\ r \notin ran' \cup dropped'
             /\ Working(r)' # {} => r \notin ran' \cup dropped'
             /\ r \in ran' => r \notin dropped'
             /\ \A u, w \in Working(r)' : u = w
  <2>1. CASE r = q
    BY <1>2, <1>4, <1>5, <1>6, <2>1
  <2>2. CASE r # q
    <3>1. r \in asked /\ r # None /\ Wishing(r)' = {} /\ Wishing(r) = {}
      BY <1>1, <1>4, <1>6, <1>8, <2>2
    <3>2. QED
      BY <1>2, <1>4, <1>8, <3>1 DEF OnePlace
  <2>3. QED
    BY <2>1, <2>2
<1>9. QED
  BY <1>2, <1>7, <1>8 DEF OnePlace

\* The threads keep the callbacks where they belong.
LEMMA ThreadKeepsPlaces ==
  ASSUME TypeOK, LocksAreRight, QueueIsRight, CountIsRight, CallsAreRight, OnePlace,
         NEW t \in Thread, EmergeThread(t)
  PROVE  CallsAreRight' /\ OnePlace'
<1>1. CASE Take(t) \/ CancelNext(t)
  BY <1>1, PopKeepsPlaces
<1>2. CASE Sleep(t) \/ Wake(t) \/ LeaveLoop(t) \/ CancelPendingItems(t) \/ EndThread(t)
  <2>1. UNCHANGED <<enqueued, job, wants, asked, ran, dropped, died>>
    BY <1>2 DEF Sleep, Wake, LeaveLoop, CancelPendingItems, EndThread, queueVars, lockVars,
       historyVars
  <2>2. /\ at[t] \notin {"decide", "read", "again", "make", "answer", "cancelling"}
        /\ at'[t] \notin {"decide", "read", "again", "make"}
        /\ \A u \in Thread \ {t} : at'[u] = at[u]
    BY <1>2 DEF Sleep, Wake, LeaveLoop, CancelPendingItems, EndThread, Goto, TypeOK
  <2>3. CallsAreRight'
    BY <2>1, <2>2, CallsFrame DEF CallsAreRight
  <2>4. QED
    BY <2>1, <2>3, PlacesFrame
<1>3. CASE Decide(t) \/ DecideAgain(t)
  <2>1. UNCHANGED <<enqueued, wants, asked, ran>> /\ at[t] \in {"decide", "again"}
    BY <1>3 DEF Decide, DecideAgain, queueVars, lockVars
  <2>2. /\ \A u \in Thread \ {t} : at'[u] = at[u] /\ job'[u] = job[u]
        /\ \/ /\ at'[t] \in {"answer", "read"} /\ job' = job
              /\ UNCHANGED <<dropped, died, disturbed>>
           \/ /\ at'[t] = "make"
              /\ job'[t].block = job[t].block /\ job'[t].calls = job[t].calls
              /\ UNCHANGED <<dropped, died, disturbed>>
           \/ /\ at'[t] = "shutdown" /\ job'[t].calls = {}
              /\ died' = died \cup {t} /\ dropped' = dropped \cup job[t].calls
    BY <1>3, DecideMoves DEF Idle
  <2>3. CallsAreRight'
    BY <2>1, <2>2, CallsFrame
  <2>4. OnePlace'
    <3>1. CASE UNCHANGED <<dropped, died>> /\ job'[t].calls = job[t].calls
      BY <2>1, <2>2, <3>1, PlacesFrame
    <3>2. CASE /\ job'[t].calls = {} /\ died' = died \cup {t}
               /\ dropped' = dropped \cup job[t].calls
      BY <2>1, <2>2, <3>2, PlacesDie
    <3>3. QED
      BY <2>2, <3>1, <3>2
  <2>5. QED
    BY <2>3, <2>4
<1>4. CASE Read(t) \/ FailMake(t)
  <2>1. UNCHANGED <<enqueued, wants, asked, ran, dropped, died>>
    BY <1>4 DEF Read, FailMake, queueVars, lockVars, historyVars
  <2>2. /\ at[t] \in {"read", "make"} /\ at'[t] \in {"again", "answer"}
        /\ \A u \in Thread \ {t} : at'[u] = at[u]
    BY <1>4 DEF Read, FailMake, Making, Goto, TypeOK
  <2>3. /\ \A u \in Thread \ {t} : job'[u] = job[u]
        /\ job'[t].block = job[t].block /\ job'[t].calls = job[t].calls
    <3>1. PICK x : \/ job' = [job EXCEPT ![t].data = x]
                   \/ job' = [job EXCEPT ![t].copy = x]
      BY <1>4 DEF Read, FailMake
    <3>2. \/ job' = [job EXCEPT ![t] = [job[t] EXCEPT !.data = x]]
          \/ job' = [job EXCEPT ![t] = [job[t] EXCEPT !.copy = x]]
      BY <3>1 DEF TypeOK
    <3>3. job \in [Thread -> Job] /\ job[t] \in Job
      BY DEF TypeOK
    <3>4. QED
      BY <3>2, <3>3 DEF Job
  <2>4. CallsAreRight'
    BY <2>1, <2>2, <2>3, CallsFrame
  <2>5. QED
    BY <2>1, <2>3, <2>4, PlacesFrame
<1>5. CASE FinishMake(t)
  <2>1. UNCHANGED <<enqueued, ran, dropped, died>> /\ env = None /\ LeaveOrAsk(t)
    BY <1>5 DEF FinishMake, queueVars, historyVars
  <2>2. /\ at[t] = "make" /\ at'[t] = "answer"
        /\ \A u \in Thread \ {t} : at'[u] = at[u]
    BY <1>5 DEF FinishMake, Making, Goto, TypeOK
  <2>3. /\ \A u \in Thread \ {t} : job'[u] = job[u]
        /\ job'[t].block = job[t].block /\ job'[t].calls = job[t].calls
    <3>1. job \in [Thread -> Job] /\ job[t] \in Job
      BY DEF TypeOK
    <3>2. job' = [job EXCEPT ![t] = [job[t] EXCEPT !.copy = NoCopy]]
      BY <1>5, <3>1 DEF FinishMake
    <3>3. QED
      BY <3>1, <3>2 DEF Job
  <2>4. CallsAreRight'
    BY <2>1, <2>2, <2>3, CallsFrame
  <2>5. OnePlace'
    <3>1. PICK done : done = {}
      OBVIOUS
    <3>2. ran' = ran \cup done /\ job'[t].calls = job[t].calls \ done /\ done \subseteq job[t].calls
      BY <2>1, <2>3, <3>1
    <3>3. QED
      BY <2>1, <2>3, <3>2, PlacesLeaveOrAsk
  <2>6. QED
    BY <2>4, <2>5
<1>6. CASE RunCallback(t)
  <2>1. UNCHANGED <<enqueued, at, dropped, died>> /\ env = None /\ LeaveOrAsk(t)
    BY <1>6 DEF RunCallback, queueVars
  <2>2. PICK r \in job[t].calls :
          job' = [job EXCEPT ![t].calls = @ \ {r}] /\ ran' = ran \cup {r}
    BY <1>6 DEF RunCallback
  <2>3. /\ \A u \in Thread \ {t} : job'[u] = job[u]
        /\ job'[t].block = job[t].block /\ job'[t].calls = job[t].calls \ {r}
    <3>1. job \in [Thread -> Job] /\ job[t] \in Job
      BY DEF TypeOK
    <3>2. QED
      BY <2>2, <3>1 DEF Job
  <2>4. CallsAreRight'
    BY <2>1, <2>3, CallsFrame
  <2>5. OnePlace'
    <3>1. PICK done : done = {r}
      OBVIOUS
    <3>2. ran' = ran \cup done /\ job'[t].calls = job[t].calls \ done /\ done \subseteq job[t].calls
      BY <2>2, <2>3, <3>1
    <3>3. QED
      BY <2>1, <2>3, <3>2, PlacesLeaveOrAsk
  <2>6. QED
    BY <2>4, <2>5
<1>7. CASE AllAnswered(t)
  <2>1. UNCHANGED <<enqueued, wants, asked, ran, dropped, died>>
    BY <1>7 DEF AllAnswered, queueVars, lockVars, historyVars
  <2>2. /\ job[t].calls = {} /\ job'[t].calls = {} /\ at'[t] \in {"loop", "cancel"}
        /\ \A u \in Thread \ {t} : at'[u] = at[u] /\ job'[u] = job[u]
    BY <1>7 DEF AllAnswered, Goto, TypeOK, Idle
  <2>3. CallsAreRight'
    BY <2>1, <2>2, CallsFrame
  <2>4. QED
    BY <2>1, <2>2, <2>3, PlacesFrame
<1>8. QED
  BY <1>1, <1>2, <1>3, <1>4, <1>5, <1>6, <1>7 DEF EmergeThread

\* Every step keeps the callbacks where they belong.
LEMMA PlacesStep ==
  ASSUME TypeOK, LocksAreRight, QueueIsRight, CountIsRight, CallsAreRight, OnePlace, [Next]_vars
  PROVE  CallsAreRight' /\ OnePlace'
<1>1. CASE UNCHANGED <<enqueued, at, job, wants, asked, ran, dropped, died>>
  BY <1>1, PlacesFrame DEF CallsAreRight, Enqueued
<1>2. CASE \E t \in Thread : EmergeThread(t)
  BY <1>2, ThreadKeepsPlaces
<1>3. CASE \E a \in Actor : Enqueue(a)
  BY <1>3, EnqueueKeepsPlaces
<1>4. CASE Ask
  <2>1. UNCHANGED <<enqueued, at, job>>
    BY <1>4 DEF Ask, queueVars
  <2>2. QED
    BY <1>4, <2>1, AskKeepsPlaces DEF CallsAreRight, Enqueued
<1>5. CASE EditBlock \/ LoadBlock \/ SaveBlock \/ UnloadBlock \/ DeleteBlock \/ Shutdown
  BY <1>1, <1>5 DEF EditBlock, LoadBlock, SaveBlock, UnloadBlock, DeleteBlock, Shutdown,
     StopServer, StopThreads, WriteRow, queueVars, lockVars, historyVars
<1>6. CASE UNCHANGED vars
  BY <1>1, <1>6 DEF vars
<1>7. QED
  BY <1>2, <1>3, <1>4, <1>5, <1>6 DEF Next, ServerThread

-----------------------------------------------------------------------------
(* The map.                                                                *)

\* One thread more or less that makes a block.
LEMMA OneMaker ==
  ASSUME NEW A \in SUBSET Thread, NEW t \in Thread
  PROVE  /\ Cardinality(A) \in Nat
         /\ Cardinality(A) = 0 => A = {}
         /\ t \notin A => Cardinality(A \cup {t}) = Cardinality(A) + 1
         /\ t \in A => Cardinality(A \ {t}) = Cardinality(A) - 1
         /\ Cardinality({}) = 0
<1>1. IsFiniteSet(A)
  BY FS_Subset, MapAssumption
<1>2. QED
  BY <1>1, FS_AddElement, FS_RemoveElement, FS_CardinalityType, FS_EmptySet

\* Who makes a block and who has read it, when only thread t moves.
LEMMA WorkersMove ==
  ASSUME NEW t \in Thread, \A u \in Thread \ {t} : at'[u] = at[u] /\ job'[u] = job[u],
         NEW b \in Block
  PROVE  /\ at[t] # "make" => t \notin Makers(b)
         /\ at[t] # "again" => t \notin Readers(b)
         /\ at'[t] # "make" => Makers(b)' = Makers(b) \ {t}
         /\ at[t] # "make" /\ at'[t] # "make" => Makers(b)' = Makers(b)
         /\ at[t] # "again" /\ at'[t] # "again" => Readers(b)' = Readers(b)
         /\ at'[t] # "again" => Readers(b)' = Readers(b) \ {t}
         /\ Makers(b)' \ {t} = Makers(b) \ {t}
         /\ Readers(b)' \ {t} = Readers(b) \ {t}
         /\ t \in Makers(b)' <=> at'[t] = "make" /\ b \in AreaOf(t)'
         /\ t \in Readers(b)' <=> at'[t] = "again" /\ job'[t].block = b
         /\ Makers(b) \subseteq Thread /\ Readers(b) \subseteq Thread
BY DEF Makers, Readers, Making, AreaOf

\* Steps that concern neither the map nor who works on copies of it.
LEMMA MapFrame ==
  ASSUME MapInv, UNCHANGED <<memory, stored, latest, disturbed>>,
         NEW t \in Thread, \A u \in Thread \ {t} : at'[u] = at[u] /\ job'[u] = job[u],
         at[t] \notin {"make", "again"}, at'[t] \notin {"make", "again"}
  PROVE  MapInv'
<1> SUFFICES ASSUME NEW b \in Block
             PROVE  BlockIsRight(memory, b)' /\ \A u \in Thread : WorkIsRight(u, b)'
  BY DEF MapInv
<1>1. Makers(b)' = Makers(b) /\ Readers(b)' = Readers(b) /\ t \notin Makers(b) \cup Readers(b)
  BY WorkersMove
<1>2. BlockIsRight(memory, b)'
  BY <1>1 DEF MapInv, BlockIsRight
<1>3. ASSUME NEW u \in Thread
      PROVE  WorkIsRight(u, b)'
  <2>1. CASE u = t
    BY <1>1, <2>1 DEF WorkIsRight
  <2>2. CASE u # t
    <3>1. WorkIsRight(u, b)
      BY DEF MapInv
    <3>2. QED
      BY <1>1, <2>2, <3>1 DEF WorkIsRight
  <2>3. QED
    BY <2>1, <2>2
<1>4. QED
  BY <1>2, <1>3

\* A thread puts the map m in place and goes on to answer.
LEMMA MapReplaced ==
  ASSUME MapInv, NEW m, \A b \in Block : BlockIsRight(m, b), memory' = m,
         UNCHANGED <<stored, latest, disturbed>>,
         NEW t \in Thread, \A u \in Thread \ {t} : at'[u] = at[u] /\ job'[u] = job[u],
         at[t] # "make", at'[t] \notin {"make", "again"}
  PROVE  MapInv'
<1> SUFFICES ASSUME NEW b \in Block
             PROVE  BlockIsRight(memory, b)' /\ \A u \in Thread : WorkIsRight(u, b)'
  BY DEF MapInv
<1>1. /\ Makers(b)' = Makers(b) /\ t \notin Makers(b)
      /\ Readers(b)' = Readers(b) \ {t}
  BY WorkersMove
<1>2. BlockIsRight(memory, b)'
  BY <1>1 DEF BlockIsRight
<1>3. ASSUME NEW u \in Thread
      PROVE  WorkIsRight(u, b)'
  <2>1. WorkIsRight(u, b)
    BY DEF MapInv
  <2>2. QED
    BY <1>1, <2>1 DEF WorkIsRight
<1>4. QED
  BY <1>2, <1>3

\* initBlockMake with the map m.
LEMMA GrabKeepsMap ==
  ASSUME TypeOK, MapInv, NEW m \in [Block -> MapBlock \cup {None}],
         \A b \in Block : BlockIsRight(m, b),
         UNCHANGED <<stored, latest>>,
         NEW t \in Thread, at[t] # "make", NEW c \in Chunk, c = ChunkOf[job[t].block],
         GrabArea(t, m, c)
  PROVE  MapInv'
<1> DEFINE unreadable == {b \in Area[c] : m[b] = None /\ stored[b] = Unreadable}
           reached == {b \in Area[c] : \A q \in unreadable : b < q}
           grabbed == [b \in Block |-> IF b \in reached
                         THEN [Emerged(m, b) EXCEPT !.refs = @ + 1] ELSE m[b]]
<1> SUFFICES ASSUME NEW b \in Block
             PROVE  BlockIsRight(memory, b)' /\ \A u \in Thread : WorkIsRight(u, b)'
  BY DEF MapInv
<1>1. memory' = grabbed
  BY DEF GrabArea
<1>2. Area[c] \subseteq Block /\ job \in [Thread -> Job] /\ job[t] \in Job /\ DOMAIN at = Thread
  BY MapAssumption DEF TypeOK
<1>3. CASE unreadable # {}
  <2>1. Die(t, reached)
    BY <1>3 DEF GrabArea
  <2>2. /\ disturbed' = disturbed \cup reached /\ at'[t] = "shutdown"
        /\ \A u \in Thread \ {t} : at'[u] = at[u] /\ job'[u] = job[u]
    BY <1>2, <2>1 DEF Die, Goto
  <2>3. /\ Makers(b)' = Makers(b) /\ t \notin Makers(b)
        /\ Readers(b)' = Readers(b) \ {t}
    BY <2>2, WorkersMove
  <2>4. stored[b] = Unreadable => b \notin reached
    BY SettingsAssumption DEF BlockIsRight
  <2>5. b \notin reached => grabbed[b] = m[b]
    OBVIOUS
  <2>6. BlockIsRight(memory, b)'
    BY <1>1, <2>2, <2>3, <2>4, <2>5 DEF BlockIsRight
  <2>7. ASSUME NEW u \in Thread
        PROVE  WorkIsRight(u, b)'
    <3>1. WorkIsRight(u, b)
      BY DEF MapInv
    <3>2. QED
      BY <2>2, <2>3, <3>1 DEF WorkIsRight
  <2>8. QED
    BY <2>6, <2>7
<1>4. CASE unreadable = {}
  <2>1. PICK cp : cp = [q \in Block |-> IF q \in Area[c] THEN grabbed[q].edits ELSE {}]
    OBVIOUS
  <2>2. /\ Goto(t, "make") /\ UNCHANGED <<dropped, died, disturbed>>
        /\ job' = [job EXCEPT ![t] = [job[t] EXCEPT !.data = None, !.copy = cp]]
    BY <1>2, <1>4, <2>1 DEF GrabArea
  <2>3. /\ at'[t] = "make" /\ job'[t].block = job[t].block /\ job'[t].copy = cp
        /\ \A u \in Thread \ {t} : at'[u] = at[u] /\ job'[u] = job[u]
    BY <1>2, <2>2 DEF Goto, Job
  <2>4. /\ t \notin Makers(b) /\ Makers(b)' = Makers(b) \cup (IF b \in Area[c] THEN {t} ELSE {})
        /\ Readers(b)' = Readers(b) \ {t} /\ Makers(b) \subseteq Thread
    <3>1. t \in Makers(b)' <=> b \in Area[c]
      BY <2>3, WorkersMove DEF AreaOf
    <3>2. QED
      BY <2>3, <3>1, WorkersMove
  <2>5. CASE b \notin Area[c]
    <3>1. grabbed[b] = m[b] /\ Makers(b)' = Makers(b)
      BY <2>4, <2>5
    <3>2. BlockIsRight(memory, b)'
      BY <1>1, <2>2, <3>1 DEF BlockIsRight
    <3>3. ASSUME NEW u \in Thread
          PROVE  WorkIsRight(u, b)'
      <4>1. WorkIsRight(u, b)
        BY DEF MapInv
      <4>2. QED
        BY <2>2, <2>3, <2>4, <3>1, <4>1 DEF WorkIsRight
    <3>4. QED
      BY <3>2, <3>3
  <2>6. CASE b \in Area[c]
    <3>1. stored[b] # Unreadable
      BY <1>4, <2>6 DEF BlockIsRight
    <3>2. PICK e \in MapBlock : e = Emerged(m, b)
      BY <3>1, EmergedIsBlock
    <3>3. /\ memory'[b] = [e EXCEPT !.refs = @ + 1]
          /\ cp[b] = memory'[b].edits
      BY <1>1, <1>4, <2>1, <2>6, <3>2
    <3>4. /\ memory'[b] \in MapBlock /\ memory'[b] # None /\ memory'[b].refs = e.refs + 1
          /\ memory'[b].edits = e.edits /\ memory'[b].dirty = e.dirty
      <4>1. memory'[b] \in MapBlock
        BY <3>3 DEF MapBlock
      <4>2. QED
        BY <3>3, <4>1, MapAssumption DEF MapBlock
    <3>5. b \notin disturbed =>
            /\ e.refs = Cardinality(Makers(b)) /\ e.edits = latest[b]
            /\ ~ e.dirty => stored[b] \in Row /\ stored[b].edits = e.edits
      <4>1. CASE m[b] # None
        BY <3>2, <4>1 DEF Emerged, BlockIsRight
      <4>2. CASE m[b] = None /\ stored[b] = None
        <5>1. e = Blank /\ stored[b] \notin Row
          BY <3>2, <4>2, MapAssumption DEF Emerged
        <5>2. QED
          BY <4>2, <5>1, FS_EmptySet DEF Blank, BlockIsRight
      <4>3. CASE m[b] = None /\ stored[b] # None
        <5>1. e = FromRow(stored[b]) /\ stored[b] \in Row
          BY <3>1, <3>2, <4>3 DEF Emerged, TypeOK
        <5>2. QED
          BY <4>3, <5>1, FS_EmptySet DEF FromRow, BlockIsRight
      <4>4. QED
        BY <4>1, <4>2, <4>3
    <3>6. Makers(b)' = Makers(b) \cup {t} /\ Cardinality(Makers(b)') = Cardinality(Makers(b)) + 1
      BY <2>4, <2>6, OneMaker
    <3>7. BlockIsRight(memory, b)'
      BY <2>2, <3>1, <3>4, <3>5, <3>6 DEF BlockIsRight
    <3>8. ASSUME NEW u \in Thread
          PROVE  WorkIsRight(u, b)'
      <4>1. CASE u = t
        BY <2>2, <2>3, <2>4, <3>1, <3>3, <3>4, <3>5, <4>1 DEF WorkIsRight
      <4>2. CASE u # t
        <5>1. WorkIsRight(u, b)
          BY DEF MapInv
        <5>2. QED
          BY <2>2, <2>3, <2>4, <3>6, <4>2, <5>1 DEF WorkIsRight
      <4>3. QED
        BY <4>1, <4>2
    <3>9. QED
      BY <3>7, <3>8
  <2>7. QED
    BY <2>5, <2>6
<1>5. QED
  BY <1>3, <1>4

\* getBlockOrStartGen.
LEMMA DecideKeepsMap ==
  ASSUME TypeOK, CallsAreRight, MapInv, NEW t \in Thread, Decide(t) \/ DecideAgain(t)
  PROVE  MapInv'
<1>1. PICK b \in Block \ Over : b = job[t].block
  BY DEF CallsAreRight, Decide, DecideAgain
<1>2. PICK c \in Chunk : c = ChunkOf[b]
  BY MapAssumption
<1>3. UNCHANGED <<stored, latest>> /\ at[t] \in {"decide", "again"}
  BY DEF Decide, DecideAgain
<1>4. \A u \in Thread \ {t} : at'[u] = at[u] /\ job'[u] = job[u]
  BY DecideMoves
<1>5. memory \in [Block -> MapBlock \cup {None}] /\ \A q \in Block : BlockIsRight(memory, q)
  BY DEF TypeOK, MapInv
<1>6. ASSUME NEW m \in [Block -> MapBlock \cup {None}], \A q \in Block : BlockIsRight(m, q),
             \/ memory' = m /\ (Answer(t) \/ (Goto(t, "read") /\ UNCHANGED disturbed))
             \/ StartGen(t, m)
      PROVE  MapInv'
  <2>1. CASE memory' = m /\ (Answer(t) \/ (Goto(t, "read") /\ UNCHANGED disturbed))
    <3>1. at'[t] \in {"answer", "read"} /\ UNCHANGED disturbed
      BY <2>1 DEF Answer, Goto, TypeOK
    <3>2. QED
      BY <1>3, <1>4, <1>6, <2>1, <3>1, MapReplaced
  <2>2. CASE GrabArea(t, m, c)
    BY <1>1, <1>2, <1>3, <1>6, <2>2, GrabKeepsMap
  <2>3. QED
    BY <1>1, <1>2, <1>6, <2>1, <2>2 DEF StartGen
<1>7. CASE Decide(t)
  BY <1>1, <1>5, <1>6, <1>7 DEF Decide
<1>8. CASE DecideAgain(t)
  <2>1. t \in Readers(b) /\ WorkIsRight(t, b) /\ BlockIsRight(memory, b)
    BY <1>1, <1>8 DEF DecideAgain, Readers, MapInv
  <2>2. CASE memory[b] # None \/ job[t].data = None
    BY <1>1, <1>5, <1>6, <1>8, <2>2 DEF DecideAgain, Raced
  <2>3. CASE memory[b] = None /\ job[t].data = Unreadable
    <3>1. Die(t, {}) /\ memory' = memory
      BY <1>1, <1>8, <2>3, MapAssumption DEF DecideAgain, Raced
    <3>2. at'[t] = "shutdown" /\ disturbed' = disturbed
      BY <3>1 DEF Die, Goto, TypeOK
    <3>3. QED
      BY <1>3, <1>4, <1>5, <3>1, <3>2, MapReplaced
  <2>4. CASE memory[b] = None /\ job[t].data \in Row
    <3>1. PICK data \in Row : data = job[t].data
      BY <2>4
    <3>2. FromRow(data) \in MapBlock /\ FromRow(data) # None /\ data # Unreadable /\ data # None
      <4>1. FromRow(data) \in MapBlock
        BY DEF FromRow, Row, MapBlock
      <4>2. QED
        BY <4>1, MapAssumption
    <3>3. PICK loaded : loaded = [memory EXCEPT ![b] = FromRow(data)]
      OBVIOUS
    <3>4. loaded \in [Block -> MapBlock \cup {None}]
      BY <1>5, <3>2, <3>3
    <3>5. ASSUME NEW q \in Block
          PROVE  BlockIsRight(loaded, q)
      <4>1. CASE q # b
        <5>1. loaded[q] = memory[q] /\ BlockIsRight(memory, q)
          BY <1>5, <3>3, <4>1
        <5>2. QED
          BY <5>1 DEF BlockIsRight
      <4>2. CASE q = b
        <5>1. loaded[b] = FromRow(data)
          BY <1>5, <3>3
        <5>2. stored[b] # Unreadable /\ (b \notin disturbed => data = stored[b])
          BY <2>1, <3>1, <3>2 DEF WorkIsRight
        <5>3. b \notin disturbed => Makers(b) = {} /\ latest[b] = stored[b].edits
          BY <2>1, <2>4, <5>2 DEF BlockIsRight
        <5>4. QED
          BY <3>2, <4>2, <5>1, <5>2, <5>3, FS_EmptySet DEF BlockIsRight, FromRow
      <4>3. QED
        BY <4>1, <4>2
    <3>6. (memory' = loaded /\ Answer(t)) \/ StartGen(t, loaded)
      BY <1>1, <1>8, <2>4, <3>1, <3>2, <3>3 DEF DecideAgain, Raced
    <3>7. QED
      BY <1>6, <3>4, <3>5, <3>6
  <2>5. job[t].data \in Row \cup {None, Unreadable}
    BY DEF TypeOK, Job
  <2>6. QED
    BY <2>2, <2>3, <2>4, <2>5
<1>9. QED
  BY <1>7, <1>8

\* loadBlock: what a thread has read is what the database holds.
LEMMA ReadKeepsMap ==
  ASSUME TypeOK, MapInv, NEW t \in Thread, Read(t)
  PROVE  MapInv'
<1> SUFFICES ASSUME NEW b \in Block
             PROVE  BlockIsRight(memory, b)' /\ \A u \in Thread : WorkIsRight(u, b)'
  BY DEF MapInv
<1>1. UNCHANGED <<memory, stored, latest, disturbed>>
  BY DEF Read, mapVars, historyVars
<1>2. job \in [Thread -> Job] /\ job[t] \in Job /\ DOMAIN at = Thread
  BY DEF TypeOK
<1>3. job' = [job EXCEPT ![t] = [job[t] EXCEPT !.data = stored[job[t].block]]]
  BY <1>2 DEF Read
<1>4. /\ at[t] = "read" /\ at'[t] = "again"
      /\ job'[t].block = job[t].block /\ job'[t].data = stored[job[t].block]
      /\ \A u \in Thread \ {t} : at'[u] = at[u] /\ job'[u] = job[u]
  BY <1>2, <1>3 DEF Read, Goto, Job
<1>5. /\ Makers(b)' = Makers(b) /\ t \notin Makers(b)
      /\ Readers(b)' \ {t} = Readers(b) \ {t}
      /\ t \in Readers(b)' => job[t].block = b
  BY <1>4, WorkersMove
<1>6. BlockIsRight(memory, b)'
  BY <1>1, <1>5 DEF MapInv, BlockIsRight
<1>7. ASSUME NEW u \in Thread
      PROVE  WorkIsRight(u, b)'
  <2>1. CASE u = t
    BY <1>1, <1>4, <1>5, <2>1 DEF WorkIsRight
  <2>2. CASE u # t
    <3>1. WorkIsRight(u, b)
      BY DEF MapInv
    <3>2. QED
      BY <1>1, <1>4, <1>5, <2>2, <3>1 DEF WorkIsRight
  <2>3. QED
    BY <2>1, <2>2
<1>8. QED
  BY <1>6, <1>7

\* finishGen and cancelBlockMake.
LEMMA MakeKeepsMap ==
  ASSUME TypeOK, CallsAreRight, MapInv, NEW t \in Thread, FinishMake(t) \/ FailMake(t)
  PROVE  MapInv'
<1>1. /\ at[t] = "make" /\ job \in [Thread -> Job] /\ job[t] \in Job /\ DOMAIN at = Thread
      /\ memory \in [Block -> MapBlock \cup {None}]
  BY DEF FinishMake, FailMake, Making, TypeOK
<1>2. UNCHANGED <<stored, latest>> /\ disturbed \subseteq disturbed'
  BY DEF FinishMake, FailMake, historyVars
<1>3. /\ at'[t] = "answer"
      /\ \A u \in Thread \ {t} : at'[u] = at[u] /\ job'[u] = job[u]
  BY <1>1 DEF FinishMake, FailMake, Goto
<1> SUFFICES ASSUME NEW b \in Block
             PROVE  BlockIsRight(memory, b)' /\ \A u \in Thread : WorkIsRight(u, b)'
  BY DEF MapInv
<1>4. /\ Makers(b)' = Makers(b) \ {t} /\ Readers(b)' = Readers(b)
      /\ Makers(b) \subseteq Thread
      /\ t \in Makers(b) <=> b \in AreaOf(t)
      /\ t \notin Readers(b)
  <2>1. t \in Makers(b) <=> b \in AreaOf(t)
    BY <1>1 DEF Makers, Making
  <2>2. QED
    BY <1>1, <1>3, <2>1, WorkersMove
<1>5. ASSUME NEW u \in Thread
      PROVE  WorkIsRight(u, b)'
  <2>1. WorkIsRight(u, b)
    BY DEF MapInv
  <2>2. u # t => job'[u] = job[u]
    BY <1>3
  <2>3. QED
    BY <1>2, <1>4, <2>1, <2>2 DEF WorkIsRight
<1>6. BlockIsRight(memory, b)
  BY DEF MapInv
<1>7. CASE b \notin AreaOf(t)
  <2>1. memory'[b] = memory[b]
    BY <1>1, <1>7 DEF FinishMake, FailMake, AreaOf
  <2>2. Makers(b)' = Makers(b)
    BY <1>4, <1>7
  <2>3. BlockIsRight(memory, b)'
    BY <1>2, <1>6, <2>1, <2>2 DEF BlockIsRight
  <2>4. QED
    BY <1>5, <2>3
<1>8. CASE b \in AreaOf(t) /\ FinishMake(t)
  <2>1. /\ t \in Makers(b) /\ stored[b] # Unreadable /\ UNCHANGED disturbed
        /\ b \notin disturbed => job[t].copy[b] = latest[b]
    BY <1>4, <1>8 DEF MapInv, WorkIsRight, FinishMake, historyVars
  <2>2. PICK old \in MapBlock : old = Emerged(memory, b)
    BY <1>1, <2>1, EmergedIsBlock
  <2>3. memory'[b] = [gen |-> old.gen \/ b \in Body(ChunkOf[job[t].block]),
                      edits |-> job[t].copy[b], refs |-> old.refs - 1, dirty |-> TRUE]
    BY <1>8, <2>2 DEF FinishMake, AreaOf
  <2>4. memory'[b] \in MapBlock
    <3>1. job[t].copy[b] \in SUBSET Edit
      BY <1>1 DEF Job
    <3>2. QED
      BY <2>3, <3>1 DEF MapBlock
  <2>5. memory'[b] # None
    BY <2>4, MapAssumption
  <2>6. b \notin disturbed => memory'[b].refs = Cardinality(Makers(b)')
    <3>1. b \notin disturbed => memory[b] # None
      BY <1>6, <2>1 DEF BlockIsRight
    <3>2. b \notin disturbed => old.refs = Cardinality(Makers(b))
      BY <1>6, <2>2, <3>1 DEF BlockIsRight, Emerged
    <3>3. Cardinality(Makers(b)') = Cardinality(Makers(b)) - 1
      BY <1>4, <2>1, OneMaker
    <3>4. QED
      BY <2>3, <3>2, <3>3
  <2>7. BlockIsRight(memory, b)'
    BY <1>2, <2>1, <2>3, <2>5, <2>6 DEF BlockIsRight
  <2>8. QED
    BY <1>5, <2>7
<1>9. CASE b \in AreaOf(t) /\ FailMake(t)
  <2>1. b \in disturbed'
    BY <1>9 DEF FailMake
  <2>2. stored[b] # Unreadable
    BY <1>4, <1>9 DEF MapInv, WorkIsRight
  <2>3. BlockIsRight(memory, b)'
    BY <1>2, <2>1, <2>2 DEF BlockIsRight
  <2>4. QED
    BY <1>5, <2>3
<1>10. QED
  BY <1>7, <1>8, <1>9

\* The server thread deals with one block at a time.
LEMMA OneBlock ==
  ASSUME MapInv, UNCHANGED <<at, job>>, NEW b \in Block,
         \A q \in Block \ {b} :
           /\ memory'[q] = memory[q] /\ stored'[q] = stored[q] /\ latest'[q] = latest[q]
           /\ q \in disturbed' <=> q \in disturbed,
         BlockIsRight(memory, b)', \A t \in Thread : WorkIsRight(t, b)'
  PROVE  MapInv'
<1>1. \A q : Makers(q)' = Makers(q) /\ Readers(q)' = Readers(q)
  BY DEF Makers, Readers, Making, AreaOf
<1>2. ASSUME NEW q \in Block \ {b}
      PROVE  BlockIsRight(memory, q)'
  BY <1>1 DEF MapInv, BlockIsRight
<1>3. ASSUME NEW q \in Block \ {b}, NEW t \in Thread
      PROVE  WorkIsRight(t, q)'
  BY <1>1 DEF MapInv, WorkIsRight
<1>4. QED
  BY <1>2, <1>3 DEF MapInv

\* Players and mods change a block.
LEMMA EditKeepsMap ==
  ASSUME TypeOK, MapInv, EditBlock
  PROVE  MapInv'
<1>1. PICK b \in Block, e \in Edit, o \in MapBlock :
        /\ memory[b] # None /\ memory[b] \in MapBlock
        /\ o = [memory[b] EXCEPT !.edits = @ \cup {e}, !.dirty = TRUE]
        /\ memory' = [memory EXCEPT ![b] = o]
        /\ latest' = [latest EXCEPT ![b] = latest[b] \cup {e}]
        /\ disturbed' = disturbed \cup {q \in {b} : Makers(q) # {}}
  BY EditChanges
<1>2. UNCHANGED <<at, job, stored>>
  BY DEF EditBlock
<1>3. \A q \in Block \ {b} :
        /\ memory'[q] = memory[q] /\ stored'[q] = stored[q] /\ latest'[q] = latest[q]
        /\ q \in disturbed' <=> q \in disturbed
  BY <1>1, <1>2 DEF TypeOK
<1>4. Makers(b)' = Makers(b) /\ Readers(b)' = Readers(b)
  BY <1>2 DEF Makers, Readers, Making, AreaOf
<1>5. /\ memory'[b] = o /\ o # None /\ latest'[b] = latest[b] \cup {e}
      /\ o.edits = memory[b].edits \cup {e} /\ o.dirty = TRUE /\ o.refs = memory[b].refs
      /\ b \notin disturbed' => Makers(b) = {}
      /\ disturbed \subseteq disturbed'
  <2>1. memory'[b] = o /\ latest'[b] = latest[b] \cup {e} /\ o # None
    BY <1>1, MapAssumption DEF TypeOK
  <2>2. o.edits = memory[b].edits \cup {e} /\ o.dirty = TRUE /\ o.refs = memory[b].refs
    BY <1>1 DEF MapBlock
  <2>3. disturbed \subseteq disturbed' /\ (b \notin disturbed' => Makers(b) = {})
    BY <1>1
  <2>4. QED
    BY <2>1, <2>2, <2>3
<1>6. BlockIsRight(memory, b) /\ \A t \in Thread : WorkIsRight(t, b)
  BY DEF MapInv
<1>7. BlockIsRight(memory, b)'
  BY <1>1, <1>2, <1>4, <1>5, <1>6 DEF BlockIsRight
<1>8. ASSUME NEW t \in Thread
      PROVE  WorkIsRight(t, b)'
  BY <1>2, <1>4, <1>5, <1>6 DEF WorkIsRight
<1>9. QED
  BY <1>2, <1>3, <1>7, <1>8, OneBlock

\* loadBlock on demand.
LEMMA LoadKeepsMap ==
  ASSUME TypeOK, MapInv, LoadBlock
  PROVE  MapInv'
<1>1. PICK b \in Block : /\ memory[b] = None /\ stored[b] \in Row
                         /\ memory' = [memory EXCEPT ![b] = FromRow(stored[b])]
  BY DEF LoadBlock
<1>2. UNCHANGED <<at, job, stored, latest, disturbed>>
  BY DEF LoadBlock, historyVars
<1>3. \A q \in Block \ {b} : memory'[q] = memory[q]
  BY <1>1 DEF TypeOK
<1>4. /\ Makers(b)' = Makers(b) /\ Readers(b)' = Readers(b)
      /\ BlockIsRight(memory, b) /\ \A t \in Thread : WorkIsRight(t, b)
  BY <1>2 DEF Makers, Readers, Making, AreaOf, MapInv
<1>5. memory'[b] = FromRow(stored[b]) /\ FromRow(stored[b]) \in MapBlock
  BY <1>1 DEF TypeOK, FromRow, Row, MapBlock
<1>6. memory'[b] # None /\ stored[b] # Unreadable
  BY <1>1, <1>5, MapAssumption
<1>7. BlockIsRight(memory, b)'
  BY <1>1, <1>2, <1>4, <1>5, <1>6, FS_EmptySet DEF BlockIsRight, FromRow
<1>8. ASSUME NEW t \in Thread
      PROVE  WorkIsRight(t, b)'
  BY <1>2, <1>4 DEF WorkIsRight
<1>9. QED
  BY <1>2, <1>3, <1>7, <1>8, OneBlock

\* What a block is when its row is written.
LEMMA WriteChanges ==
  ASSUME TypeOK, NEW b \in Block, memory[b] # None, WriteRow(b)
  PROVE  /\ stored'[b] \in Row /\ stored'[b] # Unreadable
         /\ stored'[b].edits = memory[b].edits
         /\ \A q \in Block \ {b} :
              /\ stored'[q] = stored[q]
              /\ q \in disturbed' <=> q \in disturbed
         /\ disturbed \subseteq disturbed' /\ (b \notin disturbed' => Readers(b) = {})
<1>1. memory[b] \in MapBlock
  BY DEF TypeOK
<1>2. [gen |-> memory[b].gen, edits |-> memory[b].edits] \in Row
  BY <1>1 DEF MapBlock, Row
<1>3. stored'[b] = [gen |-> memory[b].gen, edits |-> memory[b].edits]
  BY DEF WriteRow, TypeOK
<1>4. stored'[b] # Unreadable
  BY <1>2, <1>3, MapAssumption
<1>5. QED
  BY <1>2, <1>3, <1>4 DEF WriteRow, TypeOK

\* Blocks are saved, and unloaded when nobody needs them.
LEMMA SaveKeepsMap ==
  ASSUME TypeOK, MapInv, SaveBlock \/ UnloadBlock
  PROVE  MapInv'
<1>1. PICK b \in Block :
        /\ memory[b] # None
        /\ WriteRow(b) \/ (~ memory[b].dirty /\ UNCHANGED <<stored, disturbed>>)
        /\ \/ memory' = [memory EXCEPT ![b].dirty = FALSE]
           \/ memory' = [memory EXCEPT ![b] = None] /\ memory[b].refs = 0
  BY DEF SaveBlock, UnloadBlock, MayUnload
<1>2. UNCHANGED <<at, job, latest>>
  BY DEF SaveBlock, UnloadBlock
<1>3. /\ Makers(b)' = Makers(b) /\ Readers(b)' = Readers(b) /\ Makers(b) \subseteq Thread
      /\ BlockIsRight(memory, b) /\ \A t \in Thread : WorkIsRight(t, b)
  BY <1>2 DEF Makers, Readers, Making, AreaOf, MapInv
<1>4. memory[b] \in MapBlock /\ memory \in [Block -> MapBlock \cup {None}]
  BY <1>1 DEF TypeOK
<1>5. /\ \A q \in Block \ {b} :
           /\ stored'[q] = stored[q]
           /\ q \in disturbed' <=> q \in disturbed
      /\ disturbed \subseteq disturbed' /\ stored'[b] # Unreadable
      /\ b \notin disturbed' => stored'[b] \in Row /\ stored'[b].edits = memory[b].edits
      /\ stored'[b] = stored[b] \/ b \in disturbed' \/ Readers(b) = {}
  <2>1. CASE WriteRow(b)
    BY <1>1, <2>1, WriteChanges
  <2>2. CASE ~ memory[b].dirty /\ UNCHANGED <<stored, disturbed>>
    BY <1>1, <1>3, <2>2 DEF BlockIsRight
  <2>3. QED
    BY <1>1, <2>1, <2>2
<1>6. stored[b] # Unreadable
  BY <1>1, <1>3 DEF BlockIsRight
<1>7. ASSUME NEW t \in Thread
      PROVE  WorkIsRight(t, b)'
  BY <1>2, <1>3, <1>5, <1>6 DEF WorkIsRight
<1>8. CASE memory' = [memory EXCEPT ![b].dirty = FALSE]
  <2>1. PICK o : o = [memory[b] EXCEPT !.dirty = FALSE]
    OBVIOUS
  <2>2. memory' = [memory EXCEPT ![b] = o]
    BY <1>4, <1>8, <2>1
  <2>3. o \in MapBlock /\ o.refs = memory[b].refs /\ o.edits = memory[b].edits
    BY <1>4, <2>1 DEF MapBlock
  <2>4. memory'[b] = o /\ o # None /\ \A q \in Block \ {b} : memory'[q] = memory[q]
    BY <1>4, <2>2, <2>3, MapAssumption
  <2>5. BlockIsRight(memory, b)'
    BY <1>1, <1>2, <1>3, <1>5, <2>3, <2>4 DEF BlockIsRight
  <2>6. QED
    BY <1>2, <1>5, <1>7, <2>4, <2>5, OneBlock
<1>9. CASE memory' = [memory EXCEPT ![b] = None] /\ memory[b].refs = 0
  <2>1. memory'[b] = None /\ \A q \in Block \ {b} : memory'[q] = memory[q]
    BY <1>4, <1>9
  <2>2. b \notin disturbed => Makers(b) = {}
    BY <1>1, <1>3, <1>9, OneMaker DEF BlockIsRight
  <2>3. BlockIsRight(memory, b)'
    BY <1>1, <1>2, <1>3, <1>5, <2>1, <2>2 DEF BlockIsRight
  <2>4. QED
    BY <1>2, <1>5, <1>7, <2>1, <2>3, OneBlock
<1>10. QED
  BY <1>1, <1>8, <1>9

\* core.delete_area deletes a block, whoever works on it.
LEMMA DeleteKeepsMap ==
  ASSUME TypeOK, MapInv, DeleteBlock
  PROVE  MapInv'
<1>1. PICK b \in Block :
        /\ stored' = [stored EXCEPT ![b] = None] /\ memory' = [memory EXCEPT ![b] = None]
        /\ latest' = [latest EXCEPT ![b] = {}]
        /\ disturbed' = disturbed \cup {q \in {b} : Makers(q) \cup Readers(q) # {}}
  BY DEF DeleteBlock
<1>2. UNCHANGED <<at, job>>
  BY DEF DeleteBlock
<1>3. Makers(b)' = Makers(b) /\ Readers(b)' = Readers(b)
  BY <1>2 DEF Makers, Readers, Making, AreaOf
<1>4. \A q \in Block \ {b} :
        /\ memory'[q] = memory[q] /\ stored'[q] = stored[q] /\ latest'[q] = latest[q]
        /\ q \in disturbed' <=> q \in disturbed
  BY <1>1 DEF TypeOK
<1>5. /\ stored'[b] = None /\ memory'[b] = None /\ latest'[b] = {}
      /\ None # Unreadable /\ None \notin Row
      /\ b \notin disturbed' => Makers(b) = {} /\ Readers(b) = {}
  BY <1>1, MapAssumption DEF TypeOK
<1>6. BlockIsRight(memory, b)'
  BY <1>3, <1>5 DEF BlockIsRight
<1>7. ASSUME NEW t \in Thread
      PROVE  WorkIsRight(t, b)'
  BY <1>3, <1>5 DEF WorkIsRight
<1>8. QED
  BY <1>2, <1>4, <1>6, <1>7, OneBlock

\* What is in memory, in the database and on its way agrees at the start,
LEMMA MapInit ==
  Init => MapInv
<1> SUFFICES ASSUME Init, NEW b \in Block
             PROVE  BlockIsRight(memory, b) /\ \A t \in Thread : WorkIsRight(t, b)
  BY DEF MapInv
<1>1. Makers(b) = {} /\ Readers(b) = {}
  BY DEF Init, Makers, Readers, Making
<1>2. QED
  BY <1>1 DEF Init, BlockIsRight, WorkIsRight

\* and after every step.
LEMMA MapStep ==
  ASSUME TypeOK, CallsAreRight, MapInv, [Next]_vars
  PROVE  MapInv'
<1>1. CASE UNCHANGED <<at, job, memory, stored, latest, disturbed>>
  <2>1. \A q : Makers(q)' = Makers(q) /\ Readers(q)' = Readers(q)
    BY <1>1 DEF Makers, Readers, Making, AreaOf
  <2>2. QED
    BY <1>1, <2>1 DEF MapInv, BlockIsRight, WorkIsRight
<1>2. ASSUME NEW t \in Thread,
             Take(t) \/ Sleep(t) \/ Wake(t) \/ RunCallback(t) \/ AllAnswered(t)
             \/ LeaveLoop(t) \/ CancelPendingItems(t) \/ CancelNext(t) \/ EndThread(t)
      PROVE  MapInv'
  <2>1. UNCHANGED <<memory, stored, latest, disturbed>>
    BY <1>2 DEF Take, Sleep, Wake, RunCallback, AllAnswered, LeaveLoop, CancelPendingItems,
       CancelNext, EndThread, mapVars, historyVars
  <2>2. \A u \in Thread \ {t} : at'[u] = at[u]
    BY <1>2 DEF Take, Sleep, Wake, RunCallback, AllAnswered, LeaveLoop, CancelPendingItems,
       CancelNext, EndThread, Goto, TypeOK
  <2>3. \A u \in Thread \ {t} : job'[u] = job[u]
    BY <1>2 DEF Take, Sleep, Wake, RunCallback, AllAnswered, LeaveLoop, CancelPendingItems,
       CancelNext, EndThread, TypeOK
  <2>4. at[t] \notin {"make", "again"} /\ at'[t] \notin {"make", "again"}
    BY <1>2 DEF Take, Sleep, Wake, RunCallback, AllAnswered, LeaveLoop, CancelPendingItems,
       CancelNext, EndThread, Goto, TypeOK
  <2>5. QED
    BY <2>1, <2>2, <2>3, <2>4, MapFrame
<1>3. CASE \E t \in Thread : Decide(t) \/ DecideAgain(t)
  BY <1>3, DecideKeepsMap
<1>4. CASE \E t \in Thread : Read(t)
  BY <1>4, ReadKeepsMap
<1>5. CASE \E t \in Thread : FinishMake(t) \/ FailMake(t)
  BY <1>5, MakeKeepsMap
<1>6. CASE EditBlock \/ LoadBlock \/ SaveBlock \/ UnloadBlock \/ DeleteBlock
  BY <1>6, EditKeepsMap, LoadKeepsMap, SaveKeepsMap, DeleteKeepsMap
<1>7. CASE (\E a \in Actor : Enqueue(a)) \/ Ask \/ Shutdown
  BY <1>1, <1>7 DEF Enqueue, Ask, Shutdown, StopServer, StopThreads, mapVars, historyVars
<1>8. CASE UNCHANGED vars
  BY <1>1, <1>8 DEF vars
<1>9. QED
  BY <1>2, <1>3, <1>4, <1>5, <1>6, <1>7, <1>8 DEF Next, EmergeThread, ServerThread

-----------------------------------------------------------------------------
(* The inductive invariant, and what follows from it.                      *)

\* It holds at the start: nothing waits, nobody works.
LEMMA InitInv ==
  Init => IInv
<1> SUFFICES ASSUME Init PROVE IInv
  OBVIOUS
<1>1. Enqueued = {} /\ \A t \in Thread : queue[t] = <<>> /\ job[t].calls = {} /\ at[t] = "loop"
  BY DEF Init, Enqueued, Idle
<1>2. QueueIsRight
  BY <1>1 DEF QueueIsRight
<1>3. CountIsRight
  BY <1>1, FS_EmptySet DEF Init, CountIsRight, Charged
<1>4. CallsAreRight
  BY <1>1 DEF CallsAreRight
<1>5. OnePlace
  BY <1>1 DEF Init, OnePlace
<1>6. QED
  BY <1>2, <1>3, <1>4, <1>5, TypesInit, LocksInit, MapInit DEF IInv

\* Every step keeps it.
LEMMA StepInv ==
  IInv /\ [Next]_vars => IInv'
BY TypesStep, LocksStep, QueueStep, PlacesStep, MapStep DEF IInv

\* IInv holds in every state of every behaviour.
THEOREM Invariant ==
  Spec => []IInv
BY InitInv, StepInv, PTL DEF Spec

\* Every variable keeps to its set.
THEOREM TypeCorrect ==
  Spec => []TypeOK
<1>1. IInv => TypeOK
  BY DEF IInv
<1>2. QED
  BY <1>1, Invariant, PTL

\* The server and the emerge threads never wait for each other in a circle, unless an
\* unreadable block has ended a thread or Lua code asks for blocks while threads are
\* cancelled: m_env_mutex and m_queue_mutex are taken in both orders.
THEOREM NoCircularWait ==
  Spec => []NoDeadlock
<1>1. ASSUME TypeOK, LocksAreRight, Deadlocked, died = {}
      PROVE  \E t \in Thread : wants[t] # None
  <2>1. PICK a \in Actor, u \in Actor : Waits(a, u) /\ Waits(u, a)
    BY <1>1 DEF Deadlocked
  <2>2. \A b \in Actor : queue_lock = b => b \in Thread
    BY <1>1, Actors DEF TypeOK
  <2>3. \A t \in Thread : at[t] = "cancelling" => server = "stopping"
    BY <1>1 DEF LocksAreRight, Ending
  <2>4. \A b \in Actor : wants[b] # None /\ server = "stopping" => b \in Thread
    BY <1>1, Actors DEF LocksAreRight
  <2>5. CASE wants[a] # None /\ queue_lock = u /\ wants[u] # None
    BY <2>2, <2>5
  <2>6. CASE a \in Thread /\ at[a] = "cancelling" /\ env = u
    BY <1>1, <2>3, <2>4, <2>6 DEF LocksAreRight
  <2>7. CASE u \in Thread /\ at[u] = "cancelling" /\ env = a
    BY <1>1, <2>3, <2>4, <2>7 DEF LocksAreRight
  <2>8. QED
    BY <2>1, <2>5, <2>6, <2>7 DEF Waits
<1>2. IInv => NoDeadlock
  BY <1>1 DEF IInv, NoDeadlock
<1>3. QED
  BY <1>2, Invariant, PTL

\* How many there are when there are not two.
LEMMA AtMostOne ==
  ASSUME NEW S, \A x, y \in S : x = y
  PROVE  Cardinality(S) = IF S = {} THEN 0 ELSE 1
<1>1. CASE S = {}
  BY <1>1, FS_EmptySet
<1>2. CASE S # {}
  <2>1. PICK x : S = {x}
    BY <1>2
  <2>2. QED
    BY <1>2, <2>1, FS_Singleton
<1>3. QED
  BY <1>1, <1>2

\* No queue is longer than there are blocks.
LEMMA QueueIsShort ==
  ASSUME TypeOK, QueueIsRight, NEW t \in Thread
  PROVE  Len(queue[t]) <= Cardinality(Block)
<1>1. PICK s \in Seq(Block) : s = queue[t]
  BY DEF TypeOK
<1>2. \A n, m \in 1 .. Len(s) : s[n] = s[m] => n = m
  BY <1>1 DEF QueueIsRight
<1>3. s \in Injection(1 .. Len(s), Block)
  BY <1>2 DEF Injection, IsInjective
<1>4. Cardinality(1 .. Len(s)) = Len(s)
  <2>1. PICK n \in Nat : n = Len(s)
    OBVIOUS
  <2>2. Cardinality(1 .. n) = IF 1 > n THEN 0 ELSE n - 1 + 1
    BY FS_Interval
  <2>3. QED
    BY <2>1, <2>2
<1>5. QED
  BY <1>1, <1>3, <1>4, FS_Injection, MapAssumption

\* Entries, queues and the accounts of the peers agree.
THEOREM EntriesAreQueuedOnce ==
  Spec => []QueueIsShared
<1>1. ASSUME TypeOK, QueueIsRight, CountIsRight
      PROVE  QueueIsShared
  <2>1. ASSUME NEW b \in Block
        PROVE  Cardinality({p \in Thread \X (1..Cardinality(Block)) :
                              p[2] <= Len(queue[p[1]]) /\ queue[p[1]][p[2]] = b})
                 = (IF b \in Enqueued THEN 1 ELSE 0)
    <3> DEFINE places == {p \in Thread \X (1..Cardinality(Block)) :
                            p[2] <= Len(queue[p[1]]) /\ queue[p[1]][p[2]] = b}
    <3>1. \A t \in Thread : DOMAIN queue[t] = 1 .. Len(queue[t]) /\ Len(queue[t]) \in Nat
      BY <1>1 DEF TypeOK
    <3>2. Cardinality(Block) \in Nat
      BY FS_CardinalityType, MapAssumption
    <3>3. \A p \in places : p[1] \in Thread /\ p[2] \in DOMAIN queue[p[1]]
                            /\ queue[p[1]][p[2]] = b /\ p = <<p[1], p[2]>>
      BY <3>1, <3>2
    <3>4. \A p, q \in places : p = q
      BY <1>1, <3>3 DEF QueueIsRight
    <3>5. places # {} <=> b \in Enqueued
      <4>1. ASSUME places # {}
            PROVE  b \in Enqueued
        BY <1>1, <3>3, <4>1 DEF QueueIsRight
      <4>2. ASSUME b \in Enqueued
            PROVE  places # {}
        <5>1. PICK t \in Thread : \E n \in DOMAIN queue[t] : queue[t][n] = b
          BY <1>1, <4>2 DEF QueueIsRight
        <5>2. PICK n \in DOMAIN queue[t] : queue[t][n] = b
          BY <5>1
        <5>3. n \in 1 .. Cardinality(Block) /\ n <= Len(queue[t])
          BY <1>1, <3>1, <3>2, QueueIsShort
        <5>4. <<t, n>> \in places
          BY <5>2, <5>3
        <5>5. QED
          BY <5>4
      <4>3. QED
        BY <4>1, <4>2
    <3> HIDE DEF places
    <3>6. Cardinality(places) = IF b \in Enqueued THEN 1 ELSE 0
      BY <3>4, <3>5, AtMostOne
    <3>7. QED
      BY <3>6 DEF places
  <2>2. ASSUME NEW p \in Peer \cup {None}
        PROVE  count[p] = Cardinality({b \in Enqueued : enqueued[b].peer = p})
    BY <1>1 DEF CountIsRight, Charged
  <2>3. QED
    BY <2>1, <2>2 DEF QueueIsShared
<1>2. IInv => QueueIsShared
  BY <1>1 DEF IInv
<1>3. QED
  BY <1>2, Invariant, PTL

\* A callback of core.emerge_area is in one place from the call until it runs or is
\* dropped with a block over the limit or the end of a thread.
THEOREM CallbacksHaveOnePlace ==
  Spec => []CallbacksConserved
<1>1. ASSUME TypeOK, LocksAreRight, CallsAreRight, OnePlace
      PROVE  CallbacksConserved
  <2>1. ASSUME NEW r \in asked, r.lua
        PROVE  Cardinality(Wishing(r)) + Cardinality(Waiting(r)) + Cardinality(Working(r))
               + Cardinality(Settled(r)) = 1
    <3>1. r # None
      BY <1>1, MapAssumption DEF TypeOK
    <3>2. /\ \A a, b \in Wishing(r) : a = b
          /\ \A a, b \in Waiting(r) : a = b
          /\ \A a, b \in Working(r) : a = b
          /\ \A a, b \in Settled(r) : a = b
      <4>1. \A a, b \in Wishing(r) : a = b
        BY <1>1, <3>1 DEF Wishing, LocksAreRight
      <4>2. \A a, b \in Waiting(r) : a = b
        BY <1>1 DEF Waiting, CallsAreRight
      <4>3. \A a, b \in Working(r) : a = b
        BY <1>1, <2>1 DEF OnePlace
      <4>4. \A a, b \in Settled(r) : a = b
        BY <1>1, <2>1 DEF OnePlace, Settled
      <4>5. QED
        BY <4>1, <4>2, <4>3, <4>4
    <3>3. /\ Cardinality(Wishing(r)) = IF Wishing(r) = {} THEN 0 ELSE 1
          /\ Cardinality(Waiting(r)) = IF Waiting(r) = {} THEN 0 ELSE 1
          /\ Cardinality(Working(r)) = IF Working(r) = {} THEN 0 ELSE 1
          /\ Cardinality(Settled(r)) = IF Settled(r) = {} THEN 0 ELSE 1
      BY <3>2, AtMostOne
    <3>4. Settled(r) # {} <=> r \in ran \cup dropped
      BY DEF Settled
    <3>5. /\ \/ Wishing(r) # {}
             \/ Waiting(r) # {}
             \/ Working(r) # {}
             \/ Settled(r) # {}
          /\ Wishing(r) # {} => Waiting(r) = {} /\ Working(r) = {} /\ Settled(r) = {}
          /\ Waiting(r) # {} => Working(r) = {} /\ Settled(r) = {}
          /\ Working(r) # {} => Settled(r) = {}
      BY <1>1, <2>1, <3>4 DEF OnePlace
    <3>6. QED
      BY <3>3, <3>5
  <2>2. died = {} => \A r \in dropped : r.block \in Over
    BY <1>1 DEF OnePlace
  <2>3. QED
    BY <2>1, <2>2 DEF CallbacksConserved, Wishing, Waiting, Working, Settled
<1>2. IInv => CallbacksConserved
  BY <1>1 DEF IInv
<1>3. QED
  BY <1>2, Invariant, PTL

\* The blocks of a chunk that is made stay in memory, referenced by its makers and by
\* nobody else, whatever is unloaded meanwhile.
THEOREM AreasStayGrabbed ==
  Spec => []GrabbedWhileMade
<1>1. IInv => GrabbedWhileMade
  BY DEF IInv, MapInv, BlockIsRight, GrabbedWhileMade
<1>2. QED
  BY <1>1, Invariant, PTL

\* Blocks show the latest changes, through generation, loading and unloading.
THEOREM LatestChangesShow ==
  Spec => []LatestIsKept
<1>1. IInv => LatestIsKept
  BY DEF IInv, MapInv, BlockIsRight, LatestIsKept
<1>2. QED
  BY <1>1, Invariant, PTL
=============================================================================
