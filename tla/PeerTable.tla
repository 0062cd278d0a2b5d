----------------------------- MODULE PeerTable -----------------------------
(***************************************************************************)
(* How con::Connection (src/network/mtp/impl.cpp) keeps its peers while    *)
(* three threads use them: ConnectionReceiveThread creates peers and       *)
(* removes those that say DISCO, ConnectionSendThread removes those that   *)
(* timed out, and the server thread asks for addresses and statistics and  *)
(* handles the events the other two queue.  A thread uses a peer through a *)
(* PeerHelper, which counts; deletePeer() takes the peer out of m_peers,   *)
(* queues PEER_REMOVED and drops it; whoever brings the count of a dropped *)
(* peer to zero deletes it.  Every step here is one critical section, or   *)
(* what a thread does between two of them.                                 *)
(*                                                                         *)
(* Left out: half-open peers and the contents of messages.  A scan of the  *)
(* sender condemns any peer it likes: it may have timed out, or the server *)
(* may have asked for its removal.                                         *)
(***************************************************************************)
EXTENDS Naturals, Sequences, FiniteSets, Null

CONSTANTS
    Ids,            \* the values of session_t that createPeer draws from
    PeerObjects,    \* the UDPPeer objects that are ever made
    Addresses,      \* where packets come from
    MaxEvents       \* bound: data is delivered while fewer events are queued

PeerTableAssumption ==
    /\ None \notin Ids \union PeerObjects \union Addresses
    /\ MaxEvents \in Nat

Threads == {"receiver", "sender", "server"}

VARIABLES
    peers,      \* m_peers
    obj,        \* the objects
    at,         \* where each thread is
    held,       \* the peer of its PeerHelper
    victim,     \* the peer deletePeer() took out, or the one to be deleted
    packet,     \* receive(): peer_id and sender of the packet in hand
    doomed,     \* runTimeouts(): timeouted_peers; sendPackets(): pendingDisconnect
    events,     \* m_event_queue
    clients,    \* ClientInterface::m_clients, each with its peer's address
    reused      \* history: a peer got an id that something else still referred to

tableVars == <<peers, obj, at, held, victim, packet, doomed, events, clients, reused>>

Object ==
    [id : Ids \union {None}, addr : Addresses \union {None}, usage : Nat,
     pending : BOOLEAN, life : {"unborn", "live", "deleted"}]

Event == [kind : {"added", "removed", "data"}, id : Ids, addr : Addresses]

Locations ==
    {"idle", "lookup", "held", "deliver", "leaving",
     "erased", "posted", "sweep", "delete"}

TableTypeOK ==
    /\ peers \in [Ids -> PeerObjects \union {None}]
    /\ obj \in [PeerObjects -> Object]
    /\ at \in [Threads -> Locations]
    /\ held \in [Threads -> PeerObjects \union {None}]
    /\ victim \in [Threads -> PeerObjects \union {None}]
    /\ packet \in [id : Ids \union {None}, addr : Addresses \union {None}]
    /\ doomed \subseteq Ids
    /\ events \in Seq(Event)
    /\ clients \in [Ids -> Addresses \union {None}]
    /\ reused \in BOOLEAN

NoPacket == [id |-> None, addr |-> None]

TableInit ==
    /\ peers = [i \in Ids |-> None]
    /\ obj = [p \in PeerObjects |-> [id |-> None, addr |-> None, usage |-> 0,
                               pending |-> FALSE, life |-> "unborn"]]
    /\ at = [t \in Threads |-> "idle"]
    /\ held = [t \in Threads |-> None]
    /\ victim = [t \in Threads |-> None]
    /\ packet = NoPacket
    /\ doomed = {}
    /\ events = <<>>
    /\ clients = [i \in Ids |-> None]
    /\ reused = FALSE

Goto(t, place) == at' = [at EXCEPT ![t] = place]

\* The sender goes through all condemned ids before it scans again.
Home(t, remaining) ==
    IF t = "sender" /\ remaining # {} THEN "sweep" ELSE "idle"

\* What still refers to an id besides m_peers.
Lingers(i) ==
    \/ i \in doomed
    \/ clients[i] # None
    \/ \E t \in Threads : victim[t] # None /\ obj[victim[t]].id = i
    \/ \E n \in DOMAIN events : events[n].id = i

-----------------------------------------------------------------------------
(* PeerHelper.                                                             *)

\* Fault: the helper does not count.
AcquireUncounted(t, i) ==
    /\ peers[i] # None
    /\ held' = [held EXCEPT ![t] = peers[i]]
    /\ obj' = obj

\* getPeerNoEx: the lookup and IncUseCount() are under m_peers_mutex.  Nothing in the
\* map is pending, so the helper takes it.
Acquire(t, i) ==
    /\ peers[i] # None
    /\ held' = [held EXCEPT ![t] = peers[i]]
    /\ obj' = [obj EXCEPT ![peers[i]].usage = @ + 1]

\* ~PeerHelper: DecUseCount() gives the lock back before it deletes the peer.
Release(t) ==
    LET p == held[t]
        last == obj[p].pending /\ obj[p].usage = 1
    IN
    /\ p # None
    /\ at[t] \in {"held", "leaving"}
    /\ t = "receiver" => at[t] = "leaving"
    /\ obj' = [obj EXCEPT ![p].usage = @ - 1]
    /\ held' = [held EXCEPT ![t] = None]
    /\ victim' = [victim EXCEPT ![t] = IF last THEN p ELSE None]
    /\ Goto(t, IF last THEN "delete" ELSE "idle")
    /\ packet' = IF t = "receiver" THEN NoPacket ELSE packet
    /\ UNCHANGED <<peers, doomed, events, clients, reused>>

\* `delete this', at the end of DecUseCount() or of Drop().
Delete(t) ==
    /\ at[t] = "delete"
    /\ obj' = [obj EXCEPT ![victim[t]].life = "deleted"]
    /\ victim' = [victim EXCEPT ![t] = None]
    /\ Goto(t, Home(t, doomed))
    /\ UNCHANGED <<peers, held, packet, doomed, events, clients, reused>>

-----------------------------------------------------------------------------
(* deletePeer(), by the receiver for the peer it holds and by the sender   *)
(* for an id it condemned.                                                 *)

Erase(t, i) ==
    /\ \/ t = "receiver" /\ at[t] = "held" /\ i = obj[held[t]].id /\ doomed' = doomed
       \/ t = "sender" /\ at[t] \in {"idle", "sweep"} /\ i \in doomed /\ doomed' = doomed \ {i}
    /\ IF peers[i] = None
       THEN /\ Goto(t, IF held[t] = None THEN Home(t, doomed') ELSE "leaving")
            /\ UNCHANGED <<peers, victim>>
       ELSE /\ victim' = [victim EXCEPT ![t] = peers[i]]
            /\ peers' = [peers EXCEPT ![i] = None]
            /\ Goto(t, "erased")
    /\ UNCHANGED <<obj, held, packet, events, clients, reused>>

Post(t) ==
    LET p == obj[victim[t]]
    IN
    /\ at[t] = "erased"
    /\ events' = Append(events, [kind |-> "removed", id |-> p.id, addr |-> p.addr])
    /\ Goto(t, "posted")
    /\ UNCHANGED <<peers, obj, held, victim, packet, doomed, clients, reused>>

\* Fault: Drop() deletes the peer whoever uses it.
DropAtOnce(t) ==
    LET p == victim[t]
    IN
    /\ at[t] = "posted"
    /\ obj' = [obj EXCEPT ![p].pending = TRUE]
    /\ Goto(t, "delete")
    /\ UNCHANGED <<peers, held, victim, packet, doomed, events, clients, reused>>

\* Drop(): the last helper deletes the peer when it is in use.
Drop(t) ==
    LET p == victim[t]
        unused == obj[p].usage = 0
    IN
    /\ at[t] = "posted"
    /\ obj' = [obj EXCEPT ![p].pending = TRUE]
    /\ victim' = [victim EXCEPT ![t] = IF unused THEN p ELSE None]
    /\ Goto(t, IF unused THEN "delete"
               ELSE IF held[t] # None THEN "leaving" ELSE Home(t, doomed))
    /\ UNCHANGED <<peers, held, packet, doomed, events, clients, reused>>

-----------------------------------------------------------------------------
(* ConnectionReceiveThread::receive.                                       *)

\* createPeer, all under m_peers_mutex: an id that is not in m_peers, and the event.
CreatePeer(p, i, a) ==
    /\ obj[p].life = "unborn"
    /\ peers[i] = None
    /\ reused' = (reused \/ Lingers(i))
    /\ obj' = [obj EXCEPT ![p].id = i, ![p].addr = a, ![p].life = "live"]
    /\ peers' = [peers EXCEPT ![i] = p]
    /\ events' = Append(events, [kind |-> "added", id |-> i, addr |-> a])
    /\ packet' = [id |-> i, addr |-> a]

\* A packet without an id belongs to the peer at its address (lookupPeer), or to a new
\* one; a packet with an id belongs to that peer.
Identify(a, claimed) ==
    LET known == {i \in Ids : peers[i] # None /\ obj[peers[i]].addr = a}
    IN
    /\ at["receiver"] = "idle"
    /\ \/ /\ claimed # None
          /\ packet' = [id |-> claimed, addr |-> a]
          /\ UNCHANGED <<peers, obj, events, reused>>
       \/ /\ claimed = None /\ known # {}
          /\ \E i \in known : packet' = [id |-> i, addr |-> a]
          /\ UNCHANGED <<peers, obj, events, reused>>
       \/ /\ claimed = None /\ known = {}
          /\ \E p \in PeerObjects, i \in Ids : CreatePeer(p, i, a)
    /\ Goto("receiver", "lookup")
    /\ UNCHANGED <<held, victim, doomed, clients>>

\* Fault: whoever knows the id is taken for the peer.
LookupAnyAddress ==
    /\ at["receiver"] = "lookup"
    /\ IF peers[packet.id] = None
       THEN Goto("receiver", "idle") /\ packet' = NoPacket /\ UNCHANGED <<obj, held>>
       ELSE Acquire("receiver", packet.id) /\ Goto("receiver", "held") /\ packet' = packet
    /\ UNCHANGED <<peers, victim, doomed, events, clients, reused>>

\* The packet is ignored unless its peer is there and has the packet's address.
Lookup ==
    /\ at["receiver"] = "lookup"
    /\ IF peers[packet.id] = None
       THEN Goto("receiver", "idle") /\ packet' = NoPacket /\ UNCHANGED <<obj, held>>
       ELSE /\ Acquire("receiver", packet.id)
            /\ Goto("receiver", IF obj[peers[packet.id]].addr = packet.addr
                                THEN "held" ELSE "leaving")
            /\ packet' = packet
    /\ UNCHANGED <<peers, victim, doomed, events, clients, reused>>

\* processPacket looks the id up again, and throws when the peer is gone by now.
ProcessPacket ==
    /\ at["receiver"] = "held"
    /\ Goto("receiver",
            IF peers[obj[held["receiver"]].id] = None THEN "leaving" ELSE "deliver")
    /\ UNCHANGED <<peers, obj, held, victim, packet, doomed, events, clients, reused>>

\* The data is queued when processPacket is done with it.
Deliver ==
    /\ at["receiver"] = "deliver"
    /\ events' = IF Len(events) < MaxEvents
                 THEN Append(events, [kind |-> "data", id |-> packet.id, addr |-> packet.addr])
                 ELSE events        \* data that makes no event, such as an ACK
    /\ Goto("receiver", "leaving")
    /\ UNCHANGED <<peers, obj, held, victim, packet, doomed, clients, reused>>

-----------------------------------------------------------------------------
(* ConnectionSendThread: runTimeouts and sendPackets.                      *)

Scan(i) ==
    /\ at["sender"] = "idle"
    /\ Acquire("sender", i)
    /\ Goto("sender", "held")
    /\ UNCHANGED <<peers, victim, packet, doomed, events, clients, reused>>

Condemn ==
    /\ at["sender"] = "held"
    /\ doomed' = doomed \union {obj[held["sender"]].id}
    /\ Goto("sender", "leaving")
    /\ UNCHANGED <<peers, obj, held, victim, packet, events, clients, reused>>

-----------------------------------------------------------------------------
(* The server thread.                                                      *)

\* GetPeerAddress, getPeerStat.
Query(i) ==
    /\ at["server"] = "idle"
    /\ Acquire("server", i)
    /\ Goto("server", "held")
    /\ UNCHANGED <<peers, victim, packet, doomed, events, clients, reused>>

\* peerAdded() and CreateClient(), which keeps a client that exists; deletingPeer() and
\* DeleteClient(); data leaves the set of clients as it is.
ClientAfter(e) ==
    CASE e.kind = "added" -> IF clients[e.id] = None THEN e.addr ELSE clients[e.id]
      [] e.kind = "removed" -> None
      [] e.kind = "data" -> clients[e.id]

ReceiveEvent ==
    /\ at["server"] = "idle"
    /\ events # <<>>
    /\ clients' = [clients EXCEPT ![Head(events).id] = ClientAfter(Head(events))]
    /\ events' = Tail(events)
    /\ UNCHANGED <<peers, obj, at, held, victim, packet, doomed, reused>>

-----------------------------------------------------------------------------
TableNext ==
    \/ \E t \in Threads : Release(t) \/ Delete(t) \/ Post(t) \/ Drop(t)
    \/ \E t \in Threads, i \in Ids : Erase(t, i)
    \/ \E a \in Addresses, claimed \in Ids \union {None} : Identify(a, claimed)
    \/ Lookup
    \/ ProcessPacket
    \/ Deliver
    \/ \E i \in Ids : Scan(i)
    \/ Condemn
    \/ \E i \in Ids : Query(i)
    \/ ReceiveEvent

TableSpec == TableInit /\ [][TableNext]_tableVars

-----------------------------------------------------------------------------
\* Nobody touches a deleted peer: what a thread holds, what deletePeer() has in hand
\* and what m_peers lists is alive, although deletePeer() itself holds no helper
\* between the erasure and Drop() (impl.cpp:1383).
NoUseAfterFree ==
    /\ \A t \in Threads :
           /\ held[t] # None => obj[held[t]].life = "live"
           /\ victim[t] # None => obj[victim[t]].life = "live"
    /\ \A i \in Ids : peers[i] # None => obj[peers[i]].life = "live"

\* A peer that is about to be deleted is nobody else's: Drop() and the last
\* DecUseCount() never both delete it, and its destructor, which stops the program when
\* the count is not zero, finds zero (impl.cpp:876, 955; impl.h:100).  And a dropped peer is
\* in somebody's hands until it is deleted: one that nobody held, or that the last helper
\* let go, would never be.
DeletedOnce ==
    /\ \A t \in Threads : at[t] = "delete" =>
           /\ obj[victim[t]].usage = 0
           /\ \A u \in Threads \ {t} : victim[t] \notin {held[u], victim[u]}
    /\ \A p \in PeerObjects : (obj[p].pending /\ obj[p].life = "live") =>
           \E t \in Threads : p \in {held[t], victim[t]}

\* A peer lives until its last use and no longer.
PeersOutliveTheirUse == NoUseAfterFree /\ DeletedOnce

\* When no event is queued and no removal is under way, the server has a client for
\* exactly the peers of the connection, at their addresses, unless an id was given
\* again too early (server.cpp:1419, 1426).
ClientsMirrorPeers ==
    (~ reused /\ events = <<>> /\ \A t \in Threads : at[t] # "erased") =>
        \A i \in Ids :
            clients[i] = IF peers[i] = None THEN None ELSE obj[peers[i]].addr

\* Data is handled in the session of the peer that sent it, or in none: whatever id its
\* packet claims, and also when it is queued behind the removal of its peer
\* (threads.cpp:1033, 1084).
DataInItsSession ==
    (~ reused /\ events # <<>> /\ Head(events).kind = "data") =>
        clients[Head(events).id] \in {None, Head(events).addr}

\* What the server knows follows what the connection does.
SessionsFollowPeers == ClientsMirrorPeers /\ DataInItsSession
=============================================================================
