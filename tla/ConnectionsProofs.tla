-------------------------- MODULE ConnectionsProofs --------------------------
(***************************************************************************)
(* Proofs about the server's end of its connections.                       *)
(*                                                                         *)
(* PeerTable, for any number of ids, peer objects and addresses: what the  *)
(* three threads do to a peer they share, and what the server thread       *)
(* learns of it.  ClientSession, whatever packets peers send, in whatever  *)
(* order, and however many peers, names and passwords there are.  The two  *)
(* share nothing; they are in one module since one run checks both.        *)
(***************************************************************************)
EXTENDS MCConnections, FiniteSetTheorems, SequenceTheorems, WellFoundedInduction, TLAPS

-----------------------------------------------------------------------------
(* PeerTable: the inductive invariant.                                     *)

\* How often thread t counts in the usage of p.
Counts(t, p) == IF held[t] = p THEN 1 ELSE 0

\* The count of a peer is the number of helpers on it.
UsageIsRight ==
    \A p \in PeerObjects :
        obj[p].usage = Counts("receiver", p) + Counts("sender", p) + Counts("server", p)

\* A peer of the map is alive, not dropped, and listed under its id.
ListedAreLive ==
    \A i \in Ids : peers[i] # None =>
        /\ obj[peers[i]].life = "live" /\ ~ obj[peers[i]].pending
        /\ obj[peers[i]].id = i

\* A peer that was made has an id and an address; only such a peer is dropped.
MadeOnesAreKnown ==
    \A p \in PeerObjects :
        /\ obj[p].life # "unborn" => obj[p].id \in Ids /\ obj[p].addr \in Addresses
        /\ obj[p].pending => obj[p].life # "unborn"

\* What a thread holds, and what deletePeer() has in hand, by where the thread is.
HandIsRight(t) ==
    /\ held[t] # None <=>
           \/ at[t] \in {"held", "deliver", "leaving"}
           \/ t = "receiver" /\ at[t] \in {"erased", "posted"}
    /\ victim[t] # None <=> at[t] \in {"erased", "posted", "delete"}
    /\ held[t] # None => obj[held[t]].life = "live"
    /\ at[t] \in {"erased", "posted"} => t # "server" /\ ~ obj[victim[t]].pending
    /\ at[t] = "delete" => obj[victim[t]].pending /\ obj[victim[t]].usage = 0
    /\ at[t] \in {"lookup", "deliver"} => t = "receiver"
    /\ at[t] = "sweep" => t = "sender"

HandsAreRight == \A t \in Threads : HandIsRight(t)

\* What deletePeer() has in hand is in no other hand and in the map no longer.
VictimsAreApart ==
    \A t \in Threads : victim[t] # None =>
        /\ obj[victim[t]].life = "live"
        /\ \A i \in Ids : peers[i] # victim[t]
        /\ \A u \in Threads \ {t} : victim[u] # victim[t]

\* While the receiver holds a peer nobody gets the peer's id, and it deletes none but this.
ReceiverAlone ==
    held["receiver"] # None =>
        /\ peers[obj[held["receiver"]].id] \in {None, held["receiver"]}
        /\ at["receiver"] \in {"erased", "posted"} => victim["receiver"] = held["receiver"]

\* A dropped peer is in somebody's hands until it is deleted.
DroppedAreInHand ==
    \A p \in PeerObjects : obj[p].pending /\ obj[p].life = "live" =>
        \E t \in Threads : p \in {held[t], victim[t]}

\* The packet in hand is of somebody, and from the address of the peer it is processed for.
PacketIsRight ==
    /\ at["receiver"] \in {"lookup", "held", "deliver"} =>
           packet.id \in Ids /\ packet.addr \in Addresses
    /\ at["receiver"] \in {"held", "deliver"} =>
           /\ packet.id = obj[held["receiver"]].id
           /\ packet.addr = obj[held["receiver"]].addr

HandsInv ==
    /\ TableTypeOK /\ UsageIsRight /\ ListedAreLive /\ MadeOnesAreKnown /\ HandsAreRight
    /\ VictimsAreApart /\ ReceiverAlone /\ DroppedAreInHand /\ PacketIsRight

-----------------------------------------------------------------------------
\* A peer with id i has left the map and the server will be told.
Leaving(t, i) == at[t] = "erased" /\ obj[victim[t]].id = i

\* All that refers to id i means the peer at a.
HomeIs(i, a) ==
    /\ clients[i] # None => clients[i] = a
    /\ \A n \in DOMAIN events : events[n].id = i => events[n].addr = a
    /\ peers[i] # None => obj[peers[i]].addr = a
    /\ \A t \in Threads : Leaving(t, i) => obj[victim[t]].addr = a
    /\ held["receiver"] # None /\ obj[held["receiver"]].id = i => obj[held["receiver"]].addr = a

Queued(kind, i) == \E n \in DOMAIN events : events[n].kind = kind /\ events[n].id = i

\* A peer is present from its creation until its removal is queued.
Present(i) == peers[i] # None \/ \E t \in Threads : Leaving(t, i)

\* The server has a client of that id, or will have one.
Announced(i) == clients[i] # None \/ Queued("added", i)

\* An id has one peer,
OneHome == \A i \in Ids : \E a \in Addresses \union {None} : HomeIs(i, a)

\* which one thread takes away,
OneTakesAway ==
    \A i \in Ids, t \in Threads : Leaving(t, i) =>
        /\ peers[i] = None
        /\ \A u \in Threads : Leaving(u, i) => u = t

\* is announced before anything else is told of it,
AnnouncedFirst ==
    \A n \in DOMAIN events : events[n].kind = "added" =>
        /\ clients[events[n].id] = None
        /\ \A m \in DOMAIN events : events[m].id = events[n].id => n <= m

\* and is announced as long as it is present, and until its removal is told.
PresentAreAnnounced ==
    \A i \in Ids :
        /\ Present(i) => Announced(i) /\ ~ Queued("removed", i)
        /\ ~ Present(i) /\ Announced(i) => Queued("removed", i)

SessionInv ==
    ~ reused => OneHome /\ OneTakesAway /\ AnnouncedFirst /\ PresentAreAnnounced

TableInv == HandsInv /\ SessionInv

-----------------------------------------------------------------------------
(* The fields of an object.                                                *)

\* One object is another one.
LEMMA ObjectChanges ==
    ASSUME NEW f \in [PeerObjects -> Object], NEW p \in PeerObjects, NEW o \in Object
    PROVE  /\ [f EXCEPT ![p] = o] \in [PeerObjects -> Object] /\ [f EXCEPT ![p] = o][p] = o
           /\ \A q \in PeerObjects \ {p} : [f EXCEPT ![p] = o][q] = f[q]
OBVIOUS

\* The count changes.
LEMMA UsageChanges ==
    ASSUME TableTypeOK, NEW p \in PeerObjects, NEW u \in Nat, obj' = [obj EXCEPT ![p].usage = u]
    PROVE  /\ obj' \in [PeerObjects -> Object] /\ obj'[p].usage = u
           /\ \A q \in PeerObjects :
                  /\ obj'[q].id = obj[q].id /\ obj'[q].addr = obj[q].addr
                  /\ obj'[q].pending = obj[q].pending /\ obj'[q].life = obj[q].life
                  /\ q # p => obj'[q].usage = obj[q].usage
<1>1. obj \in [PeerObjects -> Object]
  BY DEF TableTypeOK
<1>2. obj[p] \in Object
  BY <1>1
<1>3. PICK o : o = [obj[p] EXCEPT !.usage = u]
  OBVIOUS
<1>4. /\ o \in Object /\ o.usage = u /\ o.id = obj[p].id /\ o.addr = obj[p].addr
      /\ o.pending = obj[p].pending /\ o.life = obj[p].life
  BY <1>2, <1>3 DEF Object
<1>5. obj' = [obj EXCEPT ![p] = o]
  BY <1>3
<1>6. /\ [obj EXCEPT ![p] = o] \in [PeerObjects -> Object] /\ [obj EXCEPT ![p] = o][p] = o
      /\ \A q \in PeerObjects \ {p} : [obj EXCEPT ![p] = o][q] = obj[q]
  <2>1. o \in Object
    BY <1>4
  <2>2. QED
    BY ONLY <1>1, <2>1, ObjectChanges
<1>7. QED
  BY <1>4, <1>5, <1>6

\* The peer is dropped.
LEMMA PendingChanges ==
    ASSUME TableTypeOK, NEW p \in PeerObjects, obj' = [obj EXCEPT ![p].pending = TRUE]
    PROVE  /\ obj' \in [PeerObjects -> Object] /\ obj'[p].pending
           /\ \A q \in PeerObjects :
                  /\ obj'[q].id = obj[q].id /\ obj'[q].addr = obj[q].addr
                  /\ obj'[q].usage = obj[q].usage /\ obj'[q].life = obj[q].life
                  /\ q # p => obj'[q].pending = obj[q].pending
<1>1. obj \in [PeerObjects -> Object]
  BY DEF TableTypeOK
<1>2. obj[p] \in Object
  BY <1>1
<1>3. PICK o : o = [obj[p] EXCEPT !.pending = TRUE]
  OBVIOUS
<1>4. /\ o \in Object /\ o.usage = obj[p].usage /\ o.id = obj[p].id /\ o.addr = obj[p].addr
      /\ o.pending /\ o.life = obj[p].life
  BY <1>2, <1>3 DEF Object
<1>5. obj' = [obj EXCEPT ![p] = o]
  BY <1>3
<1>6. /\ [obj EXCEPT ![p] = o] \in [PeerObjects -> Object] /\ [obj EXCEPT ![p] = o][p] = o
      /\ \A q \in PeerObjects \ {p} : [obj EXCEPT ![p] = o][q] = obj[q]
  <2>1. o \in Object
    BY <1>4
  <2>2. QED
    BY ONLY <1>1, <2>1, ObjectChanges
<1>7. QED
  BY <1>4, <1>5, <1>6

\* The peer is deleted.
LEMMA LifeChanges ==
    ASSUME TableTypeOK, NEW p \in PeerObjects, obj' = [obj EXCEPT ![p].life = "deleted"]
    PROVE  /\ obj' \in [PeerObjects -> Object] /\ obj'[p].life = "deleted"
           /\ \A q \in PeerObjects :
                  /\ obj'[q].id = obj[q].id /\ obj'[q].addr = obj[q].addr
                  /\ obj'[q].usage = obj[q].usage /\ obj'[q].pending = obj[q].pending
                  /\ q # p => obj'[q].life = obj[q].life
<1>1. obj \in [PeerObjects -> Object]
  BY DEF TableTypeOK
<1>2. obj[p] \in Object
  BY <1>1
<1>3. PICK o : o = [obj[p] EXCEPT !.life = "deleted"]
  OBVIOUS
<1>4. /\ o \in Object /\ o.usage = obj[p].usage /\ o.id = obj[p].id /\ o.addr = obj[p].addr
      /\ o.pending = obj[p].pending /\ o.life = "deleted"
  BY <1>2, <1>3 DEF Object
<1>5. obj' = [obj EXCEPT ![p] = o]
  BY <1>3
<1>6. /\ [obj EXCEPT ![p] = o] \in [PeerObjects -> Object] /\ [obj EXCEPT ![p] = o][p] = o
      /\ \A q \in PeerObjects \ {p} : [obj EXCEPT ![p] = o][q] = obj[q]
  <2>1. o \in Object
    BY <1>4
  <2>2. QED
    BY ONLY <1>1, <2>1, ObjectChanges
<1>7. QED
  BY <1>4, <1>5, <1>6

\* The peer is made.
LEMMA MakingChanges ==
    ASSUME TableTypeOK, NEW p \in PeerObjects, NEW i \in Ids, NEW a \in Addresses,
           obj' = [obj EXCEPT ![p].id = i, ![p].addr = a, ![p].life = "live"]
    PROVE  /\ obj' \in [PeerObjects -> Object] /\ obj'[p].life = "live"
           /\ obj'[p].id = i /\ obj'[p].addr = a
           /\ \A q \in PeerObjects :
                  /\ q # p => obj'[q] = obj[q]
                  /\ obj'[q].usage = obj[q].usage /\ obj'[q].pending = obj[q].pending
<1>1. obj \in [PeerObjects -> Object]
  BY DEF TableTypeOK
<1>2. obj[p] \in Object
  BY <1>1
<1>3. PICK o : o = [obj[p] EXCEPT !.id = i, !.addr = a, !.life = "live"]
  OBVIOUS
<1>4. /\ o \in Object /\ o.usage = obj[p].usage /\ o.id = i /\ o.addr = a
      /\ o.pending = obj[p].pending /\ o.life = "live"
  BY <1>2, <1>3 DEF Object
<1>5. obj' = [obj EXCEPT ![p] = o]
  BY <1>1, <1>2, <1>3 DEF Object
<1>6. /\ [obj EXCEPT ![p] = o] \in [PeerObjects -> Object] /\ [obj EXCEPT ![p] = o][p] = o
      /\ \A q \in PeerObjects \ {p} : [obj EXCEPT ![p] = o][q] = obj[q]
  <2>1. o \in Object
    BY <1>4
  <2>2. QED
    BY ONLY <1>1, <2>1, ObjectChanges
<1>7. QED
  BY <1>4, <1>5, <1>6

-----------------------------------------------------------------------------
(* One lemma per action: it keeps HandsInv.                                *)

\* What a thread holds is a peer, and it counts.
LEMMA HeldCounts ==
    ASSUME PeerTableAssumption, HandsInv, NEW t \in Threads, held[t] # None
    PROVE  /\ held[t] \in PeerObjects /\ obj[held[t]].usage \in Nat \ {0}
           /\ obj[held[t]].usage > 1 => \E u \in Threads \ {t} : held[u] = held[t]
<1>1. held[t] \in PeerObjects /\ \A u \in Threads : held[u] \in PeerObjects \union {None}
  BY DEF HandsInv, TableTypeOK
<1>2. obj[held[t]].usage = Counts("receiver", held[t]) + Counts("sender", held[t])
                             + Counts("server", held[t])
  BY <1>1 DEF HandsInv, UsageIsRight
<1>3. QED
  BY <1>1, <1>2 DEF Counts, Threads

\* A helper goes out of scope.
LEMMA ReleaseKeepsHands ==
    ASSUME PeerTableAssumption, HandsInv, NEW t \in Threads, Release(t)
    PROVE  HandsInv'
<1>1. PICK p : p = held[t]
  OBVIOUS
<1>2. /\ p \in PeerObjects /\ obj[p].usage \in Nat \ {0}
      /\ obj[p].usage > 1 => \E u \in Threads \ {t} : held[u] = p
  BY <1>1, HeldCounts DEF Release
<1>3. PICK n \in Nat : n = obj[p].usage - 1
  BY <1>2
<1>4. /\ obj' \in [PeerObjects -> Object] /\ obj'[p].usage = n
      /\ \A q \in PeerObjects :
             /\ obj'[q].id = obj[q].id /\ obj'[q].addr = obj[q].addr
             /\ obj'[q].pending = obj[q].pending /\ obj'[q].life = obj[q].life
             /\ q # p => obj'[q].usage = obj[q].usage
  <2>1. obj' = [obj EXCEPT ![p].usage = n]
    BY <1>1, <1>3 DEF Release
  <2>2. QED
    BY <1>2, <2>1, UsageChanges DEF HandsInv
<1>5. /\ at[t] \in {"held", "leaving"}
      /\ victim[t] = None
      /\ t = "receiver" => at[t] = "leaving"
  BY DEF Release, HandsInv, HandsAreRight, HandIsRight
<1>6. /\ held'[t] = None
      /\ obj[p].pending /\ obj[p].usage = 1 => victim'[t] = p /\ at'[t] = "delete"
      /\ ~ (obj[p].pending /\ obj[p].usage = 1) => victim'[t] = None /\ at'[t] = "idle"
  <2>1. t \in DOMAIN held /\ t \in DOMAIN victim /\ t \in DOMAIN at
    BY DEF HandsInv, TableTypeOK
  <2>2. QED
    BY <1>1, <2>1 DEF Release, Goto
<1>7. /\ \A u \in Threads \ {t} :
             held'[u] = held[u] /\ victim'[u] = victim[u] /\ at'[u] = at[u]
      /\ peers' = peers
      /\ t # "receiver" => packet' = packet
  BY DEF Release, Goto, HandsInv, TableTypeOK
<1>8. TableTypeOK'
  BY <1>1, <1>2, <1>4 DEF Release, Goto, HandsInv, TableTypeOK, Locations, NoPacket
<1>9. UsageIsRight'
  <2>1. ASSUME NEW q \in PeerObjects, NEW u \in Threads
        PROVE  /\ Counts(u, q) \in {0, 1}
               /\ Counts(u, q)' = IF u = t /\ q = p THEN 0 ELSE Counts(u, q)
               /\ u = t /\ q = p => Counts(u, q) = 1
    BY <1>1, <1>6, <1>7 DEF Counts, PeerTableAssumption
  <2>2. SUFFICES ASSUME NEW q \in PeerObjects
                 PROVE  obj'[q].usage = Counts("receiver", q)' + Counts("sender", q)'
                                           + Counts("server", q)'
    BY DEF UsageIsRight
  <2>3. obj[q].usage = Counts("receiver", q) + Counts("sender", q) + Counts("server", q)
    BY DEF HandsInv, UsageIsRight
  <2>4. obj'[q].usage = IF q = p THEN obj[q].usage - 1 ELSE obj[q].usage
    BY <1>3, <1>4
  <2>5. t \in {"receiver", "sender", "server"}
    BY DEF Threads
  <2>6. QED
    BY <2>1, <2>3, <2>4, <2>5 DEF Threads
<1>10. ListedAreLive'
  BY <1>4, <1>7 DEF HandsInv, TableTypeOK, ListedAreLive
<1>11. MadeOnesAreKnown'
  BY <1>4 DEF HandsInv, MadeOnesAreKnown
<1>12. HandsAreRight'
  <2>1. ASSUME NEW u \in Threads, u # t
        PROVE  victim[u] # None => victim[u] \in PeerObjects \ {p} \/ at[u] # "delete"
    BY <1>2, <2>1 DEF HandsInv, TableTypeOK, HandsAreRight, HandIsRight
  <2>2. \A u \in Threads : /\ held[u] \in PeerObjects \union {None}
                           /\ victim[u] \in PeerObjects \union {None}
    BY DEF HandsInv, TableTypeOK
  <2>3. QED
    BY <1>1, <1>2, <1>3, <1>4, <1>5, <1>6, <1>7, <2>1, <2>2
       DEF HandsInv, HandsAreRight, HandIsRight, PeerTableAssumption
<1>13. VictimsAreApart'
  BY <1>1, <1>2, <1>4, <1>5, <1>6, <1>7
     DEF HandsInv, TableTypeOK, HandsAreRight, HandIsRight, VictimsAreApart, ListedAreLive,
         PeerTableAssumption
<1>14. ReceiverAlone'
  BY <1>4, <1>5, <1>6, <1>7 DEF HandsInv, TableTypeOK, ReceiverAlone, Threads
<1>15. DroppedAreInHand'
  BY <1>1, <1>2, <1>4, <1>5, <1>6, <1>7 DEF HandsInv, TableTypeOK, DroppedAreInHand
<1>16. PacketIsRight'
  BY <1>4, <1>5, <1>6, <1>7
     DEF HandsInv, TableTypeOK, PacketIsRight, HandsAreRight, HandIsRight, Threads
<1>17. QED
  BY <1>8, <1>9, <1>10, <1>11, <1>12, <1>13, <1>14, <1>15, <1>16 DEF HandsInv

\* A peer that nobody uses any more is deleted.
LEMMA DeleteKeepsHands ==
    ASSUME PeerTableAssumption, HandsInv, NEW t \in Threads, Delete(t)
    PROVE  HandsInv'
<1>1. PICK p : p = victim[t]
  OBVIOUS
<1>2. /\ p \in PeerObjects /\ at[t] = "delete" /\ held[t] = None
      /\ obj[p].pending /\ obj[p].usage = 0
      /\ \A i \in Ids : peers[i] # p
      /\ \A u \in Threads \ {t} : victim[u] # p
  BY <1>1 DEF Delete, HandsInv, TableTypeOK, HandsAreRight, HandIsRight, VictimsAreApart
<1>3. \A u \in Threads : held[u] # p
  <2>1. SUFFICES ASSUME NEW u \in Threads, held[u] = p
                 PROVE  FALSE
    OBVIOUS
  <2>2. held[u] # None
    BY <1>2, <2>1 DEF PeerTableAssumption
  <2>3. QED
    BY <1>2, <2>1, <2>2, HeldCounts
<1>4. /\ obj' \in [PeerObjects -> Object] /\ obj'[p].life = "deleted"
      /\ \A q \in PeerObjects :
             /\ obj'[q].id = obj[q].id /\ obj'[q].addr = obj[q].addr
             /\ obj'[q].usage = obj[q].usage /\ obj'[q].pending = obj[q].pending
             /\ q # p => obj'[q].life = obj[q].life
  <2>1. obj' = [obj EXCEPT ![p].life = "deleted"]
    BY <1>1 DEF Delete
  <2>2. QED
    BY <1>2, <2>1, LifeChanges DEF HandsInv
<1>5. /\ victim'[t] = None
      /\ at'[t] \in {"idle", "sweep"}
      /\ at'[t] = "sweep" => t = "sender"
  BY DEF Delete, Goto, Home, HandsInv, TableTypeOK
<1>6. /\ \A u \in Threads \ {t} : victim'[u] = victim[u] /\ at'[u] = at[u]
      /\ peers' = peers /\ held' = held /\ packet' = packet
  BY DEF Delete, Goto, HandsInv, TableTypeOK
<1>7. TableTypeOK'
  BY <1>4, <1>5 DEF Delete, Goto, HandsInv, TableTypeOK, Locations
<1>8. UsageIsRight'
  BY <1>4, <1>6 DEF HandsInv, UsageIsRight, Counts
<1>9. ListedAreLive'
  BY <1>2, <1>4, <1>6 DEF HandsInv, TableTypeOK, ListedAreLive
<1>10. MadeOnesAreKnown'
  BY <1>2, <1>4 DEF HandsInv, MadeOnesAreKnown
<1>11. HandsAreRight'
  <2>1. \A u \in Threads : /\ held[u] \in PeerObjects \union {None}
                           /\ victim[u] \in PeerObjects \union {None}
    BY DEF HandsInv, TableTypeOK
  <2>2. QED
    BY <1>2, <1>3, <1>4, <1>5, <1>6, <2>1
       DEF HandsInv, HandsAreRight, HandIsRight, PeerTableAssumption
<1>12. VictimsAreApart'
  <2>1. \A u \in Threads : victim[u] \in PeerObjects \union {None}
    BY DEF HandsInv, TableTypeOK
  <2>2. QED
    BY <1>2, <1>4, <1>5, <1>6, <2>1 DEF HandsInv, VictimsAreApart
<1>13. ReceiverAlone'
  <2>1. held["receiver"] \in PeerObjects \union {None}
    BY DEF HandsInv, TableTypeOK, Threads
  <2>2. at'["receiver"] \in {"erased", "posted"} =>
            /\ at["receiver"] \in {"erased", "posted"}
            /\ victim'["receiver"] = victim["receiver"]
    BY <1>5, <1>6 DEF Threads
  <2>3. held["receiver"] # None =>
            obj'[held["receiver"]].id = obj[held["receiver"]].id
    BY <1>4, <2>1
  <2>4. ReceiverAlone
    BY DEF HandsInv
  <2>5. QED
    BY <1>6, <2>2, <2>3, <2>4 DEF ReceiverAlone
<1>14. DroppedAreInHand'
  <2>1. ASSUME NEW q \in PeerObjects, obj'[q].pending, obj'[q].life = "live"
        PROVE  \E u \in Threads : q \in {held[u], victim'[u]}
    <3>1. q # p /\ obj[q].pending /\ obj[q].life = "live"
      BY <1>4, <2>1
    <3>2. PICK u \in Threads : q \in {held[u], victim[u]}
      BY <3>1 DEF HandsInv, DroppedAreInHand
    <3>3. u = t => q = held[u]
      BY <1>1, <3>1, <3>2
    <3>4. QED
      BY <1>6, <3>2, <3>3
  <2>2. QED
    BY <1>6, <2>1 DEF DroppedAreInHand
<1>15. PacketIsRight'
  BY <1>4, <1>5, <1>6 DEF HandsInv, TableTypeOK, PacketIsRight, HandsAreRight, HandIsRight, Threads
<1>16. QED
  BY <1>7, <1>8, <1>9, <1>10, <1>11, <1>12, <1>13, <1>14, <1>15 DEF HandsInv

\* A peer leaves the map, or has left it already.
LEMMA EraseKeepsHands ==
    ASSUME PeerTableAssumption, HandsInv, NEW t \in Threads, NEW i \in Ids, Erase(t, i)
    PROVE  HandsInv'
<1>1. /\ obj' = obj /\ held' = held /\ packet' = packet
      /\ t # "server" /\ victim[t] = None
      /\ t = "receiver" => at[t] = "held" /\ i = obj[held[t]].id
      /\ t = "sender" => at[t] \in {"idle", "sweep"}
  BY DEF Erase, HandsInv, HandsAreRight, HandIsRight
<1>2. TableTypeOK'
  <2>1. /\ peers' \in [Ids -> PeerObjects \union {None}] /\ at' \in [Threads -> Locations]
        /\ victim' \in [Threads -> PeerObjects \union {None}]
    BY DEF Erase, Goto, Home, HandsInv, TableTypeOK, Locations
  <2>2. doomed' \subseteq Ids
    BY DEF Erase, HandsInv, TableTypeOK
  <2>3. QED
    BY <1>1, <2>1, <2>2 DEF Erase, HandsInv, TableTypeOK
<1>3. UsageIsRight' /\ MadeOnesAreKnown'
  BY <1>1 DEF HandsInv, UsageIsRight, Counts, MadeOnesAreKnown
<1>4. CASE peers[i] = None
  <2>1. /\ peers' = peers /\ victim' = victim
        /\ \A u \in Threads \ {t} : at'[u] = at[u]
        /\ held[t] # None => at'[t] = "leaving"
        /\ held[t] = None => at'[t] \in {"idle", "sweep"}
        /\ at'[t] = "sweep" => t = "sender"
    BY <1>4 DEF Erase, Goto, Home, HandsInv, TableTypeOK
  <2>2. ListedAreLive' /\ VictimsAreApart' /\ DroppedAreInHand'
    BY <1>1, <2>1 DEF HandsInv, ListedAreLive, VictimsAreApart, DroppedAreInHand
  <2>3. HandsAreRight'
    BY <1>1, <2>1 DEF HandsInv, HandsAreRight, HandIsRight
  <2>4. ReceiverAlone' /\ PacketIsRight'
    BY <1>1, <2>1 DEF HandsInv, ReceiverAlone, PacketIsRight, Threads
  <2>5. QED
    BY <1>2, <1>3, <2>2, <2>3, <2>4 DEF HandsInv
<1>5. CASE peers[i] # None
  <2>1. PICK p : p = peers[i]
    OBVIOUS
  <2>2. /\ p \in PeerObjects /\ obj[p].life = "live" /\ ~ obj[p].pending /\ obj[p].id = i
        /\ \A u \in Threads : victim[u] # p
    BY <1>5, <2>1 DEF HandsInv, TableTypeOK, ListedAreLive, VictimsAreApart, PeerTableAssumption
  <2>3. /\ victim'[t] = p /\ at'[t] = "erased"
        /\ \A u \in Threads \ {t} : at'[u] = at[u] /\ victim'[u] = victim[u]
        /\ peers'[i] = None /\ \A j \in Ids \ {i} : peers'[j] = peers[j]
    BY <1>5, <2>1 DEF Erase, Goto, HandsInv, TableTypeOK
  <2>4. ListedAreLive'
    BY <1>1, <2>3 DEF HandsInv, ListedAreLive
  <2>5. VictimsAreApart'
    <3>1. \A j \in Ids : peers'[j] # p
      BY <2>2, <2>3 DEF HandsInv, ListedAreLive, PeerTableAssumption
    <3>2. \A j \in Ids : peers'[j] \in {None, peers[j]}
      BY <2>3
    <3>3. ASSUME NEW u \in Threads, victim'[u] # None
          PROVE  /\ obj'[victim'[u]].life = "live"
                 /\ \A j \in Ids : peers'[j] # victim'[u]
                 /\ \A w \in Threads \ {u} : victim'[w] # victim'[u]
      BY <1>1, <2>2, <2>3, <3>1, <3>2, <3>3 DEF HandsInv, VictimsAreApart
    <3>4. QED
      BY <3>3 DEF VictimsAreApart
  <2>6. HandsAreRight'
    <3>1. ASSUME NEW u \in Threads \ {t}
          PROVE  HandIsRight(u)'
      BY <1>1, <2>3 DEF HandsInv, HandsAreRight, HandIsRight
    <3>2. HandIsRight(t)'
      <4>1. held[t] # None <=> t = "receiver"
        BY <1>1 DEF HandsInv, HandsAreRight, HandIsRight, Threads
      <4>2. held[t] # None => obj[held[t]].life = "live"
        BY DEF HandsInv, HandsAreRight, HandIsRight
      <4>3. p # None
        BY <2>2 DEF PeerTableAssumption
      <4>4. QED
        BY <1>1, <2>2, <2>3, <4>1, <4>2, <4>3 DEF HandIsRight
    <3>3. QED
      BY <3>1, <3>2 DEF HandsAreRight
  <2>7. ReceiverAlone'
    <3>1. t = "receiver" => p = held["receiver"] /\ held["receiver"] # None
      BY <1>1, <1>5, <2>1 DEF HandsInv, HandsAreRight, HandIsRight, ReceiverAlone
    <3>2. ASSUME held["receiver"] # None
          PROVE  obj[held["receiver"]].id \in Ids
      BY <3>2 DEF HandsInv, TableTypeOK, HandsAreRight, HandIsRight, MadeOnesAreKnown, Threads
    <3>3. \A j \in Ids : peers'[j] \in {None, peers[j]}
      BY <2>3
    <3>4. at'["receiver"] \in {"erased", "posted"} /\ t # "receiver" =>
              /\ at["receiver"] \in {"erased", "posted"}
              /\ victim'["receiver"] = victim["receiver"]
      BY <2>3 DEF Threads
    <3>5. QED
      BY <1>1, <2>3, <3>1, <3>2, <3>3, <3>4 DEF HandsInv, ReceiverAlone
  <2>8. DroppedAreInHand'
    <3>1. SUFFICES ASSUME NEW q \in PeerObjects, obj[q].pending, obj[q].life = "live"
                   PROVE  \E u \in Threads : q \in {held[u], victim'[u]}
      BY <1>1 DEF DroppedAreInHand
    <3>2. PICK u \in Threads : q \in {held[u], victim[u]}
      BY <3>1 DEF HandsInv, DroppedAreInHand
    <3>3. q # None
      BY DEF PeerTableAssumption
    <3>4. q = held[u] \/ u # t
      BY <1>1, <3>2, <3>3
    <3>5. QED
      BY <2>3, <3>2, <3>4
  <2>9. PacketIsRight'
    BY <1>1, <2>3 DEF HandsInv, PacketIsRight, Threads
  <2>10. QED
    BY <1>2, <1>3, <2>4, <2>5, <2>6, <2>7, <2>8, <2>9 DEF HandsInv
<1>6. QED
  BY <1>4, <1>5

\* The removal is queued.
LEMMA PostKeepsHands ==
    ASSUME PeerTableAssumption, HandsInv, NEW t \in Threads, Post(t)
    PROVE  HandsInv'
<1>1. /\ peers' = peers /\ obj' = obj /\ held' = held /\ victim' = victim /\ packet' = packet
      /\ at[t] = "erased" /\ at'[t] = "posted"
      /\ \A u \in Threads \ {t} : at'[u] = at[u]
  BY DEF Post, Goto, HandsInv, TableTypeOK
<1>2. TableTypeOK'
  <2>1. victim[t] \in PeerObjects /\ obj[victim[t]].life = "live"
    BY <1>1 DEF HandsInv, TableTypeOK, HandsAreRight, HandIsRight, VictimsAreApart
  <2>2. [kind |-> "removed", id |-> obj[victim[t]].id, addr |-> obj[victim[t]].addr] \in Event
    BY <2>1 DEF HandsInv, MadeOnesAreKnown, Event
  <2>3. events' \in Seq(Event)
    BY <2>2 DEF Post, HandsInv, TableTypeOK
  <2>4. at' \in [Threads -> Locations]
    BY DEF Post, Goto, HandsInv, TableTypeOK, Locations
  <2>5. QED
    BY <2>3, <2>4 DEF Post, HandsInv, TableTypeOK
<1>3. /\ UsageIsRight' /\ ListedAreLive' /\ MadeOnesAreKnown'
      /\ VictimsAreApart' /\ DroppedAreInHand'
  BY <1>1 DEF HandsInv, UsageIsRight, Counts, ListedAreLive, MadeOnesAreKnown,
              VictimsAreApart, DroppedAreInHand
<1>4. HandsAreRight'
  BY <1>1 DEF HandsInv, HandsAreRight, HandIsRight
<1>5. ReceiverAlone' /\ PacketIsRight'
  BY <1>1 DEF HandsInv, ReceiverAlone, PacketIsRight, Threads
<1>6. QED
  BY <1>2, <1>3, <1>4, <1>5 DEF HandsInv

\* The peer is dropped, and deleted at once when nobody uses it.
LEMMA DropKeepsHands ==
    ASSUME PeerTableAssumption, HandsInv, NEW t \in Threads, Drop(t)
    PROVE  HandsInv'
<1>1. PICK p : p = victim[t]
  OBVIOUS
<1>2. /\ p \in PeerObjects /\ at[t] = "posted" /\ obj[p].life = "live" /\ ~ obj[p].pending
      /\ t # "server"
      /\ t = "receiver" <=> held[t] # None
      /\ \A i \in Ids : peers[i] # p
      /\ \A u \in Threads \ {t} : victim[u] # p
  <2>1. at[t] = "posted"
    BY DEF Drop
  <2>2. /\ victim[t] \in PeerObjects /\ t # "server" /\ ~ obj[p].pending
        /\ t = "receiver" <=> held[t] # None
    BY <1>1, <2>1 DEF HandsInv, TableTypeOK, HandsAreRight, HandIsRight
  <2>3. QED
    BY <1>1, <2>1, <2>2 DEF HandsInv, VictimsAreApart, PeerTableAssumption
<1>3. /\ obj' \in [PeerObjects -> Object] /\ obj'[p].pending
      /\ \A q \in PeerObjects :
             /\ obj'[q].id = obj[q].id /\ obj'[q].addr = obj[q].addr
             /\ obj'[q].usage = obj[q].usage /\ obj'[q].life = obj[q].life
             /\ q # p => obj'[q].pending = obj[q].pending
  <2>1. obj' = [obj EXCEPT ![p].pending = TRUE]
    BY <1>1 DEF Drop
  <2>2. QED
    BY <1>2, <2>1, PendingChanges DEF HandsInv
<1>4. /\ obj[p].usage = 0 => victim'[t] = p /\ at'[t] = "delete"
      /\ obj[p].usage # 0 /\ held[t] # None => victim'[t] = None /\ at'[t] = "leaving"
      /\ obj[p].usage # 0 /\ held[t] = None =>
             /\ victim'[t] = None /\ at'[t] \in {"idle", "sweep"}
             /\ at'[t] = "sweep" => t = "sender"
      /\ \A u \in Threads \ {t} : victim'[u] = victim[u] /\ at'[u] = at[u]
  BY <1>1 DEF Drop, Goto, Home, HandsInv, TableTypeOK
<1>5. peers' = peers /\ held' = held /\ packet' = packet
  BY DEF Drop
<1>6. TableTypeOK'
  BY <1>1, <1>2, <1>3 DEF Drop, Goto, Home, HandsInv, TableTypeOK, Locations
<1>7. UsageIsRight'
  BY <1>3, <1>5 DEF HandsInv, UsageIsRight, Counts
<1>8. ListedAreLive'
  BY <1>2, <1>3, <1>5 DEF HandsInv, TableTypeOK, ListedAreLive
<1>9. MadeOnesAreKnown'
  BY <1>2, <1>3 DEF HandsInv, MadeOnesAreKnown
<1>10. \A u \in Threads : /\ held[u] \in PeerObjects \union {None}
                          /\ victim[u] \in PeerObjects \union {None}
  BY DEF HandsInv, TableTypeOK
<1>11. HandsAreRight'
  <2>1. ASSUME NEW u \in Threads \ {t}
        PROVE  HandIsRight(u)'
    BY <1>2, <1>3, <1>4, <1>5, <1>10
       DEF HandsInv, HandsAreRight, HandIsRight, PeerTableAssumption
  <2>2. HandIsRight(t)'
    <3>1. /\ held[t] # None <=> t = "receiver"
          /\ held[t] # None => obj'[held[t]].life = "live"
      BY <1>2, <1>3, <1>10 DEF HandsInv, HandsAreRight, HandIsRight, PeerTableAssumption
    <3>2. p # None
      BY <1>2 DEF PeerTableAssumption
    <3>3. obj[p].usage = 0 => held[t] = None
      <4>1. SUFFICES ASSUME held[t] # None
                     PROVE  obj[p].usage # 0
        OBVIOUS
      <4>2. held[t] = p
        BY <1>1, <1>2, <4>1 DEF HandsInv, ReceiverAlone
      <4>3. QED
        BY <1>2, <4>1, <4>2, HeldCounts
    <3>4. QED
      BY <1>2, <1>3, <1>4, <1>5, <3>1, <3>2, <3>3 DEF HandIsRight
  <2>3. QED
    BY <2>1, <2>2 DEF HandsAreRight
<1>12. VictimsAreApart'
  BY <1>2, <1>3, <1>4, <1>5, <1>10 DEF HandsInv, VictimsAreApart
<1>13. ReceiverAlone'
  BY <1>2, <1>3, <1>4, <1>5, <1>10 DEF HandsInv, ReceiverAlone, Threads
<1>14. DroppedAreInHand'
  <2>1. ASSUME NEW q \in PeerObjects, obj'[q].pending, obj'[q].life = "live"
        PROVE  \E u \in Threads : q \in {held[u], victim'[u]}
    <3>1. CASE q = p /\ obj[p].usage = 0
      BY <1>4, <3>1
    <3>2. CASE q = p /\ obj[p].usage # 0
      BY <1>2, <3>2 DEF HandsInv, UsageIsRight, Counts, Threads
    <3>3. CASE q # p
      BY <1>1, <1>3, <1>4, <2>1, <3>3 DEF HandsInv, DroppedAreInHand
    <3>4. QED
      BY <3>1, <3>2, <3>3
  <2>2. QED
    BY <1>5, <2>1 DEF DroppedAreInHand
<1>15. PacketIsRight'
  <2>1. at'["receiver"] \in {"lookup", "held", "deliver"} => at["receiver"] = at'["receiver"]
    BY <1>2, <1>4 DEF Threads
  <2>2. at["receiver"] \in {"held", "deliver"} => held["receiver"] \in PeerObjects
    BY <1>10 DEF HandsInv, HandsAreRight, HandIsRight, Threads
  <2>3. QED
    BY <1>3, <1>5, <2>1, <2>2 DEF HandsInv, PacketIsRight
<1>16. QED
  BY <1>6, <1>7, <1>8, <1>9, <1>11, <1>12, <1>13, <1>14, <1>15 DEF HandsInv

\* A peer is made and announced, in one critical section.
LEMMA CreatePeerKeepsHands ==
    ASSUME PeerTableAssumption, HandsInv, NEW a \in Addresses, NEW p \in PeerObjects, NEW i \in Ids,
           at["receiver"] = "idle", CreatePeer(p, i, a), Goto("receiver", "lookup"),
           UNCHANGED <<held, victim, doomed, clients>>
    PROVE  HandsInv'
<1>1. /\ obj' \in [PeerObjects -> Object] /\ obj'[p].life = "live"
      /\ obj'[p].id = i /\ obj'[p].addr = a
      /\ \A q \in PeerObjects :
             /\ q # p => obj'[q] = obj[q]
             /\ obj'[q].usage = obj[q].usage /\ obj'[q].pending = obj[q].pending
  <2>1. obj' = [obj EXCEPT ![p].id = i, ![p].addr = a, ![p].life = "live"]
    BY DEF CreatePeer
  <2>2. TableTypeOK
    BY DEF HandsInv
  <2>3. QED
    BY <2>1, <2>2, MakingChanges, Zenon
<1>2. obj[p].life = "unborn" /\ ~ obj[p].pending /\ peers[i] = None
  BY DEF CreatePeer, HandsInv, MadeOnesAreKnown
<1>3. \A u \in Threads : held[u] # p /\ victim[u] # p
  BY <1>2 DEF HandsInv, HandsAreRight, HandIsRight, VictimsAreApart, PeerTableAssumption
<1>4. /\ peers'[i] = p
      /\ \A j \in Ids \ {i} : peers'[j] = peers[j] /\ peers[j] # p
  BY <1>2 DEF CreatePeer, HandsInv, TableTypeOK, ListedAreLive, PeerTableAssumption
<1>5. /\ held' = held /\ victim' = victim /\ packet' = [id |-> i, addr |-> a]
      /\ at'["receiver"] = "lookup"
      /\ \A u \in Threads \ {"receiver"} : at'[u] = at[u]
  BY DEF CreatePeer, Goto, HandsInv, TableTypeOK, Threads
<1>6. /\ held["receiver"] = None /\ victim["receiver"] = None
      /\ \A u \in Threads : /\ held[u] \in PeerObjects \union {None}
                            /\ victim[u] \in PeerObjects \union {None}
  BY DEF HandsInv, TableTypeOK, HandsAreRight, HandIsRight, Threads
<1>7. TableTypeOK'
  <2>1. [kind |-> "added", id |-> i, addr |-> a] \in Event
    BY DEF Event
  <2>2. events' \in Seq(Event)
    BY <2>1 DEF CreatePeer, HandsInv, TableTypeOK
  <2>3. at' \in [Threads -> Locations] /\ peers' \in [Ids -> PeerObjects \union {None}]
    BY DEF CreatePeer, Goto, HandsInv, TableTypeOK, Locations
  <2>4. reused' \in BOOLEAN
    BY DEF CreatePeer
  <2>5. QED
    BY <1>1, <1>5, <2>2, <2>3, <2>4 DEF HandsInv, TableTypeOK
<1>8. UsageIsRight'
  BY <1>1, <1>5 DEF HandsInv, UsageIsRight, Counts
<1>9. ListedAreLive'
  <2>1. \A j \in Ids : peers[j] \in PeerObjects \union {None}
    BY DEF HandsInv, TableTypeOK
  <2>2. QED
    BY <1>1, <1>2, <1>4, <2>1 DEF HandsInv, ListedAreLive
<1>10. MadeOnesAreKnown'
  BY <1>1 DEF HandsInv, MadeOnesAreKnown
<1>11. HandsAreRight'
  BY <1>1, <1>3, <1>5, <1>6 DEF HandsInv, HandsAreRight, HandIsRight
<1>12. VictimsAreApart'
  BY <1>1, <1>3, <1>4, <1>5, <1>6 DEF HandsInv, VictimsAreApart
<1>13. ReceiverAlone'
  BY <1>5, <1>6 DEF ReceiverAlone
<1>14. DroppedAreInHand'
  BY <1>1, <1>2, <1>5 DEF HandsInv, DroppedAreInHand
<1>15. PacketIsRight'
  BY <1>5 DEF PacketIsRight
<1>16. QED
  BY <1>7, <1>8, <1>9, <1>10, <1>11, <1>12, <1>13, <1>14, <1>15 DEF HandsInv

\* The receiver learns whose packet it has, and creates the peer if there is none.
LEMMA IdentifyKeepsHands ==
    ASSUME PeerTableAssumption, HandsInv,
           NEW a \in Addresses, NEW claimed \in Ids \union {None}, Identify(a, claimed)
    PROVE  HandsInv'
<1>1. /\ at["receiver"] = "idle" /\ Goto("receiver", "lookup")
      /\ UNCHANGED <<held, victim, doomed, clients>>
  BY DEF Identify
<1>2. CASE \E p \in PeerObjects, i \in Ids : CreatePeer(p, i, a)
  BY <1>1, <1>2, CreatePeerKeepsHands
<1>3. CASE \E i \in Ids : /\ packet' = [id |-> i, addr |-> a]
                          /\ UNCHANGED <<peers, obj, events, reused>>
  <2>1. /\ packet'.id \in Ids /\ packet'.addr \in Addresses
        /\ packet' \in [id : Ids \union {None}, addr : Addresses \union {None}]
    BY <1>3
  <2>2. /\ peers' = peers /\ obj' = obj /\ held' = held /\ victim' = victim
        /\ at'["receiver"] = "lookup"
        /\ \A u \in Threads \ {"receiver"} : at'[u] = at[u]
    BY <1>1, <1>3 DEF Goto, HandsInv, TableTypeOK, Threads
  <2>3. TableTypeOK'
    BY <1>1, <1>3, <2>1 DEF Goto, HandsInv, TableTypeOK, Locations
  <2>4. UsageIsRight' /\ ListedAreLive' /\ MadeOnesAreKnown' /\ VictimsAreApart'
            /\ DroppedAreInHand'
    BY <2>2 DEF HandsInv, UsageIsRight, Counts, ListedAreLive, MadeOnesAreKnown,
                VictimsAreApart, DroppedAreInHand
  <2>5. HandsAreRight'
    BY <1>1, <2>2 DEF HandsInv, HandsAreRight, HandIsRight, Threads
  <2>6. ReceiverAlone' /\ PacketIsRight'
    BY <2>1, <2>2 DEF HandsInv, ReceiverAlone, PacketIsRight
  <2>7. QED
    BY <2>3, <2>4, <2>5, <2>6 DEF HandsInv
<1>4. QED
  BY <1>2, <1>3 DEF Identify

\* What a lookup changes when it finds a peer.
LEMMA AcquireChanges ==
    ASSUME PeerTableAssumption, HandsInv, NEW t \in Threads, NEW i \in Ids, held[t] = None,
           Acquire(t, i)
    PROVE  /\ peers[i] \in PeerObjects /\ obj[peers[i]].life = "live"
           /\ ~ obj[peers[i]].pending /\ obj[peers[i]].id = i
           /\ \A u \in Threads : victim[u] # peers[i]
           /\ held' \in [Threads -> PeerObjects \union {None}]
           /\ held'[t] = peers[i] /\ \A u \in Threads \ {t} : held'[u] = held[u]
           /\ obj' \in [PeerObjects -> Object]
           /\ \A q \in PeerObjects :
                  /\ obj'[q].id = obj[q].id /\ obj'[q].addr = obj[q].addr
                  /\ obj'[q].pending = obj[q].pending /\ obj'[q].life = obj[q].life
                  /\ q # peers[i] => obj'[q].usage = obj[q].usage
           /\ UsageIsRight' /\ MadeOnesAreKnown'
<1>1. PICK p : p = peers[i]
  OBVIOUS
<1>2. p \in PeerObjects
  BY <1>1 DEF Acquire, HandsInv, TableTypeOK
<1>3. /\ obj[p].life = "live" /\ ~ obj[p].pending /\ obj[p].id = i
      /\ \A u \in Threads : victim[u] # p
  BY <1>1, <1>2 DEF HandsInv, ListedAreLive, VictimsAreApart, PeerTableAssumption
<1>4. /\ held' \in [Threads -> PeerObjects \union {None}]
      /\ held'[t] = p /\ \A u \in Threads \ {t} : held'[u] = held[u]
  BY <1>1, <1>2 DEF Acquire, HandsInv, TableTypeOK
<1>5. obj[p].usage \in Nat
  BY <1>2 DEF HandsInv, TableTypeOK, Object
<1>6. PICK n \in Nat : n = obj[p].usage + 1
  BY <1>5
<1>7. /\ obj' \in [PeerObjects -> Object] /\ obj'[p].usage = n
      /\ \A q \in PeerObjects :
             /\ obj'[q].id = obj[q].id /\ obj'[q].addr = obj[q].addr
             /\ obj'[q].pending = obj[q].pending /\ obj'[q].life = obj[q].life
             /\ q # p => obj'[q].usage = obj[q].usage
  <2>1. obj' = [obj EXCEPT ![p].usage = n]
    BY <1>1, <1>6 DEF Acquire
  <2>2. QED
    BY <1>2, <2>1, UsageChanges DEF HandsInv
<1>8. UsageIsRight'
  <2>1. ASSUME NEW q \in PeerObjects, NEW u \in Threads
        PROVE  /\ Counts(u, q) \in {0, 1}
               /\ Counts(u, q)' = IF u = t /\ q = p THEN 1 ELSE Counts(u, q)
               /\ u = t => Counts(u, q) = 0
    BY <1>4 DEF Counts, PeerTableAssumption
  <2>2. SUFFICES ASSUME NEW q \in PeerObjects
                 PROVE  obj'[q].usage = Counts("receiver", q)' + Counts("sender", q)'
                                           + Counts("server", q)'
    BY DEF UsageIsRight
  <2>3. obj[q].usage = Counts("receiver", q) + Counts("sender", q) + Counts("server", q)
    BY DEF HandsInv, UsageIsRight
  <2>4. obj'[q].usage = IF q = p THEN obj[q].usage + 1 ELSE obj[q].usage
    BY <1>6, <1>7
  <2>5. t \in {"receiver", "sender", "server"}
    BY DEF Threads
  <2>6. QED
    BY <2>1, <2>3, <2>4, <2>5 DEF Threads
<1>9. MadeOnesAreKnown'
  BY <1>7 DEF HandsInv, MadeOnesAreKnown
<1>10. QED
  BY <1>1, <1>2, <1>3, <1>4, <1>7, <1>8, <1>9

\* A thread takes a helper on a peer of the map.
LEMMA AcquireKeepsHands ==
    ASSUME PeerTableAssumption, HandsInv, NEW t \in Threads, NEW i \in Ids, Acquire(t, i),
           NEW place \in {"held", "leaving"}, Goto(t, place),
           t = "receiver" => /\ at[t] = "lookup" /\ packet.id = i
                             /\ place = "held" => packet.addr = obj[peers[i]].addr,
           t # "receiver" => at[t] = "idle",
           UNCHANGED <<peers, victim, packet, doomed, events, clients, reused>>
    PROVE  HandsInv'
<1>1. held[t] = None /\ victim[t] = None
  BY DEF HandsInv, HandsAreRight, HandIsRight
<1>2. PICK p : p = peers[i]
  OBVIOUS
<1>3. /\ p \in PeerObjects /\ obj[p].life = "live" /\ ~ obj[p].pending /\ obj[p].id = i
      /\ \A u \in Threads : victim[u] # p
      /\ held' \in [Threads -> PeerObjects \union {None}]
      /\ held'[t] = p /\ \A u \in Threads \ {t} : held'[u] = held[u]
      /\ obj' \in [PeerObjects -> Object]
      /\ \A q \in PeerObjects :
             /\ obj'[q].id = obj[q].id /\ obj'[q].addr = obj[q].addr
             /\ obj'[q].pending = obj[q].pending /\ obj'[q].life = obj[q].life
             /\ q # p => obj'[q].usage = obj[q].usage
      /\ UsageIsRight' /\ MadeOnesAreKnown'
  BY <1>1, <1>2, AcquireChanges
<1>4. /\ peers' = peers /\ victim' = victim /\ packet' = packet
      /\ at'[t] = place /\ \A u \in Threads \ {t} : at'[u] = at[u]
  BY DEF Goto, HandsInv, TableTypeOK
<1>5. \A u \in Threads : /\ held[u] \in PeerObjects \union {None}
                         /\ victim[u] \in PeerObjects \union {None}
  BY DEF HandsInv, TableTypeOK
<1>6. TableTypeOK'
  BY <1>3 DEF Goto, HandsInv, TableTypeOK, Locations
<1>7. ListedAreLive'
  BY <1>3, <1>4 DEF HandsInv, TableTypeOK, ListedAreLive
<1>8. HandsAreRight'
  <2>1. ASSUME NEW u \in Threads \ {t}
        PROVE  HandIsRight(u)'
    BY <1>3, <1>4, <1>5, <2>1 DEF HandsInv, HandsAreRight, HandIsRight
  <2>2. HandIsRight(t)'
    BY <1>1, <1>3, <1>4 DEF HandIsRight, PeerTableAssumption
  <2>3. QED
    BY <2>1, <2>2 DEF HandsAreRight
<1>9. VictimsAreApart'
  BY <1>3, <1>4, <1>5 DEF HandsInv, VictimsAreApart
<1>10. ReceiverAlone'
  <2>1. CASE t = "receiver"
    BY <1>2, <1>3, <1>4, <2>1 DEF ReceiverAlone
  <2>2. CASE t # "receiver"
    BY <1>3, <1>4, <1>5, <2>2 DEF HandsInv, ReceiverAlone, Threads
  <2>3. QED
    BY <2>1, <2>2
<1>11. DroppedAreInHand'
  <2>1. ASSUME NEW q \in PeerObjects, obj'[q].pending, obj'[q].life = "live"
        PROVE  \E u \in Threads : q \in {held'[u], victim[u]}
    <3>1. PICK u \in Threads : q \in {held[u], victim[u]}
      BY <1>3, <2>1 DEF HandsInv, DroppedAreInHand
    <3>2. u = t => q = None
      BY <1>1, <3>1
    <3>3. q # None
      BY DEF PeerTableAssumption
    <3>4. QED
      BY <1>3, <3>1, <3>2, <3>3
  <2>2. QED
    BY <1>4, <2>1 DEF DroppedAreInHand
<1>12. PacketIsRight'
  <2>1. CASE t = "receiver"
    BY <1>2, <1>3, <1>4, <2>1 DEF HandsInv, PacketIsRight
  <2>2. CASE t # "receiver"
    BY <1>3, <1>4, <1>5, <2>2
       DEF HandsInv, PacketIsRight, Threads, HandsAreRight, HandIsRight
  <2>3. QED
    BY <2>1, <2>2
<1>13. QED
  BY <1>3, <1>6, <1>7, <1>8, <1>9, <1>10, <1>11, <1>12 DEF HandsInv

\* A thread goes on, with what it has in hands or without anything.
LEMMA MovingKeepsHands ==
    ASSUME PeerTableAssumption, HandsInv, NEW t \in Threads, NEW place \in Locations,
           Goto(t, place), UNCHANGED <<peers, obj, held, victim>>,
           TableTypeOK', PacketIsRight',
           \/ at[t] = "lookup" /\ place = "idle"
           \/ at[t] \in {"held", "deliver"} /\ place \in {"deliver", "leaving"},
           place = "deliver" => t = "receiver"
    PROVE  HandsInv'
<1>1. /\ peers' = peers /\ obj' = obj /\ held' = held /\ victim' = victim
      /\ at'[t] = place /\ \A u \in Threads \ {t} : at'[u] = at[u]
  BY DEF Goto, HandsInv, TableTypeOK
<1>2. /\ UsageIsRight' /\ ListedAreLive' /\ MadeOnesAreKnown'
      /\ VictimsAreApart' /\ DroppedAreInHand'
  BY <1>1 DEF HandsInv, UsageIsRight, Counts, ListedAreLive, MadeOnesAreKnown,
              VictimsAreApart, DroppedAreInHand
<1>3. HandsAreRight'
  BY <1>1 DEF HandsInv, HandsAreRight, HandIsRight
<1>4. ReceiverAlone'
  <2>1. at'["receiver"] \in {"erased", "posted"} => at["receiver"] = at'["receiver"]
    BY <1>1 DEF Threads
  <2>2. QED
    BY <1>1, <2>1 DEF HandsInv, ReceiverAlone
<1>5. QED
  BY <1>2, <1>3, <1>4 DEF HandsInv

\* The packet's peer is looked up.
LEMMA LookupKeepsHands ==
    ASSUME PeerTableAssumption, HandsInv, Lookup
    PROVE  HandsInv'
<1>1. at["receiver"] = "lookup" /\ packet.id \in Ids /\ "receiver" \in Threads
  BY DEF Lookup, HandsInv, PacketIsRight, Threads
<1>2. CASE peers[packet.id] = None
  <2>1. Goto("receiver", "idle") /\ UNCHANGED <<peers, obj, held, victim>>
    BY <1>2 DEF Lookup
  <2>2. TableTypeOK'
    BY <1>2 DEF Lookup, Goto, HandsInv, TableTypeOK, Locations, NoPacket
  <2>3. PacketIsRight'
    BY <1>1, <2>1 DEF Goto, HandsInv, TableTypeOK, PacketIsRight
  <2>4. "idle" \in Locations
    BY DEF Locations
  <2>5. QED
    BY <1>1, <2>1, <2>2, <2>3, <2>4, MovingKeepsHands
<1>3. CASE peers[packet.id] # None
  <2>1. Acquire("receiver", packet.id) /\ packet' = packet
    BY <1>3 DEF Lookup
  <2>2. UNCHANGED <<peers, victim, packet, doomed, events, clients, reused>>
    BY <2>1 DEF Lookup
  <2>3. \E place \in {"held", "leaving"} :
            /\ Goto("receiver", place)
            /\ place = "held" => packet.addr = obj[peers[packet.id]].addr
    BY <1>3 DEF Lookup
  <2>4. QED
    BY <1>1, <2>1, <2>2, <2>3, AcquireKeepsHands
<1>4. QED
  BY <1>2, <1>3

\* The receiver processes its packet, or finds that the peer has gone.
LEMMA ProcessPacketKeepsHands ==
    ASSUME PeerTableAssumption, HandsInv, ProcessPacket
    PROVE  HandsInv'
<1>1. PICK place \in {"leaving", "deliver"} : Goto("receiver", place)
  BY DEF ProcessPacket
<1>2. /\ at["receiver"] = "held" /\ "receiver" \in Threads /\ place \in Locations
      /\ UNCHANGED <<peers, obj, held, victim, packet>>
  BY DEF ProcessPacket, Threads, Locations
<1>3. TableTypeOK'
  BY <1>1, <1>2 DEF ProcessPacket, Goto, HandsInv, TableTypeOK
<1>4. PacketIsRight'
  BY <1>1, <1>2 DEF Goto, HandsInv, TableTypeOK, PacketIsRight
<1>5. QED
  BY <1>1, <1>2, <1>3, <1>4, MovingKeepsHands

\* The data is queued.
LEMMA DeliverKeepsHands ==
    ASSUME PeerTableAssumption, HandsInv, Deliver
    PROVE  HandsInv'
<1>1. /\ at["receiver"] = "deliver" /\ "receiver" \in Threads /\ "leaving" \in Locations
      /\ Goto("receiver", "leaving") /\ UNCHANGED <<peers, obj, held, victim, packet>>
  BY DEF Deliver, Threads, Locations
<1>2. TableTypeOK'
  <2>1. [kind |-> "data", id |-> packet.id, addr |-> packet.addr] \in Event
    BY <1>1 DEF HandsInv, PacketIsRight, Event
  <2>2. events' \in Seq(Event)
    BY <2>1 DEF Deliver, HandsInv, TableTypeOK
  <2>3. at' \in [Threads -> Locations]
    BY <1>1 DEF Goto, HandsInv, TableTypeOK
  <2>4. QED
    BY <2>2, <2>3 DEF Deliver, HandsInv, TableTypeOK
<1>3. PacketIsRight'
  BY <1>1 DEF Goto, HandsInv, TableTypeOK, PacketIsRight
<1>4. QED
  BY <1>1, <1>2, <1>3, MovingKeepsHands

\* The sender condemns the peer it holds.
LEMMA CondemnKeepsHands ==
    ASSUME PeerTableAssumption, HandsInv, Condemn
    PROVE  HandsInv'
<1>1. /\ at["sender"] = "held" /\ "sender" \in Threads /\ "leaving" \in Locations
      /\ Goto("sender", "leaving") /\ UNCHANGED <<peers, obj, held, victim, packet>>
  BY DEF Condemn, Threads, Locations
<1>2. TableTypeOK'
  <2>1. obj[held["sender"]].id \in Ids
    <3>1. held["sender"] # None
      BY <1>1 DEF HandsInv, HandsAreRight, HandIsRight
    <3>2. held["sender"] \in PeerObjects /\ obj[held["sender"]].life = "live"
      BY <1>1, <3>1 DEF HandsInv, TableTypeOK, HandsAreRight, HandIsRight
    <3>3. QED
      BY <3>2 DEF HandsInv, MadeOnesAreKnown
  <2>2. at' \in [Threads -> Locations]
    BY <1>1 DEF Goto, HandsInv, TableTypeOK
  <2>3. doomed' \subseteq Ids
    BY <2>1 DEF Condemn, HandsInv, TableTypeOK
  <2>4. QED
    BY <2>2, <2>3 DEF Condemn, HandsInv, TableTypeOK
<1>3. PacketIsRight'
  BY <1>1 DEF Goto, HandsInv, TableTypeOK, PacketIsRight, Threads
<1>4. QED
  BY <1>1, <1>2, <1>3, MovingKeepsHands

\* The server thread handles an event.
LEMMA ReceiveEventKeepsHands ==
    ASSUME PeerTableAssumption, HandsInv, ReceiveEvent
    PROVE  HandsInv'
<1>1. PICK e : e = Head(events)
  OBVIOUS
<1>2. events \in Seq(Event) /\ events # <<>> /\ clients \in [Ids -> Addresses \union {None}]
  BY DEF ReceiveEvent, HandsInv, TableTypeOK
<1>3. e \in Event /\ Tail(events) \in Seq(Event)
  BY <1>1, <1>2
<1>4. ClientAfter(e) \in Addresses \union {None}
  BY <1>2, <1>3 DEF ClientAfter, Event
<1>5. TableTypeOK'
  BY <1>1, <1>2, <1>3, <1>4 DEF ReceiveEvent, HandsInv, TableTypeOK
<1>6. UNCHANGED <<peers, obj, at, held, victim, packet>>
  BY DEF ReceiveEvent
<1>7. QED
  BY <1>5, <1>6 DEF HandsInv, UsageIsRight, Counts, ListedAreLive, MadeOnesAreKnown,
       HandsAreRight, HandIsRight, VictimsAreApart, ReceiverAlone, DroppedAreInHand, PacketIsRight

\* HandsInv holds initially,
LEMMA HandsInit ==
    ASSUME PeerTableAssumption, TableInit
    PROVE  HandsInv
<1>1. TableTypeOK
  <2>1. <<>> \in Seq(Event)
    OBVIOUS
  <2>2. [id |-> None, addr |-> None, usage |-> 0, pending |-> FALSE, life |-> "unborn"] \in Object
    BY DEF Object
  <2>3. QED
    BY <2>1, <2>2 DEF TableInit, TableTypeOK, Locations, NoPacket
<1>2. QED
  BY <1>1 DEF TableInit, PeerTableAssumption, HandsInv, UsageIsRight, Counts, ListedAreLive,
       MadeOnesAreKnown, HandsAreRight, HandIsRight, VictimsAreApart, ReceiverAlone,
       DroppedAreInHand, PacketIsRight, Threads

\* and every step keeps it.
LEMMA HandsStep ==
    ASSUME PeerTableAssumption, HandsInv, [TableNext]_tableVars
    PROVE  HandsInv'
<1>1. CASE UNCHANGED tableVars
  BY <1>1 DEF tableVars, HandsInv, TableTypeOK, UsageIsRight, Counts, ListedAreLive,
              MadeOnesAreKnown,
       HandsAreRight, HandIsRight, VictimsAreApart, ReceiverAlone, DroppedAreInHand, PacketIsRight
<1>2. ASSUME NEW t \in Threads, Release(t) \/ Delete(t) \/ Post(t) \/ Drop(t)
      PROVE  HandsInv'
  BY <1>2, ReleaseKeepsHands, DeleteKeepsHands, PostKeepsHands, DropKeepsHands
<1>3. ASSUME NEW i \in Ids, Scan(i)
      PROVE  HandsInv'
  <2>1. "sender" \in Threads /\ "held" \in {"held", "leaving"}
    BY DEF Threads
  <2>2. QED
    BY <1>3, <2>1, AcquireKeepsHands DEF Scan
<1>4. ASSUME NEW i \in Ids, Query(i)
      PROVE  HandsInv'
  <2>1. "server" \in Threads /\ "held" \in {"held", "leaving"}
    BY DEF Threads
  <2>2. QED
    BY <1>4, <2>1, AcquireKeepsHands DEF Query
<1>5. QED
  BY <1>1, <1>2, <1>3, <1>4, EraseKeepsHands, IdentifyKeepsHands, LookupKeepsHands,
     ProcessPacketKeepsHands, DeliverKeepsHands, CondemnKeepsHands, ReceiveEventKeepsHands
     DEF TableNext

-----------------------------------------------------------------------------
\* In every behaviour of the three threads, all that HandsInv says holds.
THEOREM HandsHold == PeerTableAssumption => (TableSpec => []HandsInv)
<1> SUFFICES ASSUME PeerTableAssumption
             PROVE  TableSpec => []HandsInv
  OBVIOUS
<1>1. TableInit => HandsInv
  BY HandsInit
<1>2. HandsInv /\ [TableNext]_tableVars => HandsInv'
  BY HandsStep
<1>3. QED
  BY <1>1, <1>2, PTL DEF TableSpec

\* The variables keep their types.
THEOREM TableTypeCorrect == PeerTableAssumption => (TableSpec => []TableTypeOK)
<1>1. HandsInv => TableTypeOK
  BY DEF HandsInv
<1>2. QED
  BY <1>1, HandsHold, PTL

\* Nobody uses a peer that was deleted, and a dropped peer is deleted once, when its last
\* user is done with it.
THEOREM PeersLiveLongEnough == PeerTableAssumption => (TableSpec => []PeersOutliveTheirUse)
<1> SUFFICES ASSUME PeerTableAssumption
             PROVE  TableSpec => []PeersOutliveTheirUse
  OBVIOUS
<1>1. HandsInv => PeersOutliveTheirUse
  <2> SUFFICES ASSUME HandsInv
               PROVE  PeersOutliveTheirUse
    OBVIOUS
  <2>1. NoUseAfterFree
    BY DEF NoUseAfterFree, HandsInv, ListedAreLive, HandsAreRight, HandIsRight,
                VictimsAreApart
  <2>2. ASSUME NEW t \in Threads, at[t] = "delete"
        PROVE  /\ obj[victim[t]].usage = 0
               /\ \A u \in Threads \ {t} : victim[t] \notin {held[u], victim[u]}
    <3>1. victim[t] # None /\ obj[victim[t]].usage = 0
      BY <2>2 DEF HandsInv, HandsAreRight, HandIsRight
    <3>2. \A u \in Threads \ {t} : victim[u] # victim[t]
      BY <3>1 DEF HandsInv, VictimsAreApart
    <3>3. \A u \in Threads : held[u] # victim[t]
      BY <3>1, HeldCounts
    <3>4. QED
      BY <3>1, <3>2, <3>3
  <2>3. DeletedOnce
    BY <2>2 DEF DeletedOnce, HandsInv, DroppedAreInHand
  <2>4. QED
    BY <2>1, <2>3 DEF PeersOutliveTheirUse
<1>2. TableSpec => []HandsInv
  BY HandsHold
<1>3. QED
  BY <1>1, <1>2, PTL

-----------------------------------------------------------------------------
(* What the server thread learns: one lemma for the steps that tell it     *)
(* nothing, and one for each of the others.                                *)

\* Where an id points is an address, for whatever refers to it.
LEMMA Referred ==
    ASSUME PeerTableAssumption, HandsInv
    PROVE  /\ peers \in [Ids -> PeerObjects \union {None}]
           /\ \A t \in Threads : at[t] = "erased" =>
                  victim[t] \in PeerObjects /\ obj[victim[t]].id \in Ids
           /\ held["receiver"] # None =>
                  held["receiver"] \in PeerObjects /\ obj[held["receiver"]].id \in Ids
<1>1. \A t \in Threads : /\ held[t] \in PeerObjects \union {None}
                         /\ victim[t] \in PeerObjects \union {None}
  BY DEF HandsInv, TableTypeOK
<1>2. \A t \in Threads : at[t] = "erased" => victim[t] # None
  BY DEF HandsInv, HandsAreRight, HandIsRight
<1>3. \A t \in Threads : held[t] # None => obj[held[t]].life = "live"
  BY DEF HandsInv, HandsAreRight, HandIsRight
<1>4. \A t \in Threads : victim[t] # None => obj[victim[t]].life = "live"
  BY DEF HandsInv, VictimsAreApart
<1>5. \A p \in PeerObjects : obj[p].life = "live" => obj[p].id \in Ids
  BY DEF HandsInv, MadeOnesAreKnown
<1>6. peers \in [Ids -> PeerObjects \union {None}] /\ "receiver" \in Threads
  BY DEF HandsInv, TableTypeOK, Threads
<1>7. QED
  BY <1>1, <1>2, <1>3, <1>4, <1>5, <1>6

\* Steps that leave the map, the events and the clients, and erase no peer.
LEMMA QuietSteps ==
    ASSUME PeerTableAssumption, HandsInv, SessionInv, HandsInv',
           UNCHANGED <<peers, events, clients, reused>>,
           \A q \in PeerObjects : obj'[q].id = obj[q].id /\ obj'[q].addr = obj[q].addr,
           \A t \in Threads : /\ at'[t] = "erased" <=> at[t] = "erased"
                              /\ at[t] = "erased" => victim'[t] = victim[t],
           held'["receiver"] # None =>
               \/ held'["receiver"] = held["receiver"]
               \/ \E i \in Ids : held'["receiver"] = peers[i]
    PROVE  SessionInv'
<1>1. SUFFICES ASSUME ~ reused
               PROVE  OneHome' /\ OneTakesAway' /\ AnnouncedFirst' /\ PresentAreAnnounced'
  BY DEF SessionInv
<1>2. OneHome /\ OneTakesAway /\ AnnouncedFirst /\ PresentAreAnnounced
  BY <1>1 DEF SessionInv
<1>3. ASSUME NEW t \in Threads, NEW i \in Ids
      PROVE  /\ Leaving(t, i)' <=> Leaving(t, i)
             /\ Leaving(t, i) => obj'[victim'[t]].addr = obj[victim[t]].addr
  BY Referred DEF Leaving
<1>4. ASSUME NEW i \in Ids
      PROVE  \E a \in Addresses \union {None} : HomeIs(i, a)'
  <2>1. PICK a \in Addresses \union {None} : HomeIs(i, a)
    BY <1>2 DEF OneHome
  <2>2. peers[i] # None => obj'[peers[i]].addr = a
    BY <2>1, Referred DEF HomeIs
  <2>3. ASSUME held'["receiver"] # None, obj'[held'["receiver"]].id = i
        PROVE  obj'[held'["receiver"]].addr = a
    <3>1. CASE held'["receiver"] = held["receiver"]
      BY <2>1, <2>3, <3>1, Referred DEF HomeIs
    <3>2. ASSUME NEW j \in Ids, held'["receiver"] = peers[j]
          PROVE  obj'[held'["receiver"]].addr = a
      <4>1. peers[j] \in PeerObjects /\ obj[peers[j]].id = j
        BY <2>3, <3>2, Referred DEF HandsInv, ListedAreLive
      <4>2. i = j
        BY <2>3, <3>2, <4>1
      <4>3. QED
        BY <2>2, <2>3, <3>2, <4>2
    <3>3. QED
      BY <2>3, <3>1, <3>2
  <2>4. \A t \in Threads : Leaving(t, i)' => obj'[victim'[t]].addr = a
    BY <1>3, <2>1 DEF HomeIs
  <2>5. HomeIs(i, a)'
    BY <2>1, <2>2, <2>3, <2>4 DEF HomeIs
  <2>6. QED
    BY <2>5
<1>5. OneHome'
  BY <1>4 DEF OneHome
<1>6. OneTakesAway'
  BY <1>2, <1>3 DEF OneTakesAway
<1>7. AnnouncedFirst'
  BY <1>2 DEF AnnouncedFirst
<1>8. PresentAreAnnounced'
  BY <1>2, <1>3 DEF PresentAreAnnounced, Present, Announced, Queued
<1>9. QED
  BY <1>5, <1>6, <1>7, <1>8

\* A queue and one more event.
LEMMA EventAppended ==
    ASSUME NEW s \in Seq(Event), NEW e \in Event, NEW r, r = Append(s, e)
    PROVE  \E last \in Nat \ {0} :
               /\ DOMAIN r = DOMAIN s \union {last} /\ last \notin DOMAIN s
               /\ r[last] = e /\ \A n \in DOMAIN s : n \in Nat /\ n < last /\ r[n] = s[n]
<1>1. PICK last \in Nat : last = Len(s) + 1
  OBVIOUS
<1>2. DOMAIN s = 1 .. Len(s) /\ DOMAIN r = 1 .. last /\ Len(s) \in Nat
  BY <1>1
<1>3. r[last] = e /\ \A n \in DOMAIN s : r[n] = s[n]
  BY <1>1, <1>2
<1>4. last # 0 /\ DOMAIN r = DOMAIN s \union {last} /\ last \notin DOMAIN s
  BY <1>1, <1>2
<1>5. \A n \in DOMAIN s : n \in Nat /\ n < last
  BY <1>1, <1>2
<1>6. QED
  BY <1>3, <1>4, <1>5

\* A queue without its first event.
LEMMA Dequeued ==
    ASSUME NEW s \in Seq(Event), s # <<>>, NEW r, r = Tail(s)
    PROVE  /\ Head(s) = s[1] /\ 1 \in DOMAIN s
           /\ \A n \in DOMAIN s : n \in Nat /\ n >= 1
           /\ \A n \in DOMAIN r : n \in Nat /\ n >= 1
           /\ \A n \in DOMAIN r : n + 1 \in DOMAIN s /\ r[n] = s[n + 1]
           /\ \A n \in DOMAIN s \ {1} : n - 1 \in DOMAIN r /\ r[n - 1] = s[n]
<1>1. Len(s) \in Nat \ {0} /\ DOMAIN s = 1 .. Len(s) /\ Head(s) = s[1]
  OBVIOUS
<1>2. Len(r) = Len(s) - 1 /\ DOMAIN r = 1 .. Len(s) - 1
  BY <1>1
<1>3. \A n \in 1 .. Len(s) - 1 : r[n] = s[n + 1]
  BY <1>1
<1>4. QED
  BY <1>1, <1>2, <1>3

\* A peer leaves the map: it is in the hands of one thread now.
LEMMA EraseKeepsSession ==
    ASSUME PeerTableAssumption, HandsInv, SessionInv, HandsInv',
           NEW t \in Threads, NEW i \in Ids, Erase(t, i)
    PROVE  SessionInv'
<1>1. /\ obj' = obj /\ held' = held /\ events' = events /\ clients' = clients
      /\ reused' = reused /\ at[t] # "erased" /\ victim[t] = None
  BY DEF Erase, HandsInv, HandsAreRight, HandIsRight
<1>2. CASE peers[i] = None
  <2>1. /\ peers' = peers /\ victim' = victim /\ at'[t] # "erased"
        /\ \A u \in Threads \ {t} : at'[u] = at[u]
    BY <1>2 DEF Erase, Goto, Home, HandsInv, TableTypeOK
  <2>2. QED
    BY <1>1, <2>1, QuietSteps
<1>3. CASE peers[i] # None
  <2>1. PICK p : p = peers[i]
    OBVIOUS
  <2>2. p \in PeerObjects /\ obj[p].id = i
    BY <1>3, <2>1 DEF HandsInv, TableTypeOK, ListedAreLive
  <2>3. /\ victim'[t] = p /\ at'[t] = "erased"
        /\ \A u \in Threads \ {t} : at'[u] = at[u] /\ victim'[u] = victim[u]
        /\ peers'[i] = None /\ \A j \in Ids \ {i} : peers'[j] = peers[j]
    BY <1>3, <2>1 DEF Erase, Goto, HandsInv, TableTypeOK
  <2>4. SUFFICES ASSUME ~ reused
                 PROVE  OneHome' /\ OneTakesAway' /\ AnnouncedFirst' /\ PresentAreAnnounced'
    BY <1>1 DEF SessionInv
  <2>5. OneHome /\ OneTakesAway /\ AnnouncedFirst /\ PresentAreAnnounced
    BY <2>4 DEF SessionInv
  <2>6. ASSUME NEW u \in Threads, NEW j \in Ids
        PROVE  Leaving(u, j)' <=> Leaving(u, j) \/ (u = t /\ j = i)
    BY <1>1, <2>2, <2>3 DEF Leaving
  <2>7. \A u \in Threads : ~ Leaving(u, i)
    BY <1>3, <2>5 DEF OneTakesAway
  <2>8. ASSUME NEW j \in Ids
        PROVE  \E a \in Addresses \union {None} : HomeIs(j, a)'
    <3>1. PICK a \in Addresses \union {None} : HomeIs(j, a)
      BY <2>5 DEF OneHome
    <3>2. ASSUME NEW u \in Threads, Leaving(u, j)'
          PROVE  obj[victim'[u]].addr = a
      <4>1. CASE u = t /\ j = i
        BY <1>3, <2>1, <2>3, <3>1, <4>1 DEF HomeIs
      <4>2. CASE ~ (u = t /\ j = i)
        <5>1. Leaving(u, j)
          BY <2>6, <3>2, <4>2
        <5>2. u # t
          BY <1>1, <5>1 DEF Leaving
        <5>3. QED
          BY <2>3, <3>1, <5>1, <5>2 DEF HomeIs
      <4>3. QED
        BY <4>1, <4>2
    <3>3. peers'[j] # None => peers'[j] = peers[j]
      BY <2>3
    <3>4. HomeIs(j, a)'
      BY <1>1, <3>1, <3>2, <3>3 DEF HomeIs
    <3>5. QED
      BY <3>4
  <2>9. OneHome'
    BY <2>8 DEF OneHome
  <2>10. OneTakesAway'
    BY <2>3, <2>5, <2>6, <2>7 DEF OneTakesAway
  <2>11. AnnouncedFirst'
    BY <1>1, <2>5 DEF AnnouncedFirst
  <2>12. PresentAreAnnounced'
    <3>1. \A j \in Ids : Present(j)' <=> Present(j)
      BY <1>3, <2>3, <2>6 DEF Present
    <3>2. QED
      BY <1>1, <2>5, <3>1 DEF PresentAreAnnounced, Announced, Queued
  <2>13. QED
    BY <2>9, <2>10, <2>11, <2>12
<1>4. QED
  BY <1>2, <1>3

\* The removal of a peer is queued behind all that was told of it.
LEMMA PostKeepsSession ==
    ASSUME PeerTableAssumption, HandsInv, SessionInv, HandsInv', NEW t \in Threads, Post(t)
    PROVE  SessionInv'
<1>1. /\ peers' = peers /\ obj' = obj /\ held' = held /\ victim' = victim
      /\ clients' = clients /\ reused' = reused
      /\ at[t] = "erased" /\ at'[t] = "posted"
      /\ \A u \in Threads \ {t} : at'[u] = at[u]
  BY DEF Post, Goto, HandsInv, TableTypeOK
<1>2. PICK p, i, e : /\ p = victim[t] /\ i = obj[p].id
                     /\ e = [kind |-> "removed", id |-> i, addr |-> obj[p].addr]
  OBVIOUS
<1>3. p \in PeerObjects /\ i \in Ids /\ Leaving(t, i)
  BY <1>1, <1>2, Referred DEF Leaving
<1>4. e.kind = "removed" /\ e.id = i /\ e.addr = obj[p].addr
  BY <1>2
<1>5. events' = Append(events, e) /\ events \in Seq(Event)
  BY <1>2 DEF Post, HandsInv, TableTypeOK
<1>6. e \in Event
  <2>1. obj[p].addr \in Addresses
    BY <1>1, <1>2, <1>3 DEF HandsInv, HandsAreRight, HandIsRight, VictimsAreApart,
                            MadeOnesAreKnown
  <2>2. QED
    BY <1>2, <1>3, <2>1 DEF Event
<1>7. PICK last \in Nat \ {0} :
          /\ DOMAIN events' = DOMAIN events \union {last} /\ last \notin DOMAIN events
          /\ events'[last] = e
          /\ \A n \in DOMAIN events : n \in Nat /\ n < last /\ events'[n] = events[n]
  BY <1>5, <1>6, EventAppended
<1>8. SUFFICES ASSUME ~ reused
               PROVE  OneHome' /\ OneTakesAway' /\ AnnouncedFirst' /\ PresentAreAnnounced'
  BY <1>1 DEF SessionInv
<1>9. OneHome /\ OneTakesAway /\ AnnouncedFirst /\ PresentAreAnnounced
  BY <1>8 DEF SessionInv
<1>10. ASSUME NEW u \in Threads, NEW j \in Ids
       PROVE  Leaving(u, j)' <=> Leaving(u, j) /\ u # t
  BY <1>1 DEF Leaving
<1>11. ASSUME NEW j \in Ids
       PROVE  \E a \in Addresses \union {None} : HomeIs(j, a)'
  <2>1. PICK a \in Addresses \union {None} : HomeIs(j, a)
    BY <1>9 DEF OneHome
  <2>2. j = i => obj[p].addr = a
    BY <1>2, <1>3, <2>1 DEF HomeIs
  <2>3. \A n \in DOMAIN events' : events'[n].id = j => events'[n].addr = a
    BY <1>4, <1>7, <2>1, <2>2 DEF HomeIs
  <2>4. HomeIs(j, a)'
    BY <1>1, <1>10, <2>1, <2>3 DEF HomeIs
  <2>5. QED
    BY <2>4
<1>12. OneHome'
  BY <1>11 DEF OneHome
<1>13. OneTakesAway'
  BY <1>1, <1>9, <1>10 DEF OneTakesAway
<1>14. AnnouncedFirst'
  BY <1>1, <1>4, <1>7, <1>9 DEF AnnouncedFirst
<1>15. PresentAreAnnounced'
  <2>1. ASSUME NEW j \in Ids
        PROVE  /\ Queued("added", j)' <=> Queued("added", j)
               /\ Queued("removed", j)' <=> Queued("removed", j) \/ j = i
    BY <1>4, <1>7 DEF Queued
  <2>2. peers[i] = None /\ \A u \in Threads : Leaving(u, i) => u = t
    BY <1>3, <1>9 DEF OneTakesAway
  <2>3. ~ Present(i)'
    BY <1>1, <1>3, <1>10, <2>2 DEF Present
  <2>4. ASSUME NEW j \in Ids \ {i}
        PROVE  Present(j)' <=> Present(j)
    BY <1>1, <1>2, <1>10 DEF Present, Leaving
  <2>5. \A j \in Ids : Announced(j)' <=> Announced(j)
    BY <1>1, <2>1 DEF Announced
  <2>6. QED
    BY <1>9, <2>1, <2>3, <2>4, <2>5 DEF PresentAreAnnounced
<1>16. QED
  BY <1>12, <1>13, <1>14, <1>15

\* A peer is made and announced; nothing of an earlier one with its id is left.
LEMMA CreatePeerKeepsSession ==
    ASSUME PeerTableAssumption, HandsInv, SessionInv, HandsInv',
           NEW a \in Addresses, NEW p \in PeerObjects, NEW i \in Ids,
           at["receiver"] = "idle", CreatePeer(p, i, a), Goto("receiver", "lookup"),
           UNCHANGED <<held, victim, doomed, clients>>
    PROVE  SessionInv'
<1>1. SUFFICES ASSUME ~ reused'
               PROVE  OneHome' /\ OneTakesAway' /\ AnnouncedFirst' /\ PresentAreAnnounced'
  BY DEF SessionInv
<1>2. ~ reused /\ ~ Lingers(i)
  BY <1>1 DEF CreatePeer
<1>3. OneHome /\ OneTakesAway /\ AnnouncedFirst /\ PresentAreAnnounced
  BY <1>2 DEF SessionInv
<1>4. /\ obj' \in [PeerObjects -> Object] /\ obj'[p].life = "live"
      /\ obj'[p].id = i /\ obj'[p].addr = a
      /\ \A q \in PeerObjects :
             /\ q # p => obj'[q] = obj[q]
             /\ obj'[q].usage = obj[q].usage /\ obj'[q].pending = obj[q].pending
  <2>1. obj' = [obj EXCEPT ![p].id = i, ![p].addr = a, ![p].life = "live"]
    BY DEF CreatePeer
  <2>2. TableTypeOK
    BY DEF HandsInv
  <2>3. QED
    BY <2>1, <2>2, MakingChanges, Zenon
<1>5. /\ clients[i] = None
      /\ \A u \in Threads : victim[u] # None => obj[victim[u]].id # i
      /\ \A n \in DOMAIN events : events[n].id # i
  BY <1>2 DEF Lingers
<1>6. obj[p].life = "unborn" /\ peers[i] = None
  BY DEF CreatePeer
<1>7. /\ \A u \in Threads : at[u] = "erased" => victim[u] \in PeerObjects \ {p}
      /\ \A j \in Ids : peers[j] # None => peers[j] \in PeerObjects \ {p}
      /\ held["receiver"] = None
  <2>1. \A u \in Threads : victim[u] # None => victim[u] # p
    BY <1>6 DEF HandsInv, VictimsAreApart
  <2>2. \A j \in Ids : peers[j] # None => peers[j] \in PeerObjects /\ peers[j] # p
    BY <1>6 DEF HandsInv, TableTypeOK, ListedAreLive
  <2>3. \A u \in Threads : at[u] = "erased" => victim[u] # None /\ victim[u] \in PeerObjects
    BY DEF HandsInv, TableTypeOK, HandsAreRight, HandIsRight
  <2>4. held["receiver"] = None
    BY DEF HandsInv, HandsAreRight, HandIsRight, Threads
  <2>5. QED
    BY <2>1, <2>2, <2>3, <2>4
<1>8. /\ peers'[i] = p /\ \A j \in Ids \ {i} : peers'[j] = peers[j]
      /\ held' = held /\ victim' = victim /\ clients' = clients
      /\ \A u \in Threads : at'[u] = "erased" <=> at[u] = "erased"
  BY DEF CreatePeer, Goto, HandsInv, TableTypeOK
<1>9. PICK e : e = [kind |-> "added", id |-> i, addr |-> a]
  OBVIOUS
<1>10. e \in Event /\ e.kind = "added" /\ e.id = i /\ e.addr = a
  BY <1>9 DEF Event
<1>11. PICK last \in Nat \ {0} :
           /\ DOMAIN events' = DOMAIN events \union {last} /\ last \notin DOMAIN events
           /\ events'[last] = e
           /\ \A n \in DOMAIN events : n \in Nat /\ n < last /\ events'[n] = events[n]
  <2>1. events' = Append(events, e) /\ events \in Seq(Event)
    BY <1>9 DEF CreatePeer, HandsInv, TableTypeOK
  <2>2. QED
    BY <1>10, <2>1, EventAppended
<1>12. ASSUME NEW u \in Threads, NEW j \in Ids
       PROVE  /\ Leaving(u, j)' <=> Leaving(u, j)
              /\ ~ Leaving(u, i)
              /\ Leaving(u, j) => obj'[victim'[u]].addr = obj[victim[u]].addr
  <2>1. at[u] = "erased" => victim[u] # None
    BY DEF HandsInv, HandsAreRight, HandIsRight
  <2>2. QED
    BY <1>4, <1>5, <1>7, <1>8, <2>1 DEF Leaving
<1>13. ASSUME NEW j \in Ids \ {i}
       PROVE  \E b \in Addresses \union {None} : HomeIs(j, b)'
  <2>1. PICK b \in Addresses \union {None} : HomeIs(j, b)
    BY <1>3 DEF OneHome
  <2>2. \A n \in DOMAIN events' : events'[n].id = j => events'[n].addr = b
    BY <1>10, <1>11, <2>1 DEF HomeIs
  <2>3. peers'[j] # None => obj'[peers'[j]].addr = b
    BY <1>4, <1>7, <1>8, <2>1 DEF HomeIs
  <2>4. \A u \in Threads : Leaving(u, j)' => obj'[victim'[u]].addr = b
    BY <1>12, <2>1 DEF HomeIs
  <2>5. HomeIs(j, b)'
    BY <1>7, <1>8, <2>1, <2>2, <2>3, <2>4 DEF HomeIs
  <2>6. QED
    BY <2>5
<1>14. HomeIs(i, a)'
  <2>1. \A n \in DOMAIN events' : events'[n].id = i => events'[n].addr = a
    BY <1>5, <1>10, <1>11
  <2>2. \A u \in Threads : ~ Leaving(u, i)'
    BY <1>12
  <2>3. QED
    BY <1>4, <1>5, <1>7, <1>8, <2>1, <2>2 DEF HomeIs
<1>15. OneHome'
  BY <1>13, <1>14 DEF OneHome
<1>16. OneTakesAway'
  BY <1>3, <1>8, <1>12 DEF OneTakesAway
<1>17. AnnouncedFirst'
  BY <1>3, <1>5, <1>8, <1>10, <1>11 DEF AnnouncedFirst
<1>18. PresentAreAnnounced'
  <2>1. ASSUME NEW j \in Ids
        PROVE  /\ Queued("added", j)' <=> Queued("added", j) \/ j = i
               /\ Queued("removed", j)' <=> Queued("removed", j)
    BY <1>10, <1>11 DEF Queued
  <2>2. ~ Queued("removed", i)
    BY <1>5 DEF Queued
  <2>3. ASSUME NEW j \in Ids \ {i}
        PROVE  Present(j)' <=> Present(j)
    BY <1>8, <1>12 DEF Present
  <2>4. Present(i)'
    BY <1>8 DEF Present, PeerTableAssumption
  <2>5. \A j \in Ids : Announced(j)' <=> Announced(j) \/ j = i
    BY <1>8, <2>1 DEF Announced
  <2>6. QED
    BY <1>3, <2>1, <2>2, <2>3, <2>4, <2>5 DEF PresentAreAnnounced
<1>19. QED
  BY <1>15, <1>16, <1>17, <1>18

\* The receiver learns whose packet it has.
LEMMA IdentifyKeepsSession ==
    ASSUME PeerTableAssumption, HandsInv, SessionInv, HandsInv',
           NEW a \in Addresses, NEW claimed \in Ids \union {None}, Identify(a, claimed)
    PROVE  SessionInv'
<1>1. /\ at["receiver"] = "idle" /\ Goto("receiver", "lookup")
      /\ UNCHANGED <<held, victim, doomed, clients>>
  BY DEF Identify
<1>2. CASE \E p \in PeerObjects, i \in Ids : CreatePeer(p, i, a)
  BY <1>1, <1>2, CreatePeerKeepsSession
<1>3. CASE UNCHANGED <<peers, obj, events, reused>>
  <2>1. \A t \in Threads : at'[t] = "erased" <=> at[t] = "erased"
    BY <1>1 DEF Goto, HandsInv, TableTypeOK
  <2>2. QED
    BY <1>1, <1>3, <2>1, QuietSteps
<1>4. QED
  BY <1>2, <1>3 DEF Identify

\* Data is queued under the id and from the address of the peer it was processed for.
LEMMA DeliverKeepsSession ==
    ASSUME PeerTableAssumption, HandsInv, SessionInv, HandsInv', Deliver
    PROVE  SessionInv'
<1>1. /\ peers' = peers /\ obj' = obj /\ held' = held /\ victim' = victim
      /\ clients' = clients /\ reused' = reused
      /\ \A u \in Threads : at'[u] = "erased" <=> at[u] = "erased"
  BY DEF Deliver, Goto, HandsInv, TableTypeOK
<1>2. CASE events' = events
  BY <1>1, <1>2, QuietSteps
<1>3. ASSUME NEW e, e = [kind |-> "data", id |-> packet.id, addr |-> packet.addr],
             events' = Append(events, e)
      PROVE  SessionInv'
  <2>1. /\ packet.id \in Ids /\ packet.addr \in Addresses
        /\ packet.id = obj[held["receiver"]].id /\ packet.addr = obj[held["receiver"]].addr
    BY DEF Deliver, HandsInv, PacketIsRight
  <2>2. held["receiver"] # None
    BY DEF Deliver, HandsInv, HandsAreRight, HandIsRight, Threads
  <2>3. e \in Event /\ e.kind = "data" /\ e.id = packet.id /\ e.addr = packet.addr
    BY <1>3, <2>1 DEF Event
  <2>4. PICK last \in Nat \ {0} :
            /\ DOMAIN events' = DOMAIN events \union {last} /\ last \notin DOMAIN events
            /\ events'[last] = e
            /\ \A n \in DOMAIN events : n \in Nat /\ n < last /\ events'[n] = events[n]
    <3>1. events \in Seq(Event)
      BY DEF HandsInv, TableTypeOK
    <3>2. QED
      BY <1>3, <2>3, <3>1, EventAppended
  <2>5. SUFFICES ASSUME ~ reused
                 PROVE  OneHome' /\ OneTakesAway' /\ AnnouncedFirst' /\ PresentAreAnnounced'
    BY <1>1 DEF SessionInv
  <2>6. OneHome /\ OneTakesAway /\ AnnouncedFirst /\ PresentAreAnnounced
    BY <2>5 DEF SessionInv
  <2>7. ASSUME NEW u \in Threads, NEW j \in Ids
        PROVE  Leaving(u, j)' <=> Leaving(u, j)
    BY <1>1 DEF Leaving
  <2>8. ASSUME NEW j \in Ids
        PROVE  \E a \in Addresses \union {None} : HomeIs(j, a)'
    <3>1. PICK a \in Addresses \union {None} : HomeIs(j, a)
      BY <2>6 DEF OneHome
    <3>2. e.id = j => e.addr = a
      BY <2>1, <2>2, <2>3, <3>1 DEF HomeIs
    <3>3. \A n \in DOMAIN events' : events'[n].id = j => events'[n].addr = a
      BY <2>4, <3>1, <3>2 DEF HomeIs
    <3>4. HomeIs(j, a)'
      BY <1>1, <2>7, <3>1, <3>3 DEF HomeIs
    <3>5. QED
      BY <3>4
  <2>9. OneHome'
    BY <2>8 DEF OneHome
  <2>10. OneTakesAway'
    BY <1>1, <2>6, <2>7 DEF OneTakesAway
  <2>11. AnnouncedFirst'
    BY <1>1, <2>3, <2>4, <2>6 DEF AnnouncedFirst
  <2>12. PresentAreAnnounced'
    <3>1. ASSUME NEW j \in Ids
          PROVE  /\ Queued("added", j)' <=> Queued("added", j)
                 /\ Queued("removed", j)' <=> Queued("removed", j)
      BY <2>3, <2>4 DEF Queued
    <3>2. ASSUME NEW j \in Ids
          PROVE  /\ Present(j)' <=> Present(j)
                 /\ Announced(j)' <=> Announced(j)
      BY <1>1, <2>7, <3>1 DEF Present, Announced
    <3>3. QED
      BY <2>6, <3>1, <3>2 DEF PresentAreAnnounced
  <2>13. QED
    BY <2>9, <2>10, <2>11, <2>12
<1>4. QED
  BY <1>2, <1>3 DEF Deliver

\* The server thread handles an event.
LEMMA ReceiveEventKeepsSession ==
    ASSUME PeerTableAssumption, HandsInv, SessionInv, HandsInv', ReceiveEvent
    PROVE  SessionInv'
<1>1. /\ peers' = peers /\ obj' = obj /\ held' = held /\ victim' = victim
      /\ at' = at /\ reused' = reused
  BY DEF ReceiveEvent
<1>2. PICK e, k : e = Head(events) /\ k = e.id
  OBVIOUS
<1>3. /\ e = events[1] /\ 1 \in DOMAIN events
      /\ \A n \in DOMAIN events : n \in Nat /\ n >= 1
      /\ \A n \in DOMAIN events' : n \in Nat /\ n >= 1
      /\ \A n \in DOMAIN events' : n + 1 \in DOMAIN events /\ events'[n] = events[n + 1]
      /\ \A n \in DOMAIN events \ {1} : n - 1 \in DOMAIN events' /\ events'[n - 1] = events[n]
  BY <1>2, Dequeued DEF ReceiveEvent, HandsInv, TableTypeOK
<1>4. e \in Event
  BY <1>2 DEF ReceiveEvent, HandsInv, TableTypeOK
<1>5. k \in Ids /\ e.addr \in Addresses /\ e.kind \in {"added", "removed", "data"}
  BY <1>2, <1>4 DEF Event
<1>6. clients'[k] = ClientAfter(e) /\ \A j \in Ids \ {k} : clients'[j] = clients[j]
  BY <1>2, <1>5 DEF ReceiveEvent, HandsInv, TableTypeOK
<1>7. SUFFICES ASSUME ~ reused
               PROVE  OneHome' /\ OneTakesAway' /\ AnnouncedFirst' /\ PresentAreAnnounced'
  BY <1>1 DEF SessionInv
<1>8. OneHome /\ OneTakesAway /\ AnnouncedFirst /\ PresentAreAnnounced
  BY <1>7 DEF SessionInv
<1>9. /\ e.kind = "added" => clients[k] = None /\ clients'[k] = e.addr
      /\ e.kind = "removed" => clients'[k] = None
      /\ e.kind = "data" => clients'[k] = clients[k]
  BY <1>2, <1>3, <1>5, <1>6, <1>8 DEF ClientAfter, AnnouncedFirst
<1>10. ASSUME NEW n \in DOMAIN events', events'[n].kind = "added"
       PROVE  events'[n].id # k
  <2>1. n + 1 \in DOMAIN events /\ events[n + 1].kind = "added" /\ n \in Nat /\ n + 1 >= 1
    BY <1>3, <1>10
  <2>2. n >= 1
    BY <1>3, <1>10
  <2>3. events[n + 1].id # events[1].id
    BY <1>3, <1>8, <2>1, <2>2 DEF AnnouncedFirst
  <2>4. QED
    BY <1>2, <1>3, <1>10, <2>3
<1>11. ASSUME NEW u \in Threads, NEW j \in Ids
       PROVE  Leaving(u, j)' <=> Leaving(u, j)
  BY <1>1 DEF Leaving
<1>12. ASSUME NEW j \in Ids
       PROVE  \E a \in Addresses \union {None} : HomeIs(j, a)'
  <2>1. PICK a \in Addresses \union {None} : HomeIs(j, a)
    BY <1>8 DEF OneHome
  <2>2. \A n \in DOMAIN events' : events'[n].id = j => events'[n].addr = a
    BY <1>3, <2>1 DEF HomeIs
  <2>3. clients'[j] # None => clients'[j] = a
    BY <1>2, <1>3, <1>5, <1>6, <1>9, <2>1 DEF HomeIs
  <2>4. HomeIs(j, a)'
    BY <1>1, <1>11, <2>1, <2>2, <2>3 DEF HomeIs
  <2>5. QED
    BY <2>4
<1>13. OneHome'
  BY <1>12 DEF OneHome
<1>14. OneTakesAway'
  BY <1>1, <1>8, <1>11 DEF OneTakesAway
<1>15. AnnouncedFirst'
  <2>1. ASSUME NEW n \in DOMAIN events', events'[n].kind = "added"
        PROVE  /\ clients'[events'[n].id] = None
               /\ \A m \in DOMAIN events' : events'[m].id = events'[n].id => n <= m
    <3>1. n + 1 \in DOMAIN events /\ events[n + 1] = events'[n] /\ n \in Nat
      BY <1>3, <2>1
    <3>2. events[n + 1].id \in Ids /\ events[n + 1].id # k
      <4>1. events \in Seq(Event)
        BY DEF HandsInv, TableTypeOK
      <4>2. events[n + 1] \in Event
        BY <3>1, <4>1
      <4>3. events[n + 1].id # k
        BY <1>10, <2>1, <3>1
      <4>4. QED
        BY <4>2, <4>3 DEF Event
    <3>3. clients'[events'[n].id] = None
      BY <1>6, <1>8, <2>1, <3>1, <3>2 DEF AnnouncedFirst
    <3>4. ASSUME NEW m \in DOMAIN events', events'[m].id = events'[n].id
          PROVE  n <= m
      <4>1. m + 1 \in DOMAIN events /\ events[m + 1] = events'[m] /\ m \in Nat
        BY <1>3, <3>4
      <4>2. n + 1 <= m + 1
        BY <1>8, <2>1, <3>1, <3>4, <4>1 DEF AnnouncedFirst
      <4>3. QED
        BY <3>1, <4>1, <4>2
    <3>5. QED
      BY <3>3, <3>4
  <2>2. QED
    BY <2>1 DEF AnnouncedFirst
<1>16. PresentAreAnnounced'
  <2>1. ASSUME NEW j \in Ids, NEW kind
        PROVE  /\ Queued(kind, j)' => Queued(kind, j)
               /\ Queued(kind, j) => Queued(kind, j)' \/ (j = k /\ kind = e.kind)
    <3>1. ASSUME Queued(kind, j)'
          PROVE  Queued(kind, j)
      BY <1>3, <3>1 DEF Queued
    <3>2. ASSUME Queued(kind, j), ~ (j = k /\ kind = e.kind)
          PROVE  Queued(kind, j)'
      <4>1. PICK n \in DOMAIN events : events[n].kind = kind /\ events[n].id = j
        BY <3>2 DEF Queued
      <4>2. n # 1
        BY <1>2, <1>3, <3>2, <4>1
      <4>3. n - 1 \in DOMAIN events' /\ events'[n - 1] = events[n]
        BY <1>3, <4>1, <4>2
      <4>4. QED
        BY <4>1, <4>3 DEF Queued
    <3>3. QED
      BY <3>1, <3>2
  <2>2. \A j \in Ids : Present(j)' <=> Present(j)
    BY <1>1, <1>11 DEF Present
  <2>3. ~ Queued("added", k)'
    BY <1>10 DEF Queued
  <2>4. ASSUME NEW j \in Ids \ {k}
        PROVE  /\ Queued("removed", j)' <=> Queued("removed", j)
               /\ Announced(j)' <=> Announced(j)
    BY <1>6, <2>1 DEF Announced
  <2>5. /\ Present(k) => Announced(k)' /\ ~ Queued("removed", k)'
        /\ ~ Present(k) /\ Announced(k)' => Queued("removed", k)'
    <3>1. CASE e.kind = "added"
      <4>1. Announced(k)' /\ Announced(k)
        BY <1>2, <1>3, <1>5, <1>9, <3>1 DEF Announced, Queued, PeerTableAssumption
      <4>2. Queued("removed", k)' <=> Queued("removed", k)
        BY <1>5, <2>1, <3>1
      <4>3. QED
        BY <1>5, <1>8, <4>1, <4>2 DEF PresentAreAnnounced
    <3>2. CASE e.kind = "removed"
      <4>1. Queued("removed", k)
        BY <1>2, <1>3, <3>2 DEF Queued
      <4>2. ~ Present(k)
        BY <1>5, <1>8, <4>1 DEF PresentAreAnnounced
      <4>3. ~ Announced(k)'
        BY <1>9, <2>3, <3>2 DEF Announced
      <4>4. QED
        BY <4>2, <4>3
    <3>3. CASE e.kind = "data"
      <4>1. Announced(k)' <=> Announced(k)
        BY <1>5, <1>9, <2>1, <3>3 DEF Announced
      <4>2. Queued("removed", k)' <=> Queued("removed", k)
        BY <1>5, <2>1, <3>3
      <4>3. QED
        BY <1>5, <1>8, <4>1, <4>2 DEF PresentAreAnnounced
    <3>4. QED
      BY <1>5, <3>1, <3>2, <3>3
  <2>6. QED
    BY <1>8, <2>2, <2>4, <2>5 DEF PresentAreAnnounced
<1>17. QED
  BY <1>13, <1>14, <1>15, <1>16

\* SessionInv holds initially,
LEMMA SessionInit ==
    ASSUME PeerTableAssumption, TableInit
    PROVE  SessionInv
<1>1. /\ peers = [i \in Ids |-> None] /\ clients = [i \in Ids |-> None]
      /\ DOMAIN events = {} /\ held["receiver"] = None
      /\ \A t \in Threads : at[t] = "idle"
  BY DEF TableInit, Threads
<1>2. \A i \in Ids : HomeIs(i, None)
  BY <1>1 DEF HomeIs, Leaving
<1>3. OneHome
  BY <1>2 DEF OneHome
<1>4. OneTakesAway /\ AnnouncedFirst /\ PresentAreAnnounced
  BY <1>1 DEF OneTakesAway, AnnouncedFirst, PresentAreAnnounced, Present, Announced, Queued,
              Leaving
<1>5. QED
  BY <1>3, <1>4 DEF SessionInv

\* and every step keeps it.
LEMMA SessionStep ==
    ASSUME PeerTableAssumption, HandsInv, SessionInv, HandsInv', [TableNext]_tableVars
    PROVE  SessionInv'
<1>1. CASE UNCHANGED tableVars
  BY <1>1, QuietSteps DEF tableVars
<1>2. ASSUME NEW t \in Threads, Release(t)
      PROVE  SessionInv'
  <2>1. /\ UNCHANGED <<peers, events, clients, reused>>
        /\ held' = [held EXCEPT ![t] = None]
        /\ at[t] # "erased" /\ at'[t] # "erased"
        /\ \A u \in Threads \ {t} : at'[u] = at[u] /\ victim'[u] = victim[u]
    BY <1>2 DEF Release, Goto, HandsInv, TableTypeOK
  <2>2. held'["receiver"] # None => held'["receiver"] = held["receiver"]
    BY <2>1 DEF HandsInv, TableTypeOK, Threads
  <2>3. \A q \in PeerObjects : obj'[q].id = obj[q].id /\ obj'[q].addr = obj[q].addr
    <3>1. held[t] \in PeerObjects /\ obj[held[t]].usage \in Nat \ {0}
      BY <1>2, HeldCounts DEF Release
    <3>2. PICK n \in Nat : n = obj[held[t]].usage - 1
      BY <3>1
    <3>3. obj' = [obj EXCEPT ![held[t]].usage = n] /\ TableTypeOK
      BY <1>2, <3>2 DEF Release, HandsInv
    <3>4. QED
      BY <3>1, <3>3, UsageChanges
  <2>4. QED
    BY <2>1, <2>2, <2>3, QuietSteps
<1>3. ASSUME NEW t \in Threads, Delete(t)
      PROVE  SessionInv'
  <2>1. /\ UNCHANGED <<peers, events, clients, reused, held>>
        /\ at[t] # "erased" /\ at'[t] # "erased"
        /\ \A u \in Threads \ {t} : at'[u] = at[u] /\ victim'[u] = victim[u]
    BY <1>3 DEF Delete, Goto, Home, HandsInv, TableTypeOK
  <2>2. \A q \in PeerObjects : obj'[q].id = obj[q].id /\ obj'[q].addr = obj[q].addr
    <3>1. victim[t] \in PeerObjects
      BY <1>3 DEF Delete, HandsInv, TableTypeOK, HandsAreRight, HandIsRight
    <3>2. obj' = [obj EXCEPT ![victim[t]].life = "deleted"] /\ TableTypeOK
      BY <1>3 DEF Delete, HandsInv
    <3>3. QED
      BY <3>1, <3>2, LifeChanges
  <2>3. QED
    BY <2>1, <2>2, QuietSteps
<1>4. ASSUME NEW t \in Threads, Drop(t)
      PROVE  SessionInv'
  <2>1. /\ UNCHANGED <<peers, events, clients, reused, held>>
        /\ at[t] # "erased" /\ at'[t] # "erased"
        /\ \A u \in Threads \ {t} : at'[u] = at[u] /\ victim'[u] = victim[u]
    BY <1>4 DEF Drop, Goto, Home, HandsInv, TableTypeOK
  <2>2. \A q \in PeerObjects : obj'[q].id = obj[q].id /\ obj'[q].addr = obj[q].addr
    <3>1. victim[t] \in PeerObjects
      BY <1>4 DEF Drop, HandsInv, TableTypeOK, HandsAreRight, HandIsRight
    <3>2. obj' = [obj EXCEPT ![victim[t]].pending = TRUE] /\ TableTypeOK
      BY <1>4 DEF Drop, HandsInv
    <3>3. QED
      BY <3>1, <3>2, PendingChanges
  <2>3. QED
    BY <2>1, <2>2, QuietSteps
<1>5. ASSUME NEW t \in Threads, NEW i \in Ids, NEW place \in {"held", "leaving"},
             Acquire(t, i), Goto(t, place), held[t] = None, at[t] # "erased",
             UNCHANGED <<peers, victim, events, clients, reused>>
      PROVE  SessionInv'
  <2>1. /\ held'[t] = peers[i] /\ \A u \in Threads \ {t} : held'[u] = held[u]
        /\ \A q \in PeerObjects : obj'[q].id = obj[q].id /\ obj'[q].addr = obj[q].addr
    BY <1>5, AcquireChanges
  <2>2. \A u \in Threads : at'[u] = "erased" <=> at[u] = "erased"
    BY <1>5 DEF Goto, HandsInv, TableTypeOK
  <2>3. held'["receiver"] = held["receiver"] \/ held'["receiver"] = peers[i]
    BY <2>1 DEF Threads
  <2>4. QED
    BY <1>5, <2>1, <2>2, <2>3, QuietSteps
<1>6. ASSUME NEW i \in Ids, Scan(i) \/ Query(i)
      PROVE  SessionInv'
  <2>1. \E t \in Threads : Acquire(t, i) /\ Goto(t, "held") /\ at[t] = "idle"
    BY <1>6 DEF Scan, Query, Threads
  <2>2. \A t \in Threads : at[t] = "idle" => held[t] = None
    BY DEF HandsInv, HandsAreRight, HandIsRight
  <2>3. UNCHANGED <<peers, victim, events, clients, reused>>
    BY <1>6 DEF Scan, Query
  <2>4. QED
    BY <1>5, <2>1, <2>2, <2>3
<1>7. CASE Lookup
  <2>1. /\ at["receiver"] = "lookup" /\ packet.id \in Ids /\ "receiver" \in Threads
        /\ held["receiver"] = None
    BY <1>7 DEF Lookup, HandsInv, PacketIsRight, HandsAreRight, HandIsRight, Threads
  <2>2. UNCHANGED <<peers, victim, events, clients, reused>>
    BY <1>7 DEF Lookup
  <2>3. CASE peers[packet.id] = None
    <3>1. obj' = obj /\ held' = held /\ Goto("receiver", "idle")
      BY <1>7, <2>3 DEF Lookup
    <3>2. \A u \in Threads : at'[u] = "erased" <=> at[u] = "erased"
      BY <2>1, <3>1 DEF Goto, HandsInv, TableTypeOK
    <3>3. QED
      BY <2>2, <3>1, <3>2, QuietSteps
  <2>4. CASE peers[packet.id] # None
    <3>1. /\ Acquire("receiver", packet.id)
          /\ \E place \in {"held", "leaving"} : Goto("receiver", place)
      BY <1>7, <2>4 DEF Lookup
    <3>2. QED
      BY <1>5, <2>1, <2>2, <3>1
  <2>5. QED
    BY <2>3, <2>4
<1>8. CASE ProcessPacket \/ Condemn
  <2>1. UNCHANGED <<peers, obj, held, victim, events, clients, reused>>
    BY <1>8 DEF ProcessPacket, Condemn
  <2>2. \A u \in Threads : at'[u] = "erased" <=> at[u] = "erased"
    BY <1>8 DEF ProcessPacket, Condemn, Goto, HandsInv, TableTypeOK
  <2>3. QED
    BY <2>1, <2>2, QuietSteps
<1>9. QED
  BY <1>1, <1>2, <1>3, <1>4, <1>6, <1>7, <1>8, PostKeepsSession, EraseKeepsSession,
     IdentifyKeepsSession, DeliverKeepsSession, ReceiveEventKeepsSession
     DEF TableNext

\* TableInv is inductive.
THEOREM TableInvariant == PeerTableAssumption => (TableSpec => []TableInv)
<1> SUFFICES ASSUME PeerTableAssumption
             PROVE  TableSpec => []TableInv
  OBVIOUS
<1>1. TableInit => TableInv
  BY HandsInit, SessionInit DEF TableInv
<1>2. TableInv /\ [TableNext]_tableVars => TableInv'
  BY HandsStep, SessionStep DEF TableInv
<1>3. QED
  BY <1>1, <1>2, PTL DEF TableSpec

\* The server has a client for exactly the peers of the connection whenever it has heard
\* all there is to hear, and it handles data in the session of the peer that sent it or
\* in none, unless an id was given again too early.
THEOREM SessionsFollow == PeerTableAssumption => (TableSpec => []SessionsFollowPeers)
<1> SUFFICES ASSUME PeerTableAssumption
             PROVE  TableSpec => []SessionsFollowPeers
  OBVIOUS
<1>1. TableInv => SessionsFollowPeers
  <2> SUFFICES ASSUME TableInv, ~ reused
               PROVE  SessionsFollowPeers
    BY DEF SessionsFollowPeers, ClientsMirrorPeers, DataInItsSession
  <2>1. OneHome /\ PresentAreAnnounced
    BY DEF TableInv, SessionInv
  <2>2. ASSUME events = <<>>, \A t \in Threads : at[t] # "erased", NEW i \in Ids
        PROVE  clients[i] = IF peers[i] = None THEN None ELSE obj[peers[i]].addr
    <3>1. PICK a \in Addresses \union {None} : HomeIs(i, a)
      BY <2>1 DEF OneHome
    <3>2. ~ Queued("added", i) /\ ~ Queued("removed", i)
      BY <2>2 DEF Queued
    <3>3. clients[i] # None <=> peers[i] # None
      BY <2>1, <2>2, <3>2 DEF PresentAreAnnounced, Present, Announced, Leaving
    <3>4. QED
      BY <3>1, <3>3 DEF HomeIs
  <2>3. ASSUME events # <<>>
        PROVE  clients[Head(events).id] \in {None, Head(events).addr}
    <3>1. PICK e : e = Head(events)
      OBVIOUS
    <3>2. e = events[1] /\ 1 \in DOMAIN events /\ e \in Event
      BY <2>3, <3>1 DEF TableInv, HandsInv, TableTypeOK
    <3>3. e.id \in Ids
      BY <3>2 DEF Event
    <3>4. PICK a \in Addresses \union {None} : HomeIs(e.id, a)
      BY <2>1, <3>3 DEF OneHome
    <3>5. QED
      BY <3>1, <3>2, <3>4 DEF HomeIs
  <2>4. QED
    BY <2>2, <2>3 DEF SessionsFollowPeers, ClientsMirrorPeers, DataInItsSession
<1>2. TableSpec => []TableInv
  BY TableInvariant
<1>3. QED
  BY <1>1, <1>2, PTL

-----------------------------------------------------------------------------
(* ClientSession: the inductive invariant.                                 *)

\* What is known of a client once it has said its name: who may be asked for a password has
\* one.
IsNamed(c) ==
    c.state \notin {"Created", "Denied", "Disconnecting"} =>
        c.name # None /\ ("SRP" \in c.allowed => c.enc_pwd # None)

ClientsAreNamed == \A p \in Peers : client[p] # None => IsNamed(client[p])

\* Only a default password is stored at the first login.
NothingToCreate ==
    default_password = None => \A p \in Peers : client[p] # None => ~ client[p].create

\* Whoever is in the game has a player object under its name,
InGameHavePlayer ==
    \A p \in Peers : Is(p, InGame) =>
        \E i \in DOMAIN players : players[i] = [name |-> client[p].name, peer |-> p]

\* a peer has one at most,
OnePlayerPerPeer ==
    \A i, j \in DOMAIN players :
        (players[i].peer = players[j].peer /\ players[i].peer # None) => i = j

\* and it is, or was when it was denied, in the game.
PlayersHaveClients ==
    \A i \in DOMAIN players : players[i].peer # None =>
        Is(players[i].peer, InGame \union {"Denied"})

ClientsInv ==
    /\ TypeOK /\ ClientsAreNamed /\ NothingToCreate
    /\ InGameHavePlayer /\ OnePlayerPerPeer /\ PlayersHaveClients
    /\ UserLimitHeld /\ NothingUnexpected /\ RegisteredOnce /\ OnePlayerUnlessHasty

-----------------------------------------------------------------------------
(* Clients.                                                                *)

\* What becomes of a client that is notified of an event: it is in another state and may
\* have forgotten the mechanism it chose.
Moves(c, d, s) ==
    /\ d \in Client /\ d.state = s
    /\ d.name = c.name /\ d.enc_pwd = c.enc_pwd /\ d.allowed = c.allowed
    /\ d.create = c.create

\* A client may get another state and forget its mechanism.
LEMMA ClientMoves ==
    ASSUME NEW c \in Client, NEW s \in States, NEW m \in {c.chosen, None}
    PROVE  Moves(c, [c EXCEPT !.state = s, !.chosen = m], s)
BY DEF Moves, Client

\* An event leads from a state to one other.
LEMMA TransitionIsDetermined ==
    ASSUME NEW a, NEW e, NEW s, NEW t, <<a, e, s>> \in Transition, <<a, e, t>> \in Transition
    PROVE  s = t
BY DEF Transition

\* There is no event that a denied client expects.
LEMMA DeniedIsFinal ==
    ASSUME NEW a, NEW e, NEW s, <<a, e, s>> \in Transition
    PROVE  a \notin {"Denied", "Disconnecting"} /\ s \in States
BY DEF Transition, States, InGame

\* notifyEvent does what its table says.
LEMMA NotifiedMoves ==
    ASSUME NEW c \in Client, NEW e, NEW s, <<c.state, e, s>> \in Transition
    PROVE  Expected(c, e) /\ Moves(c, Notified(c, e), s)
<1>1. c.state \notin {"Denied", "Disconnecting"} /\ s \in States
  BY DeniedIsFinal
<1>2. Expected(c, e)
  BY <1>1 DEF Expected
<1>3. (CHOOSE t \in States : <<c.state, e, t>> \in Transition) = s
  <2>1. \A t \in States : <<c.state, e, t>> \in Transition => t = s
    BY TransitionIsDetermined
  <2>2. QED
    BY <1>1, <2>1
<1>4. Notified(c, e) = [c EXCEPT !.state = s,
                                !.chosen = IF ResetsMechanism(c, e) THEN None ELSE @]
  BY <1>1, <1>2, <1>3 DEF Notified
<1>5. QED
  BY <1>1, <1>2, <1>4, ClientMoves

\* Who is denied access keeps its name.
LEMMA DeniedMoves ==
    ASSUME NEW c \in Client
    PROVE  \E s \in {"Denied", "Disconnecting"} :
               /\ Moves(c, Denied(c), s)
               /\ c.state \in InGame \union {"Denied"} => s = "Denied"
<1>1. CASE c.state \in {"Denied", "Disconnecting"}
  BY <1>1 DEF Denied, Moves, InGame
<1>2. CASE c.state \notin {"Denied", "Disconnecting"}
  <2>1. Denied(c) = [c EXCEPT !.state = "Denied",
                              !.chosen = IF c.state = "HelloSent" THEN None ELSE @]
    BY <1>2 DEF Denied
  <2>2. "Denied" \in States
    BY DEF States
  <2>3. Moves(c, Denied(c), "Denied")
    BY <2>1, <2>2, ClientMoves
  <2>4. QED
    BY <2>3
<1>3. QED
  BY <1>1, <1>2

-----------------------------------------------------------------------------
(* Players.                                                                *)

\* A set of natural numbers has a least one.
LEMMA LeastOne ==
    ASSUME NEW N \in SUBSET Nat, N # {}
    PROVE  \E m \in N : \A k \in N : m <= k
<1> DEFINE UpTo == {1 .. n : n \in N}
           Less == StrictSubsetOrdering(Nat)
<1>1. UpTo \subseteq FiniteSubsetsOf(Nat) /\ UpTo # {}
  <2>1. ASSUME NEW n \in N PROVE 1 .. n \in SUBSET Nat /\ IsFiniteSet(1 .. n)
    BY FS_Interval
  <2>2. QED
    BY <2>1 DEF FiniteSubsetsOf
<1>2. PICK S \in UpTo : \A T \in UpTo : <<T, S>> \notin Less
  <2>1. IsWellFoundedOn(Less, FiniteSubsetsOf(Nat))
    BY FS_StrictSubsetOrderingWellFounded
  <2>2. QED
    BY <1>1, <2>1, WFMin
<1>3. PICK m \in N : S = 1 .. m
  BY <1>2
<1>4. ASSUME NEW k \in N, k < m PROVE FALSE
  <2>1. 1 .. k \subseteq 1 .. m /\ 1 .. k # 1 .. m
    BY <1>4
  <2>2. <<1 .. k, 1 .. m>> \in Less
    BY <2>1 DEF StrictSubsetOrdering
  <2>3. QED
    BY <1>2, <1>3, <2>2
<1>5. QED
  BY <1>4

\* getPlayer(name, TRUE) finds a player of that name if there is one.
LEMMA FirstOfName ==
    ASSUME NEW name, Known(name), DOMAIN players \subseteq Nat
    PROVE  FirstOf(name) \in DOMAIN players /\ players[FirstOf(name)].name = name
<1> DEFINE N == {i \in DOMAIN players : players[i].name = name}
<1>1. PICK m \in N : \A k \in N : m <= k
  <2>1. N \in SUBSET Nat /\ N # {}
    BY DEF Known
  <2>2. QED
    BY <2>1, LeastOne
<1>2. QED
  BY <1>1 DEF FirstOf

-----------------------------------------------------------------------------
(* Steps that change one client and leave the players alone.               *)

\* Client p becomes d: nobody enters the game, a player's client is denied at most.
Answered(p, d) ==
    /\ d \in Client /\ IsNamed(d)
    /\ default_password = None => ~ d.create
    /\ d.state \in InGame => Is(p, InGame) /\ d.name = client[p].name
    /\ Is(p, InGame \union {"Denied"}) => d.state \in InGame \union {"Denied"}

\* The parts of the invariant that are not about clients and players.
ServerIsSound ==
    /\ auth \in [Names -> Passwords \union {None}]
    /\ default_password \in Passwords \union {None}
    /\ unexpected \in BOOLEAN /\ hasty \in BOOLEAN /\ fatal \in BOOLEAN
    /\ ~ unexpected
    /\ default_password = None => ~ fatal

\* What an answer does to the set of clients in the game.
LEMMA AnsweredInGame ==
    ASSUME TypeOK, NEW p \in Peers, NEW d, Answered(p, d), client' = [client EXCEPT ![p] = d]
    PROVE  /\ \A q \in Peers : Is(q, InGame)' => Is(q, InGame) /\ client'[q].name = client[q].name
           /\ \A q \in Peers : Is(q, InGame \union {"Denied"}) => Is(q, InGame \union {"Denied"})'
<1>1. \A q \in Peers \ {p} : client'[q] = client[q]
  BY DEF TypeOK
<1>2. client'[p] = d
  BY DEF TypeOK
<1>3. d # None
  BY ClientAssumption DEF Answered
<1>4. QED
  BY <1>1, <1>2, <1>3 DEF Is, Answered

\* What is in a sequence.
LEMMA SeqType ==
    ASSUME NEW S, NEW s \in Seq(S)
    PROVE  /\ DOMAIN s = 1 .. Len(s) /\ Len(s) \in Nat
           /\ \A i \in DOMAIN s : s[i] \in S
OBVIOUS

\* A sequence with one more element.
LEMMA Appended ==
    ASSUME NEW S, NEW s \in Seq(S), NEW e \in S
    PROVE  /\ Append(s, e) \in Seq(S) /\ DOMAIN Append(s, e) = 1 .. Len(s) + 1
           /\ \A i \in 1 .. Len(s) : Append(s, e)[i] = s[i]
           /\ Append(s, e)[Len(s) + 1] = e
           /\ Len(s) \in Nat /\ DOMAIN s = 1 .. Len(s)
<1>1. /\ Append(s, e) \in Seq(S) /\ DOMAIN Append(s, e) = 1 .. Len(s) + 1
      /\ \A i \in 1 .. Len(s) : Append(s, e)[i] = s[i]
  OBVIOUS
<1>2. Append(s, e)[Len(s) + 1] = e
  OBVIOUS
<1>3. QED
  BY <1>1, <1>2, SeqType

\* What makes a sequence.
LEMMA MakesSeq ==
    ASSUME NEW S, NEW n \in Nat, NEW f, f = [i \in 1 .. n |-> f[i]],
           \A i \in 1 .. n : f[i] \in S
    PROVE  f \in Seq(S)
OBVIOUS

\* Players are records in a sequence.
LEMMA PlayerType ==
    ASSUME TypeOK, NEW i \in DOMAIN players
    PROVE  /\ i \in 1 .. Len(players) /\ Len(players) \in Nat
           /\ players[i].name \in Names /\ players[i].peer \in Peers \union {None}
           /\ players[i] = [name |-> players[i].name, peer |-> players[i].peer]
<1>1. players \in Seq([name : Names, peer : Peers \union {None}])
  BY DEF TypeOK
<1>2. /\ i \in 1 .. Len(players) /\ Len(players) \in Nat
      /\ players[i] \in [name : Names, peer : Peers \union {None}]
  BY <1>1, SeqType
<1>3. \A r \in [name : Names, peer : Peers \union {None}] :
          /\ r.name \in Names /\ r.peer \in Peers \union {None}
          /\ r = [name |-> r.name, peer |-> r.peer]
  OBVIOUS
<1>4. QED
  BY <1>2, <1>3

\* However many are in the game, they are peers.
LEMMA UsersAreFinite ==
    IsFiniteSet({q \in Peers : Is(q, InGame)}) /\ Cardinality({q \in Peers : Is(q, InGame)}) \in Nat
<1>1. {q \in Peers : Is(q, InGame)} \in SUBSET Peers
  OBVIOUS
<1>2. QED
  BY <1>1, SessionAssumption, FS_Subset, FS_CardinalityType

\* The limit holds as long as nobody enters the game.
LEMMA FewerInGame ==
    ASSUME UserLimitHeld, \A q \in Peers : Is(q, InGame)' => Is(q, InGame)
    PROVE  UserLimitHeld'
<1> DEFINE before == {q \in Peers : Is(q, InGame)}
           after == {q \in Peers : Is(q, InGame)'}
<1>1. after \in SUBSET before
  OBVIOUS
<1>2. IsFiniteSet(before) /\ Cardinality(before) \in Nat
  BY UsersAreFinite
<1>3. Cardinality(after) <= Cardinality(before) /\ Cardinality(after) \in Nat
  BY <1>1, <1>2, FS_Subset, FS_CardinalityType
<1>4. QED
  BY <1>2, <1>3, SessionAssumption DEF UserLimitHeld

\* One more may enter the game while the limit is not reached.
LEMMA OneMoreInGame ==
    ASSUME NEW p, ~ UserLimitReached,
           {q \in Peers : Is(q, InGame)'} \subseteq {q \in Peers : Is(q, InGame)} \union {p}
    PROVE  UserLimitHeld'
<1> DEFINE before == {q \in Peers : Is(q, InGame)}
           after == {q \in Peers : Is(q, InGame)'}
<1>1. IsFiniteSet(before) /\ Cardinality(before) \in Nat /\ Cardinality(before) < MaxUsers
  BY UsersAreFinite, SessionAssumption DEF UserLimitReached
<1>2. /\ IsFiniteSet(before \union {p})
      /\ Cardinality(before \union {p}) <= Cardinality(before) + 1
  BY <1>1, FS_AddElement
<1>3. Cardinality(before \union {p}) \in Nat
  BY <1>2, FS_CardinalityType
<1>4. after \in SUBSET (before \union {p})
  OBVIOUS
<1>5. Cardinality(after) <= Cardinality(before \union {p}) /\ Cardinality(after) \in Nat
  BY <1>2, <1>4, FS_Subset, FS_CardinalityType
<1>6. Cardinality(after) <= MaxUsers
  BY <1>1, <1>2, <1>3, <1>5, SessionAssumption
<1>7. QED
  BY <1>6 DEF UserLimitHeld

\* What an answer keeps of the invariant: everything, if the server is sound after it.
LEMMA AnsweredKeeps ==
    ASSUME ClientsInv, NEW p \in Peers, NEW d, Answered(p, d), client' = [client EXCEPT ![p] = d],
           UNCHANGED <<players, default_password, hasty>>, ServerIsSound'
    PROVE  ClientsInv'
<1> USE DEF ClientsInv
<1>1. \A q \in Peers \ {p} : client'[q] = client[q]
  BY DEF TypeOK
<1>2. client'[p] = d /\ d # None
  BY ClientAssumption DEF TypeOK, Answered
<1>3. /\ \A q \in Peers : Is(q, InGame)' => Is(q, InGame) /\ client'[q].name = client[q].name
      /\ \A q \in Peers : Is(q, InGame \union {"Denied"}) => Is(q, InGame \union {"Denied"})'
  BY AnsweredInGame
<1>4. ClientsAreNamed'
  BY <1>1, <1>2 DEF ClientsAreNamed, Answered
<1>5. NothingToCreate'
  BY <1>1, <1>2 DEF NothingToCreate, Answered
<1>6. TypeOK'
  <2>1. client' \in [Peers -> Client \union {None}]
    BY DEF TypeOK, Answered
  <2>2. \A q \in Peers : Is(q, {"HelloSent"} \union InGame)' =>
            /\ client'[q].name # None
            /\ "SRP" \in client'[q].allowed => client'[q].enc_pwd # None
    BY <1>4 DEF ClientsAreNamed, IsNamed, Is, InGame
  <2>3. QED
    BY <2>1, <2>2 DEF TypeOK, ServerIsSound
<1>7. InGameHavePlayer' /\ OnePlayerPerPeer'
  BY <1>3 DEF InGameHavePlayer, OnePlayerPerPeer
<1>8. PlayersHaveClients'
  <2>1. ASSUME NEW i \in DOMAIN players, players[i].peer # None
        PROVE  players[i].peer \in Peers /\ Is(players[i].peer, InGame \union {"Denied"})
    BY <2>1, PlayerType DEF PlayersHaveClients
  <2>2. QED
    BY <1>3, <2>1 DEF PlayersHaveClients
<1>9. UserLimitHeld'
  BY <1>3, FewerInGame
<1>10. QED
  BY <1>4, <1>5, <1>6, <1>7, <1>8, <1>9
     DEF ServerIsSound, NothingUnexpected, RegisteredOnce, OnePlayerUnlessHasty, OnePlayerPerName

-----------------------------------------------------------------------------
(* The handlers that do not let a player in.                               *)

\* A client that is denied access.
LEMMA DeniedAnswers ==
    ASSUME ClientsInv, NEW p \in Peers, client[p] # None, DenyAccess(p)
    PROVE  \E d : Answered(p, d) /\ client' = [client EXCEPT ![p] = d]
<1> USE DEF ClientsInv
<1>1. client[p] \in Client
  BY DEF TypeOK
<1>2. PICK s \in {"Denied", "Disconnecting"} :
          /\ Moves(client[p], Denied(client[p]), s)
          /\ client[p].state \in InGame \union {"Denied"} => s = "Denied"
  BY <1>1, DeniedMoves
<1>3. client' = [client EXCEPT ![p] = Denied(client[p])]
  BY DEF DenyAccess, TypeOK
<1>4. default_password = None => ~ Denied(client[p]).create
  BY <1>2 DEF Moves, NothingToCreate
<1>5. Answered(p, Denied(client[p]))
  BY <1>2, <1>4 DEF Moves, Answered, IsNamed, Is, InGame
<1>6. QED
  BY <1>3, <1>5

\* A client that is notified of an event it expects.  It is in the game after it if it was
\* before, and c is what the handler has made of it.
LEMMA NotifiedAnswers ==
    ASSUME ClientsInv, NEW p \in Peers, client[p] # None, NEW c \in Client,
           NEW e, NEW s, <<client[p].state, e, s>> \in Transition, c.state = client[p].state,
           Notify(p, c, e),
           c.name # None, "SRP" \in c.allowed => c.enc_pwd # None,
           default_password = None => ~ c.create,
           s \in InGame <=> client[p].state \in InGame,
           s \in InGame => c.name = client[p].name
    PROVE  /\ \E d : Answered(p, d) /\ client' = [client EXCEPT ![p] = d]
           /\ ~ unexpected' /\ unexpected' \in BOOLEAN
<1> USE DEF ClientsInv
<1>1. Expected(c, e) /\ Moves(c, Notified(c, e), s)
  BY NotifiedMoves
<1>2. client' = [client EXCEPT ![p] = Notified(c, e)] /\ ~ unexpected'
  BY <1>1 DEF Notify, NothingUnexpected
<1>3. unexpected' \in BOOLEAN
  BY DEF Notify
<1>4. client[p].state \notin {"Denied", "Disconnecting"}
  BY DeniedIsFinal
<1>5. Answered(p, Notified(c, e))
  BY <1>1, <1>4 DEF Moves, Answered, IsNamed, Is, InGame
<1>6. QED
  BY <1>2, <1>3, <1>5

\* A client that chooses a mechanism, or forgets the one it chose.
LEMMA ChosenAnswers ==
    ASSUME ClientsInv, NEW p \in Peers, client[p] # None,
           client[p].state \in {"HelloSent", "Active"},
           NEW m \in Mechanisms \union {None}
    PROVE  Answered(p, [client[p] EXCEPT !.chosen = m])
<1> USE DEF ClientsInv
<1>1. client[p] \in Client
  BY DEF TypeOK
<1>2. PICK d : d = [client[p] EXCEPT !.chosen = m]
  OBVIOUS
<1>3. Moves(client[p], d, client[p].state)
  BY <1>1, <1>2 DEF Client, Moves
<1>4. default_password = None => ~ d.create
  BY <1>3 DEF Moves, NothingToCreate
<1>5. IsNamed(client[p])
  BY DEF ClientsAreNamed
<1>6. Answered(p, d)
  BY <1>3, <1>4, <1>5 DEF Moves, Answered, IsNamed, Is, InGame
<1>7. QED
  BY <1>2, <1>6

\* TOSERVER_INIT.
LEMMA HandleInitKeeps ==
    ASSUME ClientsInv, NEW p \in Peers, NEW name \in Names, HandleInit(p, name)
    PROVE  ClientsInv'
<1> USE DEF ClientsInv
<1>1. client[p] \in Client /\ client[p] # None /\ client[p].state = "Created"
  BY DEF HandleInit, Is, TypeOK
<1>2. UNCHANGED <<players, auth, default_password, hasty, fatal>>
  BY DEF HandleInit
<1>3. CASE DenyAccess(p)
  <2>1. ServerIsSound'
    BY <1>2, <1>3 DEF DenyAccess, ServerIsSound, TypeOK, NothingUnexpected, RegisteredOnce
  <2>2. QED
    BY <1>1, <1>2, <1>3, <2>1, DeniedAnswers, AnsweredKeeps
<1>4. CASE Notify(p, Greeted(client[p], name), "Hello")
  <2>1. PICK c : c = Greeted(client[p], name)
    OBVIOUS
  <2>2. /\ c \in Client /\ c.state = "Created" /\ c.name = name
        /\ "SRP" \in c.allowed => c.enc_pwd # None
        /\ default_password = None => ~ c.create
    BY <1>1, <2>1 DEF Greeted, Client, TypeOK, Mechanisms
  <2>3. <<client[p].state, "Hello", "HelloSent">> \in Transition
    BY <1>1 DEF Transition
  <2>4. name # None /\ "HelloSent" \notin InGame /\ "Created" \notin InGame
    BY SessionAssumption DEF InGame
  <2>5. /\ \E d : Answered(p, d) /\ client' = [client EXCEPT ![p] = d]
        /\ ~ unexpected' /\ unexpected' \in BOOLEAN
    BY <1>1, <1>4, <2>1, <2>2, <2>3, <2>4, NotifiedAnswers
  <2>6. ServerIsSound'
    BY <1>2, <2>5 DEF ServerIsSound, TypeOK, RegisteredOnce
  <2>7. QED
    BY <1>2, <2>5, <2>6, AnsweredKeeps
<1>5. QED
  BY <1>3, <1>4 DEF HandleInit

\* TOSERVER_FIRST_SRP of a new user.
LEMMA RegisterKeeps ==
    ASSUME ClientsInv, NEW p \in Peers, NEW password \in Passwords, HandleFirstSrp(p, password),
           Is(p, {"HelloSent"}), Register(p, password)
    PROVE  ClientsInv'
<1> USE DEF ClientsInv
<1>1. client[p] \in Client /\ client[p] # None /\ client[p].state = "HelloSent"
  BY DEF Is, TypeOK
<1>2. UNCHANGED <<players, default_password, hasty>> /\ ~ fatal
  BY DEF HandleFirstSrp
<1>3. CASE DenyAccess(p) /\ UNCHANGED <<auth, fatal>>
  <2>1. ServerIsSound'
    BY <1>2, <1>3 DEF DenyAccess, ServerIsSound, TypeOK, NothingUnexpected, RegisteredOnce
  <2>2. QED
    BY <1>1, <1>2, <1>3, <2>1, DeniedAnswers, AnsweredKeeps
<1>4. CASE /\ CreateAuth(client[p].name, password) /\ auth[client[p].name] = None
           /\ Notify(p, [client[p] EXCEPT !.enc_pwd = password, !.allowed = {"SRP"}],
                     "AuthAccept")
  <2>1. PICK c : c = [client[p] EXCEPT !.enc_pwd = password, !.allowed = {"SRP"}]
    OBVIOUS
  <2>2. /\ client[p].name # None
        /\ default_password = None => ~ client[p].create
    BY <1>1 DEF ClientsAreNamed, IsNamed, NothingToCreate
  <2>3. /\ c \in Client /\ c.state = "HelloSent" /\ c.name = client[p].name
        /\ c.enc_pwd = password /\ c.create = client[p].create
    BY <1>1, <2>1 DEF Client, Mechanisms
  <2>4. /\ <<client[p].state, "AuthAccept", "AwaitingInit2">> \in Transition
        /\ password # None
    BY <1>1, SessionAssumption DEF Transition
  <2>5. "HelloSent" \notin InGame /\ "AwaitingInit2" \notin InGame
    BY DEF InGame
  <2>6. /\ \E d : Answered(p, d) /\ client' = [client EXCEPT ![p] = d]
        /\ ~ unexpected' /\ unexpected' \in BOOLEAN
    BY <1>1, <1>4, <2>1, <2>2, <2>3, <2>4, <2>5, NotifiedAnswers
  <2>7. auth' \in [Names -> Passwords \union {None}] /\ ~ fatal' /\ fatal' \in BOOLEAN
    BY <1>2, <1>4 DEF CreateAuth, TypeOK
  <2>8. ServerIsSound'
    BY <1>2, <2>6, <2>7 DEF ServerIsSound, TypeOK
  <2>9. QED
    BY <1>2, <2>6, <2>8, AnsweredKeeps
<1>5. QED
  BY <1>3, <1>4 DEF Register

\* TOSERVER_FIRST_SRP of a player who has given its password again.
LEMMA ChangePasswordKeeps ==
    ASSUME ClientsInv, NEW p \in Peers, NEW password \in Passwords, HandleFirstSrp(p, password),
           MayChangePassword(p), ChangePassword(p, password), UNCHANGED fatal
    PROVE  ClientsInv'
<1> USE DEF ClientsInv
<1>1. client[p] \in Client /\ client[p] # None /\ client[p].state = "SudoMode"
  BY DEF MayChangePassword, Is, TypeOK
<1>2. UNCHANGED <<players, default_password, hasty>> /\ ~ fatal'
  BY DEF HandleFirstSrp
<1>3. PICK c : c = [client[p] EXCEPT !.enc_pwd = password, !.allowed = {"SRP"}]
  OBVIOUS
<1>4. /\ client[p].name # None
      /\ default_password = None => ~ client[p].create
  BY <1>1 DEF ClientsAreNamed, IsNamed, NothingToCreate
<1>5. /\ c \in Client /\ c.state = "SudoMode" /\ c.name = client[p].name
      /\ c.enc_pwd = password /\ c.create = client[p].create
  BY <1>1, <1>3 DEF Client, Mechanisms
<1>6. /\ <<client[p].state, "SudoLeave", "Active">> \in Transition
      /\ password # None
  BY <1>1, SessionAssumption DEF Transition
<1>7. "SudoMode" \in InGame /\ "Active" \in InGame
  BY DEF InGame
<1>8. /\ \E d : Answered(p, d) /\ client' = [client EXCEPT ![p] = d]
      /\ ~ unexpected' /\ unexpected' \in BOOLEAN
  BY <1>1, <1>3, <1>4, <1>5, <1>6, <1>7, NotifiedAnswers DEF ChangePassword
<1>9. auth' \in [Names -> Passwords \union {None}]
  BY DEF ChangePassword, TypeOK
<1>10. ServerIsSound'
  BY <1>2, <1>8, <1>9 DEF ServerIsSound, TypeOK
<1>11. QED
  BY <1>2, <1>8, <1>10, AnsweredKeeps

\* TOSERVER_SRP_BYTES_A.
LEMMA HandleSrpBytesAKeeps ==
    ASSUME ClientsInv, NEW p \in Peers, HandleSrpBytesA(p)
    PROVE  ClientsInv'
<1> USE DEF ClientsInv
<1>1. client[p] \in Client /\ client[p] # None /\ client[p].state \in {"HelloSent", "Active"}
  BY DEF HandleSrpBytesA, Is, TypeOK
<1>2. UNCHANGED <<players, auth, default_password, hasty, fatal>>
  BY DEF HandleSrpBytesA
<1>3. UNCHANGED unexpected
  BY DEF HandleSrpBytesA, DenyAccess
<1>4. ServerIsSound'
  BY <1>2, <1>3 DEF ServerIsSound, TypeOK, NothingUnexpected, RegisteredOnce
<1>5. CASE DenyAccess(p)
  BY <1>1, <1>2, <1>4, <1>5, DeniedAnswers, AnsweredKeeps
<1>6. CASE client' = [client EXCEPT ![p].chosen = "SRP"]
  <2>1. PICK d : d = [client[p] EXCEPT !.chosen = "SRP"]
    OBVIOUS
  <2>2. client' = [client EXCEPT ![p] = d]
    BY <1>6, <2>1
  <2>3. Answered(p, d)
    BY <1>1, <2>1, ChosenAnswers DEF Mechanisms
  <2>4. QED
    BY <1>2, <1>4, <2>2, <2>3, AnsweredKeeps
<1>7. QED
  BY <1>5, <1>6 DEF HandleSrpBytesA

\* TOSERVER_SRP_BYTES_M with a wrong password.
LEMMA FailSrpKeeps ==
    ASSUME ClientsInv, NEW p \in Peers, NEW password, HandleSrpBytesM(p, password), FailSrp(p)
    PROVE  ClientsInv'
<1> USE DEF ClientsInv
<1>1. client[p] \in Client /\ client[p] # None /\ client[p].state \in {"HelloSent", "Active"}
  BY DEF HandleSrpBytesM, Is, TypeOK
<1>2. UNCHANGED <<players, auth, default_password, hasty, fatal>>
  BY DEF HandleSrpBytesM, FailSrp
<1>3. UNCHANGED unexpected
  BY DEF FailSrp, DenyAccess
<1>4. ServerIsSound'
  BY <1>2, <1>3 DEF ServerIsSound, TypeOK, NothingUnexpected, RegisteredOnce
<1>5. CASE DenyAccess(p)
  BY <1>1, <1>2, <1>4, <1>5, DeniedAnswers, AnsweredKeeps
<1>6. CASE client' = [client EXCEPT ![p].chosen = None]
  <2>1. PICK d : d = [client[p] EXCEPT !.chosen = None]
    OBVIOUS
  <2>2. client' = [client EXCEPT ![p] = d]
    BY <1>6, <2>1
  <2>3. Answered(p, d)
    BY <1>1, <2>1, ChosenAnswers
  <2>4. QED
    BY <1>2, <1>4, <2>2, <2>3, AnsweredKeeps
<1>7. QED
  BY <1>5, <1>6 DEF FailSrp

\* TOSERVER_SRP_BYTES_M with the password.  Only a default password is stored here, so that
\* the database throws only when there is one.
LEMMA PassSrpKeeps ==
    ASSUME ClientsInv, NEW p \in Peers, NEW password \in Passwords, HandleSrpBytesM(p, password),
           password = client[p].enc_pwd, PassSrp(p)
    PROVE  ClientsInv'
<1> USE DEF ClientsInv
<1>1. client[p] \in Client /\ client[p] # None /\ client[p].state \in {"HelloSent", "Active"}
  BY DEF HandleSrpBytesM, Is, TypeOK
<1>2. UNCHANGED <<players, default_password, hasty>> /\ ~ fatal
  BY DEF HandleSrpBytesM
<1>3. /\ client[p].name # None /\ client[p].name \in Names
      /\ default_password = None => ~ client[p].create
  BY <1>1 DEF ClientsAreNamed, IsNamed, NothingToCreate, Client
<1>4. /\ auth' \in [Names -> Passwords \union {None}] /\ fatal' \in BOOLEAN
      /\ default_password = None => ~ fatal'
  <2>1. CASE client[p].create
    BY <1>2, <1>3, <2>1 DEF PassSrp, CreateAuth, TypeOK
  <2>2. CASE ~ client[p].create
    BY <1>2, <2>2 DEF PassSrp, TypeOK
  <2>3. QED
    BY <2>1, <2>2
<1>5. PICK c : c = [client[p] EXCEPT !.create = FALSE]
  OBVIOUS
<1>6. /\ c \in Client /\ c.state = client[p].state /\ c.name = client[p].name
      /\ c.enc_pwd = password /\ ~ c.create
  BY <1>1, <1>5 DEF Client
<1>7. password # None /\ {"Active", "SudoMode"} \subseteq InGame
      /\ {"HelloSent", "AwaitingInit2"} \intersect InGame = {}
  BY SessionAssumption DEF InGame
<1>8. /\ \E d : Answered(p, d) /\ client' = [client EXCEPT ![p] = d]
      /\ ~ unexpected' /\ unexpected' \in BOOLEAN
  <2>1. CASE client[p].state = "Active"
    <3>1. Notify(p, c, "SudoSuccess")
      BY <1>5, <2>1 DEF PassSrp
    <3>2. <<client[p].state, "SudoSuccess", "SudoMode">> \in Transition
      BY <2>1 DEF Transition
    <3>3. QED
      BY <1>1, <1>3, <1>6, <1>7, <2>1, <3>1, <3>2, NotifiedAnswers
  <2>2. CASE client[p].state = "HelloSent"
    <3>1. Notify(p, c, "AuthAccept")
      BY <1>5, <2>2 DEF PassSrp
    <3>2. <<client[p].state, "AuthAccept", "AwaitingInit2">> \in Transition
      BY <2>2 DEF Transition
    <3>3. QED
      BY <1>1, <1>3, <1>6, <1>7, <2>2, <3>1, <3>2, NotifiedAnswers
  <2>3. QED
    BY <1>1, <2>1, <2>2
<1>9. ServerIsSound'
  BY <1>2, <1>4, <1>8 DEF ServerIsSound, TypeOK
<1>10. QED
  BY <1>2, <1>8, <1>9, AnsweredKeeps

\* TOSERVER_INIT2.
LEMMA HandleInit2Keeps ==
    ASSUME ClientsInv, NEW p \in Peers, HandleInit2(p)
    PROVE  ClientsInv'
<1> USE DEF ClientsInv
<1>1. client[p] \in Client /\ client[p] # None /\ client[p].state = "AwaitingInit2"
  BY DEF HandleInit2, Is, TypeOK
<1>2. UNCHANGED <<players, auth, default_password, hasty, fatal>>
  BY DEF HandleInit2
<1>3. PICK c : c = Notified(client[p], "GotInit2")
  OBVIOUS
<1>4. <<client[p].state, "GotInit2", "InitDone">> \in Transition
  BY <1>1 DEF Transition
<1>5. Moves(client[p], c, "InitDone")
  BY <1>1, <1>3, <1>4, NotifiedMoves
<1>6. <<c.state, "SetDefinitionsSent", "DefinitionsSent">> \in Transition
  BY <1>5 DEF Moves, Transition
<1>7. Expected(c, "SetDefinitionsSent")
      /\ Moves(c, Notified(c, "SetDefinitionsSent"), "DefinitionsSent")
  BY <1>5, <1>6, NotifiedMoves DEF Moves
<1>8. PICK d : d = Notified(c, "SetDefinitionsSent")
  OBVIOUS
<1>9. client' = [client EXCEPT ![p] = d] /\ ~ unexpected' /\ unexpected' \in BOOLEAN
  BY <1>3, <1>7, <1>8 DEF HandleInit2, Notify, NothingUnexpected
<1>10. /\ d \in Client /\ d.state = "DefinitionsSent" /\ d.name = client[p].name
       /\ d.enc_pwd = client[p].enc_pwd /\ d.allowed = client[p].allowed
       /\ d.create = client[p].create
  BY <1>5, <1>7, <1>8 DEF Moves
<1>11. IsNamed(client[p]) /\ default_password = None => ~ client[p].create
  BY <1>1 DEF ClientsAreNamed, NothingToCreate
<1>12. Answered(p, d)
  BY <1>1, <1>10, <1>11 DEF Answered, IsNamed, ClientsAreNamed, Is, InGame
<1>13. ServerIsSound'
  BY <1>2, <1>9 DEF ServerIsSound, TypeOK, RegisteredOnce
<1>14. QED
  BY <1>2, <1>9, <1>12, <1>13, AnsweredKeeps

\* A peer connects.
LEMMA PeerAddedKeeps ==
    ASSUME ClientsInv, NEW p \in Peers, PeerAdded(p)
    PROVE  ClientsInv'
<1> USE DEF ClientsInv
<1>1. PICK d : d = [state |-> "Created", name |-> None, enc_pwd |-> None, allowed |-> {},
                    chosen |-> None, create |-> FALSE]
  OBVIOUS
<1>2. /\ client' = [client EXCEPT ![p] = d] /\ client[p] = None
      /\ UNCHANGED <<players, auth, default_password, unexpected, hasty, fatal>>
  BY <1>1 DEF PeerAdded
<1>3. d \in Client /\ d.state = "Created" /\ ~ d.create
  BY <1>1 DEF Client, States
<1>4. Answered(p, d)
  BY <1>2, <1>3 DEF Answered, IsNamed, Is, InGame
<1>5. ServerIsSound'
  BY <1>2 DEF ServerIsSound, TypeOK, NothingUnexpected, RegisteredOnce
<1>6. QED
  BY <1>2, <1>4, <1>5, AnsweredKeeps

\* Access is denied to a player.
LEMMA DenyAccessKeeps ==
    ASSUME ClientsInv, NEW p \in Peers, client[p] # None, DenyAccess(p),
           UNCHANGED <<players, auth, default_password, hasty, fatal>>
    PROVE  ClientsInv'
<1>1. ServerIsSound'
  BY DEF ClientsInv, DenyAccess, ServerIsSound, TypeOK, NothingUnexpected, RegisteredOnce
<1>2. QED
  BY <1>1, DeniedAnswers, AnsweredKeeps

-----------------------------------------------------------------------------
(* Players come and go.                                                    *)

\* A peer that leaves takes its player's connection away, not its player.
LEMMA DeletingPeerKeeps ==
    ASSUME ClientsInv, NEW p \in Peers, DeletingPeer(p)
    PROVE  ClientsInv'
<1> USE DEF ClientsInv
<1>1. /\ client' = [client EXCEPT ![p] = None] /\ players' = Left(p)
      /\ UNCHANGED <<auth, default_password, unexpected, hasty, fatal>>
  BY DEF DeletingPeer
<1>2. /\ client'[p] = None /\ \A q \in Peers \ {p} : client'[q] = client[q]
      /\ client' \in [Peers -> Client \union {None}]
  BY <1>1 DEF TypeOK
<1>3. \A q \in Peers : \A states : Is(q, states)' => q # p /\ Is(q, states)
  BY <1>2 DEF Is
<1>4. \A q \in Peers \ {p} : \A states : Is(q, states) => Is(q, states)'
  BY <1>2 DEF Is
<1>5. DOMAIN players' = DOMAIN players
  BY <1>1 DEF Left
<1>6. ASSUME NEW i \in DOMAIN players
      PROVE  /\ players'[i].name = players[i].name
             /\ players[i].peer = p => players'[i].peer = None
             /\ players[i].peer # p => players'[i] = players[i]
             /\ players'[i] \in [name : Names, peer : Peers \union {None}]
  <2>1. /\ players[i].name \in Names /\ players[i].peer \in Peers \union {None}
        /\ players[i] = [name |-> players[i].name, peer |-> players[i].peer]
    BY PlayerType
  <2>2. players'[i] = IF players[i].peer = p THEN [players[i] EXCEPT !.peer = None]
                      ELSE players[i]
    BY <1>1 DEF Left
  <2>3. CASE players[i].peer = p
    <3>1. players'[i] = [name |-> players[i].name, peer |-> None]
      BY <2>1, <2>2, <2>3
    <3>2. QED
      BY <2>1, <2>3, <3>1
  <2>4. CASE players[i].peer # p
    BY <2>1, <2>2, <2>4
  <2>5. QED
    BY <2>3, <2>4
<1>7. TypeOK'
  <2>1. players' \in Seq([name : Names, peer : Peers \union {None}])
    <3>1. DOMAIN players = 1 .. Len(players) /\ Len(players) \in Nat
      BY SeqType DEF TypeOK
    <3>2. players' = [i \in 1 .. Len(players) |-> players'[i]]
      BY <1>1, <3>1 DEF Left
    <3>3. QED
      BY <1>6, <3>1, <3>2, MakesSeq
  <2>2. QED
    BY <1>1, <1>2, <1>3, <2>1 DEF TypeOK
<1>8. ClientsAreNamed' /\ NothingToCreate'
  BY <1>1, <1>2 DEF ClientsAreNamed, NothingToCreate
<1>9. InGameHavePlayer'
  <2>1. ASSUME NEW q \in Peers, Is(q, InGame)'
        PROVE  \E i \in DOMAIN players' :
                   players'[i] = [name |-> client'[q].name, peer |-> q]
    <3>1. q # p /\ Is(q, InGame) /\ client'[q] = client[q]
      BY <1>2, <1>3, <2>1
    <3>2. PICK i \in DOMAIN players : players[i] = [name |-> client[q].name, peer |-> q]
      BY <3>1 DEF InGameHavePlayer
    <3>3. players[i].peer = q
      BY <3>2
    <3>4. QED
      BY <1>5, <1>6, <3>1, <3>2, <3>3
  <2>2. QED
    BY <2>1 DEF InGameHavePlayer
<1>10. OnePlayerPerPeer'
  <2>1. p # None
    BY SessionAssumption
  <2>2. QED
    BY <1>5, <1>6, <2>1 DEF OnePlayerPerPeer
<1>11. PlayersHaveClients'
  <2>1. ASSUME NEW i \in DOMAIN players, NEW q, q = players'[i].peer, q # None
        PROVE  Is(q, InGame \union {"Denied"})'
    <3>1. players[i].peer # p /\ players'[i] = players[i]
      BY <1>6, <2>1
    <3>2. Is(q, InGame \union {"Denied"}) /\ q \in Peers \ {p}
      BY <2>1, <3>1, PlayerType DEF PlayersHaveClients
    <3>3. QED
      BY <1>4, <3>2
  <2>2. QED
    BY <1>5, <2>1 DEF PlayersHaveClients, Is
<1>12. UserLimitHeld'
  BY <1>3, FewerInGame
<1>13. OnePlayerUnlessHasty'
  BY <1>1, <1>5, <1>6, SessionAssumption DEF OnePlayerUnlessHasty, OnePlayerPerName
<1>14. QED
  BY <1>1, <1>7, <1>8, <1>9, <1>10, <1>11, <1>12, <1>13 DEF NothingUnexpected, RegisteredOnce

\* r is s without its i-th element: g tells where in s an element of r was.
Drops(r, s, i) ==
    \E g \in [DOMAIN r -> DOMAIN s \ {i}] :
        /\ \A k \in DOMAIN r : r[k] = s[g[k]]
        /\ \A k, l \in DOMAIN r : g[k] = g[l] => k = l
        /\ \A j \in DOMAIN s \ {i} : \E k \in DOMAIN r : g[k] = j

\* What is before the i-th element and what is after it make such a sequence.
LEMMA JoinedDrops ==
    ASSUME NEW S, NEW n \in Nat, NEW i \in 1 .. n, NEW s, DOMAIN s = 1 .. n,
           NEW a \in Seq(S), NEW b \in Seq(S), Len(a) = i - 1, Len(b) = n - i,
           \A k \in 1 .. i - 1 : a[k] = s[k],
           \A k \in 1 .. n - i : b[k] = s[i + k]
    PROVE  a \o b \in Seq(S) /\ Drops(a \o b, s, i)
<1>1. /\ a \o b \in Seq(S) /\ Len(a \o b) = Len(a) + Len(b)
      /\ \A k \in 1 .. Len(a) + Len(b) :
             (a \o b)[k] = IF k <= Len(a) THEN a[k] ELSE b[k - Len(a)]
  BY ConcatProperties
<1>2. PICK r : r = a \o b
  OBVIOUS
<1>3. r \in Seq(S) /\ DOMAIN r = 1 .. n - 1
  BY <1>1, <1>2
<1>4. PICK g : g = [k \in 1 .. n - 1 |-> IF k < i THEN k ELSE k + 1]
  OBVIOUS
<1>5. g \in [DOMAIN r -> DOMAIN s \ {i}]
  BY <1>3, <1>4
<1>6. \A k, l \in DOMAIN r : g[k] = g[l] => k = l
  BY <1>3, <1>4
<1>7. ASSUME NEW j \in DOMAIN s \ {i} PROVE \E k \in DOMAIN r : g[k] = j
  <2>1. CASE j < i
    BY <1>3, <1>4, <2>1
  <2>2. CASE j > i
    <3>1. j - 1 \in DOMAIN r /\ g[j - 1] = j
      BY <1>3, <1>4, <2>2
    <3>2. QED
      BY <3>1
  <2>3. QED
    BY <2>1, <2>2
<1>8. ASSUME NEW k \in DOMAIN r PROVE r[k] = s[g[k]]
  <2>1. CASE k < i
    BY <1>1, <1>2, <1>3, <1>4, <2>1
  <2>2. CASE ~ (k < i)
    <3>1. k \in 1 .. Len(a) + Len(b) /\ ~ (k <= Len(a))
      BY <1>3, <2>2
    <3>2. r[k] = b[k - Len(a)]
      BY <1>1, <1>2, <3>1
    <3>3. k - Len(a) \in 1 .. n - i /\ i + (k - Len(a)) = k + 1
      BY <1>3, <2>2
    <3>4. g[k] = k + 1
      BY <1>3, <1>4, <2>2
    <3>5. QED
      BY <3>2, <3>3, <3>4
  <2>3. QED
    BY <2>1, <2>2
<1>9. Drops(r, s, i)
  BY <1>5, <1>6, <1>7, <1>8 DEF Drops
<1>10. QED
  BY <1>2, <1>3, <1>9

\* erase() makes one.
LEMMA WithoutOne ==
    ASSUME NEW S, NEW s \in Seq(S), NEW i \in 1 .. Len(s)
    PROVE  /\ SubSeq(s, 1, i - 1) \o SubSeq(s, i + 1, Len(s)) \in Seq(S)
           /\ Drops(SubSeq(s, 1, i - 1) \o SubSeq(s, i + 1, Len(s)), s, i)
<1>1. PICK n : n = Len(s)
  OBVIOUS
<1>2. n \in Nat /\ DOMAIN s = 1 .. n /\ i \in 1 .. n /\ \A k \in 1 .. n : s[k] \in S
  BY <1>1, SeqType
<1>3. PICK a : a = SubSeq(s, 1, i - 1)
  OBVIOUS
<1>4. PICK b : b = SubSeq(s, i + 1, n)
  OBVIOUS
<1>5. /\ a \in Seq(S) /\ Len(a) = IF 1 <= i - 1 THEN i - 1 - 1 + 1 ELSE 0
      /\ \A k \in 1 .. i - 1 - 1 + 1 : a[k] = s[1 + k - 1]
  <2>1. \A k \in 1 .. i - 1 : s[k] \in S
    BY <1>2
  <2>2. 1 \in Int /\ i - 1 \in Int
    BY <1>2
  <2>3. QED
    BY <1>3, <2>1, <2>2, SubSeqProperties
<1>6. /\ b \in Seq(S) /\ Len(b) = IF i + 1 <= n THEN n - (i + 1) + 1 ELSE 0
      /\ \A k \in 1 .. n - (i + 1) + 1 : b[k] = s[i + 1 + k - 1]
  <2>1. \A k \in i + 1 .. n : s[k] \in S
    BY <1>2
  <2>2. i + 1 \in Int /\ n \in Int
    BY <1>2
  <2>3. QED
    BY <1>4, <2>1, <2>2, SubSeqProperties
<1>7. Len(a) = i - 1 /\ \A k \in 1 .. i - 1 : a[k] = s[k]
  <2>1. Len(a) = i - 1
    BY <1>2, <1>5
  <2>2. ASSUME NEW k \in 1 .. i - 1 PROVE a[k] = s[k]
    <3>1. k \in 1 .. i - 1 - 1 + 1 /\ 1 + k - 1 = k
      BY <1>2
    <3>2. QED
      BY <1>5, <3>1
  <2>3. QED
    BY <2>1, <2>2
<1>8. Len(b) = n - i /\ \A k \in 1 .. n - i : b[k] = s[i + k]
  <2>1. Len(b) = n - i
    BY <1>2, <1>6
  <2>2. ASSUME NEW k \in 1 .. n - i PROVE b[k] = s[i + k]
    <3>1. k \in 1 .. n - (i + 1) + 1 /\ i + 1 + k - 1 = i + k
      BY <1>2
    <3>2. QED
      BY <1>6, <3>1
  <2>3. QED
    BY <2>1, <2>2
<1>9. a \o b \in Seq(S) /\ Drops(a \o b, s, i)
  BY <1>2, <1>5, <1>6, <1>7, <1>8, JoinedDrops
<1>10. QED
  BY <1>1, <1>3, <1>4, <1>9

\* A player without a peer is removed.
LEMMA RemovePlayerKeeps ==
    ASSUME ClientsInv, NEW i \in DOMAIN players, RemovePlayer(i)
    PROVE  ClientsInv'
<1> USE DEF ClientsInv
<1>1. /\ players' = SubSeq(players, 1, i - 1) \o SubSeq(players, i + 1, Len(players))
      /\ players[i].peer = None
      /\ UNCHANGED <<client, auth, default_password, unexpected, hasty, fatal>>
  BY DEF RemovePlayer
<1>2. players \in Seq([name : Names, peer : Peers \union {None}]) /\ i \in 1 .. Len(players)
  BY PlayerType DEF TypeOK
<1>3. PICK r : r = players'
  OBVIOUS
<1>4. PICK g \in [DOMAIN r -> DOMAIN players \ {i}] :
          /\ \A k \in DOMAIN r : r[k] = players[g[k]]
          /\ \A k, l \in DOMAIN r : g[k] = g[l] => k = l
          /\ \A j \in DOMAIN players \ {i} : \E k \in DOMAIN r : g[k] = j
  <2>1. Drops(r, players, i)
    BY <1>1, <1>2, <1>3, WithoutOne
  <2>2. QED
    BY <2>1 DEF Drops
<1>5. \A q, states : Is(q, states)' <=> Is(q, states)
  BY <1>1 DEF Is
<1>6. TypeOK'
  <2>1. r \in Seq([name : Names, peer : Peers \union {None}])
    BY <1>1, <1>2, <1>3, WithoutOne
  <2>2. QED
    BY <1>1, <1>3, <1>5, <2>1 DEF TypeOK
<1>7. ClientsAreNamed' /\ NothingToCreate'
  BY <1>1 DEF ClientsAreNamed, NothingToCreate
<1>8. InGameHavePlayer'
  <2>1. ASSUME NEW q \in Peers, Is(q, InGame)
        PROVE  \E k \in DOMAIN r : r[k] = [name |-> client[q].name, peer |-> q]
    <3>1. PICK j \in DOMAIN players : players[j] = [name |-> client[q].name, peer |-> q]
      BY <2>1 DEF InGameHavePlayer
    <3>2. j # i
      BY <1>1, <3>1, SessionAssumption
    <3>3. QED
      BY <1>4, <3>1, <3>2
  <2>2. QED
    BY <1>1, <1>3, <1>5, <2>1 DEF InGameHavePlayer
<1>9. OnePlayerPerPeer'
  <2>1. ASSUME NEW k \in DOMAIN r, NEW l \in DOMAIN r, r[k].peer = r[l].peer, r[k].peer # None
        PROVE  k = l
    <3>1. PICK a \in DOMAIN players : a = g[k] /\ r[k] = players[a]
      BY <1>4
    <3>2. PICK b \in DOMAIN players : b = g[l] /\ r[l] = players[b]
      BY <1>4
    <3>3. players[a].peer = players[b].peer /\ players[a].peer # None
      BY <2>1, <3>1, <3>2
    <3>4. a = b
      BY <3>3 DEF OnePlayerPerPeer
    <3>5. QED
      BY <1>4, <3>1, <3>2, <3>4
  <2>2. QED
    BY <1>3, <2>1 DEF OnePlayerPerPeer
<1>10. PlayersHaveClients'
  <2>1. ASSUME NEW k \in DOMAIN r, r[k].peer # None
        PROVE  Is(r[k].peer, InGame \union {"Denied"})
    BY <1>4, <2>1 DEF PlayersHaveClients
  <2>2. QED
    BY <1>1, <1>3, <2>1 DEF PlayersHaveClients, Is
<1>11. UserLimitHeld'
  BY <1>5, FewerInGame
<1>12. OnePlayerUnlessHasty'
  <2>1. ASSUME OnePlayerPerName, NEW k \in DOMAIN r, NEW l \in DOMAIN r,
               r[k].name = r[l].name, r[k].peer # None, r[l].peer # None
        PROVE  k = l
    BY <1>4, <2>1 DEF OnePlayerPerName
  <2>2. OnePlayerPerName => OnePlayerPerName'
    BY <1>3, <2>1 DEF OnePlayerPerName
  <2>3. QED
    BY <1>1, <2>2 DEF OnePlayerUnlessHasty
<1>13. QED
  BY <1>1, <1>6, <1>7, <1>8, <1>9, <1>10, <1>11, <1>12 DEF NothingUnexpected, RegisteredOnce

\* TOSERVER_CLIENT_READY.  Only a client that is not in the game has no player, and its name
\* has a player without a peer at most.
LEMMA HandleClientReadyKeeps ==
    ASSUME ClientsInv, NEW p \in Peers, HandleClientReady(p)
    PROVE  ClientsInv'
<1> USE DEF ClientsInv
<1>1. client[p] \in Client /\ client[p] # None
      /\ client[p].state \in {"DefinitionsSent"} \union InGame
  BY DEF HandleClientReady, Is, TypeOK
<1>2. CASE ~ MayJoin(p)
  BY <1>1, <1>2, DenyAccessKeeps DEF HandleClientReady
<1>3. CASE MayJoin(p)
  <2>1. PICK name : name = client[p].name
    OBVIOUS
  <2>2. /\ players' = Append(players, [name |-> name, peer |-> p])
        /\ hasty' = (hasty \/ \E i \in DOMAIN players :
                        players[i] = [name |-> name, peer |-> None])
        /\ Notify(p, client[p], "SetClientReady")
        /\ UNCHANGED <<auth, default_password, fatal>>
    BY <1>3, <2>1 DEF HandleClientReady
  <2>3. ~ UserLimitReached /\ ~ IsConnected(name) /\ ~ HasPlayer(p)
    BY <1>3, <2>1 DEF MayJoin, MayEmerge
  <2>4. client[p].state = "DefinitionsSent"
    <3>1. ~ Is(p, InGame)
      BY <2>3 DEF InGameHavePlayer, HasPlayer
    <3>2. QED
      BY <1>1, <3>1 DEF Is
  <2>5. PICK d : d = Notified(client[p], "SetClientReady")
    OBVIOUS
  <2>6. Expected(client[p], "SetClientReady") /\ Moves(client[p], d, "Active")
    <3>1. <<client[p].state, "SetClientReady", "Active">> \in Transition
      BY <2>4 DEF Transition
    <3>2. QED
      BY <1>1, <2>5, <3>1, NotifiedMoves
  <2>7. client' = [client EXCEPT ![p] = d] /\ ~ unexpected' /\ unexpected' \in BOOLEAN
    BY <2>2, <2>5, <2>6 DEF Notify, NothingUnexpected
  <2>8. /\ d \in Client /\ d # None /\ d.state = "Active" /\ d.name = name
        /\ d.create = client[p].create
        /\ d.allowed = client[p].allowed /\ d.enc_pwd = client[p].enc_pwd
    BY <2>1, <2>6, ClientAssumption DEF Moves
  <2>9. /\ client'[p] = d /\ \A q \in Peers \ {p} : client'[q] = client[q]
        /\ client' \in [Peers -> Client \union {None}]
    BY <2>7, <2>8 DEF TypeOK
  <2>10. /\ name \in Names /\ IsNamed(d)
         /\ default_password = None => ~ d.create
    <3>1. IsNamed(client[p]) /\ (default_password = None => ~ client[p].create)
      BY <1>1 DEF ClientsAreNamed, NothingToCreate
    <3>2. name # None
      BY <2>1, <2>4, <3>1 DEF IsNamed
    <3>3. name \in Names
      BY <1>1, <2>1, <3>2 DEF Client
    <3>4. QED
      BY <2>1, <2>4, <2>8, <3>1, <3>3 DEF IsNamed
  <2>11. PICK L : L = Len(players)
    OBVIOUS
  <2>12. PICK r : r = [name |-> name, peer |-> p]
    OBVIOUS
  <2>13. /\ L \in Nat /\ DOMAIN players = 1 .. L /\ DOMAIN players' = 1 .. L + 1
         /\ \A i \in 1 .. L : players'[i] = players[i]
         /\ players'[L + 1] = r
         /\ players' \in Seq([name : Names, peer : Peers \union {None}])
    <3>1. r \in [name : Names, peer : Peers \union {None}]
      BY <2>10, <2>12
    <3>2. /\ players \in Seq([name : Names, peer : Peers \union {None}])
          /\ players' = Append(players, r)
      BY <2>2, <2>12 DEF TypeOK
    <3>3. QED
      BY <2>11, <3>1, <3>2, Appended
  <2>14. r.name = name /\ r.peer = p
    BY <2>12
  <2>15. ClientsAreNamed' /\ NothingToCreate'
    BY <2>2, <2>8, <2>9, <2>10 DEF ClientsAreNamed, NothingToCreate
  <2>16. TypeOK'
    <3>1. \A q \in Peers : Is(q, {"HelloSent"} \union InGame)' =>
              /\ client'[q].name # None
              /\ "SRP" \in client'[q].allowed => client'[q].enc_pwd # None
      BY <2>15 DEF ClientsAreNamed, IsNamed, Is, InGame
    <3>2. hasty' \in BOOLEAN
      BY <2>2
    <3>3. QED
      BY <2>2, <2>7, <2>9, <2>13, <3>1, <3>2 DEF TypeOK
  <2>17. InGameHavePlayer'
    <3>1. ASSUME NEW q \in Peers, Is(q, InGame)'
          PROVE  \E i \in 1 .. L + 1 : players'[i] = [name |-> client'[q].name, peer |-> q]
      <4>1. CASE q = p
        <5>1. client'[q].name = name /\ L + 1 \in 1 .. L + 1
          BY <2>8, <2>9, <2>13, <4>1
        <5>2. QED
          BY <2>12, <2>13, <4>1, <5>1
      <4>2. CASE q # p
        <5>1. client'[q] = client[q] /\ Is(q, InGame)
          BY <2>9, <3>1, <4>2 DEF Is
        <5>2. PICK i \in 1 .. L : players[i] = [name |-> client[q].name, peer |-> q]
          BY <2>13, <5>1 DEF InGameHavePlayer
        <5>3. i \in 1 .. L + 1 /\ players'[i] = players[i]
          BY <2>13
        <5>4. QED
          BY <5>1, <5>2, <5>3
      <4>3. QED
        BY <4>1, <4>2
    <3>2. QED
      BY <2>13, <3>1 DEF InGameHavePlayer
  <2>18. \A i \in 1 .. L + 1 : \/ i \in 1 .. L /\ players'[i] = players[i]
                               \/ i = L + 1 /\ players'[i] = r
    <3>1. L \in Nat
      BY <2>13
    <3>2. \A i \in 1 .. L + 1 : i \in 1 .. L \/ i = L + 1
      BY <3>1
    <3>3. players'[L + 1] = r /\ \A i \in 1 .. L : players'[i] = players[i]
      BY <2>13
    <3>4. QED
      BY <3>2, <3>3
  <2>19. \A i \in 1 .. L : players[i].peer # p
    BY <2>3, <2>13 DEF HasPlayer
  <2>20. OnePlayerPerPeer'
    BY <2>13, <2>14, <2>18, <2>19 DEF OnePlayerPerPeer
  <2>21. PlayersHaveClients'
    <3>1. ASSUME NEW i \in 1 .. L + 1, NEW q, q = players'[i].peer, q # None
          PROVE  Is(q, InGame \union {"Denied"})'
      <4>1. CASE i = L + 1
        BY <2>8, <2>9, <2>13, <2>14, <3>1, <4>1 DEF Is, InGame
      <4>2. CASE i \in 1 .. L
        <5>1. q = players[i].peer /\ i \in DOMAIN players
          BY <2>13, <3>1, <4>2
        <5>2. q \in Peers /\ q # p /\ Is(q, InGame \union {"Denied"})
          BY <2>19, <3>1, <4>2, <5>1, PlayerType DEF PlayersHaveClients
        <5>3. QED
          BY <2>9, <5>2 DEF Is
      <4>3. QED
        BY <2>18, <4>1, <4>2
    <3>2. QED
      BY <2>13, <3>1 DEF PlayersHaveClients, Is
  <2>22. UserLimitHeld'
    <3>1. {q \in Peers : Is(q, InGame)'} \subseteq {q \in Peers : Is(q, InGame)} \union {p}
      BY <2>9 DEF Is
    <3>2. QED
      BY <2>3, <3>1, OneMoreInGame
  <2>23. OnePlayerUnlessHasty'
    <3>1. CASE hasty'
      BY <3>1 DEF OnePlayerUnlessHasty
    <3>2. CASE ~ hasty'
      <4>1. OnePlayerPerName
        BY <2>2, <3>2 DEF OnePlayerUnlessHasty
      <4>2. \A i \in 1 .. L : players[i].name # name
        <5>1. CASE Known(name)
          <6>1. FirstOf(name) \in DOMAIN players /\ players[FirstOf(name)].name = name
            BY <2>13, <5>1, FirstOfName
          <6>2. players[FirstOf(name)] = [name |-> name, peer |-> None]
            BY <2>3, <5>1, <6>1, PlayerType DEF IsConnected
          <6>3. QED
            BY <2>2, <3>2, <6>1, <6>2
        <5>2. CASE ~ Known(name)
          BY <2>13, <5>2 DEF Known
        <5>3. QED
          BY <5>1, <5>2
      <4>3. OnePlayerPerName'
        BY <2>13, <2>14, <2>18, <4>1, <4>2 DEF OnePlayerPerName
      <4>4. QED
        BY <4>3 DEF OnePlayerUnlessHasty
    <3>3. QED
      BY <3>1, <3>2
  <2>24. NothingUnexpected' /\ RegisteredOnce'
    BY <2>2, <2>7 DEF NothingUnexpected, RegisteredOnce
  <2>25. QED
    BY <2>15, <2>16, <2>17, <2>20, <2>21, <2>22, <2>23, <2>24
<1>4. QED
  BY <1>2, <1>3

-----------------------------------------------------------------------------
LEMMA ClientsInvInit == Init => ClientsInv
<1> SUFFICES ASSUME Init PROVE ClientsInv
  OBVIOUS
<1>1. \A p \in Peers : \A states : ~ Is(p, states)
  BY DEF Init, Is
<1>2. TypeOK
  <2>1. client \in [Peers -> Client \union {None}]
    BY DEF Init
  <2>2. players \in Seq([name : Names, peer : Peers \union {None}])
    BY DEF Init
  <2>3. auth \in [Names -> Passwords \union {None}]
    BY DEF Init
  <2>4. QED
    BY <1>1, <2>1, <2>2, <2>3 DEF Init, TypeOK
<1>3. UserLimitHeld
  <2>1. {p \in Peers : Is(p, InGame)} = {}
    BY <1>1
  <2>2. QED
    BY <2>1, FS_EmptySet, SessionAssumption DEF UserLimitHeld
<1>4. DOMAIN players = {}
  BY DEF Init
<1>5. QED
  BY <1>1, <1>2, <1>3, <1>4
     DEF Init, ClientsInv, ClientsAreNamed, NothingToCreate, InGameHavePlayer, OnePlayerPerPeer,
         PlayersHaveClients, NothingUnexpected, RegisteredOnce, OnePlayerUnlessHasty,
         OnePlayerPerName

LEMMA ClientsInvStep == ClientsInv /\ [Next]_vars => ClientsInv'
<1> SUFFICES ASSUME ClientsInv, [Next]_vars PROVE ClientsInv'
  OBVIOUS
<1>1. ASSUME NEW p \in Peers, Kick(p) PROVE ClientsInv'
  BY <1>1, DenyAccessKeeps DEF Kick, Is
<1>2. ASSUME NEW p \in Peers, NEW w \in Passwords, HandleFirstSrp(p, w) PROVE ClientsInv'
  BY <1>2, RegisterKeeps, ChangePasswordKeeps DEF HandleFirstSrp
<1>3. ASSUME NEW p \in Peers, NEW w \in Passwords, HandleSrpBytesM(p, w) PROVE ClientsInv'
  BY <1>3, PassSrpKeeps, FailSrpKeeps DEF HandleSrpBytesM
<1>4. CASE UNCHANGED vars
  BY <1>4 DEF vars, ClientsInv, TypeOK, ClientsAreNamed, NothingToCreate, InGameHavePlayer,
              OnePlayerPerPeer, PlayersHaveClients, UserLimitHeld, NothingUnexpected,
              RegisteredOnce, OnePlayerUnlessHasty, OnePlayerPerName, Is
<1>5. QED
  BY <1>1, <1>2, <1>3, <1>4, PeerAddedKeeps, DeletingPeerKeeps, HandleInitKeeps,
     HandleSrpBytesAKeeps, HandleInit2Keeps, HandleClientReadyKeeps, RemovePlayerKeeps
     DEF Next

\* What is true of clients and players in every state.
THEOREM ClientsInvariant == Spec => []ClientsInv
<1>1. QED
  BY ClientsInvInit, ClientsInvStep, PTL DEF Spec

\* Every variable keeps to its type.
THEOREM ClientsTypeCorrect == Spec => []TypeOK
<1>1. ClientsInv => TypeOK
  BY DEF ClientsInv
<1>2. QED
  BY <1>1, ClientsInvariant, PTL

\* Whoever is in the game has one player object, and a player with a peer has a client.
THEOREM PlayersHaveTheirClients == Spec => []PlayersAreClients
<1>1. ClientsInv => PlayersAreClients
  <2> SUFFICES ASSUME ClientsInv PROVE PlayersAreClients
    OBVIOUS
  <2>1. ASSUME NEW p \in Peers, Is(p, InGame)
        PROVE  Cardinality({i \in DOMAIN players :
                   players[i] = [name |-> client[p].name, peer |-> p]}) = 1
    <3>1. PICK i \in DOMAIN players : players[i] = [name |-> client[p].name, peer |-> p]
      BY <2>1 DEF ClientsInv, InGameHavePlayer
    <3>2. \A j \in DOMAIN players : players[j] = players[i] => j = i
      BY <3>1, SessionAssumption DEF ClientsInv, OnePlayerPerPeer
    <3>3. {j \in DOMAIN players : players[j] = [name |-> client[p].name, peer |-> p]} = {i}
      BY <3>1, <3>2
    <3>4. QED
      BY <3>3, FS_Singleton
  <2>2. QED
    BY <2>1 DEF ClientsInv, PlayersHaveClients, PlayersAreClients
<1>2. QED
  BY <1>1, ClientsInvariant, PTL

\* However many clients are joining, no more than max_users are in the game.
THEOREM LimitIsHeld == Spec => []UserLimitHeld
<1>1. ClientsInv => UserLimitHeld
  BY DEF ClientsInv
<1>2. QED
  BY <1>1, ClientsInvariant, PTL

\* No order of packets makes a handler notify an event that the client's state rejects.
THEOREM EventsAreExpected == Spec => []NothingUnexpected
<1>1. ClientsInv => NothingUnexpected
  BY DEF ClientsInv
<1>2. QED
  BY <1>1, ClientsInvariant, PTL

\* Without a default password nobody's registration ends the server.
THEOREM NamesAreRegisteredOnce == Spec => []RegisteredOnce
<1>1. ClientsInv => RegisteredOnce
  BY DEF ClientsInv
<1>2. QED
  BY <1>1, ClientsInvariant, PTL

\* A name has one connected player, unless it joined while its last player was there.
THEOREM NamesHaveOnePlayer == Spec => []OnePlayerUnlessHasty
<1>1. ClientsInv => OnePlayerUnlessHasty
  BY DEF ClientsInv
<1>2. QED
  BY <1>1, ClientsInvariant, PTL
-----------------------------------------------------------------------------
(* Both, side by side.                                                     *)

\* Every variable of both parts keeps to its type, in every behaviour of the run.
THEOREM ConnectionsTypeCorrect == PeerTableAssumption => (ConnectionsSpec => []ConnectionsTypeOK)
<1> SUFFICES ASSUME PeerTableAssumption
             PROVE  ConnectionsSpec => []ConnectionsTypeOK
  OBVIOUS
<1> DEFINE Both == ClientsInv /\ HandsInv
<1>1. ConnectionsInit => Both
  BY ClientsInvInit, HandsInit DEF ConnectionsInit
<1>2. Both /\ [ConnectionsNext]_allVars => Both'
  <2> SUFFICES ASSUME Both, [ConnectionsNext]_allVars
               PROVE  Both'
    OBVIOUS
  <2>1. [Next]_vars /\ [TableNext]_tableVars
    BY DEF ConnectionsNext, ServerEnded, allVars
  <2>2. QED
    BY <2>1, ClientsInvStep, HandsStep
<1>3. Both => ConnectionsTypeOK
  BY DEF ConnectionsTypeOK, ClientsInv, HandsInv
<1> HIDE DEF Both
<1>4. QED
  BY <1>1, <1>2, <1>3, PTL DEF ConnectionsSpec
=============================================================================
