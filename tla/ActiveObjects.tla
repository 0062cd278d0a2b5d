--------------------------- MODULE ActiveObjects ---------------------------
(***************************************************************************)
(* The objects of the world (mobs, dropped items, robots) between the list *)
(* of active objects, the blocks in memory and the database:               *)
(* src/src/serverenvironment.cpp, mapblock.cpp and staticobject.h.         *)
(*                                                                         *)
(* An object near a player is active and has, in the list of active ones   *)
(* of some block, a static copy of itself; any other is stored in its      *)
(* block, in memory or in the database.  Every two seconds the list of     *)
(* active blocks follows the players, objects are stored or activated and  *)
(* copies move from block to block.  An object that a client knows is kept *)
(* until the client has been told, though it is gone.                      *)
(*                                                                         *)
(* A block's time stamp only matters against the last quick clearing of    *)
(* objects: it is "none", "old" (before the clearing) or "fresh".  A usage *)
(* timer may have run out (idle) once Manage has found a block in memory   *)
(* and out of use; the code waits for 29 s, more than ten times Manage.    *)
(***************************************************************************)
EXTENDS Integers, FiniteSets, SequencesExt, Null

CONSTANTS
    Blocks,             \* places in a row
    Ids,                \* ids of active objects, 1..n
    Things,             \* what an object is, whatever its id
    OnDisk,             \* blocks that are generated and saved at first
    ResaveDistance,     \* blocks; ACTIVE_OBJECT_RESAVE_DISTANCE_SQ is its square
    MaxAccidents        \* areas deleted and objects cleared

VARIABLES
    mem,        \* Blocks -> the MapBlock in memory or None
    disk,       \* Blocks -> the row of the database or None
    idle,       \* blocks whose usage timer has run out
    active,     \* m_active_blocks.m_list
    objects,    \* Ids -> the ServerActiveObject or None
    round,      \* what this round has seen: "managed", "told", "swept"; or "stopped"
    accidents,  \* MaxAccidents less those still to come
    fate,       \* history: Things -> "unborn", "kept", "removed", "cleared"
    wiped,      \* history: stored after the last clearing and cleared all the same
    unaware,    \* history: cleared, in a block whose time stamp will not tell
    deleted,    \* history: blocks deleted with their area
    adrift      \* history: their block was unloaded under the active object

vars == <<mem, disk, idle, active, objects, round, accidents,
          fate, wiped, unaware, deleted, adrift>>

MapBlock == [stored : [Things -> Nat], act : [Ids -> Things \union {None}],
             stamp : {"none", "old", "fresh"}, gen : BOOLEAN, mod : {"clean", "unload", "needed"}]

StoredBlock == [stored : [Things -> Nat], stamp : {"none", "old", "fresh"}, gen : BOOLEAN]

ServerActiveObject == [thing : Things, pos : Blocks, static_exists : BOOLEAN,
                       static_block : Blocks, known : BOOLEAN,
                       gone : {"no", "deactivated", "removed"}]

\* None is nothing else, and 0 stands for no id.
ASSUME ObjectsAssumption ==
    /\ None \notin Things /\ None \notin MapBlock
    /\ None \notin StoredBlock /\ None \notin ServerActiveObject
    /\ IsFiniteSet(Ids) /\ IsFiniteSet(Things) /\ IsFiniteSet(Blocks)
    /\ Ids \subseteq Nat \ {0} /\ Blocks \subseteq Int
    /\ MaxAccidents \in Nat

NoOne == [t \in Things |-> 0]
Nobody == [i \in Ids |-> None]

BlankBlock == [stored |-> NoOne, act |-> Nobody, stamp |-> "none", gen |-> FALSE, mod |-> "clean"]

Init ==
    /\ mem = [b \in Blocks |-> None]
    /\ disk = [b \in Blocks |-> IF b \in OnDisk
                                THEN [stored |-> NoOne, stamp |-> "fresh", gen |-> TRUE]
                                ELSE None]
    /\ idle = {} /\ active = {} /\ objects = Nobody
    /\ round = "swept" /\ accidents = 0
    /\ fate = [t \in Things |-> "unborn"]
    /\ wiped = {} /\ unaware = {} /\ deleted = {}
    /\ adrift = {}

-----------------------------------------------------------------------------
(* Blocks *)

\* What saveBlock writes: stored and active copies alike.
Row(block) ==
    [stored |-> [t \in Things |-> block.stored[t] + Cardinality({i \in Ids : block.act[i] = t})],
     stamp |-> block.stamp, gen |-> block.gen]

loadBlock(row) ==
    [stored |-> row.stored, act |-> Nobody, stamp |-> row.stamp, gen |-> row.gen, mod |-> "clean"]

emergeBlock(m, b, create_blank) ==
    CASE m[b] # None -> m[b]
      [] m[b] = None /\ disk[b] # None -> loadBlock(disk[b])
      [] OTHER -> IF create_blank THEN BlankBlock ELSE None

raiseModified(block, level) ==
    [block EXCEPT !.mod = IF @ = "needed" THEN @ ELSE level]

Marked(block, mark) == IF mark THEN raiseModified(block, "needed") ELSE block

-----------------------------------------------------------------------------
(* The steps of the environment, on [mem, objects] *)

deleteStaticFromBlock(s, id, mark, no_emerge) ==
    LET o == s.objects[id]
        b == o.static_block
        block == IF no_emerge THEN s.mem[b] ELSE emergeBlock(s.mem, b, FALSE)
    IN  IF ~o.static_exists \/ block = None THEN s
        ELSE [mem |-> [s.mem EXCEPT ![b] = Marked([block EXCEPT !.act[id] = None], mark)],
              objects |-> [s.objects EXCEPT ![id].static_exists = FALSE]]

\* Fault: the object is not told where its copy is now.
saveStaticForgetful(s, b, store_id, id, mark) ==
    LET block == emergeBlock(s.mem, b, TRUE)
        t == s.objects[id].thing
        with == IF store_id = 0 THEN [block EXCEPT !.stored[t] = @ + 1]
                ELSE [block EXCEPT !.act[store_id] = t]
    IN  [mem |-> [s.mem EXCEPT ![b] = Marked(with, mark)],
         objects |-> [s.objects EXCEPT ![id].static_exists = TRUE]]

\* store_id is 0 for an object that is deleted at once.
saveStaticToBlock(s, b, store_id, id, mark) ==
    LET block == emergeBlock(s.mem, b, TRUE)
        t == s.objects[id].thing
        with == IF store_id = 0 THEN [block EXCEPT !.stored[t] = @ + 1]
                ELSE [block EXCEPT !.act[store_id] = t]
    IN  [mem |-> [s.mem EXCEPT ![b] = Marked(with, mark)],
         objects |-> [s.objects EXCEPT ![id].static_exists = TRUE, ![id].static_block = b]]

MarkFor(s, id, what) == [s EXCEPT !.objects[id].gone = IF @ = "removed" THEN @ ELSE what]

Forgotten(s, id) == [s EXCEPT !.objects[id] = None]

Distance(a, b) == IF a < b THEN b - a ELSE a - b

\* In use, but its copy is in a block that is not, or too far away.
ShallMoveCopy(o, list) ==
    /\ o.static_exists /\ o.pos \in list
    /\ o.static_block \notin list \/ Distance(o.pos, o.static_block) >= ResaveDistance

\* Fault: a block is only written if the data of the object has changed.
WriteIfChanged(stays, changed) == changed

ShallBeWritten(stays, changed) == ~stays \/ changed

\* One object of deactivateFarObjects; changed: its static data has changed considerably.
deactivate(s, id, list, force, changed) ==
    LET o == s.objects[id]
        pending_delete == o.known /\ ~force
        stays == o.static_exists /\ o.static_block = o.pos
        old == emergeBlock(s.mem, o.static_block, FALSE)
        has_copy == o.static_exists /\ (IF old = None THEN FALSE ELSE old.act[id] # None)
        write == ShallBeWritten(stays, changed \/ ~has_copy)
        stored == saveStaticToBlock(deleteStaticFromBlock(s, id, write, FALSE),
                                    o.pos, IF pending_delete THEN id ELSE 0, id, write)
        marked == MarkFor(stored, id, "deactivated")
    IN  CASE o = None -> s
          [] o # None /\ ~force /\ o.gone # "no" -> s
          [] o # None /\ ~force /\ o.gone = "no" /\ ShallMoveCopy(o, list) ->
                saveStaticToBlock(deleteStaticFromBlock(s, id, TRUE, FALSE), o.pos, id, id, TRUE)
          [] o # None /\ ~force /\ o.gone = "no" /\ ~ShallMoveCopy(o, list) /\ o.pos \in list -> s
          [] OTHER -> IF pending_delete THEN marked ELSE Forgotten(marked, id)

\* std::map and std::set are walked along in the order of their keys.
InOrder(keys) ==
    CHOOSE q \in [1 .. Cardinality(keys) -> keys] :
        \A k, l \in 1 .. Cardinality(keys) : k < l => q[k] < q[l]

AllIds == InOrder(Ids)

deactivateFarObjects(s, list, force, changed) ==
    FoldLeft(LAMBDA x, id : deactivate(x, id, list, force, changed), s, AllIds)

FreeId(s) == {i \in Ids : s.objects[i] = None /\ \A j \in Ids : j < i => s.objects[j] # None}

\* registerObject and addActiveObjectRaw; without a free id the object is dropped.
NewObject(t, b) ==
    [thing |-> t, pos |-> b, static_exists |-> TRUE, static_block |-> b,
     known |-> FALSE, gone |-> "no"]

addActiveObjectRaw(s, t, b, mark) ==
    IF FreeId(s) = {} THEN s
    ELSE LET id == CHOOSE i \in FreeId(s) : TRUE
             block == emergeBlock(s.mem, b, TRUE)
         IN  [mem |-> [s.mem EXCEPT ![b] = Marked([block EXCEPT !.act[id] = t], mark)],
              objects |-> [s.objects EXCEPT ![id] = NewObject(t, b)]]

Stale(block) == block.stamp = "old"

Copies(stored) == SetToSeq(UNION {{<<t, k>> : k \in 1..stored[t]} : t \in Things})

\* Fault: what has been activated stays in the stored list.
activateKeeping(s, b) ==
    LET list == IF Stale(s.mem[b]) THEN NoOne ELSE s.mem[b].stored
    IN  FoldLeft(LAMBDA x, copy : addActiveObjectRaw(x, copy[1], b, FALSE),
                 [s EXCEPT !.mem[b].stamp = "fresh"], Copies(list))

activateBlock(s, b) ==
    LET list == IF Stale(s.mem[b]) THEN NoOne ELSE s.mem[b].stored
    IN  FoldLeft(LAMBDA x, copy : addActiveObjectRaw(x, copy[1], b, FALSE),
                 [s EXCEPT !.mem[b].stamp = "fresh", !.mem[b].stored = NoOne], Copies(list))

\* One object of removeRemovedObjects.
removeRemoved(s, id) ==
    LET o == s.objects[id]
        s1 == IF o.gone = "removed" THEN deleteStaticFromBlock(s, id, TRUE, FALSE) ELSE s
        b == o.static_block
        block == emergeBlock(s1.mem, b, FALSE)
        stored == [raiseModified(block, "needed") EXCEPT !.act[id] = None,
                                                         !.stored[o.thing] = @ + 1]
        s2 == IF o.gone = "removed" \/ ~o.static_exists \/ block = None THEN s1
              ELSE [s1 EXCEPT !.mem[b] = IF block.act[id] = None THEN block ELSE stored]
    IN  CASE o = None -> s
          [] o # None /\ o.gone = "no" -> s
          [] o # None /\ o.gone # "no" /\ o.known -> s1
          [] OTHER -> Forgotten(s2, id)

-----------------------------------------------------------------------------
(* Actions *)

S == [mem |-> mem, objects |-> objects]

Apply(s) == mem' = s.mem /\ objects' = s.objects

Live == {i \in Ids : objects[i] # None /\ objects[i].gone = "no"}

Loaded == {b \in Blocks : mem[b] # None}

Running == round # "stopped"

\* core.add_entity; the block is created if the map does not have it.
addActiveObject(t, b) ==
    /\ Running /\ fate[t] = "unborn"
    /\ FreeId(S) # {}
    /\ Apply(addActiveObjectRaw(S, t, b, TRUE))
    /\ fate' = [fate EXCEPT ![t] = "kept"]
    /\ UNCHANGED <<disk, idle, active, round, accidents, wiped, unaware, deleted, adrift>>

setBasePosition(id, b) ==
    /\ Running /\ id \in Live
    /\ objects[id].pos # b
    /\ objects' = [objects EXCEPT ![id].pos = b]
    /\ UNCHANGED <<mem, disk, idle, active, round, accidents, fate, wiped, unaware, deleted, adrift>>

\* object:remove() of a mod, or an object whose step ends it.
markForRemoval(id) ==
    /\ Running /\ id \in Live
    /\ Apply(MarkFor(S, id, "removed"))
    /\ fate' = [fate EXCEPT ![objects[id].thing] = "removed"]
    /\ UNCHANGED <<disk, idle, active, round, accidents, wiped, unaware, deleted, adrift>>

\* ActiveBlockList::update and what step() does about it: the list becomes what is near
\* the players and can be had.
Manage(near, changed) ==
    LET s1 == deactivateFarObjects(S, near, FALSE, changed)
        left == {b \in active \ near : s1.mem[b] # None}
        s2 == [s1 EXCEPT !.mem = [b \in Blocks |->
                  IF b \in left THEN raiseModified([s1.mem[b] EXCEPT !.stamp = "fresh"], "unload")
                                ELSE s1.mem[b]]]
        added == {b \in near \ active : s1.mem[b] # None}
        s3 == FoldLeft(activateBlock, s2, InOrder(added))
    IN  /\ round = "swept"
        /\ round' = "managed"
        /\ Apply(s3)
        /\ active' = (active \intersect near) \union added
        /\ idle' = (idle \union Loaded) \ (active \union near)
        /\ wiped' = wiped \union
              {t \in Things : fate[t] = "kept" /\
                  \E b \in added : Stale(s2.mem[b]) /\ s2.mem[b].stored[t] > 0}
        /\ UNCHANGED <<disk, accidents, fate, unaware, deleted, adrift>>

\* SendActiveObjectRemoveAdd: the client is told which objects have gone and which are near.
SendActiveObjectRemoveAdd(near) ==
    /\ Running
    /\ near \subseteq Live
    /\ objects' = [i \in Ids |-> IF objects[i] = None THEN None
                                 ELSE [objects[i] EXCEPT !.known = i \in near]]
    /\ round' = IF round = "managed" THEN "told" ELSE round
    /\ UNCHANGED <<mem, disk, idle, active, accidents, fate, wiped, unaware, deleted, adrift>>

removeRemovedObjects ==
    /\ Running
    /\ Apply(FoldLeft(removeRemoved, S, AllIds))
    /\ round' = IF round = "told" THEN "swept" ELSE round
    /\ UNCHANGED <<disk, idle, active, accidents, fate, wiped, unaware, deleted, adrift>>

\* An emerge thread loads a block, or finishes a new one.
LoadBlock(b) ==
    /\ Running /\ mem[b] = None /\ disk[b] # None /\ disk[b].gen
    /\ mem' = [mem EXCEPT ![b] = loadBlock(disk[b])]
    /\ UNCHANGED <<disk, idle, active, objects, round, accidents, fate, wiped, unaware, deleted, adrift>>

finishBlockMake(b) ==
    LET block == emergeBlock(mem, b, TRUE)
    IN  /\ Running /\ ~block.gen
        /\ mem' = [mem EXCEPT ![b] = raiseModified([block EXCEPT !.gen = TRUE, !.stamp = "fresh"],
                                                   "needed")]
        /\ unaware' = unaware \union {t \in Things : Stale(block) /\ block.stored[t] > 0}
        /\ UNCHANGED <<disk, idle, active, objects, round, accidents, fate, wiped, deleted, adrift>>

Written(b) == [mem[b] EXCEPT !.mod = "clean"]

\* ServerMap::save, from time to time.
SaveMap ==
    LET saved == {b \in Loaded : mem[b].mod = "needed"}
    IN  /\ Running /\ saved # {}
        /\ disk' = [b \in Blocks |-> IF b \in saved THEN Row(mem[b]) ELSE disk[b]]
        /\ mem' = [b \in Blocks |-> IF b \in saved THEN Written(b) ELSE mem[b]]
        /\ UNCHANGED <<idle, active, objects, round, accidents, fate, wiped, unaware, deleted, adrift>>

\* Map::timerUpdate.
UnloadBlock(b) ==
    /\ Running /\ mem[b] # None /\ b \in idle
    /\ disk' = IF mem[b].mod # "clean" THEN [disk EXCEPT ![b] = Row(mem[b])] ELSE disk
    /\ mem' = [mem EXCEPT ![b] = None]
    /\ idle' = idle \ {b}
    /\ adrift' = adrift \union ({mem[b].act[i] : i \in Ids} \ {None})
    /\ UNCHANGED <<active, objects, round, accidents, fate, wiped, unaware, deleted>>

Accident == Running /\ accidents < MaxAccidents /\ accidents' = accidents + 1

\* core.delete_area.  The database forgets the block, so does memory; then
\* setStaticForActiveObjectsInBlock looks for the block and no longer finds it.
DeleteArea(b) ==
    LET resting(t) == \/ mem[b] = None /\ disk[b].stored[t] > 0
                      \/ mem[b] # None /\ mem[b].stored[t] > 0
                      \/ mem[b] # None /\ \E i \in Ids \ Live : mem[b].act[i] = t
    IN  /\ Accident
        /\ mem[b] # None \/ disk[b] # None
        /\ mem' = [mem EXCEPT ![b] = None]
        /\ disk' = [disk EXCEPT ![b] = None]
        /\ idle' = idle \ {b}
        /\ fate' = [t \in Things |-> IF resting(t) THEN "removed" ELSE fate[t]]
        /\ deleted' = deleted \union {b}
        /\ UNCHANGED <<active, objects, round, wiped, unaware, adrift>>

\* Everything that is known to a client is kept until it has been told.
ClearOne(s, id) ==
    LET s1 == MarkFor(deleteStaticFromBlock(s, id, TRUE, TRUE), id, "removed")
    IN  IF s.objects[id] = None THEN s
        ELSE IF s.objects[id].known THEN s1 ELSE Forgotten(s1, id)

Emptied(block) ==
    IF block.stored = NoOne /\ block.act = Nobody THEN block
    ELSE raiseModified([block EXCEPT !.stored = NoOne, !.act = Nobody], "needed")

\* A block in use gets its time stamp anew all the time.
Aged(stamp) == IF stamp = "fresh" THEN "old" ELSE stamp

clearObjects(mode) ==
    LET s1 == FoldLeft(ClearOne, S, AllIds)
        full == mode = "full"
    IN  /\ Accident
        /\ objects' = s1.objects
        /\ mem' = [b \in Blocks |->
              IF mem[b] = None THEN None
              ELSE [Emptied(s1.mem[b]) EXCEPT !.stamp = IF b \in active THEN @ ELSE Aged(@)]]
        /\ disk' = [b \in Blocks |->
              IF disk[b] = None THEN None
              ELSE [disk[b] EXCEPT !.stamp = Aged(@),
                                   !.stored = IF full /\ mem[b] = None THEN NoOne ELSE @]]
        /\ fate' = [t \in Things |-> IF fate[t] = "kept" THEN "cleared" ELSE fate[t]]
        /\ unaware' = unaware \union
              {t \in Things : \E b \in Blocks :
                  mem[b] = None /\ disk[b] # None /\ ~full
                  /\ disk[b].stamp = "none" /\ disk[b].stored[t] > 0}
        /\ UNCHANGED <<idle, active, round, wiped, deleted, adrift>>

\* deactivateBlocksAndObjects, then the map is saved as it is deleted.
Shutdown(changed) ==
    LET s1 == deactivateFarObjects(S, {}, TRUE, changed)
    IN  /\ Running
        /\ round' = "stopped"
        /\ objects' = s1.objects
        /\ active' = {} /\ idle' = {}
        /\ mem' = [b \in Blocks |-> None]
        /\ disk' = [b \in Blocks |-> IF s1.mem[b] # None /\ s1.mem[b].mod # "clean"
                                     THEN Row(s1.mem[b]) ELSE disk[b]]
        /\ UNCHANGED <<accidents, fate, wiped, unaware, deleted, adrift>>

Next ==
    \/ \E t \in Things, b \in Blocks : addActiveObject(t, b)
    \/ \E i \in Ids, b \in Blocks : setBasePosition(i, b)
    \/ \E i \in Ids : markForRemoval(i)
    \/ \E near \in SUBSET Blocks, changed \in BOOLEAN : Manage(near, changed)
    \/ \E near \in SUBSET Ids : SendActiveObjectRemoveAdd(near)
    \/ removeRemovedObjects
    \/ \E b \in Blocks : LoadBlock(b) \/ finishBlockMake(b) \/ UnloadBlock(b) \/ DeleteArea(b)
    \/ SaveMap
    \/ \E mode \in {"quick", "full"} : clearObjects(mode)
    \/ \E changed \in BOOLEAN : Shutdown(changed)

Spec == Init /\ [][Next]_vars

-----------------------------------------------------------------------------
(* Properties *)

TypeOK ==
    /\ mem \in [Blocks -> MapBlock \union {None}]
    /\ disk \in [Blocks -> StoredBlock \union {None}]
    /\ active \subseteq Blocks /\ idle \subseteq Loaded \ active
    /\ objects \in [Ids -> ServerActiveObject \union {None}]
    /\ round \in {"managed", "told", "swept", "stopped"}
    /\ fate \in [Things -> {"unborn", "kept", "removed", "cleared"}]
    /\ accidents \in 0..MaxAccidents

\* How often t is in the world: active, or at rest in a block.
Resting(b, t) ==
    CASE mem[b] # None -> mem[b].stored[t] + Cardinality({i \in Ids \ Live : mem[b].act[i] = t})
      [] mem[b] = None /\ disk[b] # None -> disk[b].stored[t]
      [] OTHER -> 0

Alive(t) == Cardinality({i \in Live : objects[i].thing = t})

\* However often it is stored, moved, unloaded and activated again, an object that nobody
\* has removed is in the world once, before and after the server stops; one that was cleared
\* does not come back, unless from a block that had no time stamp then or was generated
\* since (serverenvironment.cpp:562, 1648).
OneOfEach ==
    \A t \in Things \ (wiped \union adrift) :
        /\ fate[t] = "kept" => Alive(t) + MapThenSumSet(LAMBDA b : Resting(b, t), Blocks) = 1
        /\ fate[t] = "cleared" /\ t \notin unaware => Alive(t) = 0

\* Every copy under an id is that of the active object with this id, which knows its
\* block (the program ends when it stores a second one, staticobject.h:48), and the copy of
\* an object is where the object thinks, unless the area was deleted.
CopiesBelong ==
    /\ \A b \in Loaded, i \in Ids : mem[b].act[i] \notin {None} \union adrift =>
           /\ objects[i] # None
           /\ objects[i].thing = mem[b].act[i]
           /\ objects[i].static_exists /\ objects[i].static_block = b
    /\ \A i \in Live :
           LET o == objects[i]
           IN  o.static_exists /\ o.static_block \notin deleted /\ o.thing \notin adrift =>
                   o.static_block \in Loaded /\ mem[o.static_block].act[i] = o.thing

\* And nobody rests in a block that is in use.
ListsAgree == CopiesBelong /\ \A b \in active \intersect Loaded : mem[b].stored = NoOne

\* What a crash can cost is in blocks that wait to be written: of every other block the
\* database holds what memory does, unless a clearing is still to be made good there
\* (serverenvironment.cpp:563, 1633, 1741).
SavedUnlessMarked ==
    \A b \in Loaded, t \in Things \ (wiped \union adrift) :
        mem[b].mod # "needed" /\ fate[t] # "cleared" =>
            Row(mem[b]).stored[t] = IF disk[b] = None THEN 0 ELSE disk[b].stored[t]

\* "If this is set alongside with m_pending_removal, removal takes priority": what was
\* removed is not in the world that the server leaves behind (serveractiveobject.h:268).
RemovedStayGone ==
    \A t \in Things : fate[t] = "removed" /\ round = "stopped" =>
        \A b \in Blocks : disk[b] = None \/ disk[b].stored[t] = 0
=============================================================================
