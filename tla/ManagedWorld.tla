---------------------------- MODULE ManagedWorld ----------------------------
(***************************************************************************)
(* The world of one assignment as the Teacher Console manages it           *)
(* (teacher-console/main.js): installed from a template, played, copied to *)
(* snapshots, reset or restored after the old world was renamed to an      *)
(* archive.  A copy takes many steps of the file system, so that it may    *)
(* fail or be cut off by a crash half way; what it leaves is a directory   *)
(* that is not whole, and may lack the ownership marker.                   *)
(*                                                                         *)
(* One operation at a time; the game does not run during one.  Left out:   *)
(* duplicateWorld, and the failed copies of snapshotWorld, which nothing   *)
(* refers to.                                                              *)
(***************************************************************************)
EXTENDS Naturals, FiniteSets, Null

CONSTANTS
    MaxPlays,       \* bound: how often the world is played
    MaxMishaps      \* bound: operations that fail or are cut off

VARIABLES
    target,     \* the directory of the world
    archives,   \* the directories <target>.archive-<time>
    snapshots,  \* the directories the workspace lists as snapshots
    op,         \* the operation in progress
    plays, mishaps

worldVars == <<target, archives, snapshots, op, plays, mishaps>>

\* What was built in a world is a number; the template is 0.
World == [build : 0 .. MaxPlays, whole : BOOLEAN, marked : BOOLEAN]

\* No world is taken for the absence of one.
ManagedWorldAssumption ==
    /\ None \notin World
    /\ MaxPlays \in Nat /\ MaxMishaps \in Nat

NoOp == [kind |-> "none", at |-> "idle", source |-> None, archive |-> None]

WorldTypeOK ==
    /\ target \in World \union {None}
    /\ archives \subseteq World /\ snapshots \subseteq World
    /\ \A w \in archives \union snapshots : w.marked
    /\ op \in [kind : {"none", "install", "replace"}, at : {"idle", "copy", "mark"},
               source : World \union {None}, archive : World \union {None}]
    /\ plays \in 0 .. MaxPlays /\ mishaps \in 0 .. MaxMishaps

Template == [build |-> 0, whole |-> TRUE, marked |-> FALSE]

WorldInit ==
    /\ target = None /\ archives = {} /\ snapshots = {}
    /\ op = NoOp
    /\ plays = 0 /\ mishaps = 0

-----------------------------------------------------------------------------
AtRest == op = NoOp

IsManaged == target # None /\ target.marked

\* The students play: the game saves into the same directory.
Play ==
    /\ AtRest /\ target # None /\ target.whole
    /\ plays < MaxPlays
    /\ plays' = plays + 1
    /\ target' = [target EXCEPT !.build = plays + 1]
    /\ UNCHANGED <<archives, snapshots, op, mishaps>>

\* installWorld, when there is nothing at the target yet.
Install ==
    /\ AtRest /\ target = None
    /\ op' = [NoOp EXCEPT !.kind = "install", !.at = "copy", !.source = Template]
    /\ UNCHANGED <<target, archives, snapshots, plays, mishaps>>

\* snapshotWorld.
Snapshot ==
    /\ AtRest /\ IsManaged
    /\ snapshots' = snapshots \union {target}
    /\ UNCHANGED <<target, archives, op, plays, mishaps>>

\* Fault: the marker is not looked at.
ReplaceUnchecked(source) ==
    /\ AtRest /\ target # None
    /\ archives' = archives \union {target}
    /\ target' = None
    /\ op' = [kind |-> "replace", at |-> "copy", source |-> source, archive |-> target]
    /\ UNCHANGED <<snapshots, plays, mishaps>>

\* resetWorld and restoreWorldSnapshot, to the rename in replaceManagedWorld.
Replace(source) ==
    /\ AtRest /\ IsManaged
    /\ archives' = archives \union {target}
    /\ target' = None
    /\ op' = [kind |-> "replace", at |-> "copy", source |-> source, archive |-> target]
    /\ UNCHANGED <<snapshots, plays, mishaps>>

\* materialiseTemplate; a snapshot is copied with its marker.
Copy ==
    /\ op.at = "copy"
    /\ target' = op.source
    /\ op' = [op EXCEPT !.at = "mark"]
    /\ UNCHANGED <<archives, snapshots, plays, mishaps>>

Mark ==
    /\ op.at = "mark"
    /\ target' = [target EXCEPT !.marked = TRUE]
    /\ op' = NoOp
    /\ UNCHANGED <<archives, snapshots, plays, mishaps>>

\* What a copy that stops has made of the directory: nothing, or a part with or without
\* the marker of its source.
Torn ==
    {None} \union
    {[op.source EXCEPT !.whole = FALSE, !.marked = m] : m \in {FALSE, op.source.marked}}

\* What there is when the operation stops in the copy, or in writing the marker.
Leftovers ==
    IF op.at = "copy" THEN Torn ELSE {target, [target EXCEPT !.marked = FALSE]}

\* Fault: the archive is given up although it cannot be renamed.
RolledBackBadly(left) ==
    /\ target' = left
    /\ archives' = archives \ {op.archive}

\* The rename of the archive fails, in silence, unless the target is missing.
RolledBack(left) ==
    IF op.kind = "replace" /\ left = None
    THEN target' = op.archive /\ archives' = archives \ {op.archive}
    ELSE target' = left /\ UNCHANGED archives

Fail ==
    /\ op.at # "idle"
    /\ mishaps < MaxMishaps
    /\ \E left \in Leftovers : RolledBack(left)
    /\ op' = NoOp
    /\ mishaps' = mishaps + 1
    /\ UNCHANGED <<snapshots, plays>>

WorldCrash ==
    /\ op.at # "idle"
    /\ mishaps < MaxMishaps
    /\ \E left \in Leftovers : target' = left
    /\ op' = NoOp
    /\ mishaps' = mishaps + 1
    /\ UNCHANGED <<archives, snapshots, plays>>

WorldNext ==
    \/ Play
    \/ Install
    \/ Snapshot
    \/ Replace(Template)
    \/ \E s \in snapshots : Replace(s)
    \/ Copy
    \/ Mark
    \/ Fail
    \/ WorldCrash

WorldSpec == WorldInit /\ [][WorldNext]_worldVars

-----------------------------------------------------------------------------
Saved == {w.build : w \in {x \in archives \union ({target} \ {None}) : x.whole}}

\* teacher-console/README.md:16: "managed-world reset/restore archives the previous world
\* instead of deleting it".  Whatever fails, only playing changes what is saved.
NothingDestroyed ==
    [][Saved \ Saved' \subseteq (IF plays' > plays THEN {target.build} ELSE {})]_worldVars
=============================================================================
