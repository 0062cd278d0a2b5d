---------------------------- MODULE ConsoleStore ----------------------------
(***************************************************************************)
(* The workspace file of the Teacher Console (teacher-console/main.js):    *)
(* writeState() verifies and copies the old file to .backup and replaces   *)
(* it atomically, readState() falls back to the backup.  Saves come from   *)
(* the renderer, which holds a copy of the whole workspace, and from the   *)
(* LAN bridge, which adds one classroom event to the main process's copy;  *)
(* both run writeState(), which awaits the file system between its steps.  *)
(* The program may be killed at any time, and the disk may damage the      *)
(* primary file.                                                           *)
(*                                                                         *)
(* A workspace is the set of the things recorded in it, events and the     *)
(* teacher's edits, and whether it is to be encrypted.  Left out: the      *)
(* rolling recovery copies (written and never read), restore from a chosen *)
(* file, folder sync, and the bridge's server, which is running.            *)
(***************************************************************************)
EXTENDS Naturals, FiniteSets, Null

CONSTANTS
    Events,         \* what games report
    Edits,          \* what the teacher changes
    Passphrases,
    Plain,          \* the key of a file that is not encrypted
    Jobs,           \* calls of writeState that can be in progress
    Overlap,        \* whether a call starts while another one is in progress
    MaxDamage,      \* bound: how often the disk damages the primary file
    MaxFaults,      \* bound: how many writes fail
    MaxCrashes      \* bound: how often the program is killed

VARIABLES
    primary,    \* teacher-console.json
    backup,     \* teacher-console.json.backup
    activeState,
    key,        \* activePassphrase
    job,        \* the calls of writeState
    renderer,   \* the renderer's copy of the workspace
    notice,     \* the classroom:event message on its way to the renderer
    acked,      \* what was answered with success: accepted events and saved edits
    previous,   \* the primary file before the last write
    damage, faults, crashes

counters == <<damage, faults, crashes>>

storeVars == <<primary, backup, activeState, key, job, renderer, notice, acked, previous,
               counters>>

Workspace == [items : SUBSET (Events \union Edits), encrypted : BOOLEAN]

Default == [items |-> {}, encrypted |-> FALSE]

\* Damage to the contents leaves an envelope that parses; damage to the format does not.
File == [state : Workspace, key : Passphrases \union {Plain},
         damage : {"none", "contents", "format"}]

\* None is not a value of anything.
StoreAssumption ==
    /\ None \notin Workspace \union File \union Events \union Passphrases \union {Plain}
    /\ MaxDamage \in Nat /\ MaxFaults \in Nat /\ MaxCrashes \in Nat

Idle == [at |-> "idle", state |-> Default, key |-> Plain, copy |-> None, event |-> None]

Job == [at : {"idle", "verify", "copy", "write", "commit"}, state : Workspace,
        key : Passphrases \union {Plain}, copy : File \union {None},
        event : Events \union {None}]

StoreTypeOK ==
    /\ primary \in File \union {None} /\ backup \in File \union {None}
    /\ previous \in File \union {None}
    /\ activeState \in Workspace \union {None} /\ renderer \in Workspace \union {None}
    /\ notice \in Workspace \union {None}
    /\ key \in Passphrases \union {None}
    /\ job \in [Jobs -> Job]
    /\ acked \subseteq Events \union Edits
    /\ damage \in 0 .. MaxDamage /\ faults \in 0 .. MaxFaults /\ crashes \in 0 .. MaxCrashes

StoreInit ==
    /\ primary = None /\ backup = None /\ previous = None
    /\ activeState = None /\ renderer = None /\ notice = None
    /\ key = None
    /\ job = [j \in Jobs |-> Idle]
    /\ acked = {}
    /\ damage = 0 /\ faults = 0 /\ crashes = 0

-----------------------------------------------------------------------------
(* readStateEnvelope and readState.                                        *)

Readable(f, k) == f # None /\ f.damage = "none" /\ f.key \in {Plain, k}

\* The errors that ask for a passphrase: no passphrase, a wrong one, or an encrypted
\* text that does not authenticate.
IsLocked(f, k) ==
    f # None /\ f.damage # "format" /\ f.key # Plain /\ (f.key # k \/ f.damage = "contents")

\* The workspace readState() returns, or nothing when it throws.
ReadState(k) ==
    IF primary = None THEN {Default}
    ELSE IF Readable(primary, k) THEN {primary.state}
    ELSE IF IsLocked(primary, k) THEN {}
    ELSE IF Readable(backup, k) THEN {backup.state}
    ELSE {}

\* The unlock dialog is shown only when state:load found the workspace locked.
MayLoadWith(k) == k # None => IsLocked(primary, None)

\* state:load, and state:unlock with a passphrase.
Load(k) ==
    /\ renderer = None
    /\ MayLoadWith(k)
    /\ \E s \in ReadState(k) : activeState' = s /\ renderer' = s
    /\ key' = k
    /\ UNCHANGED <<primary, backup, job, notice, acked, previous, counters>>

-----------------------------------------------------------------------------
(* writeState, from its call to the first await.                           *)

MayStart ==
    \/ Overlap
    \/ (\A j \in Jobs : job[j].at = "idle") /\ notice = None

\* An encrypted workspace needs a passphrase; the envelope is made before the first
\* await, of the passphrase there is then.
StartWrite(j, state, newKey, event) ==
    LET k == IF newKey # None THEN newKey ELSE key
    IN
    /\ job[j].at = "idle"
    /\ MayStart
    /\ state.encrypted => k # None
    /\ key' = k
    /\ job' = [job EXCEPT ![j] =
                  [at |-> "verify", state |-> state, copy |-> None, event |-> event,
                   key |-> IF state.encrypted THEN k ELSE Plain]]

\* The teacher changes something in the renderer's copy.
Edit(d) ==
    /\ renderer # None
    /\ renderer' = [renderer EXCEPT !.items = @ \union {d}]
    /\ UNCHANGED <<primary, backup, activeState, key, job, notice, acked, previous, counters>>

\* state:save sends the renderer's copy.
Save(j) ==
    /\ renderer # None
    /\ StartWrite(j, renderer, None, None)
    /\ UNCHANGED <<primary, backup, activeState, renderer, notice, acked, previous, counters>>

\* "toggle-encryption": on with a passphrase, off without one; it saves at once.
ToggleEncryption(j, newKey) ==
    /\ renderer # None
    /\ renderer.encrypted <=> newKey = None
    /\ renderer' = [renderer EXCEPT !.encrypted = ~ @]
    /\ StartWrite(j, renderer', newKey, None)
    /\ UNCHANGED <<primary, backup, activeState, notice, acked, previous, counters>>

\* POST /events: applyClassroomEvent makes a new workspace of activeState.
PostEvent(j, e) ==
    /\ activeState # None
    /\ e \notin acked
    /\ \A i \in Jobs : job[i].event # e
    /\ StartWrite(j, [activeState EXCEPT !.items = @ \union {e}], None, e)
    /\ UNCHANGED <<primary, backup, activeState, renderer, notice, acked, previous, counters>>

-----------------------------------------------------------------------------
(* archiveVerifiedState.                                                   *)

\* Fault: whatever the primary file holds is copied.
VerifiesAny(f) == f # None

Verifies(f) == Readable(f, key)

\* The primary file is read, and copied only if activePassphrase reads it.
VerifyPrimary(j) ==
    /\ job[j].at = "verify"
    /\ job' = IF Verifies(primary)
              THEN [job EXCEPT ![j].at = "copy", ![j].copy = primary]
              ELSE [job EXCEPT ![j].at = "write"]
    /\ UNCHANGED <<primary, backup, activeState, key, renderer, notice, acked, previous, counters>>

\* A copy that fails is passed over in silence.
WriteBackup(j) ==
    /\ job[j].at = "copy"
    /\ \/ backup' = job[j].copy /\ UNCHANGED faults
       \/ faults < MaxFaults /\ faults' = faults + 1 /\ UNCHANGED backup
    /\ job' = [job EXCEPT ![j].at = "write"]
    /\ UNCHANGED <<primary, activeState, key, renderer, notice, acked, previous, damage, crashes>>

-----------------------------------------------------------------------------
(* The rest of writeState and of its callers.                              *)

\* writeAtomic: the rename is what happens to the file.
WritePrimary(j) ==
    /\ job[j].at = "write"
    /\ primary' = [state |-> job[j].state, key |-> job[j].key, damage |-> "none"]
    /\ previous' = primary
    /\ job' = [job EXCEPT ![j].at = "commit"]
    /\ UNCHANGED <<backup, activeState, key, renderer, notice, acked, counters>>

\* The write throws, and the caller answers with an error.
FailPrimary(j) ==
    /\ job[j].at = "write"
    /\ faults < MaxFaults
    /\ faults' = faults + 1
    /\ job' = [job EXCEPT ![j] = Idle]
    /\ UNCHANGED <<primary, backup, activeState, key, renderer, notice, acked, previous,
                   damage, crashes>>

\* Fault: the event is answered from the old copy, and the new one forgotten.
CommitStale(j) ==
    /\ job[j].at = "commit"
    /\ acked' = IF job[j].event # None THEN acked \union {job[j].event}
                ELSE acked \union job[j].state.items
    /\ job' = [job EXCEPT ![j] = Idle]
    /\ UNCHANGED <<primary, backup, activeState, renderer, notice, key, previous, counters>>

\* activeState is replaced and the caller answered.  After a save the renderer shows what
\* was saved; after an event the main process sends it the workspace.
Commit(j) ==
    /\ job[j].at = "commit"
    /\ activeState' = job[j].state
    /\ IF job[j].event # None
       THEN /\ acked' = acked \union {job[j].event}
            /\ notice' = job[j].state
            /\ UNCHANGED renderer
       ELSE /\ acked' = acked \union job[j].state.items
            /\ renderer' = job[j].state
            /\ UNCHANGED notice
    /\ job' = [job EXCEPT ![j] = Idle]
    /\ UNCHANGED <<primary, backup, key, previous, counters>>

\* onClassroomEvent replaces the renderer's copy, edits that are not saved included.
ReceiveNotice ==
    /\ notice # None
    /\ renderer' = notice
    /\ notice' = None
    /\ UNCHANGED <<primary, backup, activeState, key, job, acked, previous, counters>>

-----------------------------------------------------------------------------
DamagePrimary(how) ==
    /\ damage < MaxDamage
    /\ primary # None
    /\ primary' = [primary EXCEPT !.damage = how]
    /\ damage' = damage + 1
    /\ UNCHANGED <<backup, activeState, key, job, renderer, notice, acked, previous,
                   faults, crashes>>

\* Everything that is not in a file is gone.
Crash ==
    /\ crashes < MaxCrashes
    /\ activeState' = None /\ renderer' = None /\ notice' = None
    /\ key' = None
    /\ job' = [j \in Jobs |-> Idle]
    /\ crashes' = crashes + 1
    /\ UNCHANGED <<primary, backup, acked, previous, damage, faults>>

StoreNext ==
    \/ \E k \in Passphrases \union {None} : Load(k)
    \/ \E d \in Edits : Edit(d)
    \/ \E j \in Jobs : Save(j)
    \/ \E j \in Jobs, k \in Passphrases \union {None} : ToggleEncryption(j, k)
    \/ \E j \in Jobs, e \in Events : PostEvent(j, e)
    \/ \E j \in Jobs : VerifyPrimary(j)
    \/ \E j \in Jobs : WriteBackup(j)
    \/ \E j \in Jobs : WritePrimary(j)
    \/ \E j \in Jobs : FailPrimary(j)
    \/ \E j \in Jobs : Commit(j)
    \/ ReceiveNotice
    \/ \E how \in {"contents", "format"} : DamagePrimary(how)
    \/ Crash

StoreSpec == StoreInit /\ [][StoreNext]_storeVars

-----------------------------------------------------------------------------
Damaged == primary # None /\ primary.damage # "none"

\* An event answered "accepted: true" (main.js:174) and a save answered with the state
\* (main.js:407) are in the file, whatever write fails and whenever the program is killed.
AckedIsKept == (primary # None /\ damage = 0) => acked \subseteq primary.state.items

\* The backup is never a damaged copy, and a good one at any time: what it shows is in
\* the primary file, or was before the disk damaged it (archiveVerifiedState, main.js:76).
BackupIsGood ==
    backup # None =>
        /\ backup.damage = "none"
        /\ primary # None /\ backup.state.items \subseteq primary.state.items

\* One damaged file costs at most the last save of a workspace that is not encrypted:
\* readState() returns the one before it, whatever the program was about when the disk
\* failed (main.js:56).
OneSaveBehind ==
    (Damaged /\ damage = 1 /\ faults = 0 /\ primary.key = Plain
        /\ previous # None /\ previous.key = Plain) =>
            \E s \in ReadState(None) : previous.state.items \subseteq s.items

\* The backup was once a good primary file, and it costs one save at most to fall back
\* on it.
BackupHelps == BackupIsGood /\ OneSaveBehind
=============================================================================
