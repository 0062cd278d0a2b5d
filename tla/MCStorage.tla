------------------------------ MODULE MCStorage ------------------------------
(***************************************************************************)
(* What is kept on disk, for TLC: the objects of a world (ActiveObjects)   *)
(* and, of the teacher's console, the workspace file (ConsoleStore) and    *)
(* the managed worlds (ManagedWorld).  They share no state: a behaviour is *)
(* one of one part; the others stay as they began.                         *)
(***************************************************************************)
EXTENDS ActiveObjects, ConsoleStore, ManagedWorld

VARIABLE part

allVars == <<part, vars, storeVars, worldVars>>

ASSUME StorageAssumption == StoreAssumption /\ ManagedWorldAssumption

StorageInit ==
    /\ part \in {"objects", "store", "world"}
    /\ Init /\ StoreInit /\ WorldInit

\* Of an object whose block was unloaded under it nothing is said any more.
Interesting == adrift \union wiped # Things

StorageNext ==
    \/ part = "objects" /\ Interesting /\ Next /\ UNCHANGED <<part, storeVars, worldVars>>
    \/ part = "store" /\ StoreNext /\ UNCHANGED <<part, vars, worldVars>>
    \/ part = "world" /\ WorldNext /\ UNCHANGED <<part, vars, storeVars>>

StorageSpec == StorageInit /\ [][StorageNext]_allVars

-----------------------------------------------------------------------------
\* Type correctness of the three parts.
StorageTypeOK == TypeOK /\ StoreTypeOK /\ WorldTypeOK
=============================================================================
