---------------------------- MODULE MCConnections ----------------------------
(***************************************************************************)
(* The server's end of its connections for TLC: the peers that three       *)
(* threads share (PeerTable), and what the server thread makes of a peer   *)
(* (ClientSession).  A behaviour is one of one part; the other stays as it *)
(* began.                                                                  *)
(*                                                                         *)
(* All sets of model values are only compared, so permuting each of them   *)
(* is a symmetry.  The parts are given the same ones, as their             *)
(* permutations would be many otherwise: ids are names and addresses are   *)
(* passwords, which no state of either part notices.                       *)
(***************************************************************************)
EXTENDS ClientSession, PeerTable, TLC

VARIABLE part

allVars == <<part, vars, tableVars>>

ASSUME PeerTableAssumption

ASSUME OneSymmetry == Ids = Names /\ Addresses = Passwords /\ PeerObjects = Peers

Symmetry ==
    Permutations(Peers) \union Permutations(Names) \union Permutations(Passwords)

ConnectionsInit ==
    /\ part \in {"session", "table"}
    /\ Init /\ TableInit
    /\ part = "table" => default_password = None

\* The server may end in a session; otherwise neither part is ever stuck.
ServerEnded == part = "session" /\ fatal /\ UNCHANGED allVars

ConnectionsNext ==
    \/ part = "session" /\ Next /\ UNCHANGED <<part, tableVars>>
    \/ part = "table" /\ TableNext /\ UNCHANGED <<part, vars>>
    \/ ServerEnded

ConnectionsSpec == ConnectionsInit /\ [][ConnectionsNext]_allVars

-----------------------------------------------------------------------------
\* Type correctness of both parts.
ConnectionsTypeOK == TypeOK /\ TableTypeOK
=============================================================================
