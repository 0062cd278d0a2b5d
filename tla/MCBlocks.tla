------------------------------ MODULE MCBlocks ------------------------------
(***************************************************************************)
(* The map on its way to the screen, for TLC: from the server to the       *)
(* client's map (BlockTransfer), and from there into meshes (MeshQueue).   *)
(* The acknowledgement that ends the first is BlockTransfer's              *)
(* sendGotBlocks, which MeshQueue shows in detail; otherwise they share no *)
(* state.  A behaviour is one of one part; the other stays as it began.    *)
(***************************************************************************)
EXTENDS MCBlockTransfer, MeshQueue

CONSTANTS m1, m2, m3, c1, c2, w1, w2

Position == (m1 :> c1) @@ (m2 :> c1) @@ (m3 :> c2)
Neighbours == (m1 :> {}) @@ (m2 :> {m3}) @@ (m3 :> {m2})

VARIABLE part

Transfer(A) == part = "transfer" /\ A /\ UNCHANGED <<part, meshVars>>
Meshing(A) == part = "mesh" /\ A /\ UNCHANGED <<part, vars>>

BlocksInit ==
    /\ part \in {"transfer", "mesh"}
    /\ Init /\ MeshInit
    /\ part = "mesh" => hidden = {}

BlocksNext == Transfer(Next) \/ Meshing(MeshNext)

allVars == <<part, vars, meshVars>>

\* The fairness of both parts: only the actions of one of them are ever enabled.
BlocksSpec ==
    /\ BlocksInit /\ [][BlocksNext]_allVars
    /\ SF_allVars(Transfer(ServerReceive))
    /\ WF_allVars(Transfer(ServerStep) \/ Meshing(MainStep))
    /\ WF_allVars(Transfer(PauseEnds \/ \E b \in Blocks : BlockMade(b)))
    /\ WF_allVars(Transfer(ClientReceive) \/ Meshing(Work(w1)))
    /\ WF_allVars(Transfer(\E b \in Blocks : sendGotBlocks(b)) \/ Meshing(Work(w2)))

-----------------------------------------------------------------------------
\* Type correctness of both parts.
BlocksTypeOK == TypeOK /\ MeshTypeOK /\ AckedOnce

\* BlockTransfer and MeshQueue: when the world has come to rest the client has every
\* block in its view; every block it has got is meshed and acknowledged in the end, once.
MapReachesScreen == <>[](IF part = "transfer" THEN Shown ELSE Finished)
=============================================================================
