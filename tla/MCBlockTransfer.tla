-------------------------- MODULE MCBlockTransfer --------------------------
(***************************************************************************)
(* An instance of BlockTransfer for TLC: the block the player stands in,   *)
(* and one that takes a second pass of the scan to reach.                  *)
(***************************************************************************)
EXTENDS BlockTransfer

CONSTANTS near, far

Distance == (near :> 0) @@ (far :> 2)
=============================================================================
