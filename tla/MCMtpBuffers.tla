---------------------------- MODULE MCMtpBuffers ----------------------------
(***************************************************************************)
(* The buffers of a channel for TLC: SplitReassembly and ReliableBuffer    *)
(* side by side.  A behaviour is one of either part; the other part stays  *)
(* as it began.                                                            *)
(***************************************************************************)
EXTENDS SplitReassembly, ReliableBuffer

VARIABLE part

BuffersInit ==
    /\ part \in {"split", "reliable"}
    /\ Init /\ BufferInit
    /\ part = "split" => next = 0

BuffersNext ==
    \/ part = "split" /\ Next /\ UNCHANGED <<part, bufferVars>>
    \/ part = "reliable" /\ BufferNext /\ UNCHANGED <<part, vars>>

BuffersSpec == BuffersInit /\ [][BuffersNext]_<<part, vars, bufferVars>>

\* Type correctness of both parts.
BuffersTypeOK == TypeOK /\ BufferTypeOK
=============================================================================
