---------------------------- MODULE MCMtpChannel ----------------------------
(***************************************************************************)
(* Instances of MtpChannel for TLC, and the properties they check.         *)
(***************************************************************************)
EXTENDS MtpChannel

CONSTANT MaxResent  \* state constraint: messages in the network at a time

InNetworkBound == Cardinality(wire) + Cardinality(acks) <= MaxResent

\* The messages whose last packet has been processed.
Completed ==
    SelectSeq([i \in DOMAIN delivered |-> log[delivered[i]]], LAMBDA m : m # 0)

Fifo == INSTANCE FifoChannel WITH output <- Completed

\* Until the unacknowledged packets span half of the sequence number space, the channel
\* is a FIFO: each step of it accepts a message, hands out the next one, or neither.
FifoUntilOverrun == Fifo!Init /\ [][overrun' \/ Fifo!Next]_<<accepted, Completed>>
=============================================================================
