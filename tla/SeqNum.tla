------------------------------- MODULE SeqNum -------------------------------
(***************************************************************************)
(* The 16-bit packet numbers of the MTP transport                          *)
(* (src/network/mtp/internal.h).  The width of the counter is a parameter, *)
(* so that TLC can wrap a small one around and the proofs hold for every   *)
(* one.  Sums are reduced by one conditional subtraction: the operands are *)
(* sequence numbers, or a sequence number and a window size.               *)
(***************************************************************************)
EXTENDS Integers

CONSTANTS
    SEQNUM_MAX,                 \* 65535 in the code
    MAX_RELIABLE_WINDOW_SIZE    \* 0x8000 in the code

\* The receive window is half of the sequence number space.
ASSUME WindowIsHalfOfSpace ==
    /\ MAX_RELIABLE_WINDOW_SIZE \in Nat /\ MAX_RELIABLE_WINDOW_SIZE >= 2
    /\ SEQNUM_MAX \in Nat /\ SEQNUM_MAX + 1 = 2 * MAX_RELIABLE_WINDOW_SIZE

SeqNums == 0 .. SEQNUM_MAX

\* (u16)(s + k)
Plus(s, k) == IF s + k > SEQNUM_MAX THEN s + k - (SEQNUM_MAX + 1) ELSE s + k

\* (u16)(s - k)
Minus(s, k) == IF s < k THEN s - k + (SEQNUM_MAX + 1) ELSE s - k

seqnum_higher(totest, base) ==
    IF totest > base
    THEN ~ (totest - base > SEQNUM_MAX \div 2)
    ELSE base - totest > SEQNUM_MAX \div 2

seqnum_in_window(seqnum, next, window_size) ==
    LET window_end == Plus(next, window_size) IN
    IF next < window_end
    THEN seqnum >= next /\ seqnum < window_end
    ELSE seqnum < window_end \/ seqnum >= next
=============================================================================
