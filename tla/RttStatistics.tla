--------------------------- MODULE RttStatistics ---------------------------
(***************************************************************************)
(* UDPPeer::reportRTT and Peer::RTTStatistics (src/network/mtp/impl.cpp):  *)
(* what a peer remembers of the round trip times of its acknowledged       *)
(* packets, and the resend timeout it derives from them.  Times are whole  *)
(* milliseconds; the divisions of the number of samples are integer        *)
(* divisions in the code, too.                                             *)
(***************************************************************************)
EXTENDS Integers

CONSTANTS
    NumSamples,             \* MAX_RELIABLE_WINDOW_SIZE * 10
    RESEND_TIMEOUT_MIN,
    RESEND_TIMEOUT_MAX,
    RESEND_TIMEOUT_FACTOR,
    InitialTimeout,         \* UDPPeer::resend_timeout
    Rtts                    \* the round trip times there are

None == -1      \* no sample yet

VARIABLES min_rtt, max_rtt, avg_rtt, last_rtt, resend_timeout

vars == <<min_rtt, max_rtt, avg_rtt, last_rtt, resend_timeout>>

Init ==
    /\ min_rtt = None /\ max_rtt = None /\ avg_rtt = None /\ last_rtt = None
    /\ resend_timeout = InitialTimeout

\* The first sample only becomes last_rtt.
NewMin(rtt) ==
    IF last_rtt # None /\ (min_rtt = None \/ rtt < min_rtt) THEN rtt ELSE min_rtt

NewMax(rtt) ==
    IF last_rtt # None /\ rtt >= max_rtt THEN rtt ELSE max_rtt

NewAverage(rtt) ==
    IF last_rtt = None THEN avg_rtt
    ELSE IF avg_rtt = None THEN rtt
    ELSE avg_rtt * (NumSamples \div (NumSamples - 1)) + rtt * (1 \div NumSamples)

Clamped(timeout) ==
    IF timeout < RESEND_TIMEOUT_MIN THEN RESEND_TIMEOUT_MIN
    ELSE IF timeout > RESEND_TIMEOUT_MAX THEN RESEND_TIMEOUT_MAX
    ELSE timeout

reportRTT(rtt) ==
    /\ min_rtt' = NewMin(rtt)
    /\ max_rtt' = NewMax(rtt)
    /\ avg_rtt' = NewAverage(rtt)
    /\ last_rtt' = rtt
    /\ resend_timeout' = IF avg_rtt' = None THEN resend_timeout
                         ELSE Clamped(avg_rtt' * RESEND_TIMEOUT_FACTOR)

Next == \E rtt \in Rtts : reportRTT(rtt)

Spec == Init /\ [][Next]_vars

-----------------------------------------------------------------------------
\* "Calculates avg_rtt and resend_timeout" (internal.h:511): a round trip that takes
\* longer than the average so far raises the average, a shorter one lowers it.
AverageMoves ==
    [][avg_rtt # None =>
           /\ last_rtt' > avg_rtt => avg_rtt' > avg_rtt
           /\ last_rtt' < avg_rtt => avg_rtt' < avg_rtt]_vars
=============================================================================
