----------------------------- MODULE Congestion -----------------------------
(***************************************************************************)
(* The congestion controller (src/transport/congestion.cpp).  Counters are *)
(* byte counts that saturate at MaxCwnd (2^32 - 1 in the code).            *)
(***************************************************************************)
EXTENDS Sequence, FiniteSetsExt

CONSTANTS Mss, MaxCwnd

kInitialCongestionWindowSegments == 10

AddToCwnd(cwnd, bytes) == Min({cwnd + bytes, MaxCwnd})

NewCongestion ==
    LET cwnd == AddToCwnd(0, Mss * kInitialCongestionWindowSegments)
    IN  [cwnd |-> cwnd, ssthresh |-> MaxCwnd, acked |-> 0,
         recovery_point |-> 0, in_recovery |-> FALSE,
         phase |-> IF cwnd >= MaxCwnd THEN "congestion_avoidance"
                                      ELSE "slow_start"]

\* on_ack.  In congestion avoidance the code's loop takes one cwnd off the
\* acknowledged bytes and adds one MSS to cwnd, as often as it can:
\* RoundsUse(cwnd)[k] is what k rounds take off, rounds how many there are.
RoundsUse(cwnd) ==
    LET used[k \in Nat] ==
            IF k = 0 THEN 0 ELSE used[k - 1] + AddToCwnd(cwnd, (k - 1) * Mss)
    IN  used

CongestionOnAck(g, bytes) ==
    LET grown  == AddToCwnd(g.cwnd, bytes)
        acked  == g.acked + bytes
        used   == RoundsUse(g.cwnd)
        rounds == Min({k \in 0 .. acked :
                          acked - used[k] < AddToCwnd(g.cwnd, k * Mss)})
    IN  IF bytes = 0 THEN g
        ELSE IF g.phase = "slow_start"
        THEN IF grown >= g.ssthresh
             THEN [g EXCEPT !.cwnd = grown, !.acked = 0,
                            !.phase = "congestion_avoidance"]
             ELSE [g EXCEPT !.cwnd = grown]
        ELSE [g EXCEPT !.cwnd  = AddToCwnd(g.cwnd, rounds * Mss),
                       !.acked = acked - used[rounds]]

\* Mutants: no floor of two segments; no test of in_recovery_.
OnLossNoFloor(g, signal, flight, recovery_point) ==
    IF g.in_recovery THEN g
    ELSE [g EXCEPT !.cwnd = IF signal = "rto_timeout" THEN Mss ELSE flight \div 2,
                   !.ssthresh = flight \div 2, !.acked = 0,
                   !.recovery_point = recovery_point, !.in_recovery = TRUE]

OnLossAlways(g, signal, flight, recovery_point) ==
    LET threshold == Min({Max({2 * Mss, flight \div 2}), MaxCwnd})
    IN  [g EXCEPT !.cwnd = IF signal = "rto_timeout" THEN Mss ELSE threshold,
                  !.ssthresh = threshold, !.acked = 0,
                  !.recovery_point = recovery_point, !.in_recovery = TRUE]

\* on_loss: one multiplicative decrease per recovery epoch.
CongestionOnLoss(g, signal, flight, recovery_point) ==
    LET threshold == Min({Max({2 * Mss, flight \div 2}), MaxCwnd})
    IN  IF g.in_recovery THEN g
        ELSE [cwnd |-> IF signal = "rto_timeout" THEN Mss ELSE threshold,
              ssthresh |-> threshold, acked |-> 0,
              recovery_point |-> recovery_point, in_recovery |-> TRUE,
              phase |-> IF signal = "rto_timeout" THEN "slow_start"
                                                  ELSE "congestion_avoidance"]

\* Mutant: an ACK of exactly the recovery point does not end the epoch.
RecoveryAckBeyond(g, ack) ==
    [g EXCEPT !.in_recovery = @ /\ ~SequenceLess(g.recovery_point, ack)]

CongestionOnRecoveryAck(g, ack) ==
    [g EXCEPT !.in_recovery = @ /\ ~SequenceLessEqual(g.recovery_point, ack)]

SendAllowance(g, flight, window) ==
    LET limit == Min({g.cwnd, window})
    IN  IF flight >= limit THEN 0 ELSE limit - flight
=============================================================================
