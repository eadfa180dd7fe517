--------------------------------- MODULE Rto --------------------------------
(***************************************************************************)
(* The retransmission timeout of one connection (src/transport/rto.cpp),   *)
(* driven the way connection.cpp drives it: an ACK that makes progress     *)
(* restores the computed timeout and may bring one round-trip sample, and  *)
(* an expired timer doubles the timeout.                                   *)
(*                                                                         *)
(* All fields are uint64_t, so every difference, product and sum is taken  *)
(* modulo Word (2^64 in the code).                                         *)
(***************************************************************************)
EXTENDS Integers

CONSTANTS MinimumRto, MaximumRto, InitialRto,
          Granularity,        \* kRtoGranularityNs
          Word,               \* number of values of a uint64_t
          RoundTrips          \* acknowledged_at_ns - sent_at_ns of the samples

\* 1 s, 60 s, 1 s, 1 ms and 2^64 in the code.  The estimator's own rounding
\* stays below 31 clock units, which the granularity absorbs.
ASSUME RtoAssumption ==
    /\ MinimumRto \in Nat \ {0} /\ MaximumRto \in Nat /\ Granularity \in Nat
    /\ MinimumRto <= MaximumRto
    /\ InitialRto \in MinimumRto .. MaximumRto
    /\ 31 <= Granularity /\ Granularity <= MaximumRto
    /\ Word \in Nat /\ 8 * MaximumRto < Word
    /\ RoundTrips \subseteq 0 .. (Word - 1)

VARIABLES initialized, srtt, rttvar, computed, current,
          last,       \* the last accepted sample
          low, high,  \* the smallest and the largest accepted sample
          backoffs    \* timeouts since the timeout was last restored

estimator == <<initialized, srtt, rttvar, computed, current>>
vars == <<initialized, srtt, rttvar, computed, current, last, low, high, backoffs>>

Init == /\ initialized = FALSE /\ srtt = 0 /\ rttvar = 0
        /\ computed = InitialRto /\ current = InitialRto
        /\ last = 0 /\ low = 0 /\ high = 0 /\ backoffs = 0

Least(a, b) == IF a < b THEN a ELSE b
Greatest(a, b) == IF a < b THEN b ELSE a

\* Mutant: the clamp at the end is applied to the lower side only.
ComputedRtoUnclamped(s, v) ==
    LET variation == Greatest(Granularity, (4 * v) % Word)
    IN Greatest(MinimumRto, IF s > (MaximumRto - variation) % Word THEN MaximumRto
                            ELSE (s + variation) % Word)

\* update_computed_rto.  MaximumRto - variation wraps around when the
\* variation is above the maximum.
ComputedRto(s, v) ==
    LET variation == Greatest(Granularity, (4 * v) % Word)
        raw == IF s > (MaximumRto - variation) % Word THEN MaximumRto
               ELSE (s + variation) % Word
    IN Least(MaximumRto, Greatest(MinimumRto, raw))

Difference(s, sample) == IF s > sample THEN s - sample ELSE sample - s

\* Mutant: the mean is updated before the deviation from it is taken.
NextVariationLate(sample) ==
    IF ~initialized THEN sample \div 2
    ELSE ((3 * rttvar
            + Difference(((7 * srtt + sample) % Word) \div 8, sample)) % Word) \div 4

NextVariation(sample) ==
    IF ~initialized THEN sample \div 2
    ELSE ((3 * rttvar + Difference(srtt, sample)) % Word) \div 4

NextMean(sample) ==
    IF ~initialized THEN sample ELSE ((7 * srtt + sample) % Word) \div 8

\* observe with a sample that is neither negative nor retransmitted.
Accept(sample) ==
    /\ initialized' = TRUE
    /\ srtt' = NextMean(sample)
    /\ rttvar' = NextVariation(sample)
    /\ computed' = ComputedRto(srtt', rttvar')
    /\ current' = computed'
    /\ last' = sample
    /\ low' = IF initialized THEN Least(low, sample) ELSE sample
    /\ high' = IF initialized THEN Greatest(high, sample) ELSE sample

\* process_ack with progress whose oldest segment was sent once: the timeout
\* is restored, then observe takes the sample, at most the maximum.
AckWithSample(rtt) == /\ Accept(Least(rtt, MaximumRto))
                      /\ backoffs' = 0

\* Mutant: an ACK of a retransmitted segment leaves the timeout backed off
\* and forgets how often.
AckKeepsBackoff ==
    /\ backoffs' = 0
    /\ UNCHANGED <<estimator, last, low, high>>

\* process_ack with progress but no sample: the oldest segment was sent more
\* than once (Karn), its clock reads earlier than when it was sent, or the
\* ACK covers only a part of it.
AckWithoutSample ==
    /\ current' = computed
    /\ backoffs' = 0
    /\ UNCHANGED <<initialized, srtt, rttvar, computed, last, low, high>>

Doubled(rto) == IF rto > MaximumRto \div 2 THEN MaximumRto ELSE (2 * rto) % Word

\* tick finds the oldest segment overdue: on_timeout.  The count is kept
\* until it makes no difference.
OnTimeout ==
    /\ current' = Doubled(current)
    /\ backoffs' = IF current = MaximumRto THEN backoffs ELSE backoffs + 1
    /\ UNCHANGED <<initialized, srtt, rttvar, computed, last, low, high>>

Next == (\E rtt \in RoundTrips : AckWithSample(rtt)) \/ AckWithoutSample \/ OnTimeout

Spec == Init /\ [][Next]_vars
-----------------------------------------------------------------------------
(* Properties *)

\* The fields stay far from the ends of their 64 bits, and the timeout in use
\* within [kMinimumRtoNs, kMaximumRtoNs], whatever the samples.
TypeOK ==
    /\ initialized \in BOOLEAN
    /\ srtt \in 0 .. MaximumRto /\ rttvar \in 0 .. MaximumRto
    /\ computed \in MinimumRto .. MaximumRto
    /\ current \in computed .. MaximumRto
    /\ {last, low, high} \subseteq 0 .. MaximumRto
    /\ backoffs \in Nat

\* LLD.md 4.7, on unbounded integers: rto = srtt + max(1ms, 4 * rttvar), then
\* clamp(rto, 1s, 60s).  The subtraction that wraps around in
\* update_computed_rto does not change the result.
ComputedIsClampedSum ==
    computed = IF initialized
               THEN Least(MaximumRto,
                          Greatest(MinimumRto, srtt + Greatest(Granularity, 4 * rttvar)))
               ELSE InitialRto

\* Right after a sample the timeout is not below it: a path that keeps its
\* round-trip time causes no timeout, for all the rounding down of the mean
\* and the deviation.
TimeoutCoversSample == initialized => computed >= last

\* The smoothed time stays between the smallest and the largest sample, and
\* the deviation within what samples in that interval can deviate.
EstimatesWithinSamples ==
    initialized => /\ low <= srtt /\ srtt <= high
                   /\ rttvar <= Greatest(high \div 2, high - low)

\* Powers of two, as a recursive function.
TwoTo[n \in Nat] == IF n = 0 THEN 1 ELSE 2 * TwoTo[n - 1]

\* LLD.md 4.7, on_timeout: rto = min(2 * rto, 60s).  n timeouts in a row
\* multiply the computed timeout by 2^n, up to the maximum, and progress
\* undoes all of them.
BackoffIsExponential == current = Least(MaximumRto, computed * TwoTo[backoffs])
=============================================================================
