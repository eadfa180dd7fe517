------------------------------ MODULE RtoProofs -----------------------------
(***************************************************************************)
(* The timeout estimator for every choice of its bounds and all samples:   *)
(* the invariant is the conjunction of the four properties themselves.     *)
(***************************************************************************)
EXTENDS Rto, NumberFacts

EstimatorInv == /\ TypeOK
                /\ ComputedIsClampedSum
                /\ TimeoutCoversSample
                /\ EstimatesWithinSamples

(* 64-bit arithmetic is exact on values that fit. *)
LEMMA Fits ==
    ASSUME NEW w \in Nat, NEW a \in Nat, a < w
    PROVE  a % w = a
  OBVIOUS

(* A difference below zero comes out as a value near the end of the word. *)
LEMMA WrapsAround ==
    ASSUME NEW w \in Nat, NEW a \in Int, a < 0, 0 <= a + w
    PROVE  a % w = a + w
  OBVIOUS

(* update_computed_rto on fields within their range: the documented sum,
   clamped, also when kMaximumRtoNs - variation wraps around. *)
LEMMA ComputedRtoExact ==
    ASSUME NEW s \in 0 .. MaximumRto, NEW v \in 0 .. MaximumRto
    PROVE  ComputedRto(s, v) =
             Least(MaximumRto, Greatest(MinimumRto, s + Greatest(Granularity, 4 * v)))
<1> USE RtoAssumption
<1> DEFINE variation == Greatest(Granularity, 4 * v)
<1>1. (4 * v) % Word = 4 * v
  BY Fits
<1>2. variation \in 0 .. (4 * MaximumRto)
  BY DEF Greatest
<1>3. (s + variation) % Word = s + variation
  <2>1. s + variation \in Nat /\ s + variation < Word
    BY <1>2
  <2> HIDE DEF variation
  <2> QED BY <2>1, Fits
<1>4. CASE variation <= MaximumRto
  <2>1. MaximumRto - variation \in Nat /\ MaximumRto - variation < Word
    BY <1>2, <1>4
  <2>2. (MaximumRto - variation) % Word = MaximumRto - variation
    <3> HIDE DEF variation
    <3> QED BY <2>1, Fits
  <2> QED BY <1>1, <1>2, <1>3, <1>4, <2>2 DEF ComputedRto, Least, Greatest
<1>5. CASE variation > MaximumRto
  <2>1. /\ MaximumRto - variation \in Int /\ MaximumRto - variation < 0
        /\ 0 <= (MaximumRto - variation) + Word
    BY <1>2, <1>5
  <2>2. (MaximumRto - variation) % Word = (MaximumRto - variation) + Word
    <3> HIDE DEF variation
    <3> QED BY <2>1, WrapsAround
  <2>3. ~(s > (MaximumRto - variation) % Word)
    BY <1>2, <2>2
  <2> QED BY <1>1, <1>2, <1>3, <1>5, <2>3 DEF ComputedRto, Least, Greatest
<1> QED BY <1>2, <1>4, <1>5

(* The mean is a weighted mean, rounded down. *)
LEMMA NextMeanBounds ==
    ASSUME TypeOK, EstimatesWithinSamples, NEW sample \in 0 .. MaximumRto
    PROVE  /\ NextMean(sample) \in 0 .. MaximumRto
           /\ ~initialized => NextMean(sample) = sample
           /\ initialized => /\ 8 * NextMean(sample) <= 7 * srtt + sample
                             /\ 7 * srtt + sample <= 8 * NextMean(sample) + 7
<1> USE RtoAssumption DEF TypeOK
<1>1. (7 * srtt + sample) % Word = 7 * srtt + sample
  <2>1. 7 * srtt + sample \in Nat /\ 7 * srtt + sample < Word
    OBVIOUS
  <2> QED BY <2>1, Fits
<1> QED BY <1>1 DEF NextMean

(* So is the deviation. *)
LEMMA NextVariationBounds ==
    ASSUME TypeOK, EstimatesWithinSamples, NEW sample \in 0 .. MaximumRto
    PROVE  /\ NextVariation(sample) \in 0 .. MaximumRto
           /\ ~initialized => NextVariation(sample) = sample \div 2
           /\ initialized =>
                /\ 4 * NextVariation(sample) <= 3 * rttvar + Difference(srtt, sample)
                /\ 3 * rttvar + Difference(srtt, sample) <= 4 * NextVariation(sample) + 3
<1> USE RtoAssumption DEF TypeOK
<1>1. Difference(srtt, sample) \in 0 .. MaximumRto
  BY DEF Difference
<1>2. (3 * rttvar + Difference(srtt, sample)) % Word
        = 3 * rttvar + Difference(srtt, sample)
  <2>1. /\ 3 * rttvar + Difference(srtt, sample) \in Nat
        /\ 3 * rttvar + Difference(srtt, sample) < Word
    BY <1>1
  <2> QED BY <2>1, Fits
<1> QED BY <1>1, <1>2 DEF NextVariation

(* The timeout made from the new mean s2 and deviation v2 covers the sample. *)
LEMMA SumCoversSample ==
    ASSUME NEW s \in Nat, NEW v \in Nat, NEW sample \in Nat,
           NEW s2 \in Nat, NEW v2 \in Nat,
           7 * s + sample <= 8 * s2 + 7,
           3 * v + Difference(s, sample) <= 4 * v2 + 3
    PROVE  s2 + Greatest(Granularity, 4 * v2) >= sample
<1> USE RtoAssumption
<1>1. CASE s >= sample
  BY <1>1 DEF Greatest
<1>2. CASE s < sample
  <2>1. Difference(s, sample) = sample - s
    BY <1>2 DEF Difference
  <2> QED BY <1>2, <2>1 DEF Greatest
<1> QED BY <1>1, <1>2

(* The estimates a sample gives stay within the samples' range, that sample
   included. *)
LEMMA EstimatesStep ==
    ASSUME TypeOK, EstimatesWithinSamples, initialized, NEW sample \in 0 .. MaximumRto,
           NEW l, l = Least(low, sample), NEW h, h = Greatest(high, sample)
    PROVE  /\ l <= NextMean(sample) /\ NextMean(sample) <= h
           /\ NextVariation(sample) <= Greatest(h \div 2, h - l)
<1> DEFINE s2 == NextMean(sample)
           v2 == NextVariation(sample)
           m == Greatest(h \div 2, h - l)
<1>1. /\ s2 \in Nat /\ v2 \in Nat
      /\ 8 * s2 <= 7 * srtt + sample /\ 7 * srtt + sample <= 8 * s2 + 7
      /\ 4 * v2 <= 3 * rttvar + Difference(srtt, sample)
  BY NextMeanBounds, NextVariationBounds, RtoAssumption
<1>2. /\ srtt \in Nat /\ rttvar \in Nat /\ low \in Nat /\ high \in Nat /\ sample \in Nat
      /\ low <= srtt /\ srtt <= high /\ rttvar <= Greatest(high \div 2, high - low)
  BY RtoAssumption DEF TypeOK, EstimatesWithinSamples
<1>3. /\ l \in Nat /\ h \in Nat
      /\ l <= srtt /\ l <= sample /\ srtt <= h /\ sample <= h
      /\ h - l <= m /\ rttvar <= m /\ m \in Nat
  BY <1>2 DEF Least, Greatest
<1> HIDE DEF s2, v2, m
<1>4. l <= s2 /\ s2 <= h
  BY <1>1, <1>2, <1>3
<1>5. v2 <= m
  BY <1>1, <1>2, <1>3 DEF Difference
<1> QED BY <1>4, <1>5 DEF s2, v2, m

(* The clamped sum is within its bounds and not below what the sum covers. *)
LEMMA ClampCovers ==
    ASSUME NEW s \in 0 .. MaximumRto, NEW v \in 0 .. MaximumRto,
           NEW sample \in 0 .. MaximumRto
    PROVE  LET sum == s + Greatest(Granularity, 4 * v)
               clamped == Least(MaximumRto, Greatest(MinimumRto, sum))
           IN /\ clamped \in MinimumRto .. MaximumRto
              /\ s = sample => sum >= sample
              /\ sum >= sample => clamped >= sample
  BY RtoAssumption DEF Least, Greatest

(* A sample keeps the four properties. *)
LEMMA AcceptKeepsInvariant ==
    ASSUME EstimatorInv, NEW sample \in 0 .. MaximumRto, Accept(sample), backoffs' = 0
    PROVE  EstimatorInv'
<1> USE RtoAssumption
<1>1. initialized' = TRUE
  BY DEF Accept
<1>2. srtt' \in 0 .. MaximumRto /\ rttvar' \in 0 .. MaximumRto
  BY NextMeanBounds, NextVariationBounds DEF Accept, EstimatorInv
<1>3. computed' = Least(MaximumRto, Greatest(MinimumRto,
                           srtt' + Greatest(Granularity, 4 * rttvar')))
  BY <1>2, ComputedRtoExact DEF Accept
<1>4. last' = sample /\ current' = computed'
  BY DEF Accept
<1>5. /\ low' \in 0 .. MaximumRto /\ high' \in 0 .. MaximumRto
      /\ low' <= sample /\ sample <= high'
  <2>1. CASE initialized
    BY <2>1 DEF Accept, EstimatorInv, TypeOK, Least, Greatest
  <2>2. CASE ~initialized
    <3>1. low' = sample /\ high' = sample
      BY <2>2 DEF Accept
    <3> QED BY <3>1
  <2> QED BY <2>1, <2>2
<1>6. TypeOK'
  <2>1. computed' \in MinimumRto .. MaximumRto
    BY <1>2, <1>3, ClampCovers
  <2>2. current' \in computed' .. MaximumRto
    BY <1>4, <2>1
  <2>3. {last', low', high'} \subseteq 0 .. MaximumRto
    BY <1>4, <1>5
  <2>4. backoffs' \in Nat
    OBVIOUS
  <2> QED BY <1>1, <1>2, <2>1, <2>2, <2>3, <2>4 DEF TypeOK
<1>7. ComputedIsClampedSum'
  BY <1>1, <1>3 DEF ComputedIsClampedSum
<1>8. TimeoutCoversSample'
  <2>1. srtt' + Greatest(Granularity, 4 * rttvar') >= sample
    <3>1. CASE ~initialized
      <4>1. srtt' = sample
        BY <3>1, NextMeanBounds DEF Accept, EstimatorInv
      <4> QED BY <1>2, <4>1, ClampCovers
    <3>2. CASE initialized
      <4>1. /\ 7 * srtt + sample <= 8 * srtt' + 7
            /\ 3 * rttvar + Difference(srtt, sample) <= 4 * rttvar' + 3
        BY <3>2, NextMeanBounds, NextVariationBounds DEF Accept, EstimatorInv
      <4>2. {srtt, rttvar, srtt', rttvar', sample} \subseteq Nat
        BY <1>2 DEF EstimatorInv, TypeOK
      <4> QED BY <4>1, <4>2, SumCoversSample
    <3> QED BY <3>1, <3>2
  <2>2. computed' >= sample
    BY <1>2, <1>3, <2>1, ClampCovers
  <2> QED BY <1>4, <2>2 DEF TimeoutCoversSample
<1>9. EstimatesWithinSamples'
  <2>1. CASE ~initialized
    <3>1. srtt' = sample /\ rttvar' = sample \div 2 /\ low' = sample /\ high' = sample
      BY <2>1, NextMeanBounds, NextVariationBounds DEF Accept, EstimatorInv
    <3>2. sample <= sample /\ sample \div 2 <= Greatest(sample \div 2, sample - sample)
      BY DEF Greatest
    <3> QED BY <3>1, <3>2 DEF EstimatesWithinSamples
  <2>2. CASE initialized
    <3>1. /\ srtt' = NextMean(sample) /\ rttvar' = NextVariation(sample)
          /\ low' = Least(low, sample) /\ high' = Greatest(high, sample)
      BY <2>2 DEF Accept
    <3> QED BY <2>2, <3>1, EstimatesStep DEF EstimatorInv, EstimatesWithinSamples
  <2> QED BY <2>1, <2>2
<1> QED BY <1>6, <1>7, <1>8, <1>9 DEF EstimatorInv

(* The estimator's properties, for every sequence of samples, timeouts and
   ACKs: the fields fit, the timeout is the documented clamped sum although
   the code's subtraction may wrap around, it covers the last sample, and the
   estimates stay within what the samples allow. *)
THEOREM EstimatorCorrect == Spec => []EstimatorInv
<1> USE RtoAssumption
<1>1. Init => EstimatorInv
  <2> SUFFICES ASSUME Init PROVE EstimatorInv
    OBVIOUS
  <2>1. /\ 0 \in 0 .. MaximumRto /\ {0, 0, 0} \subseteq 0 .. MaximumRto
        /\ InitialRto \in InitialRto .. MaximumRto
    OBVIOUS
  <2>2. TypeOK
    BY <2>1 DEF Init, TypeOK
  <2> QED BY <2>2 DEF Init, EstimatorInv, ComputedIsClampedSum, TimeoutCoversSample,
                      EstimatesWithinSamples
<1>2. EstimatorInv /\ [Next]_vars => EstimatorInv'
  <2> SUFFICES ASSUME EstimatorInv, [Next]_vars PROVE EstimatorInv'
    OBVIOUS
  <2>1. ASSUME NEW rtt \in RoundTrips, AckWithSample(rtt) PROVE EstimatorInv'
    <3>1. Least(rtt, MaximumRto) \in 0 .. MaximumRto
      BY DEF Least
    <3> QED BY <2>1, <3>1, AcceptKeepsInvariant DEF AckWithSample
  <2>2. CASE AckWithoutSample
    BY <2>2 DEF AckWithoutSample, EstimatorInv, TypeOK, ComputedIsClampedSum,
                TimeoutCoversSample, EstimatesWithinSamples
  <2>3. CASE OnTimeout
    <3>1. Doubled(current) \in computed .. MaximumRto
      <4>1. current <= MaximumRto \div 2 => (2 * current) % Word = 2 * current
        BY Fits DEF EstimatorInv, TypeOK
      <4> QED BY <4>1 DEF Doubled, EstimatorInv, TypeOK
    <3> QED BY <2>3, <3>1 DEF OnTimeout, EstimatorInv, TypeOK, ComputedIsClampedSum,
                TimeoutCoversSample, EstimatesWithinSamples
  <2>4. CASE UNCHANGED vars
    BY <2>4 DEF vars, EstimatorInv, TypeOK, ComputedIsClampedSum,
                TimeoutCoversSample, EstimatesWithinSamples
  <2> QED BY <2>1, <2>2, <2>3, <2>4 DEF Next
<1> QED BY <1>1, <1>2, PTL DEF Spec

(* No field of the estimator leaves its range, so no 64-bit operation of
   rto.cpp but the subtraction in update_computed_rto wraps around. *)
THEOREM EstimatorFits == Spec => []TypeOK
<1>1. EstimatorInv => TypeOK
  BY DEF EstimatorInv
<1> QED BY <1>1, EstimatorCorrect, PTL

(* LLD.md 4.7 holds of the 64-bit code: rto.cpp:64-72 computes the clamped
   sum on unbounded integers. *)
THEOREM TimeoutIsDocumentedFormula == Spec => []ComputedIsClampedSum
<1>1. EstimatorInv => ComputedIsClampedSum
  BY DEF EstimatorInv
<1> QED BY <1>1, EstimatorCorrect, PTL

(* After a sample the timeout is at least that sample, for every granularity
   of 31 clock units or more. *)
THEOREM NoTimeoutBelowSample == Spec => []TimeoutCoversSample
<1>1. EstimatorInv => TimeoutCoversSample
  BY DEF EstimatorInv
<1> QED BY <1>1, EstimatorCorrect, PTL

(* No sequence of samples drives the estimates out of the samples' range. *)
THEOREM EstimatesStayWithinSamples == Spec => []EstimatesWithinSamples
<1>1. EstimatorInv => EstimatesWithinSamples
  BY DEF EstimatorInv
<1> QED BY <1>1, EstimatorCorrect, PTL

-----------------------------------------------------------------------------
(* Backing off.  TwoTo is a recursive function: that the equation defining it
   has a solution, and what follows from it, is shown by least counterexample. *)

\* The first n + 1 powers of two, as a function that satisfies the equation.
IsPowers(f, n) ==
    /\ f \in [0 .. n -> Nat]
    /\ \A i \in 0 .. n : f[i] = IF i = 0 THEN 1 ELSE 2 * f[i - 1]

\* The defining equation of TwoTo.
Powers(f) == [n \in Nat |-> IF n = 0 THEN 1 ELSE 2 * f[n - 1]]

(* There are powers up to every n. *)
LEMMA PowersExist ==
    ASSUME NEW n \in Nat
    PROVE  \E f : IsPowers(f, n)
<1> DEFINE T == {k \in Nat : ~ \E f : IsPowers(f, k)}
<1> SUFFICES ASSUME T # {} PROVE FALSE
  OBVIOUS
<1>1. PICK k \in T : \A y \in T : k <= y
  <2>1. T \subseteq Nat
    OBVIOUS
  <2> HIDE DEF T
  <2> QED BY <2>1, LeastElement
<1>2. k \in Nat /\ ~ \E f : IsPowers(f, k)
  OBVIOUS
<1>3. k # 0
  <2>1. IsPowers([i \in 0 .. 0 |-> 1], 0)
    BY DEF IsPowers
  <2> QED BY <1>2, <2>1
<1>4. k - 1 \in Nat /\ k - 1 \notin T
  BY <1>1, <1>2, <1>3
<1>5. PICK f : IsPowers(f, k - 1)
  BY <1>4
<1> DEFINE g == [i \in 0 .. k |-> IF i = k THEN 2 * f[k - 1] ELSE f[i]]
<1>6. /\ f[k - 1] \in Nat
      /\ \A i \in 0 .. (k - 1) : f[i] \in Nat /\ f[i] = IF i = 0 THEN 1 ELSE 2 * f[i - 1]
  BY <1>4, <1>5 DEF IsPowers
<1>7. g \in [0 .. k -> Nat] /\ g[k] = 2 * f[k - 1] /\ \A i \in 0 .. (k - 1) : g[i] = f[i]
  BY <1>2, <1>3, <1>6
<1> HIDE DEF g
<1>8. ASSUME NEW i \in 0 .. k PROVE g[i] = IF i = 0 THEN 1 ELSE 2 * g[i - 1]
  <2>1. i # 0 => i - 1 \in 0 .. (k - 1)
    BY <1>2
  <2>2. CASE i = k
    BY <1>3, <1>7, <2>1, <2>2
  <2>3. CASE i # k
    <3>1. i \in 0 .. (k - 1)
      BY <1>2, <2>3
    <3> QED BY <1>6, <1>7, <2>1, <3>1
  <2> QED BY <2>2, <2>3
<1>9. IsPowers(g, k)
  BY <1>7, <1>8 DEF IsPowers
<1> QED BY <1>2, <1>9

(* Powers up to two bounds agree where both are defined. *)
LEMMA PowersAgree ==
    ASSUME NEW m \in Nat, NEW n \in Nat, m <= n, NEW f, IsPowers(f, m),
           NEW g, IsPowers(g, n), NEW i \in 0 .. m
    PROVE  f[i] = g[i]
<1> DEFINE T == {k \in 0 .. m : f[k] # g[k]}
<1> SUFFICES ASSUME T # {} PROVE FALSE
  OBVIOUS
<1>1. PICK k \in T : \A y \in T : k <= y
  <2>1. T \subseteq Nat
    OBVIOUS
  <2> HIDE DEF T
  <2> QED BY <2>1, LeastElement
<1>2. k \in 0 .. m /\ k \in 0 .. n /\ f[k] # g[k]
  OBVIOUS
<1>3. f[k] = IF k = 0 THEN 1 ELSE 2 * f[k - 1]
  BY <1>2 DEF IsPowers
<1>4. g[k] = IF k = 0 THEN 1 ELSE 2 * g[k - 1]
  BY <1>2 DEF IsPowers
<1>5. k # 0
  BY <1>2, <1>3, <1>4
<1>6. k - 1 \in 0 .. m /\ k - 1 \notin T
  BY <1>1, <1>2, <1>5
<1>7. f[k - 1] = g[k - 1]
  BY <1>6
<1> QED BY <1>2, <1>3, <1>4, <1>7

(* TwoTo satisfies its equation: every power is a natural number, 1 or twice
   the one before. *)
LEMMA TwoToIs ==
    /\ TwoTo[0] = 1
    /\ \A n \in Nat : TwoTo[n] \in Nat /\ TwoTo[n + 1] = 2 * TwoTo[n]
<1> DEFINE P(n) == CHOOSE f : IsPowers(f, n)
           h == [n \in Nat |-> P(n)[n]]
<1>1. ASSUME NEW n \in Nat PROVE IsPowers(P(n), n)
  BY PowersExist
<1> HIDE DEF P
<1>2. ASSUME NEW n \in Nat PROVE h[n] = IF n = 0 THEN 1 ELSE 2 * h[n - 1]
  <2>1. h[n] = P(n)[n] /\ n \in 0 .. n
    OBVIOUS
  <2>2. P(n)[n] = IF n = 0 THEN 1 ELSE 2 * P(n)[n - 1]
    BY <1>1, <2>1 DEF IsPowers
  <2>3. n # 0 => P(n)[n - 1] = h[n - 1]
    <3> SUFFICES ASSUME n # 0 PROVE P(n)[n - 1] = P(n - 1)[n - 1]
      OBVIOUS
    <3>1. n - 1 \in Nat /\ n - 1 <= n /\ n - 1 \in 0 .. (n - 1)
      OBVIOUS
    <3>2. IsPowers(P(n - 1), n - 1) /\ IsPowers(P(n), n)
      BY <1>1, <3>1
    <3> QED BY <3>1, <3>2, PowersAgree
  <2> HIDE DEF h
  <2> QED BY <2>1, <2>2, <2>3
<1>3. h = [n \in Nat |-> h[n]]
  OBVIOUS
<1> HIDE DEF h
<1>4. h = Powers(h)
  BY <1>2, <1>3 DEF Powers
<1>5. TwoTo = CHOOSE f : f = Powers(f)
  BY DEF TwoTo, Powers
<1>6. TwoTo = Powers(TwoTo)
  BY <1>4, <1>5
<1> DEFINE t == TwoTo
<1> HIDE DEF t
<1>7. \A n \in Nat : TwoTo[n] = IF n = 0 THEN 1 ELSE 2 * TwoTo[n - 1]
  <2>1. t = [n \in Nat |-> IF n = 0 THEN 1 ELSE 2 * t[n - 1]]
    BY <1>6 DEF t, Powers
  <2>2. \A n \in Nat : t[n] = IF n = 0 THEN 1 ELSE 2 * t[n - 1]
    BY <2>1
  <2> QED BY <2>2 DEF t
<1> DEFINE T == {n \in Nat : TwoTo[n] \notin Nat}
<1>8. T = {}
  <2> SUFFICES ASSUME T # {} PROVE FALSE
    OBVIOUS
  <2>1. PICK k \in T : \A y \in T : k <= y
    <3>1. T \subseteq Nat
      OBVIOUS
    <3> HIDE DEF T
    <3> QED BY <3>1, LeastElement
  <2>2. k \in Nat /\ TwoTo[k] \notin Nat
    OBVIOUS
  <2>3. TwoTo[k] = IF k = 0 THEN 1 ELSE 2 * TwoTo[k - 1]
    BY <1>7, <2>2
  <2>4. k # 0
    BY <2>2, <2>3
  <2>5. k - 1 \in Nat /\ k - 1 \notin T
    BY <2>1, <2>2, <2>4
  <2>6. TwoTo[k - 1] \in Nat
    BY <2>5
  <2> QED BY <2>2, <2>3, <2>4, <2>6
<1>9. ASSUME NEW n \in Nat PROVE TwoTo[n + 1] = 2 * TwoTo[n]
  <2>1. n + 1 \in Nat /\ n + 1 # 0 /\ (n + 1) - 1 = n
    OBVIOUS
  <2> QED BY <1>7, <2>1
<1>10. TwoTo[0] = 1
  BY <1>7
<1> QED BY <1>8, <1>9, <1>10

(* One more timeout doubles the backed-off timeout, up to the maximum. *)
LEMMA BackoffStep ==
    ASSUME EstimatorInv, BackoffIsExponential, OnTimeout
    PROVE  BackoffIsExponential'
<1> DEFINE x == computed * TwoTo[backoffs]
           y == computed * TwoTo[backoffs + 1]
<1>1. /\ computed \in Nat /\ backoffs \in Nat /\ current \in Nat
      /\ MaximumRto \in Nat /\ MaximumRto >= 1
      /\ Word \in Nat /\ 8 * MaximumRto < Word
  BY RtoAssumption DEF EstimatorInv, TypeOK
<1>2. x \in Nat /\ y = 2 * x
  <2>1. TwoTo[backoffs] \in Nat /\ TwoTo[backoffs + 1] = 2 * TwoTo[backoffs]
    BY <1>1, TwoToIs
  <2> DEFINE t == TwoTo[backoffs]
             u == TwoTo[backoffs + 1]
  <2>2. t \in Nat /\ u = 2 * t
    BY <2>1
  <2> HIDE DEF t, u
  <2>3. computed * t \in Nat /\ computed * u = 2 * (computed * t)
    BY <1>1, <2>2
  <2> QED BY <2>3 DEF t, u
<1> HIDE DEF x, y
<1>3. current = IF MaximumRto < x THEN MaximumRto ELSE x
  BY DEF BackoffIsExponential, Least, x
<1>4. computed' = computed /\ current' = Doubled(current)
  BY DEF OnTimeout
<1>5. CASE current = MaximumRto
  <2>1. backoffs' = backoffs /\ current' = MaximumRto
    BY <1>1, <1>4, <1>5 DEF OnTimeout, Doubled
  <2> QED BY <1>4, <1>5, <2>1 DEF BackoffIsExponential
<1>6. CASE current # MaximumRto
  <2>1. current = x /\ x < MaximumRto /\ backoffs' = backoffs + 1
    BY <1>1, <1>2, <1>3, <1>6 DEF OnTimeout
  <2>2. current' = IF x > MaximumRto \div 2 THEN MaximumRto ELSE 2 * x
    <3>1. (2 * x) % Word = 2 * x
      <4>1. 2 * x \in Nat /\ 2 * x < Word
        BY <1>1, <1>2, <2>1
      <4> QED BY <1>1, <4>1, Fits
    <3> QED BY <1>4, <2>1, <3>1 DEF Doubled
  <2>3. current' = IF MaximumRto < y THEN MaximumRto ELSE y
    BY <1>1, <1>2, <2>1, <2>2
  <2> QED BY <1>4, <2>1, <2>3 DEF BackoffIsExponential, Least, y
<1> QED BY <1>5, <1>6

(* n timeouts in a row multiply the computed timeout by 2^n up to
   kMaximumRtoNs, and an ACK with progress undoes all of them, whether or not
   it brings a sample. *)
THEOREM BackoffDoubles == Spec => []BackoffIsExponential
<1> DEFINE Restored(c) == c \in Nat /\ c <= MaximumRto => c = Least(MaximumRto, c * TwoTo[0])
<1>0. ASSUME NEW c PROVE Restored(c)
  <2> SUFFICES ASSUME c \in Nat, c <= MaximumRto PROVE c = Least(MaximumRto, c * TwoTo[0])
    OBVIOUS
  <2>1. c * TwoTo[0] = c /\ MaximumRto \in Nat
    BY TwoToIs, RtoAssumption
  <2> QED BY <2>1 DEF Least
<1>1. Init => BackoffIsExponential
  <2>1. InitialRto \in Nat /\ InitialRto <= MaximumRto
    BY RtoAssumption
  <2> QED BY <1>0, <2>1 DEF Init, BackoffIsExponential
<1>2. EstimatorInv /\ EstimatorInv' /\ BackoffIsExponential /\ [Next]_vars
        => BackoffIsExponential'
  <2> SUFFICES ASSUME EstimatorInv, EstimatorInv', BackoffIsExponential, [Next]_vars
               PROVE  BackoffIsExponential'
    OBVIOUS
  <2>1. computed' \in Nat /\ computed' <= MaximumRto
    BY RtoAssumption DEF EstimatorInv, TypeOK
  <2>2. ASSUME current' = computed', backoffs' = 0 PROVE BackoffIsExponential'
    BY <1>0, <2>1, <2>2 DEF BackoffIsExponential
  <2>3. ASSUME NEW rtt \in RoundTrips, AckWithSample(rtt) PROVE BackoffIsExponential'
    BY <2>2, <2>3 DEF AckWithSample, Accept
  <2>4. CASE AckWithoutSample
    BY <2>2, <2>4 DEF AckWithoutSample
  <2>5. CASE OnTimeout
    BY <2>5, BackoffStep
  <2>6. CASE UNCHANGED vars
    BY <2>6 DEF vars, BackoffIsExponential
  <2> QED BY <2>3, <2>4, <2>5, <2>6 DEF Next
<1> QED BY <1>1, <1>2, EstimatorCorrect, PTL DEF Spec
=============================================================================
