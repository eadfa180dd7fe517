SPECIFICATION Spec
CONSTANTS
  MinimumRto = 40
  MaximumRto = 160
  InitialRto = 50
  Granularity = 32
  Word = 2048
  RoundTrips = {0, 1, 39, 97, 131, 160, 2047}
INVARIANT ComputedIsClampedSum
INVARIANT TimeoutCoversSample
INVARIANT BackoffIsExponential
