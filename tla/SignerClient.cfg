\* Tokens that age, requests that come late or after the client gave up.
SPECIFICATION ClientSpec
CONSTANTS
  Handles = {h1, h2}
  PerSecond = 2
  Expiration = 2
  Leeway = 1
  DefaultRequestTimeout = 3
  MaxBuild = 2
  FailLimit = 2
  FailTimeout = 3
  MaxWire = 2
  MaxNow = 10
INVARIANTS ExpiredOnlyIfLate RefusedAtMostOnce LockedOutOnlyByLate
SYMMETRY MCHandles
