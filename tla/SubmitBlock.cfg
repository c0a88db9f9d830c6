\* Both API versions, two relays.
SPECIFICATION FairSpec
CONSTANTS
  Relays = {r1, r2}
  Block <- MCBlock
  Payloads <- MCPayloads
  RelayErrors <- MCErrors
  Timeout = 7
  BackoffStep = 2
INVARIANTS
  DeliveredMatchesBlock
  MissedOnlyIfAllFailed
  AttemptsInTime
PROPERTIES
  Answered
