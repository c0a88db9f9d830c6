\* Concurrent requests to the three handlers, against revocations and reloads.
SPECIFICATION FairSpec
CONSTANTS
  Modules = {"m1", "m2"}
  SigningId <- MCSigningId
  Secrets = {"s1", "s2"}
  AdminSecrets = {"a1", "a2"}
  EnvSecret <- MCEnvSecret
  EnvAdmin = "a1"
  Keys = {"k1"}
  KeySets <- MCKeys
  Clients = {"c1"}
  Reqs = {q1, q2}
  Admins = {x1}
  Operations <- MCOperations
  Tokens <- MCTokens
  ReloadRequests <- MCReloads
  FailLimit = 1
  FailTimeout = 1
  None = None
INVARIANTS OwnSigningId RevokedGetsNothing FailuresBounded
PROPERTIES BlockEnds RequestsAnswered
