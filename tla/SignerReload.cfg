\* A reload that gives no secrets, after a revocation and with other key files.
SPECIFICATION Spec
CONSTANTS
  Modules = {"m1", "m2"}
  SigningId <- MCSigningId
  Secrets = {"s1", "s2"}
  AdminSecrets = {"a1", "a2"}
  EnvSecret <- MCEnvSecret
  EnvAdmin = "a1"
  Keys = {"k1"}
  KeySets <- MCKeysFound
  Clients = {"c1"}
  Reqs = {q1}
  Admins = {x1}
  Operations <- MCOperations
  Tokens <- MCTokens
  ReloadRequests <- MCReloads
  FailLimit = 1
  FailTimeout = 0
  None = None
INVARIANT ReloadAsRestart
