\* Edits, interrupted runs of init, recreated containers and crashes.
SPECIFICATION DeploymentSpec
CONSTANTS
  Lower <- MCLower
  Upper <- MCUpper
  PbsPort = 18550
  SignerPort = 20000
  None = None
  Configs <- MCConfigs
  MaxEdits = 1
  MaxInits = 2
  MaxCrashes = 2
INVARIANTS SecretsAgree FittingLoads
PROPERTY ComesUp
