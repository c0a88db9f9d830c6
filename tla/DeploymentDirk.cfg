\* One init and up of each configuration: the signer with Dirk does not load.
SPECIFICATION DeploymentSpec
CONSTANTS
  Lower <- MCLower
  Upper <- MCUpper
  PbsPort = 18550
  SignerPort = 20000
  None = None
  Configs <- MCConfigs
  MaxEdits = 0
  MaxInits = 1
  MaxCrashes = 0
INVARIANT DocumentedSignerLoads
