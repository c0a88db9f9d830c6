\* Loads from all sources, with up to two changes of the list during a load.
SPECIFICATION Spec
CONSTANTS
  Keys = {"a", "b", "c", "d", "e"}
  Lists <- MCLists
  MaxLen = 5
  MaxEdits = 2
  Chains = {"Mainnet", "Sepolia"}
  BatchSize = 2
  PerPage = 2
  MaxBody = 4
  None = None
INVARIANTS SnapshotUnlessRemoved MissedAtMostRemovals LidoShrinkingDetected RefusedForCause
PROPERTY LoadEnds
