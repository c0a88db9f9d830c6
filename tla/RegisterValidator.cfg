\* With and without batches, answering after all tasks or after the first.
SPECIFICATION RegisterFairSpec
CONSTANTS
  r1 = r1
  r2 = r2
  Relays = {r1, r2}
  NoBatch = NoBatch
  BatchConfigs <- MCBatches
  RegCounts = {0, 3}
  WaitAllSettings = {TRUE, FALSE}
  RetryLimit = 3
  Timeout = 7
  BackoffStep = 2
  RelayAnswers <- MCAnswers
INVARIANTS ChunksPartition AttemptsBounded WaitAllAnswer
PROPERTIES EverythingFinishes
