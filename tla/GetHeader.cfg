\* Two relays, one of them with timing games.
SPECIFICATION FairSpec
CONSTANTS
  NRelays = 2
  Unset = Unset
  RelayConfig <- MCRelays
  RelayPubkey <- MCPubkeys
  ParentBlock <- MCParent
  Headers <- MCHeaders
  ParentHash = "p"
  Slot = 2
  GenesisTime = 10
  SlotTime = 12
  MinBid = 1
  SkipSigverify = FALSE
  TimeoutGetHeader = 4
  LateInSlot = 7
  StartTimes = {0, 2, 3, 4, 7}
  ExtraValidationEnabled = TRUE
INVARIANTS
  BestBid
  CheckedAgainstParent
  AnswerInTime
PROPERTIES
  EventuallyAnswered
  ImplementsAuction
