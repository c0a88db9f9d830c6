\* Three hosts, simple and distributed accounts.
SPECIFICATION DirkFairSpec
CONSTANTS
  P = 7
  IdSpan = 4
  Hosts <- MCHosts
  Listing <- MCListing
  Coeffs <- MCCoeffs
  Modules = {m1}
  Proxies = {p1}
  HasStore = TRUE
  Silent = {"h3"}
  Garbled = Garbled
  Nobody = Nobody
INVARIANTS SignatureIsMaster ToleratesFailures ParticipantsGenuine ProxyReady
PROPERTIES HeldUpOnlyBySilence
