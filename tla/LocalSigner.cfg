\* Crashes and failed writes at every step of a creation, with all stores.
SPECIFICATION Spec
CONSTANTS
  Modules = {m1, m2}
  Keys = {k1, k2}
  Sources <- MCSources
  Failed = Failed
  Proxies = {p1, p2, p3}
  Stores = {"none", "file", "erc2335"}
  NoProxy = NoProxy
INVARIANTS GrantedSurvive OnlyTornKeysBlock ListedRightly
SYMMETRY MCProxies
CHECK_DEADLOCK FALSE
