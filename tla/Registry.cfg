\* Two watches of one contract, interleaved with every other command on it.
SPECIFICATION Spec
SYMMETRY Symmetry
CONSTANTS
  w1 = w1
  w2 = w2
  testnet = testnet
  mainnet = mainnet
  Contracts = {c1}
  Networks <- Nets
  Tags = {t1}
  Groups = {g1}
  Watchers <- Processes
  Taggers = {p1}
  Optional = {"wasm", "manual"}
  None = None
INVARIANTS
  ReferencesHold
  WritesHold
  CacheIsHonest
