\* Three calls on one footprint for two contract states, three extensions.
SPECIFICATION CacheFairSpec
CONSTANTS
  Calls = {k1, k2, k3}
  Footprints = {f1}
  ContractStates = {v1, v2}
  None = None
  MaxExtensions = 3
INVARIANTS
  OneFlightPerFootprint
  StaleOnlyIfOvertaken
PROPERTIES
  EveryCallEnds
