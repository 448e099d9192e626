\* Two contracts, one of them tagged, three versions each.
SPECIFICATION Spec
CONSTANTS
  c1 = c1
  c2 = c2
  Contracts = {c1, c2}
  EntryTypes = {instance}
  Choices <- Pairs
  Fees = {}
  Cycles = {1}
  None = None
  Tagged = {c1}
  MaxVersions <- Versions
INVARIANTS
  ThresholdsBelowTargets
  
PROPERTIES
  HistoryOnlyGrows
  
CHECK_DEADLOCK FALSE
