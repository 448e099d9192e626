SPECIFICATION MCSpec
CONSTANTS
  maxRequestsPerSecond = 2
  toolLimit = 2
  Window = 3
  MaxTime = 5
  MaxSlots = 5
  MAX_TTL_SAMPLES = 3
  extendWhenBelow = 2
  Horizon = 3
  MaxLedger = 5
  Steps = {1, 4}
  Contracts = {c1}
  TaggedContracts = {c1}
  Prices = {0, 2}
  WINDOW = 2
  MaxDay = 3
  MaxPerDay = 1
  Processes = {p1, p2}
  Releases = {0, 12, 14}
  OldChecks = {FALSE}
  BackedUp = {c1, c2}
  MaxEntries = 3
  Alerted = {c1, c2}
  Tagged = {c1, c2}
  ExtraTargets = {t1}
  MaxConfigs = 2
  MaxSecrets = 2
  Observers = {o1, o2}
  Values = {v1, v2}
  MaxChanges = 3
  MaxSnapshots = 3
  AlertIds = {"a", "b", "c", "d"}
  Threshold <- MCThreshold
  Service <- MCService
  TTLs = {0, 1, 2}
  maxRetries = 1
  Tested = {"d"}
  MaxRows = 2
  k1 = k1
  k2 = k2
  c1 = c1
  c2 = c2
  Monitored = {c1, c2}
  Keys <- MCKeys
  CriticalBelow = 2
  WarningBelow = 3
  Extensions = {3}
  MaxLatest = 3
INVARIANTS
  RatesAreKept
  
  ReportsAgree
  AppliedMeansThere
  RowsKeepTheirOwner
  
  HistoryConnects
  
  
CHECK_DEADLOCK FALSE
