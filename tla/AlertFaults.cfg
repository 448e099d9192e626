\* Two cycles overlap, the process dies anywhere, database errors, lost answers, two crossings.
SPECIFICATION Spec
CONSTANTS
  e1 = e1
  c1 = c1
  t1 = t1
  t2 = t2
  Nothing = Nothing
  Entries = {e1}
  Configs <- OneConfig
  Targets <- OnlyTarget
  FirstTargets <- OneTarget
  Threshold <- Ten
  Levels <- TwoLevels
  RetryLimit <- Limits
  MAX_RETRY_COUNT = 2
  QuietConfigs = {c1}
  Cycles = {k1, k2}
  Faults = {"crash", "lostAnswer", "dbError"}
  MaxEpisodes = 2
INVARIANTS
  DeliveredWasReceived
  OneEpisode
  
