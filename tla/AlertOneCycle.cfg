\* One cycle at a time, answers that get lost, quiet hours, edited targets.
SPECIFICATION FairSpec
CONSTANTS
  e1 = e1
  c1 = c1
  t1 = t1
  t2 = t2
  Nothing = Nothing
  Entries = {e1}
  Configs <- OneConfig
  Targets <- BothTargets
  FirstTargets <- OneTarget
  Threshold <- Ten
  Levels <- TwoLevels
  RetryLimit <- Limits
  MAX_RETRY_COUNT = 2
  QuietConfigs = {c1}
  Cycles = {k1}
  Faults = {"lostAnswer", "edit"}
  MaxEpisodes = 1
PROPERTIES
  EveryTargetHasItsRow
  EveryAlertSettles
  RetriesAreFailures
