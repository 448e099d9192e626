\* Daemons one after the other or on top of each other, with digests and
\* without.
SPECIFICATION LoopFairSpec
CONSTANTS
  Starts = {s1, s2, s3}
  Ticks = {k1, k2}
  NoTimer = NoTimer
INVARIANTS
  AtMostOneCycle
PROPERTIES
  NoTickAfterStop
  KeepsMonitoring
CHECK_DEADLOCK FALSE
