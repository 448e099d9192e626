\* Two contracts, one channel account, one shared pool; contract b has a row in
\* budgets until it joins the pool; two billing cycles.
SPECIFICATION FairSpec
CONSTANTS
  Tasks = {a, b}
  Slots = {s1}
  NoSlot = NoSlot
  MaxEntries = 2
  HOURLY_RATE_LIMIT = 1
  Fees = {0, 1, 2}
  Excess = 1
  Ceiled = {a}
  MaxFee = 1
  PoolLimit = 2
  Assigned = {a}
  Rowed = {b}
  RowLimit = 2
  Capped = {}
  Cap = 0
  LastMonth = 1
INVARIANTS
  CapsHold
  BooksBalance
  RateOvershootIsOneRun
PROPERTIES
  EveryTaskEnds
CHECK_DEADLOCK FALSE
