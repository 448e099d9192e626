\* One contract whose monthly limit was set with `sorokeep budget set`.
SPECIFICATION Spec
CONSTANTS
  Tasks = {a}
  Slots = {s1}
  NoSlot = NoSlot
  MaxEntries = 2
  HOURLY_RATE_LIMIT = 2
  Fees = {1, 2}
  Excess = 1
  Ceiled = {}
  MaxFee = 1
  PoolLimit = 2
  Assigned = {}
  Rowed = {}
  RowLimit = 2
  Capped = {a}
  Cap = 1
  LastMonth = 0
INVARIANT MonthlyCapHolds
CHECK_DEADLOCK FALSE
