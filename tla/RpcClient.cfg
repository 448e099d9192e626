\* One method over two endpoints, with others using its account and client.
SPECIFICATION FairSpec
CONSTANTS
  f1 = f1
  e1 = e1
  e2 = e2
  Flows = {f1}
  Order <- TwoEndpoints
  Kinds <- EachMethod
  MAX_ATTEMPTS = 2
  MaxOthers = 2
INVARIANTS
  OutcomeIsReal
  PaidTwiceOnlyAfterLoss
  NeverRefusedUnasked
PROPERTIES
  EveryCallEnds
CHECK_DEADLOCK FALSE
