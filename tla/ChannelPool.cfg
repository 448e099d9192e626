\* Five tasks over three accounts: two tasks wait at once, and an account can
\* come round twice while another stays free.
SPECIFICATION FairSpec
CONSTANTS
  Tasks = {t1, t2, t3, t4, t5}
  N = 3
  NoSlot = NoSlot
INVARIANTS
  NoIdleSlotWhileWaiting
PROPERTIES
  ServedInOrder
  EveryTaskServed
  Implements
