SPECIFICATION Spec
CONSTANTS
  Threads = {t1, t2}
  Objects <- MCObjects
  Inputs = {0, 1}
  Sizes = {2}
  LockFree = {1}
  SPINLOCK_COUNT = 2
  Block = 4
INVARIANTS
  AtomicInv
PROPERTIES
  Linearizable
  SomebodyCompletes
