CONSTANTS
  w1 = w1
  w2 = w2
  w3 = w3
  Worker <- Workers
  PoolSize = 2
  Nobody = Nobody
SPECIFICATION Spec
INVARIANTS
  TypeOK
  HeldOnce
  RefusedWhenFull
  NoTransactionLeft
PROPERTIES
  MutexReleased
