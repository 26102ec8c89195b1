CONSTANTS
  Producers = {p1, p2}
  Consumers = {k1, k2, k3}
  Items = {x, y}
  MaxLength = 3
SPECIFICATION FairSpec
INVARIANTS
  TypeOK
  NoLostWakeup
PROPERTY IsABlockingQueue
