SPECIFICATION FairSpec
CONSTANTS
  Producers = {p1, p2, p3}
  Consumers = {c1, c2}
  Capacity = 2
  MaxPuts = 8
INVARIANTS
  PositionsAgree
  NoLostWakeup
PROPERTIES
  ImplementsBoundedQueue
  AllTaken
CHECK_DEADLOCK FALSE
