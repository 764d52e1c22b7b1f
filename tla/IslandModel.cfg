\* One island sends to another: the two threads of the receiver.
SPECIFICATION FairSpec
CONSTANTS
  a = a
  b = b
  None = None
  Islands <- MCIslands
  Clients <- MCOneWay
  Fitness <- MCFitness
  Printed <- MCPrinted
  Minimizing = TRUE
  PopulationSize = 1
  MaxGenerations = 3
  MaxArrivals = 3
INVARIANTS
  TypeOK
  NeverPopsEmpty
  QueueIsExclusive
  EachArrivalOnce
  LaterMigrantsIntact
PROPERTY
  EveryIslandStops
