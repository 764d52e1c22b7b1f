\* What is sent after an immigrant has taken the place of the best individual.
SPECIFICATION Spec
CONSTANTS
  a = a
  b = b
  None = None
  Islands <- MCIslands
  Clients <- MCBothWays
  Fitness <- MCFitness
  Printed <- MCPrinted
  Minimizing = TRUE
  PopulationSize = 2
  MaxGenerations = 3
  MaxArrivals = 1
INVARIANT
  SendsMyBestIndividual
