\* The loop on small populations, every kind of elitism and reduction.
SPECIFICATION FairSpec
CONSTANTS
  UintModulus = 1024
  None = None
  Individuals <- MCIndividuals
  Fitness <- MCFitness
  CommandLines <- MCLines
INVARIANTS
  TypeOK
  OwnedOnce
  NoLeak
  NoOverrun
  PopulationRestored
  BestIsAlive
  ComparedFitnessIsCurrent
  EliteIsTheBest
PROPERTIES
  ImplementsReport
  Termination
