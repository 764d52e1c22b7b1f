\* Both multi-objective templates, with each operator and both kinds of elitism.
SPECIFICATION FairSpec
CONSTANTS
  Address = {1, 2, 3, 4}
  Values <- MCValues
  Lines <- MCLines
INVARIANTS
  TypeOK
  OwnedOnce
  RanksArePareto
  ComparedObjectivesAreCurrent
  DeterministicKeepsBestRanks
PROPERTY
  Termination
