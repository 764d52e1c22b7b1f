\* Every operator on every small array, as a selection and as a reduction.
SPECIFICATION Spec
CONSTANTS
  Fitness <- MCFitness
  Calls <- MCAllCalls
  Populations <- MCPopulations
INVARIANTS
  TypeOK
  IndexInRange
  TournamentReturnsBestDrawn
  DeterministicKeepsBest
  RouletteSkipsZero
PROPERTY
  ImplementsSelection
