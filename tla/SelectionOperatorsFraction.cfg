\* A selection pressure between 0.0 and 1.0, against the manual.
SPECIFICATION Spec
CONSTANTS
  Fitness <- MCFitness
  Calls <- MCFractionalCalls
  Populations <- MCPopulations
INVARIANT
  TournamentOfTwoReturnsADrawn
