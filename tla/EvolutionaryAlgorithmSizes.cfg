\* The sizes that are accepted, against the sizes the loop can do.
SPECIFICATION Spec
CONSTANTS
  UintModulus = 1024
  None = None
  Individuals <- MCIndividuals
  Fitness <- MCFitness
  CommandLines <- MCUnfitLines
INVARIANT
  AcceptedSizesNeverOverrun
