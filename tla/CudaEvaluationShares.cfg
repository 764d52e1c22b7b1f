\* What dispatchPopulation places on the last card.
SPECIFICATION Spec
CONSTANTS
  None = None
  Configs <- MCSmallPopulation
  MaxRounds = 2
INVARIANT
  LastCardGetsTheRest
