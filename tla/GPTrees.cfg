\* Construction, mutation and crossover of small trees.
SPECIFICATION Spec
CONSTANTS
  Programs <- MCPrograms
  MaxOperations = 2
INVARIANTS
  TreesAreComplete
  HiddenUnderLeaves
  InitialDepthsInRange
  StackBoundedByDepth
PROPERTY
  DepthIsBounded
