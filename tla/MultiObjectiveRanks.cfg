\* The ranks that STD_MO gives to its first parents.
SPECIFICATION Spec
CONSTANTS
  Address = {1, 2, 3, 4}
  Values <- MCValues
  Lines <- MCStdLines
INVARIANT
  StdRanksArePareto
