\* Whom the elitism of STD_MO saves.
SPECIFICATION Spec
CONSTANTS
  Address = {1, 2, 3, 4}
  Values <- MCValues
  Lines <- MCEliteLines
INVARIANT
  EliteIsTheBest
