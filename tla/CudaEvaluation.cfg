\* Up to three cards, the evaluation of the parents and two generations.
SPECIFICATION FairSpec
CONSTANTS
  None = None
  Configs <- MCConfigs
  MaxRounds = 3
INVARIANTS
  TypeOK
  ThreadsSleep
  FitnessIsItsOwn
  CopiesFitDeviceMemory
  DeviceMemoryFreed
PROPERTY
  Termination
