\* All reserves up to 6 and all amounts up to 16.
CONSTANTS
  BPS = 10
  MaxU64 = 1000
  MaxReserve = 6
  MaxAmount = 16
  FeeSets <- SomeFees
SPECIFICATION Spec
INVARIANTS
  RoundingIsOptimal
  RoundTripLoses
  BudgetIsLeast
  SdkMirrorsProgram
