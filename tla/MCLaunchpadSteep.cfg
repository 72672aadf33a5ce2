\* A steep curve that completes and can never graduate.
CONSTANTS
  BPS = 10
  MaxU64 = 200
  Mints = {m1}
  Keys = {"admin"}
  NoKey = "none"
  AmmConfigs = {"standard"}
  AmmStates <- AlwaysOpen
  ParamSets <- Steep
  BuyBudgets = {24}
  MinOuts = {0}
  MaxTotalFeeBps = 5
  MaxMigrationFee = 3
  MinGraduationLiquidity = 3
  MigrationTimeout = 2
  MaxTrades = 2
  MaxTime = 1
  MaxGift = 0
SPECIFICATION Spec
INVARIANTS
  CompletedCurveCanGraduate
