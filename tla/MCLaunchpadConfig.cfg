\* Two tokens under a configuration and a Raydium that change.
CONSTANTS
  BPS = 10
  MaxU64 = 24
  Mints = {m1, m2}
  Keys = {"admin"}
  NoKey = "none"
  AmmConfigs = {"standard", "other"}
  AmmStates <- AlwaysOpen
  ParamSets <- ManyConfigs
  BuyBudgets = {8, 24}
  MinOuts = {0}
  MaxTotalFeeBps = 5
  MaxMigrationFee = 3
  MinGraduationLiquidity = 7
  MigrationTimeout = 1
  MaxTrades = 3
  MaxTime = 1
  MaxGift = 0
SYMMETRY MintSymmetry
SPECIFICATION Spec
INVARIANTS
  TypeOK
  GraduationFunded
PROPERTIES
  ImplementsFairLaunch
