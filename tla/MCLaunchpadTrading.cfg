\* One token, one administrator who only pauses, up to four trades.
CONSTANTS
  BPS = 10
  MaxU64 = 200
  Mints = {m1}
  Keys = {"admin"}
  NoKey = "none"
  AmmConfigs = {"standard"}
  AmmStates <- OpenOrClosed
  ParamSets <- OneConfig
  BuyBudgets = {3, 8, 24}
  MinOuts = {0, 2}
  MaxTotalFeeBps = 5
  MaxMigrationFee = 3
  MinGraduationLiquidity = 3
  MigrationTimeout = 2
  MaxTrades = 4
  MaxTime = 3
  MaxGift = 1
SPECIFICATION Spec
INVARIANTS
  Solvency
  SupplyConserved
  CurveInOrder
  HoldersCanBePaid
  PoolOpensAtCurvePrice
  VaultCoversPool
PROPERTIES
  KNeverDecreases
  FeeCapped
