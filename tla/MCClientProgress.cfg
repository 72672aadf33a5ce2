\* A token launched before a change of the configuration.
CONSTANTS
  BPS = 10
  MaxU64 = 200
  Mints = {m1}
  Keys = {"admin"}
  NoKey = "none"
  AmmConfigs = {"standard"}
  AmmStates <- AlwaysOpen
  ParamSets <- MCTerms
  BuyBudgets = {8}
  MinOuts = {0}
  MaxTotalFeeBps = 5
  MaxMigrationFee = 3
  MinGraduationLiquidity = 3
  MigrationTimeout = 1
  MaxTrades = 3
  MaxTime = 2
  MaxGift = 0
  Sessions = {s1}
  Commands = {}
  SlippageBps = 1
  Skews = {0, 1}
  Window = 1
  MaxHeight = 2
  MaxCommands = 0
  MaxOthers = 1
SPECIFICATION ClientSpec
INVARIANT
  ProgressInRange
