\* One person at the command line, one token, three configurations.
CONSTANTS
  BPS = 10
  MaxU64 = 200
  Mints = {m1}
  Keys = {"admin"}
  NoKey = "none"
  AmmConfigs = {"standard"}
  AmmStates <- AlwaysOpen
  ParamSets <- MCTerms
  BuyBudgets = {8}
  MinOuts = {0}
  MaxTotalFeeBps = 5
  MaxMigrationFee = 3
  MinGraduationLiquidity = 3
  MigrationTimeout = 1
  MaxTrades = 3
  MaxTime = 1
  MaxGift = 0
  Sessions = {s1}
  Commands <- MCCommands
  SlippageBps = 1
  Skews = {0, 1}
  Window = 1
  MaxHeight = 2
  MaxCommands = 2
  MaxOthers = 1
SPECIFICATION ClientSpec
INVARIANTS
  NoLessThanAgreed
  QuoteHoldsUnlessMoved
  ExpiryIsFinal
PROPERTY
  UnspecifiedKept
