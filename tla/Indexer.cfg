\* Two transactions per page and per batch, up to three on the chain.
CONSTANTS
  Mints = {m1}
  Stock = 1
  PAGE = 2
  FETCH_CONCURRENCY = 2
  Starts = {0, 1}
  MaxTxs = 3
  MaxFaults = 2
  MayLosePower = TRUE
SPECIFICATION Spec
INVARIANTS
  RowsFollowChain
  TradesInChainOrder
  FeedFollowsRows
PROPERTIES
  CursorAdvances
  MirrorsChain
  CatchesUp
CHECK_DEADLOCK FALSE
