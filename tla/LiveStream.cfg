\* Two mints, five events.
CONSTANTS
  StreamMints = {m1, m2}
  AnyMint = AnyMint
  MaxEvents = 5
SPECIFICATION StreamSpec
INVARIANTS
  NothingSkipped
  AwakeForWork
PROPERTY
  AbortEnds
CHECK_DEADLOCK FALSE
