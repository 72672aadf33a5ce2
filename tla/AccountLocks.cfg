\* Two tokens, one on either side of wrapped SOL, and two transactions at once.
CONSTANTS
  Mints = {low, high}
  LowMints = {low}
  Wallets = {w1, w2}
  Recipients = {f1, f2}
  Raydiums = {tier}
  Wsol = Wsol
  Deployer = w1
  Nobody = Nobody
  Slots = {1, 2}
SPECIFICATION Spec
INVARIANTS
  RefusedOnlyIfStale
  OnlyOwnTokenWaits
