\* Two tokens, one at a time, and two uploads of one document.
CONSTANTS
  Mints = {m1, m2}
  Limit = 1
  MaxAttempts = 2
  MaxCrashes = 1
  Local = {m1}
  Slots = {1, 2}
  PerWindow = 2
  WindowLen = 2
SPECIFICATION UploadsSpec
INVARIANTS
  UploadsBounded
  UrisResolve
PROPERTIES
  SettlesOnce
  EveryTokenSettles
