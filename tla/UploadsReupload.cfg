\* Uploads of the same document; the tokens play no part.
CONSTANTS
  Mints = {m1}
  Limit = 1
  MaxAttempts = 1
  MaxCrashes = 1
  Local = {m1}
  Slots = {1, 2}
  PerWindow = 2
  WindowLen = 2
SPECIFICATION UploadsSpec
INVARIANT
  ReuploadIsHarmless
