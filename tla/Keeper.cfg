\* Two mints, one of which can never graduate; the configuration changes once.
CONSTANTS
  Mints = {m1, m2}
  Hopeless = {m2}
  MinFees = 1
  CoolDown = 2
  MaxUpdates = 1
  MaxFaults = 1
SPECIFICATION Spec
INVARIANTS
  TruthfulReport
PROPERTIES
  CoolDownRespected
  EveryCurveGraduates
  FeesSwept
CHECK_DEADLOCK FALSE
