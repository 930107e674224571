SPECIFICATION FairSpec
CONSTANTS
  Ap <- MCAp
  Ssid = "ours"
  Bleed <- MCBleed
  Hints = {0, 1}
  Sweep <- MCSweep
  MaxIqkTries = 1
  MaxSends = 1
  MaxRetx = 1
  ThermalIqk = TRUE
INVARIANTS
  SessionTypeOK
  NoFalseJoin
  RxResumed
  TxReleased
  SweepOnChannel
  FrontEndRestored
PROPERTIES
  GainRewritten
  GainRecovers
  CallsReturn
  WatchdogStops
CHECK_DEADLOCK FALSE
