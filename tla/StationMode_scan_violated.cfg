SPECIFICATION SessionSpec
CONSTANTS
  Ap <- MCAp
  Ssid = "ours"
  Bleed <- MCBleed
  Hints = {0, 6}
  Sweep <- MCLongSweep
  MaxIqkTries = 2
  MaxSends = 1
  MaxRetx = 2
  ThermalIqk = FALSE
INVARIANT
  ScanTuned
CHECK_DEADLOCK FALSE
