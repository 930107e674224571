SPECIFICATION HFairSpec
CONSTANTS
  Gtk <- MCGtk
  Eapol = {}
  Data = {}
  WinSize = 1
  MaxRc = 8
  MaxNonce = 6
  MaxPn = 0
  MaxTries = 2
  MaxAssoc = 1
  GroupRekeys = 0
  PtkRekeys = 1
  MaxRounds = 4
  StaleFrames = FALSE
PROPERTY
  HandshakeCompletes
CHECK_DEADLOCK FALSE
