SPECIFICATION HFairSpec
CONSTANTS
  Gtk <- MCGtk
  Eapol = {}
  Data = {}
  WinSize = 1
  MaxRc = 14
  MaxNonce = 6
  MaxPn = 0
  MaxTries = 2
  MaxAssoc = 2
  GroupRekeys = 2
  PtkRekeys = 2
  MaxRounds = 4
  StaleFrames = FALSE
INVARIANTS
  KeysAgree
  GroupKeysUsable
  SlotsDistinct
PROPERTIES
  CompletesUntilRekey
  NoSpuriousRekey
CHECK_DEADLOCK FALSE
