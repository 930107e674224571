SPECIFICATION Spec
CONSTANTS
  Gtk <- OneGtk
  Eapol <- DistinctEapol
  Data <- MixedData
  WinSize = 2
  MaxRc = 1
  MaxNonce = 1
  MaxPn = 1
INVARIANT
  GroupAtMostOnce
