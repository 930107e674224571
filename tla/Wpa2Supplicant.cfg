SPECIFICATION Spec
CONSTANTS
  Gtk <- OneGtk
  Eapol <- DistinctEapol
  Data <- MixedData
  WinSize = 2
  MaxRc = 1
  MaxNonce = 2
  MaxPn = 3
INVARIANTS
  TypeOK
  PairAtMostOnce
PROPERTY
  TxNonceFresh
