SPECIFICATION Spec
CONSTANTS
  Chips = {"8812", "8814", "8821"}
  Requests <- MCRequests
INVARIANTS
  TypeOK
  Tuned
  FrontEndMatches
  Recalibrated
  TxReleased
  SubchannelOfPrimary
