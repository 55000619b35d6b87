CONSTANTS
  People = {ada, bola}
  Browsers = {b1, b2}
  Codes = {1, 2}
  Endpoints = {1, 2}
  MaxRestarts = 1
  None = None
SPECIFICATION SessionSpec
INVARIANTS SessionTypeOK SignedInHasWallet
PROPERTIES LiveSubscriptionStays
SYMMETRY Symmetry
CHECK_DEADLOCK FALSE
