SPECIFICATION FairSpec
CONSTANTS
  Names <- TheNames
  DefaultNetworkName = "localnet"
  Known <- TheKnown
  Lags = {0, 5}
  Extras = {4}
  Tables <- TheTables
  Uint64 = 16
INVARIANTS NoForeignEndpoint RefusedTouchesNothing LagIsNotGuessed
PROPERTIES SignalStops
CHECK_DEADLOCK FALSE
