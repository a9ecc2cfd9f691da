\* Two tickers. Both streams lose datagrams, and incremental ones may overtake twice, which
\* lets the client go back; nothing more is sent after MaxUpdates updates.
SPECIFICATION Spec
CONSTANTS
  MAX_TICKERS = 2
  OrderIds = {1}
  Contents <- MCContents
  MaxUpdates = 3
  MaxLost = 1
  MaxSnapshotLost = 1
  MaxReordered = 2
  MaxInFlight = 1
INVARIANTS
  TypeOK
  ClientBookIsReal
PROPERTIES
  ClientGoesBackOnlyIfLate
  EveryUpdateTakesEffect
