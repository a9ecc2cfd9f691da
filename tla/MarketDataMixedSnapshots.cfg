\* Two datagrams of the snapshot stream are lost during one recovery.
SPECIFICATION Spec
CONSTANTS
  MAX_TICKERS = 1
  OrderIds = {1, 2}
  Contents <- MCContents
  MaxUpdates = 3
  MaxLost = 1
  MaxSnapshotLost = 2
  MaxReordered = 0
  MaxInFlight = 2
INVARIANT ClientBookIsReal
