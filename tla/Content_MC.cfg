CONSTANTS
  WCrop = 3
  HCrop = 2
  Qps = {22, 37}
  Stride = 4
  MaxFailures = 1
  TileWidth = 4
  TileHeight = 3
  Sizes <- MCSizes
  MaxRead = 5
  Packets <- MCPackets
  PacketBytes = 2
  Delay = 2
SPECIFICATION ContentSpec
CHECK_DEADLOCK FALSE
INVARIANTS BatchesComplete MergeComplete IndexMatchesPanorama CursorConsistent FramesComplete
PROPERTY CallsEnd
