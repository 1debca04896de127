CONSTANTS
  Tiles = {t1}
  Capacity = 2
  MaxFrames <- TwoFrames
  MaxSegment = 2
  DecodeEnable = TRUE
  EndFrame = EndFrame
  EndError = EndError
  Nil = Nil
SPECIFICATION FairSpec
CHECK_DEADLOCK FALSE
PROPERTY ReleaseReturns
