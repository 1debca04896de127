CONSTANTS
  Tiles = {t1, t2}
  Capacity = 2
  MaxFrames <- OneStreams
  MaxSegment = 2
  DecodeEnable = TRUE
  EndFrame = EndFrame
  EndError = EndError
  Nil = Nil
SPECIFICATION FairSpec
CHECK_DEADLOCK FALSE
PROPERTIES StopNotLost FramesShown ReleaseReturnsIfRoom
