CONSTANTS
  Tiles = {t1, t2}
  Capacity = 2
  MaxFrames <- ThreeFrames
  MaxSegment = 2
  DecodeEnable = TRUE
  EndFrame = EndFrame
  EndError = EndError
  Nil = Nil
SYMMETRY TileSymmetry
SPECIFICATION Spec
CHECK_DEADLOCK FALSE
INVARIANTS TypeOK StreamOrder EventAssertions EndIsGenuine
PROPERTY ShownInOrder
