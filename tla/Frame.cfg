SPECIFICATION Spec
CONSTANTS
  Painters = {main, worker}
  Frames = {home, overlay}
  Blank = Blank
  PageLen = 2
  MemLen = 4
  Chunk = 2
INVARIANTS TypeOK
PROPERTIES FrameExact OnlyPageZero DrawsEnd
