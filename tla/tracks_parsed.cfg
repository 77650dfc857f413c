SPECIFICATION Spec
CONSTANTS
  webcam = webcam
  side = side
  opus = opus
  h264 = h264
  vp8 = vp8
  Streams = {webcam}
  Mids = {side}
  Keys = {opus, h264, vp8}
  s1 = s1
  s2 = s2
  Ssrcs = {s1, s2}
  PtFloor = 96
  PtCeiling = 98
PROPERTY DrawnIsFreshOfParsed
SYMMETRY Interchangeable
CHECK_DEADLOCK FALSE
