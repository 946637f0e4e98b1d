\* Up to four frames of ten kinds, cut after any line.
CONSTANTS
  Frames <- FrameKinds
  maxFrameBytes = 4
  MaxFrames = 4
SPECIFICATION Spec
INVARIANTS
  FrameBounded
  HandedAsSent
  HookOnFirstFrame
PROPERTIES
  KeepsContract
