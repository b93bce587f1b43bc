CONSTANTS
  N = 7
  Skew = 5
  VCap = 3
  ACap = 2
  StarveLow = 12
  PcmHigh = 0
  PrePackets = 1
  RebufPackets = 2
  LowPackets = 0
  Settle = 1
  Lead = 0
  Network = TRUE
  RunUp = 2
  Targets <- MCTargets
  MaxSeeks = 1
SPECIFICATION Spec
INVARIANT QueuesBounded
PROPERTIES PlaysToTheEnd HoldEnds SeekTaken
