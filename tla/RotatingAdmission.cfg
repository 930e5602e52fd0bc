SPECIFICATION FairSpec
CONSTANTS
  RingCapacity = 2
  Pool = 2
  DescriptorCapacity = 2
  ByteCapacity = 2
  MaxFrameBytes = 3
  GenModulus = 3
  Lengths = {0, 1, 2, 3, 4}
  MaxFrames = 5
INVARIANTS
  OnlyDeclaredFaults
  CleanEndIsComplete
  StreamIsContiguous
PROPERTIES
  EndIsReached
  BackpressureIsTransient
