SPECIFICATION Spec
CONSTANTS
  RingCapacity = 2
  Pool = 4
  DescriptorCapacity = 1
  ByteCapacity = 1
  MaxFrameBytes = 2
  GenModulus = 5
  Lengths = {1, 2}
  MaxFrames = 3
INVARIANT OversizeIsOnlyAnInputError
