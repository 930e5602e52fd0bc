SPECIFICATION FairSpec
CONSTANTS
  Capacity = 2
  Laps = 4
  Values = {a, b}
  Uninit = Uninit
INVARIANTS
  SlotAccessSound
  ExactDrop
PROPERTIES
  ImplementsChannel
  FullIsTransient
