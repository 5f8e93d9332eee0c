SPECIFICATION FairSpec
CONSTANTS
  Capacity = 4
  Values = {a, b}
  Torn = Torn
  MaxWrites = 6
INVARIANTS
  UnreadIntact
  ReleasedSlotIntact
  SizeNeverUnderflows
PROPERTIES
  ImplementsFIFO
  SpinEnds
  EveryItemTaken
