SPECIFICATION Spec
CONSTANTS
  BitsPerWord = 2
  TickCount = 6
  Nodes = {n1, n2, n3}
  Null = Null
  MaxQuantity = 2
  MaxPriority = 3
SYMMETRY NodeSymmetry
INVARIANTS
  BestTickExact
  PrioritiesSorted
PROPERTIES
  ImplementsBookSide
