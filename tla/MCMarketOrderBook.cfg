\* Four prices and four orders: rings of one to four elements, a level put
\* first, last and between two others, an order removed from anywhere.
SPECIFICATION Spec
CONSTANTS
  OrderIds = {o1, o2, o3, o4}
  Prices = {0, 1, 2, 3}
  Quantities = {1, 2}
  None = None
SYMMETRY IdSymmetry
INVARIANT LevelsSorted
PROPERTY ImplementsBook
