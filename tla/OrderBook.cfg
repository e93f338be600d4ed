SPECIFICATION NativeSpec
CONSTANTS
  Ids = {1, 2}
  Nodes = {n1, n2, n3}
  RawPrices = {1, 4}
  PriceScale = 3
  Quantities = {0, 1, 2}
  UniqueIds = {2}
  Sizes = {1, 2, 3}
INVARIANTS
  BookConsistent
  MetaTracksBook
PROPERTY ImplementsLimitBook
SYMMETRY NodeSymmetry
