SPECIFICATION Spec
CONSTANTS
  Chunks = {c1, c2, c3, c4, c5}
  Null = Null
  Root = Root
  TreeShift = 2
  NTreeBins = 4
  WordBits = 5
  LargeSizes = {5, 8, 9, 10, 11, 14, 20, 28}
SYMMETRY Interchangeable
INVARIANTS TreesChecked FindsBestFit
PROPERTY ImplementsQueues
