CONSTANTS
  Path = {1, 2}
  Content = {x, y}
  Strings <- MCStrings
  Output = {o1, o2}
  Missing = Missing
  Partial = Partial
SPECIFICATION Spec
SYMMETRY Symmetry
INVARIANTS
  RecordTrue
  FreshOutputs
  NothingTwice
  ChangesTrue
