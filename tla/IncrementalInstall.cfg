CONSTANTS
  lib = lib
  dex = dex
  Process = {p1, p2}
  LibFile = {lib}
  DexFile = {dex}
  Configuration <- Configurations
  Content = {a, b}
  MaxInstalls = 2
  Absent = Absent
  Partial = Partial
  Now = Now
  Empty = Empty
  None = None
SPECIFICATION Spec
SYMMETRY Symmetry
INVARIANTS
  FirstRunWaits
  InstallComplete
  LoadsTheInstall
  CopiesTrue
CHECK_DEADLOCK FALSE
