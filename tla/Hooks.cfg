SPECIFICATION Spec
CONSTANTS
  Revision = {1, 2, 3}
  Dir = {"Debug", "Release"}
  Args = {"a"}
  Part = {"lib", "usr"}
  Missing = Missing
  Empty = Empty
  LandminesOf <- MCLandminesOf
  UrlOf <- MCUrlOf
INVARIANTS NoStaleOutputs ArgsKept SysrootComplete
