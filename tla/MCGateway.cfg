CONSTANTS
  Devices = {d1, d2}
  Camera = d1
  Handlers = {h1, h2}
  Ops = {o1, o2}
  Batch = 2
  Reach = 20
  MaxObjs = 2
  MaxCalls = 2
SPECIFICATION Spec
CONSTRAINT Bounds
SYMMETRY Symmetry
INVARIANTS
  InvitedMeansCalled
  CallsAreKept
  RoutedIsServed
CHECK_DEADLOCK FALSE
