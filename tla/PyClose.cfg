\* Three threads that use and close one object.
SPECIFICATION Spec
CONSTANTS
  Main = t1
  Threads = {t1, t2, t3}
  MaxFrees = 2
SYMMETRY Symmetry
INVARIANTS
  SafeUnlessOverlapped
  ClosedHoldsNothing
