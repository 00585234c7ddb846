\* Two requests, two batches under way, two events lost.
SPECIFICATION Spec
CONSTANTS
  Requests = {q1, q2}
  Depth = 2
  MaxSteps = 8
  MaxLost = 2
  None = None
SYMMETRY Symmetry
INVARIANTS TraceIsExact DispatchesAreTrue WaitsBetweenDispatches
CHECK_DEADLOCK FALSE
