\* Batches of up to three slices, tracing switched on or off.
SPECIFICATION Spec
CONSTANTS
  r1 = r1
  r2 = r2
  r3 = r3
  Requests = {r1, r2, r3}
  Batches <- MCBatches
  Chunk = 1
  MaxFrames = 3
  MaxSwitches = 1
  None = None
INVARIANTS TypeOK ChargesAreTrue QueueWaitsAreTrue
PROPERTIES WaitsAreReported
CHECK_DEADLOCK FALSE
