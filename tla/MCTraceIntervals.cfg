\* Every log of up to three intervals.
SPECIFICATION Spec
CONSTANTS
  MaxTime = 3
  Spans <- MCSpans
  Stages = {0, 1}
  Components = {"model_forward", "sampling"}
  Windows <- MCWindows
  MaxItems = 3
INVARIANTS MergedIsUnion UncoveredIsRest OsDelayIsWallTime LanesAreMinimal WallTimeIsDivided
CHECK_DEADLOCK FALSE
