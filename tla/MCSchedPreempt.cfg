SPECIFICATION Spec
CONSTANTS
  Cpus = {c1}
  Tids = {t1, t2}
  Idle = Idle
  TargetEntries = 2
  RunnableEntries = 2
  RingSlots = 1
  Noise = 0
  MaxTime = 3
SYMMETRY Symmetry
INVARIANT PreemptedIsRecorded
