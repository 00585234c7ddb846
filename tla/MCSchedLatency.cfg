SPECIFICATION Spec
CONSTANTS
  Cpus = {c1, c2}
  Tids = {t1, t2, t3}
  Idle = Idle
  TargetEntries = 2
  RunnableEntries = 2
  RingSlots = 2
  Noise = 0
  MaxTime = 3
SYMMETRY Symmetry
INVARIANTS TypeOK RunnableHasRoom RecordsMatchWaits EventsDisjoint
PROPERTIES ReportsAreTrue NoWaitMissed ReportsToReader
