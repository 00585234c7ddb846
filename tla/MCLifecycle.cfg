\* A session and two trace_ctl commands that may overlap anything.
SPECIFICATION LiveSpec
CONSTANTS
  Ctls = {k1, k2}
  Own = own
  NoPid = NoPid
  NoFile = NoFile
  EbpfStart = TRUE
  CollectorMayDie = TRUE
  Hwm = 1
  MaxSignals = 1
INVARIANTS TypeOK CleanExit TargetBeforeCollector NoOrphan OneMonitor
PROPERTIES CtlFinishes InterruptEndsTarget
CHECK_DEADLOCK FALSE
