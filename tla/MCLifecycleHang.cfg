\* The cleanup of the controller without a monitor of its own.
SPECIFICATION DrainingSpec
CONSTANTS
  Ctls = {k1}
  Own = own
  NoPid = NoPid
  NoFile = NoFile
  EbpfStart = FALSE
  CollectorMayDie = FALSE
  Hwm = 1
  MaxSignals = 1
PROPERTIES CleanupCompletes
CHECK_DEADLOCK FALSE
