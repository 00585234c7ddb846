\* An event-loop thread whose only announcement is lost.
SPECIFICATION LiveSpec
CONSTANTS
  Workers = {w}
  Loops = {t1}
  Strangers = {s}
  Entries = 2
  MaxStarts = 2
  MaxSwitches = 2
  WriteFails = FALSE
PROPERTIES RegisteredAreWatched
CHECK_DEADLOCK FALSE
