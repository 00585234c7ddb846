\* Every way the file and the map can get out of step; every worker, and every
\* thread the collector knows, is watched in the end.  The leftover thread and
\* the two live ones exceed the map.
SPECIFICATION LiveSpec
CONSTANTS
  Workers = {w}
  Loops = {t1}
  Strangers = {s}
  Entries = 2
  MaxStarts = 2
  MaxSwitches = 2
  WriteFails = TRUE
INVARIANTS TypeOK NoStranger FileIsComplete
PROPERTIES KnownAreWatched WorkersAreWatched
CHECK_DEADLOCK FALSE
