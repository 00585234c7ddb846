\* Calls of a thread during up to two commands and the exit of the program.
SPECIFICATION LiveSpec
CONSTANTS
  Threads = {t1}
  Holder = holder
  Worker = worker
  MaxCalls = 3
  MaxCommands = 2
  StartEnabled = TRUE
  Fails = TRUE
INVARIANTS TypeOK OnMeansTracing OffMeansQuiet NothingLost FewLeftBehind
PROPERTIES LibraryUnloads
CHECK_DEADLOCK FALSE
