\* Commands, a fork and an exit at any moment.
SPECIFICATION Spec
CONSTANTS
  Parent = parent
  Child = child
  Threads = {t1, t2}
  Servers = {s1, s2}
  Nobody = Nobody
  MaxCommands = 2
  BindFails = TRUE
SYMMETRY Symmetry
INVARIANTS TypeOK  LastCommandWins
