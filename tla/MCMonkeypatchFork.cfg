\* A fork while another thread holds the lock.
SPECIFICATION LiveSpec
CONSTANTS
  Parent = parent
  Child = child
  Threads = {t1, t2}
  Servers = {s1, s2}
  Nobody = Nobody
  MaxCommands = 1
  BindFails = FALSE
PROPERTIES NeverBlocks
CHECK_DEADLOCK FALSE
