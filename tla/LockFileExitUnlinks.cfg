\* A process exits after it took a stale lock over.
SPECIFICATION Spec
CONSTANTS
  p1 = p1
  p2 = p2
  p3 = p3
  Procs <- MCThree
  Programs <- MCPrograms
  Retries = 0
  Waits = FALSE
  MaxDepth = 2
  MaxKills = 2
  MaxExits = 1
PROPERTY ExitRemovesOwn
