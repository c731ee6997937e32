\* Two callers of lock find one stale lock; the slower one finds the .STALE file gone.
SPECIFICATION Spec
CONSTANTS
  p1 = p1
  p2 = p2
  p3 = p3
  Procs <- MCThree
  Programs <- MCPrograms
  Retries = 0
  Waits = FALSE
  MaxDepth = 2
  MaxKills = 1
  MaxExits = 0
PROPERTY AssertsStale
