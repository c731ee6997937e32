\* Two callers of lockSync find the same stale lock.
SPECIFICATION Spec
CONSTANTS
  p1 = p1
  p2 = p2
  p3 = p3
  Procs <- MCThree
  Programs <- MCSync
  Retries = 0
  Waits = FALSE
  MaxDepth = 2
  MaxKills = 1
  MaxExits = 0
INVARIANT HoldersHaveIt
