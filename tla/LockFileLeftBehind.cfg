\* A takeover that fails because the lock became fresh meanwhile.
SPECIFICATION Spec
CONSTANTS
  p1 = p1
  p2 = p2
  p3 = p3
  Procs <- MCThree
  Programs <- MCPrograms
  Retries = 0
  Waits = FALSE
  MaxDepth = 2
  MaxKills = 1
  MaxExits = 0
INVARIANT FailureCleansUp
