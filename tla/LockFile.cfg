\* Three callers of lock, or of lockSync; one is killed and one exits, fair scheduling.
SPECIFICATION FairSpec
CONSTANTS
  p1 = p1
  p2 = p2
  p3 = p3
  Procs <- MCThree
  Programs <- MCPrograms
  Retries = 1
  Waits = TRUE
  MaxDepth = 3
  MaxKills = 1
  MaxExits = 1
INVARIANTS
  HolderKeepsLock
  OneTakeover
PROPERTY OrphanIsRecovered
