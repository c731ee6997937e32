\* Two people, three milliseconds, one save and what was under way, one kill or failed write.
SPECIFICATION FairSpec
CONSTANTS
  bob = bob
  cyd = cyd
  Users <- MCUsers
  Before = Before
  Absent = Absent
  Torn = Torn
  MaxTime = 3
  MaxWrites = 1
  MaxFaults = 1
INVARIANTS
  LostOnlyInWindow
  ReviewedIsProtected
PROPERTY ReviewLeadsToSave
