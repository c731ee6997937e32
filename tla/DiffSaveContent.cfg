\* Two people, one save each, no fault.
SPECIFICATION Spec
CONSTANTS
  bob = bob
  cyd = cyd
  Users <- MCUsers
  Before = Before
  Absent = Absent
  Torn = Torn
  MaxTime = 4
  MaxWrites = 1
  MaxFaults = 0
INVARIANT ContentIsCompared
