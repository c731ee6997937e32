\* Two requests; a kill and a failed write may happen, under fair scheduling.
SPECIFICATION FairSpec
CONSTANTS
  r1 = r1
  r2 = r2
  known = known
  unknown = unknown
  u1 = u1
  u2 = u2
  Torn = Torn
  Requests <- MCRequests
  Ids <- MCIds
  Events <- MCEventIds
  Endpoints <- MCEndpoints
  MaxKills = 1
  MaxFaults = 1
INVARIANTS
  MutualExclusion
  NoLostRsvp
  OrphanedOnlyByKill
PROPERTIES
  ImplementsAtomicRsvp
  EveryRequestEnds
