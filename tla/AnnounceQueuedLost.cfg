\* Two authors post at the same time.
SPECIFICATION Spec
CONSTANTS
  ann = ann
  bob = bob
  cyd = cyd
  dan = dan
  p1 = p1
  p2 = p2
  Torn = Torn
  Users <- MCUsers
  Authors <- MCTwoAuthors
  Topics <- MCGeneral
  Procs <- MCTwoProcs
  StartGood = 10
  MaxVotes = 14
  Kinds = {"announce"}
  MaxWeb = 2
  MaxMail = 0
  MaxLost = 0
  MaxClock = 0
  MaxKills = 0
  MaxFaults = 0
INVARIANT QueuedIsKept
