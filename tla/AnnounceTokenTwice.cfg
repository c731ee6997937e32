\* Two clicks on one link overlap.
SPECIFICATION Spec
CONSTANTS
  ann = ann
  bob = bob
  cyd = cyd
  dan = dan
  p1 = p1
  p2 = p2
  Torn = Torn
  Users <- MCUsers
  Authors <- MCOneAuthor
  Topics <- MCGeneral
  Procs <- MCTwoProcs
  StartGood = 10
  MaxVotes = 14
  Kinds = {"announce", "vote", "dispatch"}
  MaxWeb = 3
  MaxMail = 1
  MaxLost = 0
  MaxClock = 0
  MaxKills = 0
  MaxFaults = 0
INVARIANT TokenVotesOnce
