\* Two processes overlap; one is killed and one write fails, at any step.
SPECIFICATION Spec
CONSTANTS
  ann = ann
  bob = bob
  cyd = cyd
  dan = dan
  p1 = p1
  p2 = p2
  Torn = Torn
  Users <- MCFewUsers
  Authors <- MCOneAuthor
  Topics <- MCGeneral
  Procs <- MCTwoProcs
  StartGood = 10
  MaxVotes = 14
  Kinds = {"announce", "save_topics", "vote", "dispatch"}
  MaxWeb = 3
  MaxMail = 1
  MaxLost = 1
  MaxClock = 1
  MaxKills = 1
  MaxFaults = 1
SYMMETRY MCSymmetry
INVARIANTS
  VotesConserved
  SpoolMatchesAnnouncements
  CoolDownIsKept
