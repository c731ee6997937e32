\* A reader without common topics.
SPECIFICATION Spec
CONSTANTS
  ann = ann
  bob = bob
  cyd = cyd
  dan = dan
  p1 = p1
  p2 = p2
  Torn = Torn
  Users <- MCUsers
  Authors <- MCTwoAuthors
  Topics <- MCTopics
  Procs <- MCOneProc
  StartGood = 10
  MaxVotes = 14
  Kinds = {"announce", "save_topics", "dispatch"}
  MaxWeb = 2
  MaxMail = 2
  MaxLost = 0
  MaxClock = 0
  MaxKills = 0
  MaxFaults = 0
INVARIANT UnsubscribedGetNoMail
