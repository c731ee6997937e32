\* Processes do not overlap and none fails; cron jobs recur.
SPECIFICATION FairSpec
CONSTANTS
  ann = ann
  bob = bob
  cyd = cyd
  dan = dan
  p1 = p1
  p2 = p2
  Torn = Torn
  Users <- MCUsers
  Authors <- MCOneAuthor
  Topics <- MCGeneral
  Procs <- MCOneProc
  StartGood = 10
  MaxVotes = 14
  Kinds = {"vote", "announce", "save_topics", "view", "unknown", "dispatch"}
  MaxWeb = 3
  MaxMail = 20
  MaxLost = 1
  MaxClock = 1
  MaxKills = 0
  MaxFaults = 0
INVARIANTS
  TokenVotesOnce
  NoDuplicateMail
  TotalsCountTries
PROPERTY QueueDrains
