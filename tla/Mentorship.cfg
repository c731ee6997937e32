\* A moderator, a member and an applicant; one mentee each; five web requests by two processes.
SPECIFICATION Spec
CONSTANTS
  ann = ann
  bob = bob
  cyd = cyd
  p1 = p1
  p2 = p2
  NoUser = NoUser
  Users <- MCUsers
  Founders <- MCFounders
  Outsiders <- MCOutsiders
  Sessions <- MCSessions
  MaxMentees = 1
  MaxStarts = 5
SYMMETRY Symmetry
INVARIANTS
  ModeratorsLead
  MenteesAreLed
  LimitIsKept
  AnswerStands
PROPERTY LedLeadersAsked
\* The processes rest when the web requests are used up.
CHECK_DEADLOCK FALSE
