\* Two applications, two sessions, one of them killed anywhere.
SPECIFICATION AppSpec
CONSTANTS
  office = office
  home = home
  ada = ada
  joe = joe
  Addresses <- MCAddresses
  Logins <- MCLogins
  MaxApplications = 2
  MaxSessions = 2
  MaxKills = 1
SYMMETRY MCSymmetry
INVARIANTS
  DecidedOnce
  WelcomeOpensAccount
  AcceptedHaveAccounts
PROPERTY LostOnlyByRewrite
