\* Two applications, one session.
SPECIFICATION AppSpec
CONSTANTS
  office = office
  home = home
  ada = ada
  joe = joe
  Addresses <- MCAddresses
  Logins <- MCLogins
  MaxApplications = 2
  MaxSessions = 1
  MaxKills = 0
INVARIANT SavedIsKept
