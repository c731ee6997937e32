\* A closed file below node_modules and a fresh clone.
SPECIFICATION Spec
CONSTANTS
  diary = diary
  page = page
  key = key
  Files <- MCFiles
  Homes <- MCHomes
  Untracked <- MCDiary
  PassedOver <- MCKey
  BootOrder <- MCBootOrder
  HaltOrder <- MCHaltOrder
  Clones <- MCFresh
  Faulty <- MCNone
  Active = FALSE
  MaxEdits = 1
  MaxCrashes = 0
  MaxFaults = 0
INVARIANT RoundTrip
