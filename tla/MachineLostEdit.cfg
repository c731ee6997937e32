\* A member saves a file while init halt runs.
SPECIFICATION Spec
CONSTANTS
  diary = diary
  page = page
  key = key
  Files <- MCFiles
  Homes <- MCHomes
  Untracked <- MCNone
  PassedOver <- MCKey
  BootOrder <- MCBootOrder
  HaltOrder <- MCHaltOrder
  Clones <- MCInPlace
  Faulty <- MCNone
  Active = TRUE
  MaxEdits = 2
  MaxCrashes = 0
  MaxFaults = 0
INVARIANT ContentNotLost
