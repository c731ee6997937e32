\* A member closes a file, and the machine crashes.
SPECIFICATION Spec
CONSTANTS
  diary = diary
  page = page
  key = key
  Files <- MCFiles
  Homes <- MCHomes
  Untracked <- MCNone
  PassedOver <- MCKey
  BootOrder <- MCBootOrder
  HaltOrder <- MCHaltOrder
  Clones <- MCInPlace
  Faulty <- MCNone
  Active = FALSE
  MaxEdits = 1
  MaxCrashes = 1
  MaxFaults = 0
INVARIANT ModesAreApplied
