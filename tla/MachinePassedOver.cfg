\* Nothing fails: a file that encryptfs passes over.
SPECIFICATION Spec
CONSTANTS
  diary = diary
  page = page
  key = key
  Files <- MCFiles
  Homes <- MCHomes
  Untracked <- MCNone
  PassedOver <- MCKey
  BootOrder <- MCBootOrder
  HaltOrder <- MCHaltOrder
  Clones <- MCInPlace
  Faulty <- MCNone
  Active = FALSE
  MaxEdits = 1
  MaxCrashes = 0
  MaxFaults = 0
INVARIANT PrivateIsNeverPushedPlain
