\* gpg fails for one file.
SPECIFICATION Spec
CONSTANTS
  diary = diary
  page = page
  key = key
  Files <- MCFiles
  Homes <- MCHomes
  Untracked <- MCNone
  PassedOver <- MCKey
  BootOrder <- MCBootOrder
  HaltOrder <- MCHaltOrder
  Clones <- MCInPlace
  Faulty <- MCFaultyEncrypt
  Active = FALSE
  MaxEdits = 1
  MaxCrashes = 0
  MaxFaults = 1
INVARIANT PushedPrivateIsEncrypted
