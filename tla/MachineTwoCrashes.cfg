\* A crash in a halt leaves a file encrypted that was never committed; a crash in the boot
\* after it cuts that file while it is decrypted.
SPECIFICATION Spec
CONSTANTS
  diary = diary
  page = page
  key = key
  Files <- MCFiles
  Homes <- MCHomes
  Untracked <- MCNone
  PassedOver <- MCKey
  BootOrder <- MCBootOrder
  HaltOrder <- MCHaltOrder
  Clones <- MCInPlace
  Faulty <- MCNone
  Active = FALSE
  MaxEdits = 2
  MaxCrashes = 2
  MaxFaults = 0
INVARIANT ContentNotLost
