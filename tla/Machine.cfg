\* Members work between synchronizations; a crash at any step, and failures of gpg -d
\* or setfacl; fair scripts.
SPECIFICATION FairSpec
CONSTANTS
  diary = diary
  page = page
  key = key
  Files <- MCFiles
  Homes <- MCHomes
  Untracked <- MCNone
  PassedOver <- MCKey
  BootOrder <- MCBootOrder
  HaltOrder <- MCHaltOrder
  Clones <- MCBoth
  Faulty <- MCFaultyDecrypt
  Active = FALSE
  MaxEdits = 3
  MaxCrashes = 1
  MaxFaults = 1
INVARIANTS
  RoundTrip
  NeverExposed
  PushedPrivateIsEncrypted
  ContentNotLost
PROPERTIES
  DecryptedOnlyIfPrivate
  SyncCompletes
