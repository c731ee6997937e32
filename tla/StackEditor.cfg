\* Four names, two milliseconds, two saves, one answer under way, two edits.
SPECIFICATION Spec
CONSTANTS
  Names <- MCNames
  Inherited <- MCInherited
  Blank <- MCBlank
  Drafts <- MCDrafts
  Broken = Broken
  MaxTime = 2
  MaxWrites = 2
  MaxLoads = 1
  MaxEdits = 2
\* A page without handlers stays as it is.
CHECK_DEADLOCK FALSE
INVARIANTS
  Navigable
  KeysFollowMode
  StampProtects
