\* A stack whose card knows itself by the name of another.
SPECIFICATION Spec
CONSTANTS
  Names <- MCNames
  Inherited <- MCInherited
  Blank <- MCBlank
  Drafts <- MCDrafts
  Broken = Broken
  MaxTime = 1
  MaxWrites = 0
  MaxLoads = 0
  MaxEdits = 2
\* A page without handlers stays as it is.
CHECK_DEADLOCK FALSE
INVARIANT CardIsThere
