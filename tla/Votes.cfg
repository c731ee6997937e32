\* A profile with up to twelve votes of each kind.
SPECIFICATION Spec
CONSTANT MaxVotes = 12
INVARIANT GradeIsDefined
PROPERTY VotesMoveScore
CHECK_DEADLOCK FALSE
