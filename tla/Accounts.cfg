\* Two users and two shared groups, three halts or syncs, two crashes.
SPECIFICATION Spec
CONSTANTS
  ann = ann
  anna = anna
  Main = Main
  Extra = Extra
  Bad = Bad
  Names <- MCNames
  Begins <- MCBegins
  Within <- MCWithin
  MaxHash = 1
  MaxHalts = 3
  MaxCrashes = 2
\* A machine that is up may stay up.
CHECK_DEADLOCK FALSE
PROPERTIES
  AccountsSurvive
  WholeAccounts
