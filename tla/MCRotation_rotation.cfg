\* Up to six tasks for up to four residents.
SPECIFICATION RotationSpec
CONSTANTS
  Names <- MCNames
  NoTask = 0
  Inputs <- MCInputs
  MaxResidents = 4
INVARIANTS RotationTypeOK RowsSuffice NoTaskShared EveryoneOnce ReachedTasks
CHECK_DEADLOCK FALSE
