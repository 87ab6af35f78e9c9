SPECIFICATION LiveSpec
INVARIANT TypeOK
PROPERTIES TurnsMade Restarted StopEnds
CHECK_DEADLOCK FALSE
