SPECIFICATION FairSpec
CONSTANTS
  States <- TwoStates
  Notice = Notice
  Nothing = Nothing
  MaxTries = 2
  MaxLaunches = 1
  MaxStates = 1
PROPERTY CloseCompletes
CHECK_DEADLOCK FALSE
