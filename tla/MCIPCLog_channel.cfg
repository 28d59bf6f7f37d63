SPECIFICATION FairSpec
CONSTANTS
  States <- TwoStates
  Notice = Notice
  Nothing = Nothing
  MaxTries = 2
  MaxLaunches = 2
  MaxStates = 2
INVARIANTS TypeOK OneHook NoLateWrite GameAfterAllReady
PROPERTIES MailboxSpec Delivered GameStarts
CHECK_DEADLOCK FALSE
