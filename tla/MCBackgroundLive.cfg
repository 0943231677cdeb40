CONSTANTS
  t1 = t1
  t2 = t2
  Nobody = Nobody
  Apps <- MCApps
  Calls <- MCCalls
  MaxThreads = 2
  NArenas = 3
  Resets = {1}
  Failing = {}
  Retry = FALSE
SPECIFICATION LiveSpec
PROPERTIES DisableReturnsUnpaused SlotsStaffed
CHECK_DEADLOCK FALSE
