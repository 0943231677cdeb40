CONSTANTS
  t1 = t1
  t2 = t2
  Nobody = Nobody
  Apps <- MCApps
  Calls <- MCCalls
  MaxThreads = 1
  NArenas = 2
  Resets = {1}
  Failing = {}
  Retry = FALSE
SPECIFICATION LiveSpec
PROPERTIES DisableReturns
CHECK_DEADLOCK FALSE
