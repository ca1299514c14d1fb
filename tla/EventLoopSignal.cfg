SPECIFICATION LoopSpec
CONSTANTS
  Programs = {{"fd", "signal"}}
  MaxTimers = 1
  MaxTimerId = 2
  MaxDelay = 1
  MaxSleep = 1
  Fds = {f1}
  Signals = {s1}
  Rejected = {p1}
  MaxJobs = 0
  MaxSignals = 1
PROPERTIES
  SignalsHandled
CHECK_DEADLOCK FALSE
