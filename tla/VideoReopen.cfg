SPECIFICATION VideoSpec
CONSTANTS
  Sizes = {1}
  Scales = {1}
  Clicks <- MCClicks
  MaxOpens = 2
  ReopensAfterQuit = TRUE
PROPERTY FreesBackend
CHECK_DEADLOCK FALSE
