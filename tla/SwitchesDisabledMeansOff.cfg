SPECIFICATION Spec
CONSTANTS
  Starts <- FirstSettings
  Ends = {"signalled", "deaf", "disabling", "ended"}
  MaxRequests = 1
PROPERTIES DisabledMeansOff
CHECK_DEADLOCK FALSE
