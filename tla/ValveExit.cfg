SPECIFICATION ProcessSpec
CONSTANTS
  Callers = {c1, c2}
  NoCaller = NoCaller
  Timeout = 2
  MaxCalls = 3
INVARIANTS ShutsOff
CHECK_DEADLOCK FALSE
