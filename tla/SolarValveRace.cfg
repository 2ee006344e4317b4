SPECIFICATION Spec
CONSTANTS
  Callers = {c1, c2}
  NoCaller = NoCaller
  Timeout = 2
  MaxCalls = 3
INVARIANTS FullTravel
