SPECIFICATION Spec
CONSTANTS
  Callers = {c1, c2}
  NoCaller = NoCaller
  Timeout = 2
  MaxCalls = 3
INVARIANTS Interlock OffByTimeout LedShowsStatus
PROPERTIES StopsOnlyWhenDue MotorStops
