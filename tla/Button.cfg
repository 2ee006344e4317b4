SPECIFICATION Spec
CONSTANTS
  Bounce = 3
  Second = 5
  Noise = 3
  CallbackTime = 3
  UpdateEvery = 11
INVARIANTS OncePerMovement StopIsFinal
PROPERTIES StopReturns
