SPECIFICATION Spec
CONSTANTS
  Starts <- FirstSettings
  Ends = {"running", "signalled"}
  MaxRequests = 1
INVARIANTS TypeOK RelaysMatchState AccessoriesHonest StaysOff OffAfterStop
PROPERTIES ManualHolds OffNeverStarts ImplementsPanel DisabledObeyed ShutdownEnds
CHECK_DEADLOCK FALSE
