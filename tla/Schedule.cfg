SPECIFICATION Spec
CONSTANTS
  Day = 8
  Zones <- WestAndEast
  Schedules <- AtMostTwo
INVARIANTS TypeOK RunsItsTime
