SPECIFICATION Spec
CONSTANTS
  Settings <- TwoPools
  Weather <- AnyWeather
  StartCap = 7
  StopCap = 18
INVARIANTS DailyRun RunsEnd SolarDisabledObeyed
PROPERTIES NoShortRuns Reenabled
