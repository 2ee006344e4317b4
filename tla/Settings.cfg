SPECIFICATION Spec
CONSTANTS
  Handlers = {h1, h2}
  Values = {v0, v1}
  Default = v0
  MaxRequests = 3
  MaxCrashes = 1
INVARIANTS FileIsCurrent CalibrationSaved
PROPERTIES AdjustmentsAgree SettingsSurvive
