SPECIFICATION SettingsSpec
CONSTANTS
  name = name
  hours = hours
  holidays = holidays
  r1 = r1
  r2 = r2
  r3 = r3
  Field <- MCField
  Setting <- MCSetting
  Save <- MCSave
  Patch <- MCPatch
  Now = {1, 2, 3}
  Hours = hours
  Holidays = holidays
  Cleared = "cleared"
  Gone = Gone
  NoVersion = NoVersion
INVARIANT VersionNamesContent
PROPERTY SavesWhatWasShown
PROPERTY ImplementsRegister
