SPECIFICATION SettingsSpec
CONSTANTS
  Savers = {"gui"}
  Loaders = {"ai"}
  Wifi = "wifi"
  MaxSaves = 1
  MaxFaults = 0
  Width <- MCWidth
  Earlier <- MCNewCard
INVARIANT FilesHaveData
CHECK_DEADLOCK FALSE
