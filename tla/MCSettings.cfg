SPECIFICATION SettingsFairSpec
CONSTANTS
  Savers = {"gui"}
  Loaders = {"gui"}
  Wifi = "wifi"
  MaxSaves = 2
  MaxFaults = 2
  Width <- MCWidth
  Earlier <- MCEarlier
INVARIANTS ReportedIsKept OnlyTornForgets IniWellFormed AddressLoads
PROPERTIES Connects
CHECK_DEADLOCK FALSE
