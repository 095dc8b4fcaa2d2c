\* Four devices, two runs, each with one of the settings files and maps.
SPECIFICATION RunsSpec
CONSTANTS
    Devices = 4
    Blank = Blank
    NotANumber = NotANumber
    n1 = n1
    n2 = n2
    a1 = a1
    a2 = a2
    r1 = r1
    SettingsFiles <- DataFiles
    MapFiles <- LocationMaps
    Workers = 2
    MaxRuns = 2
    MaxLost = 1
INVARIANTS OneDevicePerSetting FileAccountsForRun DeployedFromItsRow
CHECK_DEADLOCK FALSE
