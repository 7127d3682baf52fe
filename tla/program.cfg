SPECIFICATION ProgramSpec
CONSTANTS
  FirstDates <- MCFirstDates
  MaxDays = 430
  HostName = {"h", "i"}
  VolumeName = {"v"}
  Word <- MCWord
  Subjects <- MCSubjects
  Reading <- MCReading
  Preset <- MCPreset
  Long = {"long"}
  Spaced = {"two words"}
  MaxLines = 4
  MaxFiles = 3
  Process = {"p", "q"}
  Paths <- MCPaths
  Disk = {"d1", "d2"}
  Absent = absent
  Site <- MCSite
  Request <- MCRequest
  DeviceNames <- MCDeviceNames
  KnownVolumes <- MCKnownVolumes
  FirstRows <- MCFirstRows
  AtFirst = 2
  MaxAge = 1
  DaySeconds = 2
  ReportAge = 1
  Since = 2
  LastSecond = 4
  MaxChanges = 2
  Shapes <- MCShapes
  Usual = 2
  Lengths = {8, 30}
INVARIANTS
  
  
  DumpReadsBack
  OneWriter
  DevicesStay
  TidyEnd
  
  PruneTableExact
  SummarySet
CHECK_DEADLOCK FALSE
