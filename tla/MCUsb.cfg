CONSTANTS
  MaxPlugs = 3
  MaxReports = 2
  MaxFiles = 3
  Lists <- MCLists
  Serial <- MCSerial
  NoSerial = NoSerial
  Supported = 4
SPECIFICATION UsbSpec
INVARIANTS FilesAreHeld NothingStale PathsMatch FirstSerial
PROPERTIES ReadyWhenConnected CallsReturn WholeListEnds
CHECK_DEADLOCK FALSE
