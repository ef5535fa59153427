SPECIFICATION Spec
CONSTANTS
  Devices <- MCDevices
  Version <- MCVersion
  Tables <- MCTables
  Paths <- MCPaths
  Ipcc <- MCIpcc
  Lab <- MCLab
  LabId <- MCLabId
  Files <- MCFiles
  None = None
INVARIANTS
  TypeOK
  SelectedForThisDevice
  RecordedContent
PROPERTIES
  OnlyCarrierLab
  BuiltPassesCheck
CHECK_DEADLOCK FALSE
