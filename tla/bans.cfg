SPECIFICATION Spec
CONSTANTS
  u1 = u1  a = a  b = b
  Users = {u1}
  Sessions = {a, b}
  Owner <- AllOf1
  Reportable <- OnlyOne  Connecting = {b}  Perishable = {a}
  InitMax = 2  ReportMax = 2
  InitWindow = 1  ReportWindow = 4
  BanThreshold = 4  CountWindow = 2  BanTime = 2
  MaxJobs = 2
  MaxReports = 4  MaxTopics = 1
  MaxBans = 1
  MaxFaults = 0
PROPERTIES
  BannedIsTurnedAway
CHECK_DEADLOCK FALSE
