SPECIFICATION Spec
CONSTANTS
  u1 = u1  a = a  b = b
  Users = {u1}
  Sessions = {a, b}
  Owner <- AllOf1
  Reportable <- OneAndPreSession
  Connecting = {a}  Perishable = {a}
  InitMax = 1  ReportMax = 2
  InitWindow = 1  ReportWindow = 3
  BanThreshold = 4  CountWindow = 1  BanTime = 2
  MaxJobs = 2
  MaxReports = 4  MaxTopics = 1
  MaxBans = 1
  MaxFaults = 1
INVARIANTS
  TypeOK
  FastPathSeesBans
  BansNameTheReported
  OnlyFaultsMakeEndless
  LoneReporterCannotBan
CHECK_DEADLOCK FALSE
