SPECIFICATION FairSpec
CONSTANTS
  Devices = {d1, d2}
  Hosts = {h1, h2}
  Domains = {lan, home}
  Default = lan
  MaxRecords = 2
  MaxOps = 3
  MaxFaults = 1
  MaxCrashes = 1
  Envs = {"tidy", "messy", "busy"}
INVARIANTS  CopiesAgree ForwarderUp
PROPERTIES UserRecordsKept RequestsReturn
CHECK_DEADLOCK FALSE
