\* Two callers share a sentinel and a redis; a command is given up, and may be carried out later.
SPECIFICATION Spec
CONSTANTS
  Callers = {c1, c2}
  MasterNames = {mymaster}
  Hosts = {h1, h2}
  NoHost = NoHost
  Params = {quorum, timeout}
  Values = {v1}
  Default = Default
  AuthPass = AuthPass
  Password = pass
  NoPassword = NoPassword
  Malformed = Malformed
  Nothing = Nothing
  TheRedis = TheRedis
  MaxConfigs = 2
  MaxCalls = 3
  MaxFaults = 1
INVARIANTS
  TypeOK
  AsAsked
PROPERTIES
  ConfigsInOrder
CHECK_DEADLOCK FALSE
