SPECIFICATION FairSpec
CONSTANTS
  j1 = j1
  j2 = j2
  mail = mail
  s1 = s1
  Jobs = {j1, j2}
  Types = {mail}
  TypeOf <- MCTypeOf
  MaxRetries = 2
  QueueSize = 1
  Workers = 2
  MaxStarts = 2
  Stoppers = {s1}
CHECK_DEADLOCK FALSE
INVARIANT OnePlace
PROPERTIES StopWaitsForWorkers FailsForKnownCauses ImplementsJobLife RunnerProgress
