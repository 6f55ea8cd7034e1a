SPECIFICATION BackgroundSpec
CONSTANTS
  Parts = {"timeout"}
  t1 = t1
  t2 = t2
  t3 = t3
  t4 = t4
  Targets = {t1, t2}
  MaxRetries = 1
  Concurrency = 1
  MaxWrites = 2
  MaxAttempts = 3
  InitialDelay = 1
  Multiplier = 2
  MaxDelay = 3
  MaxRetryAfter = 2
  Tasks = {t1, t2, t3, t4}
  Submitted = {t1, t2}
  Panicking = {t2, t3}
  Workers = 2
  Callers = {t1, t2, t3}
  FailureThreshold = 2
  SuccessThreshold = 2
  MaxHalfOpenRequests = 1
  Timeout = 2
CHECK_DEADLOCK FALSE
INVARIANT PanicIsReported
