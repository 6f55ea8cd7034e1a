SPECIFICATION FairSpec
CONSTANTS
  Parts = {"cache"}
  r1 = r1
  r2 = r2
  k1 = k1
  k2 = k2
  a1 = a1
  a2 = a2
  a3 = a3
  Torn = Torn
  NoEvent = NoEvent
  AEvents = {a1, a2, a3}
  AWorkers = {r1, r2}
  BufferSize = 1
  BatchSize = 2
  FileMax = 1
  Rotation = 2
  WriteFaults = {"fail", "torn", "open", "rename"}
  MaxWriteFaults = 1
  Execs = {a1, a2}
  MaxPerJob = 1
  MaxRedisFaults = 1
  NoId = NoId
  Keep = Keep
  NoState = NoState
  Requests = {r1, r2}
  Keys = {k1}
  MaxAge = 1
  MaxIds = 3
  MaxEvents = 6
  Callbacks = {r1, r2}
  StateDuration = 1
  MaxLogins = 2
  MaxCallbacks = 3
  MaxMinutes = 2
  Callers = {r1, r2}
  MaxTokens = 3
  MaxStoreFaults = 1
  Lifetime = 1
  Clients = {k1}
  Unit = 2
  Rate = 1
  Burst = 2
  IdleTTL = 4
  MaxTicks = 7
  Readers = {r1}
  CKeys = {k1}
  CacheTTL = 1
  Slow = 1
  MaxTime = 1
  MaxVersion = 1
  FlagKeys = {k1, k2}
  Buckets = 2
  MaxFlagOps = 4
  MaxRules = 2
  MaxVariants = 3
  Weights <- SmallWeights
  None = None
  Process = Process
  Runs = {a1, a2, a3}
  Instances = {r1, r2, k1}
  InstanceOf <- OneEach
  Scheduled = {a1, a2}
  Waiters = {a3}
  TTL = 2
  MaxSignIns = 2
  Senders = {r1, r2}
  Devices = {k1}
  Blank = Blank
  Nil = Nil
  NoToken = NoToken
  PushLifetime = 3
  RefreshAge = 2
  Margin = 2
  HTTPTimeout = 1
  MaxSends = 2
  MaxPushTime = 4
  MaxItems = 2
  MinutesPerHour = 2
  HoursPerDay = 2
  DaysPerWeek = 2
  DaysIn <- ShortYear
  MaxOffset = 2
  SearchYears = 2
  Zones <- SomeZones
CHECK_DEADLOCK FALSE
PROPERTY CacheCloseReturns
