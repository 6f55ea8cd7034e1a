SPECIFICATION Spec
CONSTANTS
  e1 = e1
  e2 = e2
  Emails = {e1, e2}
  Scheduled = {e1}
  SendAt <- AtEnd
  Priority <- Urgent
  MaxRetries = 2
  Deployments <- TwoWorkers
  MaxWorkers = 2
  MaxStarts = 2
  MaxTime = 1
CHECK_DEADLOCK FALSE
INVARIANT WorkersDeliverOnce
