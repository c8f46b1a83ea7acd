SPECIFICATION FairSpec
CONSTANTS
  a = a  b = b
  Worker <- Workers
  Event = {1}
  Job <- Jobs
  JobOf <- JobOfEvent
  Notified = {1}
  MaxAttempts = 2
  BatchSize = 1
  MaxFaults = 1
  MaxStalls = 1
  NoWorker = NoWorker
  NoEvent = NoEvent
INVARIANTS DispatchedWasEnqueued ClaimIsExclusive DamageIsBounded
PROPERTIES  EventuallySettled
