\* Two admins ask for a job and one is created; two workers share its event,
\* and two of a death, a Redis failure and a MongoDB failure happen.
SPECIFICATION FairJobSpec
CONSTANTS
  j1 = j1  j2 = j2  w1 = w1  w2 = w2
  Event = {j1, j2}
  Worker = {w1, w2}
  BatchSize = 2
  MaxDeliveries = 3
  Faults = {"crash", "redis", "mongo"}
  MaxFaults = 2
  Batches = 2
  MaxJobs = 1
  StaleAfter = 3
INVARIANTS JobTypeOK OneRunner SucceededMeansSent NothingVanishes NoBatchRepeated
PROPERTIES FinishedStays JobEndsOrIsDead Transport
CHECK_DEADLOCK FALSE
