\* One event, two endpoints (one switched off and on), two workers, one death.
CONSTANTS
    w1 = w1  w2 = w2  e1 = e1  e2 = e2
    NoEndpoint = NoEndpoint
    NumRows = 1
    Workers = {w1, w2}
    Endpoints = {e1, e2}
    Switched = {e2}
    BatchSize = 1
    MaxAttempts = 2
    MaxThrows = 1
SPECIFICATION MCSpec
INVARIANTS ExclusiveClaim DeliveredReachedAll StaleBatchCost
PROPERTIES NoRedelivery ClosedUnlessWorkerDies
