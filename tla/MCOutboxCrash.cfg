\* The same with one worker death.
CONSTANTS
    w1 = w1  w2 = w2  e1 = e1  e2 = e2
    NoEndpoint = NoEndpoint
    NumRows = 1
    Workers = {w1}
    Endpoints = {e1}
    Switched = {}
    BatchSize = 1
    MaxAttempts = 2
    MaxThrows = 1
SPECIFICATION MCSpec
PROPERTY EventuallyClosed
