\* Three requests append four rows; the table may be tampered with once.
CONSTANTS
    send = send  bill = bill  storno = storno
    Requests <- MCRequests
    Entries <- MCEntries
    MaxAttempts = 2
SPECIFICATION MCSpec
INVARIANTS VerifyChainIsExact
PROPERTIES TamperEvident EveryRequestEnds
