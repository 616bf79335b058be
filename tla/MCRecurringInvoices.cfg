\* Two invoices, two workers, a death or a lost answer; one edit.
CONSTANTS
    Keep = Keep
    Workers = {w1, w2}
    Changes <- MCChanges
    Start = 1
    Frequency = 1
    MaxInvoices = 2
    MaxDay = 2
    MaxEdits = 1
    MaxFails = 1
SPECIFICATION MCSpec
INVARIANTS OncePerPeriod FollowUpKept MoneyTakenOnce
PROPERTIES ChargeIsCredited DueIsGenerated
