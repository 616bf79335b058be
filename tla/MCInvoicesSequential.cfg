\* One handler at a time: a Storno of a Storno, redelivered charges.
CONSTANTS
    h1 = h1  h2 = h2  c1 = c1  c2 = c2  NoCharge = NoCharge
    Handlers = {h1}
    Charges = {c1, c2}
    Ops = {"send", "update", "void", "pay", "checkout", "lateFee"}
    Subtotals = {2}
    Taxes = {0}
    Amounts = {1, 2}
    Terms = 0
    LateFeeRate = 1
    MaxDrafts = 1
    MaxVoidable = 2
    MaxManual = 1
    MaxDay = 2
    MaxFails = 1
SPECIFICATION MCSpec
INVARIANTS BooksAgree FeeOncePerDay
PROPERTIES  ChargeIsCredited
