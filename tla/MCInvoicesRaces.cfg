\* Two handlers that race each other on one invoice, and one charge delivered twice.
CONSTANTS
    h1 = h1  h2 = h2  c1 = c1  c2 = c2  NoCharge = NoCharge
    Handlers = {h1, h2}
    Charges = {c1}
    Ops = {"send", "update", "void", "pay", "checkout", "lateFee", "tax"}
    Subtotals = {2}
    Taxes = {0}
    Amounts = {1}
    Terms = 0
    LateFeeRate = 1
    MaxDrafts = 1
    MaxVoidable = 1
    MaxManual = 2
    MaxDay = 1
    MaxFails = 1
SPECIFICATION MCSpec
SYMMETRY Symmetric
INVARIANTS CreditedOnce OneStorno Journalled
