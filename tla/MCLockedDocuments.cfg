\* One bill, one expense with up to two receipts, three handlers.
CONSTANTS
    b1 = b1  e1 = e1  h1 = h1  h2 = h2  h3 = h3
    Bills = {b1}
    Expenses = {e1}
    Handlers = {h1, h2, h3}
    MaxFiles = 2
    MaxFails = 1
SYMMETRY Symmetric
SPECIFICATION MCSpec
INVARIANTS VouchedReceipt ExpenseBooked BillJournal
