CONSTANTS
    i1 = i1
    i2 = i2
    p1 = p1
    p2 = p2
    p3 = p3
    bank = bank
    cash = cash
    l1 = l1
    w1 = w1
    w2 = w2
    NoTxn = NoTxn
    NoInvoice = NoInvoice
    NoDocument = NoDocument
    Invoice <- MCInvoice
    Journal = {bank}
    StatementLine = {l1}
    paymentIds <- MCPaymentIds
    Drafted = {p1}
    journalOf <- MCJournalOf
    amountOf <- MCAmountOf
    lineTotal <- MCLineTotal
    Amounts = {1}
    CarefulEdits = TRUE
    OneRequestPerDocument = TRUE
    MaxNumber = 2
    Row <- InvoicingRows
    Worker <- MCWorker
SYMMETRY WorkerSymmetry
SPECIFICATION Spec
INVARIANTS DebtNeverUnderstated NeverOverApplied MoneyMovesOnce
PROPERTY NumbersKept
