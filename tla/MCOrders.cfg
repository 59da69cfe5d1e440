SPECIFICATION Spec
CONSTANTS
    so = so
    po = po
    shared = shared
    both = both
    s1 = s1
    s2 = s2
    p1 = p1
    x1 = x1
    w1 = w1
    w2 = w2
    Order = {so, po, shared, both}
    Line = {s1, s2, p1, x1}
    Worker = {w1, w2}
    NoTxn = NoTxn
    NoOrder = NoOrder
    NoLine = NoLine
    Row <- OrderRows
    kind <- MCKind
    orderOf <- MCOrderOf
    Typed <- MCTyped
    Sent <- MCSent
    Amounts = {12}
    Micros = 10
    MaxStored = 10
    MaxInvoices <- MCMaxInvoices
    Exclusive <- MCExclusive
    CarefulEdits = TRUE
    ThroughForm <- MCExclusive
SYMMETRY WorkerSymmetry
CONSTRAINT OneOrder
CHECK_DEADLOCK FALSE
INVARIANTS
    LineAmountsAgree
    OneDelivery
    InvoicesBalance
    
