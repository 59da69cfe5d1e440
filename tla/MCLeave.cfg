SPECIFICATION Spec
CONSTANTS
    l1 = l1
    l2 = l2
    a = a
    ann = ann
    w1 = w1
    w2 = w2
    Request = {l1, l2}
    Allocation = {a}
    Row = {l1, l2, a}
    Worker = {w1, w2}
    NoTxn = NoTxn
    Closed = Closed
    employee <- MCEmployee
    type <- MCType
    RequiresAllocation <- MCRequires
    WorkDays <- MCWorkDays
    Spans <- MCSpans
    Grants <- MCGrants
    Batches <- MCBatches
    ApprovalsAlone = TRUE
    CarefulSaves = TRUE
SYMMETRY WorkerSymmetry
CONSTRAINTS FormsBetweenCalls CallsMeet
INVARIANTS
    TypeOK
    ApprovedNeverOverlap
PROPERTIES
    ApprovalsWithinBalance
