CONSTANTS
    yearly = yearly
    never = never
    d1 = d1
    d2 = d2
    d3 = d3
    d4 = d4
    d5 = d5
    d6 = d6
    loose = loose
    w1 = w1
    w2 = w2
    NoTxn = NoTxn
    NoRow = NoRow
    NoDocument = NoDocument
    NoNumber = NoNumber
    Row <- MCRow
    Worker <- MCWorker
    Document <- MCDocument
    ownRow <- MCOwnRow
    sharedRow <- MCSharedRow
    Detached = {d5}
    policy <- MCPolicy
    numberNext <- SeededNext
    Step = 2
    MaxPeriod = 2
    MaxNumber = 5
SPECIFICATION FairSpec
INVARIANTS TypeOK NumbersUnique GaplessSeries
PROPERTY RequestsEnd
