SPECIFICATION Spec
CONSTANTS
    c1 = c1
    c2 = c2
    k1 = k1
    saw = saw
    glue = glue
    w1 = w1
    w2 = w2
    Worker = {w1, w2}
    NoTxn = NoTxn
    NoOrder = NoOrder
    NoProduct = NoProduct
    NoRule = NoRule
    Product = {"wood", "chair", "crate"}
    Order = {c1, c2, k1}
    Operation = {saw, glue}
    Row <- ProductionRows
    makes <- MCMakes
    needs <- MCNeeds
    operations <- MCOperations
    method <- MCMethod
    price <- MCPrice
    rule <- MCRule
    Batch = {1}
    Costs = {3}
    MaxDocuments = 2
    MaxOrder = 3
    OneRequestPerOrder = TRUE
    LandedAlone = TRUE
    ReorderAlone = TRUE
SYMMETRY MCSymmetry
CONSTRAINT Focus
CHECK_DEADLOCK FALSE
INVARIANTS
    StockFollowsOrders
    CacheMatchesLayers
    WorkBeforeClose
    ForecastWithinMaximum
