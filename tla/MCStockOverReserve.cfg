CONSTANTS
    goods = goods
    part = part
    vendor = vendor
    stock = stock
    shelf = shelf
    sub = sub
    inventory = inventory
    customer = customer
    receipt = receipt
    delivery = delivery
    internal = internal
    m1 = m1
    m2 = m2
    m3 = m3
    c1 = c1
    po = po
    so = so
    w1 = w1
    w2 = w2
    NoTxn = NoTxn
    NoPicking = NoPicking
    NoMove = NoMove
    NoOrder = NoOrder
    NoTransfer = NoTransfer
    Row <- TransferRows
    Product <- MCProduct
    Location <- MCLocation
    Picking <- CompetingPickings
    Move <- CompetingMoves
    Order <- MCOrder
    Internal <- MCInternal
    InventoryLoc = inventory
    StockLoc = stock
    SubcontractLoc = sub
    picking <- MCPickingOf
    product <- MCProductOf
    source <- MCSource
    planned <- MCPlanned
    demand <- MCDemand
    counted <- MCCounted
    lotMissing <- MCLotMissing
    putaway <- MCPutaway
    component <- MCComponent
    code <- MCCode
    order <- MCOrderOf
    ordered <- MCOrdered
    onHand <- MCOnHand
    Worker = {w1, w2}
    MaxUnits = 9
    Count = {}
    OneRequestPerPicking = TRUE
SPECIFICATION Spec
PROPERTY ReserveWithinAvailable
