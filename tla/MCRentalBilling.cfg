CONSTANTS
    locker = locker
    yard = yard
    hall = hall
    c1 = c1
    c2 = c2
    cron = cron
    desk = desk
    NoTxn = NoTxn
    NoDate = NoDate
    NoContract = NoContract
    Line = {locker, yard, hall}
    Row = {locker, yard, hall}
    id <- MCId
    terms <- MCTerms
    monthLength = 2
    Contract = {c1, c2}
    Unscheduled = {}
    Cron = cron
    Worker <- MCWorker
    LeadDays = 0
    LastDay = 1
    MaxFailures = 1
SPECIFICATION Spec
INVARIANTS BilledOnce
PROPERTIES ImplementsSchedule DueIsBilled
