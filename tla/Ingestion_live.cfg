CONSTANTS
    dep = dep
    again = again
    sta = sta
    chk = chk
    wfl = wfl
    rev = rev
    rv2 = rv2
    del = del
    oth = oth
    twice = twice
    Workers = {w1, w2}
    Deliveries = {dep, again, sta, chk, wfl, rev, rv2, del, oth}
    Tasks = {dep, twice, again, sta, chk, wfl, rev, rv2, del, oth}
    Ids = {i1, i2}
    NoValue = NoValue
    IdAssigned = TRUE
    MaxRetry = 1
    Event <- MCEvent
    TaskDelivery <- MCTaskDelivery
    Queues <- MCLiveQueues
SPECIFICATION FairSpec
PROPERTIES
    TasksSettle
    KeepsTheLog
CHECK_DEADLOCK FALSE
