SPECIFICATION Spec
CONSTANTS
    acmeJira = acmeJira  acmeLinear = acmeLinear  acmeSlack = acmeSlack
    acmeGitLab = acmeGitLab  siteA = siteA  siteB = siteB
    k1 = k1  k2 = k2  kl = kl
    connect = connect  reconnect = reconnect  disconnect = disconnect
    work1 = work1  work2 = work2  work3 = work3
    connectNowhere = connectNowhere  connectLinear = connectLinear  workLinear = workLinear
    connectSlack = connectSlack  leaveSlack = leaveSlack  connectGitLab = connectGitLab
    u1 = u1  u2 = u2  app1 = app1  app2 = app2
    NoValue = NoValue
    Conns <- MCConns
    Provider <- MCProvider
    Clients <- MCClients
    ClientConn <- MCClientConn
    Sites = {siteA, siteB}
    Tokens = {1, 2, 3, 4}
    Calls <- MCCalls
    Op <- MCOp
    Apps = {app1, app2}
    Users = {u1, u2}
    AppOf <- MCAppOf
    Life = 3
    Margin = 1
    JWTLife = 2
    MaxNow = 4
    Deliveries <- MCDeliveries
    Delivery <- MCDelivery
    GitLabSecret = TRUE
INVARIANTS
    TypeOK
    StoredTokenUsable
    ShownOncePerClient
    ConnectedOnce
    RevocationTakesEffect
PROPERTIES
    RemovalIsRecorded
CHECK_DEADLOCK FALSE
