SPECIFICATION RowsSpec
CONSTANTS
    given = given  Nothing = Nothing
    t1 = t1  t2 = t2  t3 = t3  board1 = board1  board2 = board2
    card1 = card1  card2 = card2  card3 = card3  NoCard = NoCard
    url = url  pasted = pasted  query = query  hidden = hidden  moved = moved  lost = lost
    linear = linear  wild = wild  NoIssue = NoIssue
    s1 = s1  s2 = s2  row1 = row1  org1 = org1  org2 = org2
    x = x  y = y  key = key  encKey = encKey  Blank = Blank  NoRow = NoRow
    first = first  second = second  other = other  garbage = garbage  noEmail = noEmail
    newOrg = newOrg  sameOrg = sameOrg  join = join  joinToo = joinToo  leave = leave
    Nobody = Nobody
    AccountCalls <- MCAccountCalls
    Asks <- MCAsks
    Payloads <- MCPayloads
    LowerOf <- MCLowerOf
    VSegments = {"v2", "V2"}
    Compares <- MCCompares
    PullLists <- MCPullLists
    RunLists <- MCRunLists
    Tasks = {t1, t2, t3}
    CardOf <- MCCardOf
    Boards = {board1, board2}
    BoardOf <- MCBoardOf
    MaxRetry = 1
    MaxRestarts = 1
    Requests = {url, pasted, query, hidden, moved, lost, linear, wild}
    Reference <- MCReference
    Keys <- MCKeys
    JiraKeys = {"OPS-1", "OPS-2", "OPS-9", "NEW-2"}
    UpperKey <- MCUpper
    JiraIssues <- MCIssues
    LinearIssues <- MCIssues
    Sessions = {s1, s2}
    Rows = {row1}
    OrgOf <- MCOrgOf
    Orgs = {org1, org2}
    Values = {x, y}
    Plain = {key, encKey}
    Prefixed = {encKey}
    MaxSaves = 3
INVARIANTS
    StrictAudit
CHECK_DEADLOCK FALSE
