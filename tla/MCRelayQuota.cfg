\* The daily issue limit against retries of a write told to slow down.
CONSTANTS
    owner = owner  steward = steward  member = member  newcomer = newcomer
    board = board
    NoEvent = NoEvent
    Pubkeys <- MCPubkeys
    Boards <- MCBoards
    Owner <- MCOwner
    Events <- RateEvents
    AttestationLifetime = 2
    ip1 = ip1  ip2 = ip2
    Ips <- MCIps
    PerPubkey = 2  PerIp = 2  UntrustedIssuesPerDay = 2
    PowDifficulty = 1
    MinuteWindow = 1  DayWindow = 2
    MaxTime = 2
    MaxRestarts = 0
SPECIFICATION Spec
CHECK_DEADLOCK FALSE
INVARIANT QuotaCountsFiledIssues
