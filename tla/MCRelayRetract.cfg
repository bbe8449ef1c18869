\* A vouch set retracted by its author.
CONSTANTS
    owner = owner  steward = steward  member = member  newcomer = newcomer
    board = board  ip1 = ip1  ip2 = ip2
    NoEvent = NoEvent
    Pubkeys <- MCPubkeys
    Boards <- MCBoards
    Owner <- MCOwner
    Events <- RetractEvents
    AttestationLifetime = 2
    Ips = {}
    PerPubkey = 1  PerIp = 1  UntrustedIssuesPerDay = 1
    PowDifficulty = 1
    MinuteWindow = 1  DayWindow = 2
    MaxTime = 0
    MaxRestarts = 0
SPECIFICATION Spec
CHECK_DEADLOCK FALSE
INVARIANT TrustMatchesBoardAlways
