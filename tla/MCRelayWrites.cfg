\* Vouches and announcements over a crash; attestations that lapse, a block and a
\* paid pledge over a crash; and two addresses, minute windows of 1 tick, days of
\* 2, and pruning.
CONSTANTS
    owner = owner  steward = steward  member = member  newcomer = newcomer
    board = board
    NoEvent = NoEvent
    Pubkeys <- MCPubkeys
    Boards <- MCBoards
    Owner <- MCOwner
    Events <- WriteEvents
    AttestationLifetime = 2
    ip1 = ip1  ip2 = ip2
    Ips <- MCIps
    PerPubkey = 2  PerIp = 2  UntrustedIssuesPerDay = 2
    PowDifficulty = 1
    MinuteWindow = 1  DayWindow = 2
    MaxTime = 3
    MaxRestarts = 1
SPECIFICATION MCSpec
CHECK_DEADLOCK FALSE
INVARIANTS
    TypeOK
    TrustMatchesBoard
    RestartForgetsNothing
    WindowLimitsHold
PROPERTIES
    StandingIsNeverSelfGranted
