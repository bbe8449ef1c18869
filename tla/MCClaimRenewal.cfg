\* A board being opened, and a claim, a status and a comment on one task.
CONSTANTS
    owner = owner  visitor = visitor  nano = nano
    NoEvent = NoEvent
    Pubkeys <- MCPubkeys
    Boards = {nano}
    Owner <- MCOwner
    Events <- MCEvents
    Board = nano
    AttestationLifetime = 2
    ClaimLifetime = 1
    UnvouchedPow = 1
    PromotionAmount = 2
    MaxTime = 1
    Me = visitor
    Topic = 1
    OwnIds <- MCOwnIds
    ButtonKeys = {"claim", "status", "comment", "issue"}
    Agent = {"claim", "release", "status"}
    Held <- MCHeld
    MaxRuns = 1
    MaxLost = 1
SPECIFICATION MCSpec
CHECK_DEADLOCK FALSE
INVARIANTS
    TypeOK
    ClaimsAreTaken
    RenewalsKeepTheChoice
    CommentedOnce
PROPERTIES
    BoardLoads
    IssueEventsArrive
