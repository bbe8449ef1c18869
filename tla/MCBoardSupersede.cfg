\* Two visible issues supersede one.
CONSTANTS
    owner = owner  steward = steward  author = author  stranger = stranger
    nano = nano
    NoEvent = NoEvent
    Pubkeys <- MCPubkeys
    Boards <- MCBoards
    Owner <- MCOwner
    Events <- MCEvents
    Board = nano
    Scenarios <- SupersedeScenario
    AttestationLifetime = 2
    ClaimLifetime = 2
    UnvouchedPow = 1
    PromotionAmount = 2
    MaxTime = 0
SPECIFICATION Spec
CHECK_DEADLOCK FALSE
INVARIANT SameBoardEitherWay
