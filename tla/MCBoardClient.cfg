\* Every order and every part of what the relays may hold, over a lifetime.
CONSTANTS
    owner = owner  steward = steward  author = author  stranger = stranger
    nano = nano
    NoEvent = NoEvent
    Pubkeys <- MCPubkeys
    Boards <- MCBoards
    Owner <- MCOwner
    Events <- MCEvents
    Board = nano
    Scenarios <- MCScenarios
    AttestationLifetime = 2
    ClaimLifetime = 1
    UnvouchedPow = 1
    PromotionAmount = 2
    MaxTime = 2
SPECIFICATION Spec
CHECK_DEADLOCK FALSE
INVARIANTS
    SameEventsSameBoard
    ClaimsLapse
PROPERTIES
    StrangersMoveNothing
    OnlyAnnouncementsMoveStewards
    PledgesWaitForTheirVerdict
