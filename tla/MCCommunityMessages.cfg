CONSTANTS
    a = a
    k = k
    b1 = b1
    b2 = b2
    reader = reader
    NoRow = NoRow
    None = NoRow
    Keys <- MCKeys
    Inboxes <- MCInboxes
    WINDOW = 1
    MAX_CLOCK = 1
    Blocks <- MCBlocks
    BlockAccount <- MCBlockAccount
    Readers = {reader}
    Cleared = ""
    MAX_REBUILDS = 1
    MAX_HIDES = 1
    Sources <- MCSources
    TRUST <- MCTrust
    TAGS <- MCTags
    Lists <- MCLists
    BATCH_SIZE = 1
    MAX_RELISTS = 1
    MAX_FAILURES = 1
SPECIFICATION MCSpec
INVARIANTS
    TypeOK
    NotesAreNewest
PROPERTIES
    
    OlderRegistrationOnlyOvertakes
    RebuildGivesDeclared
    HidesSurviveOutsideTheGap
    SweepsOnlyUnlisted
    PagesCatchUp
    ListedAccountsSettle
CHECK_DEADLOCK FALSE
