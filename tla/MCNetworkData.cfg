\* Four subjects in one run: detector, archive, attribution, site requests.
CONSTANTS
    r1 = r1  r2 = r2  home = home  away = away  elsewhere = elsewhere
    n1 = n1  n2 = n2  a1 = a1  a2 = a2
    c1 = c1  c2 = c2  c3 = c3
    Null = Null  NoAccount = NoAccount  NoKey = NoKey
    Reps <- MCReps
    Rounds <- MCRounds
    Settle = 3  MaxGap = 2  BehindBlocks = 1
    MaxSnapshotsPerRun = 2
    MaxTime = 8  MaxDelay = 1  MaxWrite = 1  MaxFailures = 1
    Overlap = 2
    Nodes <- MCNodes
    Accounts <- MCAccounts
    History = 2  MaxRound = 5
    Calls <- MCCalls
    MaxDay = 3
SPECIFICATION MCSpec
CHECK_DEADLOCK FALSE
INVARIANTS
    TypeOK
    NothingIsPassedBy
    ChangesChain
    SharedOnlyIfHeldBefore
    CountsStay
    PastKeysGo
PROPERTIES
    ConditionsAreTold
    BacklogDrains
    RowsReachTheArchive
