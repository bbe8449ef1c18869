\* Three subjects in one run: posts, delegators, uptime.
CONSTANTS
    i1 = i1  i2 = i2  p = p  q = q  rep1 = rep1  rep2 = rep2
    Importers <- MCImporters
    Sources = {"discord", "forum", "subreddit", "reddit_user"}
    Shared = {2, 3}
    PageSize = 2  Week = 3  MaxMessages = 4  MaxCuts = 1
    Ledgers <- MCLedgers
    DelegatorRuns = {1, 2}
    batchSize = 2
    NoRow = NoRow
    Reps <- MCReps
    Tracked <- MCTracked
    Answers <- MCAnswers
    PerHour = 2  PerDay = 4  Window = 4  FillHours = 3
    MaxClock = 8  MaxSamplings = 3  MaxLosses = 1
SPECIFICATION MCSpec
CHECK_DEADLOCK FALSE
INVARIANTS
    NoGapOpens
    CompleteRunsMirrorTheLedger
    RollupsAreAsSampled
