\* One subject a behaviour: pages, accounts, charts, or the key of two tabs.
CONSTANTS
    None = None  NoKey = NoKey  ExtensionKey = ExtensionKey
    v1 = v1  v2 = v2  full = full  short = short  bare = bare
    doc1 = doc1  doc2 = doc2  label = label
    a1 = a1  a2 = a2  t1 = t1  t2 = t2  k1 = k1  k2 = k2  k3 = k3
    MaxActions = 3
    Filters = {"all", "node"}
    Views <- MCViews
    DefaultView = v1
    TableStates <- MCTableStates
    NoColumns = bare
    AgesOf <- MCAges
    Paths <- MCPaths
    LabelPaths <- MCLabels
    Single <- MCSingle
    SingleLatest <- MCSingleLatest
    Flagged <- MCFlagged
    Accounts <- MCAccounts
    Listed <- MCListed
    Periods = {"10m"}
    Tabs <- MCTabs
    Keys <- MCKeys
    MaxReloads = 2
SPECIFICATION MCSpec
CHECK_DEADLOCK FALSE
INVARIANTS
    ShownIsAsked
PROPERTIES
    PagesSettle
    UnsavedKeysSurvive
