SPECIFICATION Spec
CONSTANTS
    Left <- MCLeft
    Right <- MCRight
    Using = {"a"}
    LeftName = "l"
    RightName = "r"
    NoTable = "-"
    NoLimit = NoLimit
    Null = Null
    Number <- MCNumber
    Query <- MCQuery
    RowsOf <- MCRowsOf
    HintFactor = 2
    Wrap = 4
    MinInt <- MCMinInt
    MaxInt = 1
    MaxRows = 3
INVARIANTS
    TypeOK
    RowsExact
    AggregatesExact
    FailsOnlyAsKnown
CHECK_DEADLOCK FALSE
