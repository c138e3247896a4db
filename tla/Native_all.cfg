SPECIFICATION Spec
CONSTANTS
    Calls = {c1, c2, c3}
    Capacity = 2
    MaxTime = 1
    MaxLog = 4
    Data = {empty, d1, d2}
    Empty = empty
    NoValue = NoValue
    Failure = Failure
    NaN = NaN
    Thousandths <- MCThousandths
    RatioLists <- MCRatioLists
    Prices <- MCPrices
INVARIANTS
    SchedulerKeepsOrder
    JobsAreConserved
    EnginesAgree
    
PROPERTIES
    JobsRun
CHECK_DEADLOCK FALSE
