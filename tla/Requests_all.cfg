SPECIFICATION Spec
CONSTANTS
    r1 = r1
    r2 = r2
    NoValue = NoValue
    BadToken = BadToken
    Failure = Failure
    Reqs = {r1, r2}
    InputsOf <- MCInputsOf
    StatementsOf <- MCStatementsOf
    ResultsOf <- MCResultsOf
    ErrorsOf <- MCErrorsOf
    PermissionSets <- MCPermissionSets
    HasSecret = TRUE
    MaxOps <- MCMaxOps
CHECK_DEADLOCK FALSE
INVARIANTS
    QueriesAreForOwnTenant
    BypassLeavesTrail
    QueriesAreSound
    AnswersAreRight
PROPERTIES
    EveryRequestAnswered
