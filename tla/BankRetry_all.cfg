SPECIFICATION FairSpec
CONSTANTS
    p1 = p1
    p2 = p2
    e1 = e1
    e2 = e2
    NoEntry = NoEntry
    Payments = {p1, p2}
    Entries = {e1, e2}
    POLL_INTERVAL = 2
    MAX_POLL_DURATION = 3
INVARIANTS
    TypeOK
    ActiveEntryIsPolled
    GivesUpOnlyAfterMaxDuration
    NotifiedTwiceOnlyAfterForce
    OrphanOnlyAfterLateVerdict
PROPERTIES
    ResolvedNeverPolledAgain
    EveryRetryResolves
