SPECIFICATION FairSpec
CONSTANTS
    l1 = l1
    m1 = m1
    m2 = m2
    Events = {"order.placed"}
    Listeners = {l1}
    Emissions = {m1, m2}
    DEFAULT_MAX_RETRIES = 1
    RetryOptions <- NegativeOrZero
    MaxListeners = 2
    MaxCrashes = 1
INVARIANTS
    DeliveriesAddUp
PROPERTIES
    SettledTaskIsFinal
    EmitReturns
