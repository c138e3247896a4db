SPECIFICATION PaymentSpec
CONSTANTS
    d1 = d1
    d2 = d2
    d3 = d3
    evt1 = evt1
    pay1 = pay1
    Deliveries = {d1, d2, d3}
    Providers = {"stripe", "payfast", "ozow"}
    EventIds = {d1, d2, d3, evt1, pay1}
    Payments = {pay1}
    DEFAULT_TTL = 3
    Tolerance = 1
    MaxTime = 4
    NoValue = NoValue
    Failure = Failure
    NaN = NaN
    Mixes <- MCMixes
    Amounts <- MCAmounts
SYMMETRY Symmetry
INVARIANTS
    NothingHandledTwice
    DropsAreJustified
    ChargesStateTheAmount
