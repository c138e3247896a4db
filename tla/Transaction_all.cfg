SPECIFICATION FairSpec
CONSTANTS
    c1 = c1
    c2 = c2
    l1 = l1
    stripe = stripe
    payfast = payfast
    custom = custom
    NoOp = NoOp
    None = None
    Charges = {c1, c2}
    Licenses = {l1}
    Providers = {stripe, payfast, custom}
    CanRefund = {stripe, payfast}
CHECK_DEADLOCK FALSE
INVARIANTS
    CompensationsInReverse
    RefundsAreExact
    FinalStateIsTrue
PROPERTIES
    ThrowSettles
