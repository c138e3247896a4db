SPECIFICATION Spec
CONSTANTS
    c1 = c1
    c2 = c2
    l1 = l1
    stripe = stripe
    payfast = payfast
    custom = custom
    NoOp = NoOp
    None = None
    Charges = {c1, c2}
    Licenses = {l1}
    Providers = {stripe}
    CanRefund = {stripe}
CHECK_DEADLOCK FALSE
INVARIANTS
    RolledBackMeansRefunded
