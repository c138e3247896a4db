SPECIFICATION Spec
CONSTANTS
    w1 = w1
    w2 = w2
    f1 = f1
    f2 = f2
    Writers = {w1}
    Flushers = {f1}
    RING_BUFFER_CAPACITY = 2
    MaxWrites = 4
CHECK_DEADLOCK FALSE
INVARIANTS
    BatchesVerify
PROPERTIES
    ImplementsHashChain
