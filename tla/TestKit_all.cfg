SPECIFICATION KitSpec
CONSTANTS
    NoValue = NoValue
    BadToken = BadToken
    Failure = Failure
    Charges = {c1, c2, c3}
    Units <- MCUnits
    MaxTime = 2
    MaxRefunds = 1
    MaxResets = 1
    MaxSetups = 2
    MaxFailures = 3
    MaxEntries = 3
SYMMETRY MCSymmetry
INVARIANTS
    GatewayTellsTheTruth
    AssertionsAreSound
PROPERTIES
    SettingsTakeEffect
CHECK_DEADLOCK FALSE
