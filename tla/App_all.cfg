SPECIFICATION Spec
CONSTANTS
    NoValue = NoValue
    Failure = Failure
    BooleanTrue = BooleanTrue
    Creators = {p1, p2}
    Paths <- MCPaths
    PluginDefinitions <- MCPluginDefinitions
    Loaders = {l1, l2}
    PluginLists <- MCPluginLists
    NoOwner = NoOwner
    Connections = {s1, s2}
    Messages = {m1, m2}
    Rooms = {r1, r2}
    NoRoom = NoRoom
    BootConfigs <- MCBootConfigs
SYMMETRY MCSymmetry
INVARIANTS
    
    ConfigIsSafe
    LoadingIsSound
PROPERTIES
    FilesSeenAreKept
    ContainerOnlyGrows
    RoomsFollowTheHandler
CHECK_DEADLOCK FALSE
