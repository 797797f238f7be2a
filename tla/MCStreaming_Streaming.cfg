SPECIFICATION Spec
CONSTANTS
    first = first
    second = second
    None = None
    Users = {u1, u2}
    Tracks = {t1, t2}
    Configs <- MCConfigs
    TokenTTL = 2
    DefaultTTL = 1
    MaxPresign = 3
    MaxTime = 3
    MaxLogins = 2
    MaxStarts = 2
    MaxUrls = 1
SYMMETRY Interchangeable
CHECK_DEADLOCK FALSE
INVARIANTS
    DeliveryConsistent
PROPERTIES
    AccessEnds
    ServesWhatIsStored
