SPECIFICATION FairSpec
CONSTANTS
    Address <- MCAddress
    MaxPool = 2
    MaxKey = 2
    MaxItem = 2
    IntMod = 16
    PortMax = 5
    PermMax = 4
INVARIANTS
    ParserSafe
    PoolsAsWritten
    AddressesSpellBack
PROPERTY
    ParseEnds
CHECK_DEADLOCK FALSE
