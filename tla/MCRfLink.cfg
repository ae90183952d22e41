SPECIFICATION Spec
CONSTANTS
    Count = 2
    TypeOf <- OwnTypes
    FirstType = "xboxone"
    GuideVersions <- Held1
    FifoSize = 3
    MaxVersion = 2
    MaxRestarts = 2
    MaxLeds = 1
INVARIANTS NewestArrives HostKnows
PROPERTIES NeverGoesBack HeldHeard
