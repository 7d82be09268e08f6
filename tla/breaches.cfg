SPECIFICATION MCSpec
CONSTANTS
    f1 = f1
    f2 = f2
    r1 = r1
    r2 = r2
    r3 = r3
    Findings <- MCFindings
    Watched <- MCWatched
    SlotCap = 1
    MaxCrashes = 1
    MaxReds = 2
    MaxCommands = 2
    MaxRejected = 1
    Interval = 2
    MaxQueued = 1
    MaxVisits = 2
    MaxBeats = 2
    MaxBuilds = 2
    MaxResolves = 1
    MaxFails = 1
    MaxHalts = 1
INVARIANTS EachFindingOnce ABreachTicketsItsEscapes EachThingIsToldOnce
PROPERTIES EveryOwedRepairIsDriven NothingOwedIsForgotten
CHECK_DEADLOCK FALSE
