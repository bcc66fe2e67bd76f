SPECIFICATION FairSpec
CONSTANTS
    v1 = v1
    v2 = v2
    d1 = d1
    d2 = d2
    NoTarget = NoTarget
    Invalid = Invalid
    Unread = Unread
    Vm <- MCVm
    Target <- MCTarget
    Files <- MCFiles
    MaxEdits = 1
    MaxSignals = 2
    MaxStops = 1
INVARIANTS TypeOK GuardIsExact
PROPERTIES NoOverlappingCycles CyclesRecur LoneReloadIsExact SettledOverridesApplied
