SPECIFICATION Spec
CONSTANTS
    v1 = v1  v2 = v2  d1 = d1  d2 = d2  vc1 = vc1  vc2 = vc2  a = a  b = b  x = x
    NoEntry = NoEntry
    NoAllowlist = NoAllowlist
    Nothing = Nothing
    Vm = {v1}
    Device = {d1}
    VCenter = {vc1, vc2}
    HomeOf <- MCHomeOf
    Tag = {a, b}
    VmwareTag = {a, b}
    InitialTags = {{}}
    InitialCatalog = {a, b}
    Hides <- MCHidesNothing
    Matchings <- PairedMatchings
    TagLimit = 2
    RemoveOrphanedTags = TRUE
    PrefixScope = {a, b}
    SlashKeyed = {}
    AllowlistFile = NoAllowlist
    DryRuns = {FALSE}
    FaultKinds = {"tagread"}
    MaxFaults = 1
    EditKinds = {}
    MaxEdits = 1
INVARIANTS RemovalsMirrorVmware
