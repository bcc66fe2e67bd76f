SPECIFICATION FairSpec
CONSTANTS
    v1 = v1  v2 = v2  d1 = d1  d2 = d2  vc1 = vc1  vc2 = vc2  a = a  b = b  x = x
    NoEntry = NoEntry
    NoAllowlist = NoAllowlist
    Nothing = Nothing
    Vm = {v1, v2}
    Device = {d1}
    VCenter = {vc1, vc2}
    HomeOf <- MCHomeOf
    Tag = {a, b, x}
    VmwareTag = {a, b}
    InitialTags = {{}, {a}}
    InitialCatalog = {a, b, x}
    Hides <- MCHidesNothing
    Matchings <- FallbackMatchings
    TagLimit = 2
    RemoveOrphanedTags = TRUE
    PrefixScope = {a, b}
    SlashKeyed = {b}
    AllowlistFile = NoAllowlist
    DryRuns = {FALSE}
    FaultKinds = {"vcenter", "page", "fetch", "restart"}
    MaxFaults = 2
    EditKinds = {"vm", "add", "remove"}
    MaxEdits = 2
INVARIANTS ToolTagsAreRecorded UpdatesHaveEffect
PROPERTIES OrphansLeave MirrorIsStable
