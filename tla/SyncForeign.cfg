SPECIFICATION Spec
CONSTANTS
    v1 = v1  v2 = v2  d1 = d1  d2 = d2  vc1 = vc1  vc2 = vc2  a = a  b = b  x = x
    NoEntry = NoEntry
    NoAllowlist = NoAllowlist
    Nothing = Nothing
    Vm = {v1, v2}
    Device = {d1}
    VCenter = {vc1, vc2}
    HomeOf <- MCHomeOf
    Tag = {a, b, x}
    VmwareTag = {a, b}
    InitialTags = {{}, {x}}
    InitialCatalog = {a, x}
    Hides <- MCHidesNothing
    Matchings <- SharedNameMatchings
    TagLimit = 2
    RemoveOrphanedTags = TRUE
    PrefixScope = {a, b}
    SlashKeyed = {}
    AllowlistFile = {a}
    DryRuns = {FALSE, TRUE}
    FaultKinds = {"vcenter", "tagread", "page", "fetch", "item", "answer", "save", "crash", "allowlist"}
    MaxFaults = 2
    EditKinds = {"vm", "create"}
    MaxEdits = 2
SYMMETRY VmSymmetry
INVARIANTS TypeOK PlanRemovesOnlyOrphans PlanCompletesMirror
PROPERTIES UnplannedEntriesKept ForeignTagsStay
