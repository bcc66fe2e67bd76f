SPECIFICATION Spec
CONSTANTS
    NoHostname = NoHostname
    Configs <- MCConfigs
    NoOverride = NoOverride
    Suppressed = Suppressed
    PartOf <- MCPartOf
    Overrides <- MCOverrides
    Vms <- MCVms
    Devices <- MCDevices
INVARIANTS OneToOne UniqueHostnameMatches ReportedAbsenceIsReal
PROPERTIES HostnameMatchesSurvive
\* The lists shrink until nothing is left to unlist.
CHECK_DEADLOCK FALSE
