SPECIFICATION Spec
CONSTANTS
    Process = {service, once}
    Device = {d1, d2}
    Entry = {NoEntry, synced}
    NoEntry = NoEntry
    Nothing = Nothing
    Absent = Absent
    Torn = Torn
    Stamp = {t1, t2}
SYMMETRY Symmetry
INVARIANTS TypeOK TempsAreAccounted
PROPERTIES RegisterSpec
