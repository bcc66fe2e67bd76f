CONSTANTS
    Session = {s1, s2, s3}
    NoSession = NoSession
    Call = {vms, tags}
    Requests = 1
    Earlier = {first}
    MaxStrays = 1
SPECIFICATION FairSpec
INVARIANTS
    TypeOK
    NoSessionTakenAway
    CleanCyclesEndSessions
PROPERTIES
    CallsWindDown
    CyclesEnd
