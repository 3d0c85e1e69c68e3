SPECIFICATION FairSpec
CONSTANTS
    Requests = {r1, r2, p}
    Probes = {p}
    Boot = Boot
    None = None
    Memory = Memory
    Tracked = TRUE
    FlushTimeout = 1
    DrainTimeout = 2
    ComponentTimeout = 1
    ExitTimeout = 5
CHECK_DEADLOCK FALSE
INVARIANTS
    TypeOK
    NoRequestCutOff
    NoClientLeftOpen
PROPERTIES
    ForcedExitOnlyWhileCleaningUp
    EverySignalEndsTheProcess
