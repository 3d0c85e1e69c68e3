CONSTANTS
    Requests = {r1, r2, p}
    Probes = {p}
    Boot = Boot
    None = None
    Memory = Memory
    Tracked = FALSE
    FlushTimeout = 1
    DrainTimeout = 2
    ComponentTimeout = 1
    ExitTimeout = 5
SPECIFICATION Spec
CHECK_DEADLOCK FALSE
INVARIANTS
    NoRequestCutOff
