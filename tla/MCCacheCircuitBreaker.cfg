SPECIFICATION FairSpecH
CONSTANTS
    FailureThreshold <- MCFailureThreshold
    ResetTimeout <- MCResetTimeout
    SuccessThreshold <- MCSuccessThreshold
INVARIANTS
    TypeOK
    ClosedBelowThreshold
    ProbesOnlyWhileHalfOpen
PROPERTIES
    ClosesOnFreshEvidence
    TripsOnConsecutiveFailures
    ImplementsCircuitBreaker
    RecoversWhenFailuresStop
