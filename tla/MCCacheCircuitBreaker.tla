----------------------- MODULE MCCacheCircuitBreaker -----------------------
(* CacheCircuitBreakerHistory with small thresholds. *)
EXTENDS CacheCircuitBreakerHistory

MCFailureThreshold == 4
MCResetTimeout == 3
MCSuccessThreshold == 2
=============================================================================
