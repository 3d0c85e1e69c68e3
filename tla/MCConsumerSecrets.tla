-------------------------- MODULE MCConsumerSecrets --------------------------
(* ConsumerSecrets with two concurrent requests. *)
EXTENDS ConsumerSecrets, TLC

CONSTANTS r1, r2, c1, c2

MCRequests == {r1, r2}
OneConsumer == {c1}
TwoConsumers == {c1, c2}

SymmetricRequests == Permutations(MCRequests)
Symmetry == SymmetricRequests \cup Permutations(TwoConsumers)
=============================================================================
