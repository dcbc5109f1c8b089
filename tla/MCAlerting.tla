------------------------------ MODULE MCAlerting ------------------------------
EXTENDS Alerting, TLC

Symmetry == Permutations(Processes) \cup Permutations(Keys) \cup Permutations(Fingerprints)

Bound(s, a, o, r) == [saves |-> s, alerts |-> a, ops |-> o, requests |-> r]

MCScenarios == {Bound(2, 0, 0, 0), Bound(1, 2, 0, 0), Bound(0, 0, 3, 0), Bound(0, 0, 0, 5)}
MCSaving == {Bound(1, 0, 0, 0)}
MCRetryAfters == {1, 10, 12}

=============================================================================
