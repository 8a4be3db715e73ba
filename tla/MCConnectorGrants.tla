------------------------- MODULE MCConnectorGrants -------------------------
EXTENDS ConnectorGrants, TLC

CONSTANTS c1, c2, f1, f2

MCConns == {c1, c2}
MCCalls == {f1, f2}

Symmetry == Permutations(MCConns) \cup Permutations(MCCalls)
=============================================================================
