------------------------------ MODULE MCOutbox ------------------------------
EXTENDS Outbox, TLC

CONSTANTS k1, k2, p1, r1, r2

\* One principal vouches for every key, as stripe's does for its payments.
MCPrincipalOf == [k \in Keys |-> p1]

MCSymmetry     == Permutations(Keys)
MCSymmetryBoth == Permutations(Keys) \cup Permutations(Relays)
=============================================================================
