--------------------------- MODULE MCStripeLedger ---------------------------
EXTENDS StripeLedger, TLC

CONSTANTS k1, p1, r1, h1, h2

MCPrincipalOf == [k \in Keys |-> p1]
MCSymmetry    == Permutations(Hooks)
=============================================================================
