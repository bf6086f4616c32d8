------------------------------- MODULE MCMoney -------------------------------
(* Everything that moves or owes money, on small instances.                *)
EXTENDS Money

CONSTANTS h1, h2, f, g

\* TIERS, as both plugins have it.
MCBps == "patron" :> 20000 @@ "standard" :> 10000 @@ "supported" :> 5000 @@ "hardship" :> 0

\* Waived at zero, as a database that ran only the first migration has it.
MCLegacy ==
  [status |-> "waived", tier |-> "standard", base |-> 2, assessed |-> 0,
   funded |-> 0, draw |-> "none"]

MCSymmetry == Permutations(Hands) \cup Permutations(Funds)
=============================================================================
