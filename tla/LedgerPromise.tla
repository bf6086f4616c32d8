---------------------------- MODULE LedgerPromise ----------------------------
(***************************************************************************)
(* What the money path promises a producer (server/src/outbox.rs, module   *)
(* comment and docs/design/plugin-to-plugin.md 3.2): a fact it owes to the *)
(* ledger is booked at most once, is confirmed only once it is booked, and *)
(* neither is ever taken back.  Nothing is said of how it is delivered.    *)
(***************************************************************************)
EXTENDS Naturals

CONSTANT Keys

VARIABLES
  owed,       \* facts a producer has durably asked to have booked
  entries,    \* ledger entries per fact
  confirmed   \* facts whose intent reads `delivered`

promiseVars == <<owed, entries, confirmed>>

Init == owed = {} /\ entries = [k \in Keys |-> 0] /\ confirmed = {}

Owe(k) ==
  /\ k \notin owed
  /\ owed' = owed \cup {k}
  /\ UNCHANGED <<entries, confirmed>>

Book(k) ==
  /\ k \in owed /\ entries[k] = 0
  /\ entries' = [entries EXCEPT ![k] = 1]
  /\ UNCHANGED <<owed, confirmed>>

Confirm(k) ==
  /\ entries[k] = 1 /\ k \notin confirmed
  /\ confirmed' = confirmed \cup {k}
  /\ UNCHANGED <<owed, entries>>

Next == \E k \in Keys : Owe(k) \/ Book(k) \/ Confirm(k)

Spec == Init /\ [][Next]_promiseVars
==============================================================================
