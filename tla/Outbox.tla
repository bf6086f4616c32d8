------------------------------- MODULE Outbox -------------------------------
(***************************************************************************)
(* The core's outbox: the durable intents of server/src/db.rs (migration   *)
(* 9, core.outbox and core.outbox_enqueue) and the relay of                *)
(* server/src/outbox.rs that drains them into the finance ledger.          *)
(*                                                                         *)
(* A relay is one process's drain loop.  A pass reclaims the rows whose    *)
(* lease ran out, then claims, delivers and records one due row at a time. *)
(* Every await between two reads or writes is a step boundary here, so a   *)
(* revocation, a reload, a crash, an outage or another process's relay may *)
(* come between any two of them.                                           *)
(*                                                                         *)
(* Time is abstract: due[i] is "next_attempt_at <= now()", stale[i] is     *)
(* "claimed_at < now() - LEASE_SECS".  Overrun says whether a delivery may *)
(* outlast the lease: nothing in deliver bounds the handler's time, and    *)
(* the comment on LEASE_SECS promises that it never does.                  *)
(***************************************************************************)
EXTENDS Naturals, FiniteSets

CONSTANTS
  MaxIntents,   \* bound: rows core.outbox may hold
  Keys,         \* idempotency keys a producer may use
  Principals,   \* the service principals the core declares
  PrincipalOf,  \* the principal each key's intent is enqueued as
  Relays,       \* the processes that run a relay
  MaxAttempts,  \* max_attempts (6 in the column's default)
  Batch,        \* BATCH: intents one pass attempts at most (32 in the code)
  MaxRearms,    \* bound: re-armings by an operator
  Overrun,      \* may a live delivery outlast its lease?
  NoKey

ASSUME OutboxAssumption ==
  /\ MaxIntents \in Nat /\ MaxAttempts \in Nat \ {0}
  /\ Batch \in Nat \ {0} /\ MaxRearms \in Nat
  /\ PrincipalOf \in [Keys -> Principals]
  /\ Overrun \in BOOLEAN
  /\ NoKey \notin Keys

VARIABLES
  key, state, attempts, due, stale,   \* core.outbox, one entry per row id
  revoked, granted,                   \* service_principals, role_permissions
  ledger,                             \* finance entries carrying each key
  dbUp,                               \* is Postgres answering?
  routed,                             \* does the process's registry route the target?
  pc, job, spent, verdict, taken,     \* the relay's local state
  raised,                             \* outcome events persisted to core.events
  lost,                               \* history: outcomes whose event never will be
  rearms

rowVars       == <<key, state, attempts, due, stale>>
principalVars == <<revoked, granted>>
relayVars     == <<pc, job, spent, verdict, taken>>
vars == <<rowVars, principalVars, ledger, dbUp, routed, relayVars, raised, lost, rearms>>

Ids      == 1..MaxIntents
Terminal == {"delivered", "refused", "exhausted"}
States   == {"absent", "pending", "attempting"} \cup Terminal
BusyPcs  == {"claimed", "vetted", "admitted", "answered"}
Pcs      == {"down", "idle", "draining", "recorded"} \cup BusyPcs
Verdicts == {"none", "pending"} \cup Terminal

Rows    == {i \in Ids : state[i] # "absent"}
Busy(r) == pc[r] \in BusyPcs
Open(i) == state[i] \in {"pending", "attempting"}

TypeOK ==
  /\ key \in [Ids -> Keys \cup {NoKey}]
  /\ state \in [Ids -> States]
  /\ attempts \in [Ids -> 0..(MaxAttempts + 1)]
  /\ due \in [Ids -> BOOLEAN]
  /\ stale \in [Ids -> BOOLEAN]
  /\ revoked \in [Principals -> BOOLEAN]
  /\ granted \in [Principals -> BOOLEAN]
  /\ ledger \in [Keys -> 0..1]
  /\ dbUp \in BOOLEAN
  /\ routed \in [Relays -> BOOLEAN]
  /\ pc \in [Relays -> Pcs]
  /\ job \in [Relays -> Ids \cup {0}]
  /\ spent \in [Relays -> 0..(MaxAttempts + 1)]
  /\ verdict \in [Relays -> Verdicts]
  /\ taken \in [Relays -> 0..Batch]
  /\ raised \subseteq Ids \X Terminal
  /\ lost \subseteq Ids \X Terminal
  /\ rearms \in 0..MaxRearms
  /\ \A r \in Relays :
       /\ pc[r] \in BusyPcs \cup {"recorded"} => job[r] \in Rows
       /\ pc[r] = "answered" => verdict[r] # "none"
       /\ pc[r] = "recorded" => verdict[r] \in Terminal

Init ==
  /\ key = [i \in Ids |-> NoKey]
  /\ state = [i \in Ids |-> "absent"]
  /\ attempts = [i \in Ids |-> 0]
  /\ due = [i \in Ids |-> FALSE]
  /\ stale = [i \in Ids |-> FALSE]
  /\ revoked = [p \in Principals |-> FALSE]
  /\ granted = [p \in Principals |-> TRUE]
  /\ ledger = [k \in Keys |-> 0]
  /\ dbUp = TRUE
  /\ routed = [r \in Relays |-> TRUE]
  /\ pc = [r \in Relays |-> "idle"]
  /\ job = [r \in Relays |-> 0]
  /\ spent = [r \in Relays |-> 0]
  /\ verdict = [r \in Relays |-> "none"]
  /\ taken = [r \in Relays |-> 0]
  /\ raised = {}
  /\ lost = {}
  /\ rearms = 0

-----------------------------------------------------------------------------
(* The producer: core.outbox_enqueue, in the producer's own transaction.   *)

\* The row a key already has.  outbox_enqueue answers it instead of inserting.
Enqueued(k) == \E i \in Ids : key[i] = k

\* Mutant: the unique index on idempotency_key is missing.
EnqueueTwice(k) ==
  /\ dbUp /\ ~revoked[PrincipalOf[k]]
  /\ \E i \in Ids :
       /\ state[i] = "absent"
       /\ \A j \in Ids : j < i => state[j] # "absent"
       /\ key'   = [key EXCEPT ![i] = k]
       /\ state' = [state EXCEPT ![i] = "pending"]
       /\ due'   = [due EXCEPT ![i] = TRUE]
  /\ UNCHANGED <<attempts, stale, principalVars, ledger, dbUp, routed,
                 relayVars, raised, lost, rearms>>

\* A first enqueue of k: the principal must be declared and not revoked.
Enqueue(k) ==
  /\ dbUp
  /\ ~revoked[PrincipalOf[k]]
  /\ ~Enqueued(k)
  /\ \E i \in Ids :
       /\ state[i] = "absent"
       /\ \A j \in Ids : j < i => state[j] # "absent"
       /\ key'   = [key EXCEPT ![i] = k]
       /\ state' = [state EXCEPT ![i] = "pending"]
       /\ due'   = [due EXCEPT ![i] = TRUE]
  /\ UNCHANGED <<attempts, stale, principalVars, ledger, dbUp, routed,
                 relayVars, raised, lost, rearms>>

-----------------------------------------------------------------------------
(* The relay: drain, claim_next, deliver, record, raise.                   *)

\* drain's locals go out of scope: at the end of one delivery, and of a pass.
Release(r) ==
  /\ job'     = [job EXCEPT ![r] = 0]
  /\ spent'   = [spent EXCEPT ![r] = 0]
  /\ verdict' = [verdict EXCEPT ![r] = "none"]
LeavePass(r, next) ==
  /\ Release(r)
  /\ pc'    = [pc EXCEPT ![r] = next]
  /\ taken' = [taken EXCEPT ![r] = 0]

\* The rows reclaim_stale hands back.  Mutants: every row in flight, none.
RowsInFlight  == {i \in Ids : state[i] = "attempting"}
NothingIsLost == {}
LostLeases    == {i \in Ids : state[i] = "attempting" /\ stale[i]}

\* Mutant: reclaim_stale gives the attempts back as well.
BeginPassRefunding(r) ==
  /\ pc[r] = "idle" /\ dbUp
  /\ LET expired == LostLeases IN
       /\ state' = [i \in Ids |-> IF i \in expired THEN "pending" ELSE state[i]]
       /\ due'   = [i \in Ids |-> i \in expired \/ due[i]]
       /\ stale' = [i \in Ids |-> i \notin expired /\ stale[i]]
       /\ attempts' = [i \in Ids |-> IF i \in expired THEN 0 ELSE attempts[i]]
  /\ pc'    = [pc EXCEPT ![r] = "draining"]
  /\ taken' = [taken EXCEPT ![r] = 0]
  /\ UNCHANGED <<key, principalVars, ledger, dbUp, routed, job, spent, verdict,
                 raised, lost, rearms>>

\* drain's first statement, reclaim_stale: every row whose lease ran out is
\* pending and due again, whatever it has spent.
BeginPass(r) ==
  /\ pc[r] = "idle" /\ dbUp
  /\ LET expired == LostLeases IN
       /\ state' = [i \in Ids |-> IF i \in expired THEN "pending" ELSE state[i]]
       /\ due'   = [i \in Ids |-> i \in expired \/ due[i]]
       /\ stale' = [i \in Ids |-> i \notin expired /\ stale[i]]
  /\ pc'    = [pc EXCEPT ![r] = "draining"]
  /\ taken' = [taken EXCEPT ![r] = 0]
  /\ UNCHANGED <<key, attempts, principalVars, ledger, dbUp, routed, job,
                 spent, verdict, raised, lost, rearms>>

Claimable(i) == state[i] = "pending" /\ due[i]

\* attempts + 1, kept at MaxAttempts + 1 once past the budget: the code only
\* compares attempts with max_attempts, and backoff_secs is capped.
Spend(n) == IF n > MaxAttempts THEN n ELSE n + 1

\* claim_next: the oldest due row becomes this relay's, with a fresh lease and
\* one more attempt spent.
Claim(r) ==
  /\ pc[r] = "draining" /\ dbUp /\ taken[r] < Batch
  /\ \E i \in Ids :
       /\ Claimable(i)
       /\ \A j \in Ids : j < i => ~Claimable(j)
       /\ state'    = [state EXCEPT ![i] = "attempting"]
       /\ attempts' = [attempts EXCEPT ![i] = Spend(@)]
       /\ stale'    = [stale EXCEPT ![i] = FALSE]
       /\ job'      = [job EXCEPT ![r] = i]
       /\ spent'    = [spent EXCEPT ![r] = Spend(attempts[i])]
  /\ pc'    = [pc EXCEPT ![r] = "claimed"]
  /\ taken' = [taken EXCEPT ![r] = @ + 1]
  /\ UNCHANGED <<key, due, principalVars, ledger, dbUp, routed, verdict,
                 raised, lost, rearms>>

\* The pass ends: nothing is due, or the batch is spent.
EndPass(r) ==
  /\ pc[r] = "draining" /\ dbUp
  /\ taken[r] = Batch \/ \A i \in Ids : ~Claimable(i)
  /\ LeavePass(r, "idle")
  /\ UNCHANGED <<rowVars, principalVars, ledger, dbUp, routed, raised, lost, rearms>>

\* Delivery::retry: the last attempt of the budget is the one that exhausts.
Retry(n) == IF n >= MaxAttempts THEN "exhausted" ELSE "pending"

Principal(r) == PrincipalOf[key[job[r]]]

\* deliver moves on to its next await, or concludes with a verdict.
Proceed(r, next) ==
  /\ pc' = [pc EXCEPT ![r] = next]
  /\ verdict' = verdict
Conclude(r, v) ==
  /\ pc' = [pc EXCEPT ![r] = "answered"]
  /\ verdict' = [verdict EXCEPT ![r] = v]

\* deliver, part 1: load_principal.
Vet(r) ==
  /\ pc[r] = "claimed"
  /\ \/ ~dbUp /\ Conclude(r, Retry(spent[r]))
     \/ dbUp /\ revoked[Principal(r)] /\ Conclude(r, "refused")
     \/ dbUp /\ ~revoked[Principal(r)] /\ Proceed(r, "vetted")
  /\ UNCHANGED <<rowVars, principalVars, ledger, dbUp, routed, job, spent,
                 taken, raised, lost, rearms>>

\* authorize over PermissionService::roles_have: a failed read of
\* role_permissions answers "no", like a missing grant.
Permitted(r) == dbUp /\ granted[Principal(r)]

\* deliver, parts 2 and 3: the live registry, then the target's own gate.
Gate(r) ==
  /\ pc[r] = "vetted"
  /\ \/ ~routed[r] /\ Conclude(r, Retry(spent[r]))
     \/ routed[r] /\ ~Permitted(r) /\ Conclude(r, "refused")
     \/ routed[r] /\ Permitted(r) /\ Proceed(r, "admitted")
  /\ UNCHANGED <<rowVars, principalVars, ledger, dbUp, routed, job, spent,
                 taken, raised, lost, rearms>>

\* finance's insert_entry: ON CONFLICT (external_ref) DO NOTHING.
Booked(k) == [ledger EXCEPT ![k] = IF @ = 0 THEN 1 ELSE @]

\* Mutants: a refusal, or a failure, is taken for a delivery.
HandleRefusalAsDelivery(r) ==
  LET k == key[job[r]] IN
  /\ pc[r] = "admitted" /\ dbUp
  /\ \/ ledger' = Booked(k)
     \/ ledger' = ledger
  /\ Conclude(r, "delivered")
  /\ UNCHANGED <<rowVars, principalVars, dbUp, routed, job, spent, taken,
                 raised, lost, rearms>>
HandleFailureAsDelivery(r) ==
  /\ pc[r] = "admitted" /\ ledger' = ledger
  /\ \/ Conclude(r, "delivered")
     \/ Conclude(r, Retry(spent[r]))
  /\ UNCHANGED <<rowVars, principalVars, dbUp, routed, job, spent, taken,
                 raised, lost, rearms>>

\* deliver, part 5: finance's handler runs.  It books and answers 2xx (a
\* duplicate is a 200 too), refuses a new entry with a 4xx, or fails with a
\* 5xx before or after the entry is written (the balance read, the audit row
\* and the event come after the insert, and any of them may fail).
Handle(r) ==
  LET k == key[job[r]] IN
  /\ pc[r] = "admitted"
  /\ \/ dbUp /\ ledger' = Booked(k) /\ Conclude(r, "delivered")
     \/ dbUp /\ ledger[k] = 0 /\ ledger' = ledger /\ Conclude(r, "refused")
     \/ ledger' = ledger /\ Conclude(r, Retry(spent[r]))
     \/ dbUp /\ ledger' = Booked(k) /\ Conclude(r, Retry(spent[r]))
  /\ UNCHANGED <<rowVars, principalVars, dbUp, routed, job, spent, taken,
                 raised, lost, rearms>>

\* Mutant: drain raises an event for every outcome, a retry included.
RecordAlwaysRaising(r) ==
  /\ pc[r] = "answered" /\ dbUp
  /\ state' = [state EXCEPT ![job[r]] = verdict[r]]
  /\ due'   = [due EXCEPT ![job[r]] = @ /\ verdict[r] # "pending"]
  /\ pc'    = [pc EXCEPT ![r] = "recorded"]
  /\ UNCHANGED <<job, spent, verdict, key, attempts, stale, principalVars,
                 ledger, dbUp, routed, taken, raised, lost, rearms>>

\* record: UPDATE ... WHERE id = $1, whatever the row's state is by now.  A
\* retry waits for its backoff; a terminal outcome has an event to raise.
Record(r) ==
  /\ pc[r] = "answered" /\ dbUp
  /\ LET i == job[r] IN
       /\ state' = [state EXCEPT ![i] = verdict[r]]
       /\ due'   = [due EXCEPT ![i] = @ /\ verdict[r] # "pending"]
  /\ IF verdict[r] = "pending"
       THEN Release(r) /\ pc' = [pc EXCEPT ![r] = "draining"]
       ELSE /\ pc' = [pc EXCEPT ![r] = "recorded"]
            /\ UNCHANGED <<job, spent, verdict>>
  /\ UNCHANGED <<key, attempts, stale, principalVars, ledger, dbUp, routed,
                 taken, raised, lost, rearms>>

\* Mutant: one event name for every outcome.
PublishDelivered(r) ==
  LET outcome == <<job[r], verdict[r]>> IN
  /\ raised' = IF dbUp THEN raised \cup {<<job[r], "delivered">>} ELSE raised
  /\ lost'   = IF dbUp THEN lost ELSE lost \cup {outcome}

\* The outcome is out in core.events, or it is lost for good: nothing reads the
\* row again to raise it.
Publish(r) ==
  LET outcome == <<job[r], verdict[r]>> IN
  /\ raised' = IF dbUp THEN raised \cup {outcome} ELSE raised
  /\ lost'   = IF dbUp THEN lost ELSE lost \cup {outcome}

\* Mutant: an event for deliveries alone.
RaiseDeliveries(r) ==
  /\ pc[r] = "recorded"
  /\ IF verdict[r] = "delivered" THEN Publish(r) ELSE UNCHANGED <<raised, lost>>
  /\ Release(r)
  /\ pc' = [pc EXCEPT ![r] = "draining"]
  /\ UNCHANGED <<rowVars, principalVars, ledger, dbUp, routed, taken, rearms>>

\* raise: a failed publish is logged, and the event is lost.
Raise(r) ==
  /\ pc[r] = "recorded"
  /\ Publish(r)
  /\ Release(r)
  /\ pc' = [pc EXCEPT ![r] = "draining"]
  /\ UNCHANGED <<rowVars, principalVars, ledger, dbUp, routed, taken, rearms>>

\* A claim or a record that errors aborts the pass; a row it held stays
\* attempting until its lease runs out.
PassFails(r) ==
  /\ ~dbUp /\ pc[r] \in {"draining", "answered"}
  /\ LeavePass(r, "idle")
  /\ UNCHANGED <<rowVars, principalVars, ledger, dbUp, routed, raised, lost, rearms>>

RelayStep(r) ==
  \/ BeginPass(r) \/ Claim(r) \/ EndPass(r) \/ Vet(r) \/ Gate(r)
  \/ Handle(r) \/ Record(r) \/ Raise(r) \/ PassFails(r)

-----------------------------------------------------------------------------
(* The process: a crash or a stop at any point, and the next boot.         *)

\* The insert a killed process had already sent may still commit; the event of
\* an outcome it had recorded and not raised is lost.
Crash(r) ==
  /\ pc[r] # "down"
  /\ LeavePass(r, "down")
  /\ \/ ledger' = ledger
     \/ pc[r] = "admitted" /\ dbUp /\ ledger' = Booked(key[job[r]])
  /\ lost' = IF pc[r] = "recorded" THEN lost \cup {<<job[r], verdict[r]>>} ELSE lost
  /\ UNCHANGED <<rowVars, principalVars, dbUp, routed, raised, rearms>>

\* build_app: load_all binds the routes, seed_service_principals inserts every
\* grant that is not there (and leaves revoked_at alone), the relay starts.
Boot(r) ==
  /\ pc[r] = "down" /\ dbUp
  /\ pc'      = [pc EXCEPT ![r] = "idle"]
  /\ routed'  = [routed EXCEPT ![r] = TRUE]
  /\ granted' = [p \in Principals |-> TRUE]
  /\ UNCHANGED <<rowVars, revoked, ledger, dbUp, job, spent, verdict, taken,
                 raised, lost, rearms>>

\* The target plugin is disabled or mid-reload in one process, or back.
Reroute(r) ==
  /\ pc[r] # "down"
  /\ routed' = [routed EXCEPT ![r] = ~@]
  /\ UNCHANGED <<rowVars, principalVars, ledger, dbUp, relayVars, raised, lost, rearms>>

Outage ==
  /\ dbUp' = ~dbUp
  /\ UNCHANGED <<rowVars, principalVars, ledger, routed, relayVars, raised, lost, rearms>>

-----------------------------------------------------------------------------
(* The operator and the clock.                                             *)

\* UPDATE core.service_principals SET revoked_at, and back.
SetRevoked(p) ==
  /\ dbUp
  /\ revoked' = [revoked EXCEPT ![p] = ~@]
  /\ UNCHANGED <<rowVars, granted, ledger, dbUp, routed, relayVars, raised, lost, rearms>>

\* DELETE FROM core.role_permissions for the principal's role, and back.
SetGranted(p) ==
  /\ dbUp
  /\ granted' = [granted EXCEPT ![p] = ~@]
  /\ UNCHANGED <<rowVars, revoked, ledger, dbUp, routed, relayVars, raised, lost, rearms>>

\* retry_intent: its UPDATE re-checks the state it read before the audit row.
RetryIntent(i) ==
  /\ dbUp /\ rearms < MaxRearms
  /\ state[i] \in {"refused", "exhausted"}
  /\ state'    = [state EXCEPT ![i] = "pending"]
  /\ attempts' = [attempts EXCEPT ![i] = 0]
  /\ due'      = [due EXCEPT ![i] = TRUE]
  /\ rearms'   = rearms + 1
  /\ UNCHANGED <<key, stale, principalVars, ledger, dbUp, routed, relayVars, raised, lost>>

\* now() passes next_attempt_at.
BackoffElapses(i) ==
  /\ state[i] = "pending" /\ ~due[i]
  /\ due' = [due EXCEPT ![i] = TRUE]
  /\ UNCHANGED <<key, state, attempts, stale, principalVars, ledger, dbUp,
                 routed, relayVars, raised, lost, rearms>>

Holder(r, i) == Busy(r) /\ job[r] = i

\* now() passes claimed_at + LEASE_SECS: for a row nobody works on any more,
\* and, when deliveries may overrun, for any row.
LeaseExpires(i) ==
  /\ state[i] = "attempting" /\ ~stale[i]
  /\ Overrun \/ \A r \in Relays : ~Holder(r, i)
  /\ stale' = [stale EXCEPT ![i] = TRUE]
  /\ UNCHANGED <<key, state, attempts, due, principalVars, ledger, dbUp,
                 routed, relayVars, raised, lost, rearms>>

Next ==
  \/ \E k \in Keys : Enqueue(k)
  \/ \E r \in Relays : RelayStep(r) \/ Crash(r) \/ Boot(r) \/ Reroute(r)
  \/ \E p \in Principals : SetRevoked(p) \/ SetGranted(p)
  \/ \E i \in Ids : RetryIntent(i) \/ BackoffElapses(i) \/ LeaseExpires(i)
  \/ Outage

\* The drain loop wakes every RELAY_INTERVAL_SECS and its awaits complete; the
\* clock advances; compose restarts the server and Postgres (unless-stopped).
Fairness ==
  /\ \A r \in Relays : WF_vars(RelayStep(r)) /\ WF_vars(Boot(r))
  /\ \A i \in Ids : WF_vars(BackoffElapses(i)) /\ WF_vars(LeaseExpires(i))
  /\ WF_vars(Outage /\ ~dbUp)

Spec     == Init /\ [][Next]_vars
FairSpec == Spec /\ Fairness

-----------------------------------------------------------------------------
(* What the outbox promises.                                               *)

\* No outcome goes untold: the one a row reads has had its event, or a relay is
\* about to raise it, or a crash or an outage fell between the record and the
\* raise.  A second relay, a late write over another's outcome and a re-arming
\* by an operator excuse nothing.
OutcomesAreTold ==
  \A i \in Ids : state[i] \in Terminal =>
    \/ <<i, state[i]>> \in raised \cup lost
    \/ \E r \in Relays : pc[r] = "recorded" /\ job[r] = i /\ verdict[r] = state[i]

\* An intent recorded `delivered` has its ledger entry, whichever relay wrote
\* the record and whatever crashed before it.
DeliveredIsBooked == \A i \in Ids : state[i] = "delivered" => ledger[key[i]] = 1

\* Money is never booked for a fact no producer enqueued, and no fact has two
\* intents (outbox_one_intent_per_key).
BookedWasOwed ==
  /\ \A k \in Keys : ledger[k] > 0 => Enqueued(k)
  /\ \A i, j \in Rows : key[i] = key[j] => i = j

\* No two live relays ever work on one intent, and a row a relay works on is
\* never handed back to the queue (FOR UPDATE SKIP LOCKED plus the lease).
HeldByOne ==
  \A r \in Relays : Busy(r) =>
    /\ state[job[r]] = "attempting"
    /\ \A s \in Relays \ {r} : ~Holder(s, job[r])

\* `exhausted` means the budget was spent: it is never written over a row an
\* operator re-armed meanwhile.
ExhaustedSpentItsBudget ==
  \A i \in Ids : state[i] = "exhausted" => attempts[i] >= MaxAttempts

\* A raised core.outbox.delivered event is never about a fact the ledger lacks:
\* a producer may settle its own record from it.
EventIsTrue == \A i \in Ids : <<i, "delivered">> \in raised => ledger[key[i]] = 1

\* `delivered` is terminal: no step of any relay, crash or operator undoes it
\* ("Terminal: one intent, one delivery").
DeliveredIsTerminal ==
  [][\A i \in Ids : state[i] = "delivered" => state'[i] = "delivered"]_vars

\* The budget is spent at the claim and only an operator gives it back: no
\* crash, reclaim or late record lets an intent start over by itself.
OnlyAnOperatorRefunds ==
  [][\A i \in Ids : attempts'[i] < attempts[i] =>
       state[i] \in {"refused", "exhausted"} /\ state'[i] = "pending"]_vars

\* What a row says of its history stays true of it, whoever writes it next: a
\* relay that is slow, a relay that reclaimed it, a crash, an operator.
RowsKeepTheirAccount ==
  []ExhaustedSpentItsBudget /\ OnlyAnOperatorRefunds /\ DeliveredIsTerminal

\* Every intent reaches an outcome, provided the processes and the database
\* eventually stay up.
EveryIntentSettles ==
  <>[](dbUp /\ \A r \in Relays : pc[r] # "down") =>
    \A i \in Ids : Open(i) ~> state[i] \in Terminal

-----------------------------------------------------------------------------
(* What the comments say and the code does not do.                         *)

\* STATE_REFUSED: "The target said no, or its gate refused the principal.
\* Terminal -- retrying would change nothing": a verdict of refusal is never
\* given for an intent the gate would have let through.
GateRefusesOnlyTheUngranted ==
  [][\A r \in Relays : pc[r] = "vetted" /\ pc'[r] = "answered" /\ verdict'[r] = "refused"
       => ~granted[Principal(r)]]_vars

-----------------------------------------------------------------------------
(* The abstract promise the outbox implements.                             *)

Promise == INSTANCE LedgerPromise WITH
  owed      <- {k \in Keys : Enqueued(k)},
  entries   <- ledger,
  confirmed <- {key[i] : i \in {j \in Ids : state[j] = "delivered"}}

KeepsPromise == Promise!Spec
=============================================================================
