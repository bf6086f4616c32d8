# Adjutant in TLA+

Adjutant is a Rust server for a scout troop: a core process (`server/`) that
loads plugins (`plugins/*`, one PostgreSQL schema and one database role each), a
Flutter client (`client/`) and a handful of tools. This directory holds TLA+
models of it: the core's outbox, bus, scheduler and plugin lifecycle, the four
ways money moves through finance, stripe and the store, the eleven plugins that
keep the troop's records, and the client's offline queue. The models are checked
with TLC and what matters most is proved with TLAPS.

Source lines below are relative to the repository root.

## 1. The system

### Components, their state and their operations

| Component | State | Operations | What is hard about it |
|---|---|---|---|
| Outbox (`server/src/outbox.rs`, `server/src/db.rs` migration 9) | `core.outbox` rows, `core.service_principals`, `core.role_permissions`; the relay's locals | `core.outbox_enqueue`; `drain` = `reclaim_stale`, then `claim_next`, `deliver`, `record`, `raise` per row; `retry_intent`; `seed_service_principals` at boot | a lease instead of a lock, crashes between any two awaits, a grant that changes under a delivery, an answer that is an error although the target committed |
| Ledger writers (`plugins/finance/src/lib.rs`) | `finance.transactions`, `finance.funds` | `insert_entry`, `TRANSFER_SQL`, `explain_no_entry`, `explain_no_transfer`, `on_payment_received` | READ COMMITTED snapshots, one unique index, fallible work after the commit, retries under one reference |
| Dues and draws (same file, `migrations/002_dues_funding.sql`) | one `finance.dues` row per year, kind, member and lodge; the draw's transfer | `route_assess_dues`, `route_self_report`, `upsert_dues`, `book_dues_draw`, `set_dues_draw_state`, `route_repair_waived_dues` | three commits per draw, a lost answer between them, revision of what is in flight |
| The treasurer's desk (same file, `migrations/003_receipts.sql`) | funds, budgets, assessments, receipts | create and edit a fund, set a budget, assess, take dues, issue and correct a receipt | guards read in a snapshot, a standing read after the insert it is about |
| Stripe (`plugins/stripe/src/lib.rs`) | `stripe.payments`, `checkout_sessions`, `webhook_events` | checkout, `handle_webhook`, the settle subscription, `route_book`, the `unbooked` worklist | at-least-once webhooks that overlap and overtake, at-most-once events, three routes to one entry |
| Store (`plugins/store/src/lib.rs`) | catalogue items, orders with their payment and draw | place, checkout, complete, comp, draw, settle | calls to stripe and finance between a read and a guarded write |
| Event bus (`server/src/events.rs`, `server/src/host.rs`) | `core.events`, a broadcast channel, subscription tasks | `publish`, `subscribe`, `clear_plugin` | lag drops events; a crash drops all that are not handled |
| Plugin lifecycle (`server/src/server.rs`, `plugin_runtime.rs`, `plugin_choice*.rs`, `identity.rs`) | `core.plugins` flags, the registry, identity providers, in-flight counts, one lock per plugin | `enable_plugin`, `disable_plugin`, `uninstall_plugin`, `reload_plugins`, the choice of plugins | doors with different locks over one registry |
| Scheduler (`server/src/scheduler.rs`) | tasks per plugin, last and next run | `start`, `stop`, `run_loop` | abort without waiting |
| Governance (`plugins/governance/src/lib.rs`) | meetings and who is present, motions, amendments, votes, the Accords' versions | propose, second, debate, vote, close, amend, rule, adopt, minutes | every handler reads, checks a stage and writes by id alone |
| Missions (`plugins/missions/src/lib.rs`) | missions, appeals, mentorships, milestones | request to completion, appeal, match | paperwork and transition are two statements |
| Archive (`plugins/archive/src/lib.rs`) | records, links | file, correct, link, ingest, lineage | record and edge are two statements; redelivered events |
| Calendar (`plugins/calendar/src/lib.rs`, `recurrence.rs`) | events, answers | create, edit, exclude a date, cancel, answer, ingest | date arithmetic; a start that moves under an answer |
| Equipment (`plugins/equipment/src/lib.rs`) | items, checkouts | check out and in, flag, return to service, retire, delete, availability | questions asked in one statement and relied on in another |
| Conflicts, announcements (`plugins/*/src/lib.rs`) | cases and their ledger; notices and receipts | file, advance, assign, resolve, nudge; publish, retract, read | the row and its ledger entry are two statements |
| Membership and scope (`plugins/membership/src/lib.rs`, `server/src/scope_hierarchy.rs`) | lodges, patrols, members, declared edges, the map in memory | write a patrol, import, declare, load, adopt | a DELETE and an INSERT; three copies of one fact |
| Accounts (`plugins/auth/src/lib.rs`) | users, role grants, sessions, OIDC states | register, create, assign roles, log in and out, sign in | two callbacks, two registrations, a name that is taken |
| Client (`client/lib/state/outbox.dart`, `session.dart`) | a queue of offline writes, the refused ones | `enqueue`, `flush`, `clear` | a flush that awaits while the queue changes |
| Backup, notifications, configuration, WASM host, mcp, command line, deployment | files and processes | I/O | little state of their own |

### How they interact

A producer plugin (stripe, store) enqueues an intent in its own statement. The
relay of some process claims the row, checks the service principal, finds the
target's route in its live registry, runs the target's own permission gate and
calls finance's handler in process. It records the outcome on the row and
publishes it as an event, from which the producer settles its own record. A
payment without a resolvable fund goes to finance as a `payment.received` event
instead, and a treasurer can book any payment by hand. Finance refuses the second
entry under one `external_ref`, which is what makes all three safe together. Dues
draws use the same ledger through the transfer route, called by finance itself.

Governance and missions publish what they decide; the archive (three
subscriptions) files and links it, and the calendar schedules a debrief for a
completed mission. The other plugins share the host and nothing else: one
process, one connection pool each, no transaction around a handler's statements.

## 2. The modules

| Module | Models | Relation |
|---|---|---|
| `Outbox` | the outbox table, the relay of every process, the operator, the clock, crashes, outages | its ledger is the abstract effect of finance's `insert_entry` |
| `LedgerPromise` | what the money path promises: a fact is owed, booked once, then confirmed | implemented by `Outbox` (`KeepsPromise`) |
| `StripeLedger` | the webhook's payment, the settle subscription, the booking route, the bus | `EXTENDS Outbox`: its actions run beside the relay's |
| `FundLedger` | `insert_entry` and `TRANSFER_SQL` statement by statement | what `Outbox` calls `Booked`, in detail |
| `DuesDraw` | one dues row and its draw | relies on a reference that moves money once |
| `Treasury` | funds, budgets, assessments, dues payments, receipts | `EXTENDS PluginHost` |
| `StripeCheckout` | sessions and the events about them | `EXTENDS PluginHost`; what becomes of a payment is `StripeLedger` |
| `StoreOrders` | the shop's orders, its settle subscription, the relay as it sees it | relies on `Outbox` for the intent |
| `Money` | all of the money outside the outbox, one part at a time (scenes, section 3) | `EXTENDS` `FundLedger`, `DuesDraw`, `Treasury`, `StripeCheckout` and `StoreOrders`, which share no state |
| `PluginLifecycle` | enable, disable, uninstall, reload and the choice of plugins; requests inside; boots | of the bus, the scheduler and the identity hub it has what is bound or registered |
| `PluginHost` | handlers in progress, statement by statement, and the bus | extended by every plugin below |
| `BusReaders` | a subscription: a cursor into the bus and the handler it awaits; lag, rebinding, errors | extended by `Archive` and `Calendar` |
| `Governance`, `Missions`, `Archive`, `Calendar` | one plugin each | composed by `Memory` |
| `Recurrence` | the expansion of a recurrence rule, as functions, and the definition it is checked against (`Series`) | extended by `Calendar` |
| `Memory` | the four on one bus | |
| `Equipment`, `Conflicts`, `Announcements`, `Roster`, `Accounts`, `Scheduler` | one component each | `EXTENDS PluginHost` |
| `OfflineQueue` | the client's queue, its replay and the person at the screen | |
| `MC*` | model values, first states and symmetry for TLC; `MCTroop` also the scenes of its run | |
| `*_proofs` | theorems | eight modules, section 4 |

### Outbox

`state[i]`, `attempts[i]` and `key[i]` are the columns of row `i`; `due[i]` is
`next_attempt_at <= now()` and `stale[i]` is `claimed_at < now() - LEASE_SECS`, so
the clock is the two actions `BackoffElapses` and `LeaseExpires`. A relay's `pc`
follows `drain`: `BeginPass` is `reclaim_stale`, `Claim` is `claim_next`, `Vet`,
`Gate` and `Handle` are the parts of `deliver` between its awaits, `Record` is
`record` and `Raise` is `raise`. `Handle` has the four outcomes the caller of a
handler can meet: booked and answered, refused, failed with nothing written, and
failed with the entry written (finance reads the balance, audits and publishes
after its insert). `Crash` may happen anywhere, with the insert it had sent
committed or not. `Boot` inserts every grant that is missing. `raised` is what is in
`core.events`, and `lost` remembers the outcomes whose event never will be: the
publish failed, or the process died between record and raise, and nothing reads the
row again. `Overrun` says
whether a live delivery may outlast its lease: nothing in `deliver` bounds it,
and the comment on `LEASE_SECS` promises it.

### FundLedger

A statement is two steps, `ReadSnapshot` (its guards, on what had committed when it
began) and `Commit` (the unique index, on what has committed when it ends). This is
what READ COMMITTED gives a statement that takes no row lock. `Explain` and
`Report` are the statements after it; `Fail` stands for an error or a lost answer
anywhere, and `Retry` for the caller that sends the same request again.

### DuesDraw

One row of one member and year. `AssessDues` and `SelfReport` read what the handler
reads before it writes; `Upsert`, `BookDraw` and `SetDuesDrawState` are the three
commits; `Abandon` is an error or a crash between them; `BookByHand` is the
transfer a treasurer makes under the reference the row states; `ReadForRepair` and
`WriteRepair` are the two statements of the repair. `drawn` is the amount of the
transfer under the row's deterministic reference. Amounts are the code's own
arithmetic (`tier_assessment`, `funded_cents_for`) on a small base.

### StripeLedger

`paid[k]` is `ledger_status`, `link[k]` says that the row carries
`ledger_intent_id`. A webhook delivery is insert (with the intent in the same
statement, or without one), re-read, publish, mark. `bus` is a queue of events: a
subscriber handles them in order, a crash or a lag loses them.

### PluginLifecycle

`flag` and `gone` are the columns `enabled` and `uninstalled`; `slot` and `gen` are
the registry, with the load that is live, because a reload makes a new generation of
a plugin with a pool, handlers, subscriptions and timers of its own; `hub` and `off`
are the identity hub. An administrator's `at` follows the handler, one state per
await another door can use: `loading`, `initialised`, `installed`, `bound` in an
enable, `flagging`, `stopping`, `unbinding`, `draining` in a disable, and so on. The
first two doors take `lock[p]` and every return drops it; the others take none.
`LoadOne` is one turn of the loop of `load_all`, in the order of the sorted
directory, which reads the flags of each plugin when it comes to it. Every fallible
step has its failure: `LoadFails` also after the provider has registered,
`RevertEnable`, `FlagOffFails`, `MarkGoneFails`, `ReloadFails`. `Drained` closes the
pool whether the drain ended or timed out, as the code does; `cut` remembers the pools
closed without a finished drain. A refused request changes nothing and is no
action. One action may cover awaits at which no other door acts on the same state
without being an overlap (the teardown of `RevertEnable`, the sweep of
`ClearSubscriptions`).

`adrift` remembers that, since the boot, a door that takes no lock overlapped
another one, or that a choice wrote its flags and its reload then failed. What the
code promises of flags and bindings does not survive that (section 5), so
`RegistryAgreesWithFlags` and `BoundOnce` are stated of the other histories, in
which locked doors on different plugins still interleave with each other, fail
half-way and meet requests and restarts. `DrainedPoolsAreUnused` is stated of all.

### The plugins on `PluginHost`

`hand[h]` is a handler in progress: `at` is the statement it runs next, the other
fields what it has read so far. `PluginDb` runs no transaction, so each SQL statement
is one step and everything the other handlers do may come between two of them. A
statement is two steps only where its own snapshot matters (`FundLedger`, and
`insert_receipt` in `Treasury`). A `Begin*` action is the handler's first read with
the guard it answers from; a request that is refused there changes nothing and is
no action. `*Fails` ends a handler before its next statement (an error, or a
crash), and the history variables (`unretired`, `broken`, `lost`, `unlogged`,
`missed`, `torn`) remember where that left half of a change, because the code
repairs none of them and the properties speak of the rest. Audit rows are left
out; events only where somebody subscribes to them.

`Governance`: `floor[m]` is a motion's row, `votes` the table as it was inserted,
`accords` the versions. `ReadRule`, `CountRoom`, `TallyMotion`, `Decide` and `Announce`
are the statements of a close; `CheckSource`, `InsertVersion`, `Supersede` and
`PublishAdopted` those of an adoption; `Admit` is the look into the room a Congress
asks for. `Missions`: the stage, state and paperwork of a mission, and each route
that moves it. `Archive`: records are a sequence and never change, as its trigger
has it; `Lineage` is the recursive query as a function over depth. `Calendar`:
`Recurrence` lays a small calendar out (weeks of 3 days, months of 3 to 5) and
expands a rule period by period as `recurrence.rs` does. `Equipment`: `AskOpen` is
`open_checkout`, `Insert` meets the partial unique index, `CloseRow` and `Carry` are
the two statements of a checkin; `Touching`, `Precedes` and `Fetched` are the WHERE,
the ORDER BY and the LIMIT (`MaxRows`) of the query availability reads checkouts by. `Conflicts`: `waiting` is the order of
`stage_since`, `pass` the nudge's batch. `Roster`: `declared` is
`core.scope_hierarchy`, `covers` the map that `LoadHierarchy` and `AdoptHierarchy`
bring into memory. `Accounts`: `Indexed` is the two unique indexes; a sign-in is its
`state`, then the handler that took it, then a session. `Scheduler`: `doomed` are the
tasks `abort` was called on, which end at their next await and not before; a start is
three steps, because it lets the lock of `tasks` go between the abort and the insert,
and `crossed` remembers the tasks that overlapping starts made; `Panic` ends a task
whose `JoinHandle` stays where it is.
`StoreOrders`: `doubt` remembers that a transfer's answer was lost, that two draws
overlapped or that an operator re-armed an intent. `OfflineQueue`: `flush` holds the
copy of the queue a pass read at its start, `owed` the writes the person was told
are queued.

## 3. The runs

| Run | Instance | Shows |
|---|---|---|
| `two` | 2 relays, 1 intent, budget 2, 1 re-arm, deliveries within the lease | `HeldByOne`; `RowsKeepTheirAccount` (an exhausted row spent its budget, an attempt is given back by an operator only, delivered is terminal); the relay implements `LedgerPromise` |
| `late` | 2 relays, 1 intent, deliveries may overrun, so that one record writes over another | what needs no lease: `OutcomesAreTold` (the terminal state a row reads has had its event, or a crash or an outage took it), `DeliveredIsBooked`, `EventIsTrue` |
| `live` | 1 relay, 2 intents, budget 2, fairness | `EveryIntentSettles`, `BookedWasOwed` |
| `stripe` | 1 payment, 2 overlapping deliveries, 1 relay, a bus of 1 event | `PaymentsAreAccounted` |
| `lifecycle` | 2 administrators, 1 request, 3 plugins (a required provider, a provider, a plugin that depends on the latter), 3 doors | `RegistryAgreesWithFlags`, `BoundOnce`, `DrainedPoolsAreUnused` |
| `money` | 5 scenes, 2 handlers each | the ledger, the dues, the shop, the desk and the till |
| `troop` | 14 scenes, 2 handlers each | the troop's plugins, the roster, accounts, the scheduler and the client's queue |
| `fund_race` | scene funds, 2 calls | two overlapping expenses overdraw a fund (violation) |
| `paid_reduction` | scene shop | a paid order with a reduction is never completed (violation) |
| `blank_payment` | scene till | a completed session shows no payment (violation) |
| `offline_lost` | scene offline | a write queued during a replay is lost (violation) |
| `moved_patrol` | scene roster | a moved patrol is not covered until a reload (violation) |

**Scenes.** Modules that share no state are checked in one run, and each behaviour
is about one of them: the scene, chosen at first, decides which module steps, and
the properties of all are stated of all. This is a sum of the modules' state spaces
and not their product, which would say no more, since no step of one is enabled or
disabled by another. Where modules do share state they run together: `StripeLedger`
with `Outbox`, the four of `Memory` (scene `record`).

| Scene of `money` | Module | Bound | Shows |
|---|---|---|---|
| funds | `FundLedger` | 2 funds, 1 reference, amounts 1 and 2, 2 calls | `RefMovesOnce`, `BooksBalance`, `AnswerIsHeld` |
| dues | `DuesDraw` | 4 tiers, a legacy row or none, 3 calls | `WaivedOwesNothing`, `NotSilentlyUnfunded`, `DrawIsSettledOnce` |
| shop | `StoreOrders` | 1 order, prices 0 and 2, 2 sessions, 6 calls | `SettledMeansMoney`, `SecondTransferNeedsDoubt`, `OrdersKeepTheirTerms` |
| desk | `Treasury` | 2 entries, 3 receipts, 6 calls | `PapersAgree` |
| till | `StripeCheckout` | 1 session, 3 events, 5 calls | `CheckoutTellsTheTruth` |

| Scene of `troop` | Requests | Begins with | Shows |
|---|---|---|---|
| floor | 5 | an empty floor | `FloorIsInOrder` |
| accords | 3 | a motion that passed | `FloorIsInOrder` |
| missions | 7 | no mission | `MissionsAreDocumented` |
| record | 2 | a motion voted on, a mission with its report, all four plugins stepping | `ArchiveTellsTheTruth` |
| library | 2 | events on the bus, in the orders two handlers can publish them | `ArchiveAnswers`, `ArchiveTellsTheTruth` |
| office | 3 | completions on the bus, of one mission twice or of two | `ClosedMissionsAreDebriefed`, `CalendarCountsRight` |
| series | 1 | every rule of `MCSeries` | `CalendarCountsRight` |
| gear | 4, of 2 items, with a limit of 1 row | an empty pool | `OneHolder`, `ShelvesAreTrue`, `GearMovesLegally` |
| circle | 4 | no case | `LedgerAccountsForTheCase` |
| notices | 5 | no notice | `NoticesReachOnce` |
| offline | 4 presses | an empty queue | `QueueIsKept` |
| roster | 4 | an empty roster | `EdgesFollowTheRoster` |
| accounts | 5 | no account | `SignInsFindTheirAccount` |
| timer | 3 | no task | `TimersAreInHand` |

**Why the bounds are enough.** Two relays are needed for a lease to matter and
claims are symmetric beyond that. A budget of 2 has a first, a last and an
in-between attempt once a crash spends one. Two intents let one starve the other;
more add only queue length. One reference and two clients give every overlap of
two statements, and amounts 1 and 2 over an opening balance of 1 give entries that
are and are not funded. In the dues three calls allow assess, revise, retry; the
shop's six calls allow place, checkout, complete, a second attempt at one of them and
a draw. `attempts` is capped one above the budget because the code only compares it
with the budget. In the lifecycle two administrators give every overlap of two doors
and the third door acts on what they left; `MaxOps` bounds them over restarts too.
One request shows what meets a pool, since requests do not see each other. In the
troop two handlers give every overlap of two requests, which is what the hazards are
about, and each scene's budget is the longest way to the state the property is
about plus the overlapping request: proposing, seconding, voting and two closes on
the floor; a checkout, a checkin and two others in the gear, where two items and a
limit of one row make the second item's holder fall off the availability query. A chain of three
records in the archive has a middle; a depth of 5 is beyond every chain.

`CHECK_DEADLOCK FALSE` is said of the runs of `MCMoney` and `MCTroop`, whose requests
are bounded: when they are spent nothing is left to do.

**Fairness** (`FairSpec`, used by `live`). The drain loop wakes every 5 seconds and
logs, rather than returns, its errors (`outbox.rs:338-362`), so a relay that can
step does. The clock advances. Compose restarts the server and the database
(`restart: unless-stopped`, `docker-compose.yml`). `EveryIntentSettles` assumes
moreover that the process and the database are eventually up for good. A panic in
a handler is not modelled: it would end the relay's task with nothing to restart
it.

## 4. The proofs

Each theorem is for every value of the constants. Those about behaviours rest on an
inductive invariant: no property is inductive alone. In every module but
`Recurrence_proofs` the plan of the proof is one lemma per action, or per group of actions that leave the same state
alone, and most of the work is in one idea: handlers read without a lock and write by
id, so the invariant says of each handler what it may be sure of at the statement it
is at (`Knows` in its several forms), and a lemma says that nothing anybody else does
takes that back.

- `Outbox_proofs`, with and without overrun: `TypeCorrect`, `OutcomesStayTold`,
  `DeliveredRowsAreBooked`, `OnlyOwedIsBooked`, `EventsAreTrue`. `OutcomesAreTold` needs
  only the types: a relay's step tells what it writes (`RelayTells`), and nobody else
  writes a terminal state or takes back what was told (`ToldKept`). The invariant of the rest is in two
  parts. `BookInv` (types, `KeyedRows`: a row that exists has a key,
  `DeliveredIsBooked`, `VerdictIsTrue`: a relay that holds the verdict `delivered` has
  seen the entry, `RaisedRows`, `EventIsTrue`) is kept also when somebody else books a
  key; `IInv` adds `BookedWasOwed`, which only holds where the relay alone books. Of
  these `VerdictIsTrue` is the strengthening: the record writes what a relay
  concluded earlier. The second half assumes `~Overrun` and adds `Hold` (a relay that
  works on a row finds it attempting and not stale, and no other relay works on it):
  `OneHolder`, `DeliveredStaysDelivered`, `PromiseKept` (the refinement of
  `LedgerPromise` with `Owed`, the ledger and `Confirmed` as the mapping), and, with
  `Spending` (the attempts a relay holds are those of its row), `RowsStayAccounted`.
  Its second part is about the webhook. `PaymentsAccounted` rests on the first: each step
  of the plugin leaves the outbox alone or books one key, so `BookInv` is kept without a
  second proof (`ElsewhereBooks`), and the rest is who may say what: `Recorded`
  (whatever is about a payment is about one that has its row) and `Truthful`
  (whoever says `booked`, or carries an outcome `delivered`, says it of an entry the
  ledger has).
- `Finance_proofs`. The ledger: `FundTyped`, `RefOnce` and `AnswersAreTrue` for every
  number of clients, from `WrittenIsHeld` (a client whose statement wrote, or was
  answered a duplicate, finds its reference held). `BooksAlwaysBalance` needs the sum
  over the funds, which the library computes by a recursive function: that the function
  exists and is unique, and what it makes of one changed entry (`TotalChange`), is
  proved from the smallest set that would refute it, which is how an induction over
  finite sets can be written without a rule for it. Its other half, the bound on an
  overdraft, is `GuardLags`: how much of what the clients may take is still untaken.
  `FundedAlone`: with a single client no fund goes negative, because what its snapshot
  showed is still so at its commit (the run `fund_race` shows that the assumption is
  needed). The dues: `DuesTyped`, `WaiversOweNothing`, `FundingIsNotSilent` and
  `DrawsSettleOnce`, from `SaysSo` (who is about to transfer has a row with funding; who
  is about to write `booked` has moved it). The desk: `PapersAlwaysAgree`, from
  `DeskInv` (receipts form a chain, and each treasurer knows the entry it is about).
  `MoneyTyped` is of the composition: every step of `Money` is a step of each part or
  leaves it alone, so what was proved of a part alone holds of it there.
- `Store_proofs`: `SettledIsPaid`, `SecondTransfer` and `TermsStand` from `StoreInv`
  (`RowOK`, `IntentOK` and `ClerkOK`: what a row, its intent and a clerk between two
  calls may say; `Clear`: an order without doubt has at most one transfer, made or on
  its way), and `CheckoutsTellTheTruth` from `TillInv`, which follows a session from the
  request to the events about it.
- `Lifecycle_proofs`: `LifecycleTyped`, `RegistryAgrees`, `LiveIsBoundOnce` and
  `DrainedPools`. `PoolInv` says that a generation is made once and is then live, or held
  by one door, or closed, or lost; `DoorInv` what each door has locked and holds;
  `PhaseInv`, only where nothing is `adrift`, what registry and bindings are at each place
  of each locked door. `TimersStayInHand` is the scheduler's `TimersAreInHand`, from `TimerInv`:
  the task that is named goes on or panicked, and a start that no other overlaps is the
  only one between its abort and its insert, with nothing named meanwhile.
- `Troop_proofs`. The gear: `GearHasOneHolder`, `ShelvesAreAsTold`, `GearMoves`. That the
  shelves are as told is proved while the checkouts that touch the window fit the limit:
  then every one of them is fetched (`LimitHoldsAll`). The count
  of services against returns is inductive with the handlers between the two
  statements of a checkin counted in (`Going`, `Banked`), with what each handler
  knows (`Knows`), and because an item that was never in the pool has no history
  (`Fresh`). The cases: `LedgerAccounts`, where a stage a case reached is in its ledger
  or in the hands of the handler that is to write it. The notices: `NoticesReach`, from
  `OneCrier` (of each notice one handler is to tell, or the news is out). The client:
  `QueueStaysKept`, from `Sound` (what a pass still has to replay, and what the device
  holds, are one record per act).
  The roster: `EdgesFollow`. A DELETE takes away the pairs of other handlers, so the
  invariant is that a pair of the roster is declared or some handler has yet to
  declare it (`WillDeclare`). The accounts: `SignInsAreTheirs`, from `OneHome` (a sign-in is in its
  state, in one handler's hands or in one session) and what each handler carries.
- `Memory_proofs` is about the four plugins on one bus, and the longest.
  - The floor: `FloorInvariant`, `FloorStaysInOrder`. `FloorInv` is what a row of each
    table may hold (`RowStands`, `OneVoteEach`, `Mandated`, `FewInForce`) and what a
    handler knows of it (`FloorKnows`). `FloorGrows` is what no step takes back: a motion
    keeps its mover and its backing, a decided one is never undecided, votes are only
    added. Each statement of a handler is proved against it, so the interleaving is
    argued once.
  - The missions: `MissionsStayDocumented`, from `MissionInv` (`MissionStands`,
    `AppealStands`, and `Briefed`: what a handler found filled in is not taken away before it writes).
  - All four: `MemoryInvariant`. `Tells` (an event says what was committed), `Minds` (a
    subscription's task carries an event it was told), `Honest` (a record says no more
    than its source), `Scheduled` (a completed mission has its debrief, or the event, a
    task or a half that was lost is accounted for). From it `ArchiveStaysTrue` and
    `DebriefsAreScheduled`; `PeopleAreCountedOnce` is about the answers alone.
  - The chain of records: `ChainStaysComplete`, from `ChainInv` (`OneRecordEach`: one
    record for each event; `RefsAreKeys`, `ImpactsAreDue`, `TiesAreFiled`: what a record or
    a task refers to is filed or still due, so the edge is there as soon as both ends are).
  - The walk: `ArchiveStaysAnswering`. `Lineage` is a recursive function over depth,
    shown to exist and to satisfy its equation by the least depth that would refute it.
    Each step that has not reached all there is reaches one record more
    (`WalksReachMore`), so with `n` records `n - 1` steps reach all; every record met is one
    the links lead to (`WalksStayInside`).
- `Recurrence_proofs` has no state: it shows that the walk `recurrence.rs` makes finds
  the days that the rule means, for every length of the week, every cycle of months,
  every accepted rule and every start.
  - The calendar. `FirstDay` is a recursive function, shown to exist by the least month
    that would refute it; every day up to the last month is in one month, and months
    follow each other (`EveryDayHasAMonth`, `MonthsAscend`). Division, of which the
    provers know little, is stated once (`Divided`, `DividedOnce`, `RestOfDifference`).
  - The days of a month. `MonthDayNamed` and `NthNamed`: a day counted from either end, and
    an nth weekday computed from the weekday of the month's first or last day, are what
    counting the days of the month gives.
  - The periods. `CandidatesFit`: the candidates of a period are its days that the rule
    fits, none of another period. `CandidatesAscend`: a later period has later days. So
    the walk meets the days of the series in their order (`CandidatesAreTheDays`).
  - The walk. The library's fold is recursive; `FoldRuns` gives its run, a sequence of
    intermediate results, from its equation. `Walked` is the invariant along that run (what
    was found is the first `limit` of what was met at or after `from`, what was counted is
    all of it, and a walk that is done would add nothing), kept by a candidate
    (`TakeKeeps`) and by a period (`TurnKeeps`). Its end is `ExpansionIsTheSeries`.
  - `OccurrencesAreThose`: asking for as many more as dates were taken out leaves enough
    (`AskedMore`, `FirstLeft`).
- `Calendar_proofs`: `CalendarStaysRight`. `DatesInv` says that every row can be expanded
  from its start and from wherever a handler is about to move it, and that finitely many
  dates are taken out of it, also in the list a handler is about to write back. With
  `OccurrencesAreThose` it gives the half about the series, and `PeopleAreCountedOnce` of
  `Memory_proofs` gives the half about the answers.

The assumptions are those the modules state by name, which TLC evaluates in every
run that extends the module:

| Assumption | Says | Why the code justifies it |
|---|---|---|
| `OutboxAssumption`, `StripeAssumption`, `StoreAssumption`, `DuesAssumption`, `TreasuryAssumption`, `AccountsAssumption` | the types of the constants; the row that is already there, if any, is a legacy waiver | the columns' types and the migration |
| `FundAssumption` | finitely many funds and clients, positive amounts of which there is a largest | the guard refuses an amount that is not positive; the column is an `i64` |
| `HostAssumption` | finitely many handlers at once | a process has finitely many tasks |
| `LifecycleAssumption`, `GearAssumption`, `RosterAssumption`, `NoOrderAssumption` | types; the values that mean "nothing here" are not rows | they stand for NULL and for a missing row |
| `MemoryAssumption` | the subscriptions are the clerks' three and the debrief desk | the manifests of archive and calendar |
| `RecurrenceAssumption` | types; a week has days, a cycle has months and each month has days | chrono's calendar |
| `CalendarAssumption` | a schedule's rule is none or of the shape `parse_rrule` builds; the `MAX_PERIODS` periods of an accepted one, from its start and from wherever it is moved, are on the calendar laid out | `recurrence.rs` walks at most 4000 periods on chrono's calendar, which ends in the year 262142: a daily rule stays on it up to an interval of some 23 900 days, a yearly one up to some 65 years. Of longer intervals, which may leave the calendar and panic (section 5), the theorem says nothing |
| `ArchiveAssumption` | a depth of at least 1; a filed reference is a pair of a kind and a key, a version's key a number | `clamp(1, MAX_DEPTH)`; a `source_ref` is `<plugin>:<entity>:<id>` |

Three theorems name a hypothesis of their own, and the statement of a fourth,
`ShelvesAreAsTold`, has the limit of the availability query in it. `~Overrun`: deliveries within their
lease, which is what the comment on `LEASE_SECS` promises and run `late` does without.
`OneClient`, of `FundedAlone`. `WalkedOut`, of `ArchiveStaysAnswering`: there are no more
records than the depth of a walk and one. The code clamps the depth, so of longer
chains it answers a part, and the theorem says nothing of them; `ChainStaysComplete`,
that the links themselves are all there, needs no such hypothesis.

**Only model-checked:**

- `EveryIntentSettles`: liveness is out of the prover's reach.
- The five properties whose runs expect a violation.

## 5. Where code and comments disagree

Five disagreements have a run each: `FundsStayFunded`, `PaidReductionIsCompleted`,
`CompletedShowsItsPayment`, `NothingOwedIsLost` and `MovedPatrolsAreCovered`
(`PROJECT.json`, findings, quotes the lines). The following were met while the
models were written. Where a property is named it is stated in the module and TLC
violates it; otherwise the step is in the model, or the note says that it is not.

### The core

- A failed read of `role_permissions` refuses an intent for good
  (`GateRefusesOnlyTheUngranted`; `plugins/sdk/src/lib.rs:947`, `outbox.rs:73-75`).
- A delivery that outlasts `LEASE_SECS` is reclaimed, and its late `record`, which
  names only the id, overwrites a delivered row (`outbox.rs:502`; in `late`, where
  `DeliveredIsTerminal` is therefore not listed).
- `claim_next` and `reclaim_stale` do not look at `max_attempts`: an intent whose
  delivery ends the process is claimed for ever (`outbox.rs:481-483`).
- An `exhausted` intent may have its entry in the ledger, when what follows the
  insert fails (`plugins/finance/src/lib.rs:2262-2295`, `outbox.rs:78-80`). The same
  makes a `failed` draw one that moved (`lib.rs:2479-2520`, `lib.rs:5074`).
- A boot inserts a grant an operator deleted (`outbox.rs:202-213`).
- `reconcile_and_raise` compares the number of mismatches with that of the last
  pass, and stores it before a publish that may fail (`outbox.rs:890-913`; not
  modelled: the report is read-only).
- A plugin runs while its dependency is disabled (`DependencyIsNotDisabled`;
  `server.rs:216-230`): the two doors hold different locks.
- A reload that loaded a plugin before a disable is adopted after it, so a disabled
  plugin is live (`server.rs:1451`; `plugin_runtime.rs:464-466`: a `Live` slot "exists
  only while the plugin is enabled"). A choice whose reload fails leaves the same
  until the next boot.
- Two reloads that overlap each clear and then each bind, so one event is handled
  twice (`server.rs:1472-1489`, doc at 1449), and each starts the schedules
  (`NoDoubleRun`; `scheduler.rs:66-67`). An aborted task may set `next_run` after the
  stop cleared it, and a run that was cut off is not recorded.
- An uninstall asks neither for dependents nor for the required set (`server.rs:1322`,
  docs at 194-219).
- `retain` keeps the hub's entries of every slot, records included, and the disabled
  marks too: a provider whose plugin a choice turned off keeps answering, and one that
  was disabled and that a choice turned on again does not answer
  (`server.rs:1464-1471`, `identity.rs:81-87`).
- An enable that fails after `init` leaves its provider registered
  (`server.rs:1129-1141`), and an uninstall whose UPDATE fails leaves subscriptions,
  timers and provider of a plugin that is gone (`server.rs:1382-1384`).
- The pool closes also after a drain that timed out, so a request may meet a closed
  pool (`server.rs:1304`, doc at 1014-1017).
- Two providers that are disabled, or uninstalled, at the same time each see the
  other (`server.rs:1242`, `1334`).
- A handler that panics ends its schedule without a trace: nothing is recorded, the
  `JoinHandle` stays in `tasks`, `next_run` still names a time, and there is no next
  tick (`scheduler.rs:271`, doc at 12-15: "the next tick is the retry; every run is written
  to `core.scheduled_runs`"). In the
  model it is `Panic`, which `TimersAreInHand` excepts.
- A patrol that leaves its lodge stays declared until the next re-declaration, and
  a failed declaration leaves no edges although the write answers 201
  (`plugins/membership/src/lib.rs:457-459`: "cannot drift"; in the model, `torn`). A
  reload that loads between another handler's DELETE and INSERT adopts a map without
  edges, and two reloads may adopt their maps in the wrong order.
- An import of two people with one local part overwrites the first, and one that
  fails keeps the rows before; a member who names a patrol makes one without a lodge.
- Two overlapping `assign_roles` leave the union, or after a failure none
  (`plugins/auth/src/lib.rs:674`: "Replace the full role set"); two overlapping first
  registrations both become chief.

### Money

- A redelivery takes back `booked` (`RedeliveryIsNoOpOnceBooked`;
  `plugins/stripe/src/lib.rs:3031`, doc at 142), and one that resolves a fund the first
  delivery did not enqueues an intent no payment row carries (1742, doc at 135).
- The event of a re-armed delivery meets a row its first outcome settled, and is
  ignored (`plugins/stripe/src/lib.rs:1808`).
- A crash between the insert of a payment and the update of its session leaves the
  session `created`, and no event of it is published.
- Income into a fund overdrawn by more than the income is refused
  (`plugins/finance/src/lib.rs:4612`, comment at 3765).
- A row says booked for an amount that did not move (`BookedIsFunded`;
  `lib.rs:5240-5275`): a draw whose answer was lost is revised and retried.
- Re-assessing a booked row books again, and an error then writes `failed` over
  `booked` (`lib.rs:5040`, doc at 5235).
- A booked row re-assessed into another status with the same funding is refused by
  the statement and answered 500 (`lib.rs:5183`, doc at 5243).
- The repair writes the share of the tier it read (`lib.rs:3625`, doc at 3539), and
  a self-report the base it read (`lib.rs:3384`, comment at 3383), over whatever was
  revised since.
- `set_dues_draw_state` names no lodge (`lib.rs:5050`; not modelled: one row).
- Two issues for one entry write two live receipts; a retired fund still takes
  entries; a correction that overlaps another is answered 500.
- The store's hand-made draw has no `external_ref`, so a retry after a lost answer, or
  two that overlap, move the subsidy twice (`plugins/store/src/lib.rs:3348-3475`); an
  intent re-armed after a hand-made draw never settles the order; a late outcome
  overwrites `booked`; one payment completes two orders; an order whose session was
  paid can still be comped; an item is sold at the price read before it changed.

### The troop's records

- Two adoptions of one motion each make a version (`OneVersionPerMotion`;
  `plugins/governance/src/lib.rs:22-24`), and two that overlap may retire each other
  so that none is in force. Adopting asks neither that the motion amends the Accords nor
  for its stage (2559-2600).
- Two closes that overlap decide, and announce, twice; a delayed second, debate or
  withdrawal writes over a decision; two friendly amendments that overlap lose one
  (551); an amendment is inserted on a motion that was decided after it was read
  (2151-2168); adopted minutes are drafted over; a vote never looks at the meeting's
  status.
- The outcome of a motion may be published before its proposal, and is then filed
  without its edge for good.
- A completed mission opens again by an appeal that was pending (`CompletedStays`),
  completes twice, and is edited after its approval; two decisions of one appeal both
  pass, and no vote is counted (`plugins/missions/src/lib.rs:10-13`, 1625). A milestone
  is `done` at 40 % (2076-2079). A match asks neither for capacity nor whether there
  is one.
- Two corrections of one record both find it uncorrected (`ChainStaysAChain`;
  `plugins/archive/src/lib.rs:1513-1517`).
- A monthly rule that names its months occurs in every one (`MonthsAreHonoured`;
  `recurrence.rs:11-13`). Two exclusions that overlap keep one (`ExcludedStays`), and an
  excluded date comes back when the start moves. An edit that gives a timezone and no end clears the end; a huge
  INTERVAL overflows chrono's arithmetic and panics (not modelled); UNTIL is compared
  as UTC with a wall-clock date (one calendar here).
- Gear that is out is offered when more than 200 checkouts touch the window
  (`HeldGearIsNotOffered`; `plugins/equipment/src/lib.rs:2246-2254`): they are read by
  item, and the holders past the limit are not read, while the notice at 2278 says that
  an item is available when "no checkout touches the window". `OfferedIsFree` is stated
  of windows that fewer touch.
- Overdue gear is offered (`OverdueGearIsNotOffered`;
  `plugins/equipment/src/lib.rs:84-87`, 2240-2243): the query drops the row
  `checkout_end` would block by. An item is deleted under a checkout that looked before,
  and a late `Carry` writes an older condition over a newer.
- A case goes back a stage (`StageOnlyAdvances`; `plugins/conflicts/src/lib.rs:208-210`)
  when two advances overlap; with more stalled cases than a batch the rest are never
  nudged (`StalledAreNudged` under `NudgedSpec`, which has the pass run fairly and
  eventually not fail; 405-411, 636-650).

### The client

- A 5xx keeps its entry and the pass sends those behind it
  (`client/lib/state/outbox.dart:258-260`, "nothing behind it jumps ahead", and
  314-319). The same act enqueued again replaces the one in its place, so A, B, A ends
  with B; a write made online overtakes the queue; a sign-out during a pass is
  overwritten by it, refusals that were dismissed come back, and a kill between the two
  write-backs loses a refusal (336-337).

## 6. Not modelled, and the plan

Amounts in the outbox, the text of errors, HTTP, signatures, audit rows and the
reports are abstracted. So are the role checks of the routes, one guard each. Not
modelled, though beside what is: `record_chain` and the search of the archive, the
season's figures of the calendar (`season.rs`), mentor profiles and their ranking, the
member's profile fields, the schedule of a service of gear, plugin migrations and permission seeding, the reconciliation
report. Components that are left out altogether are listed in `PROJECT.json` with the
reason: they drive files and processes, or keep nothing a later step reads.

In order of what they are worth:

1. `StoreOrders` over `Outbox` itself, as `StripeLedger` is, in place of the three
   actions that stand for the relay.
2. The reconciliation report, with the set it compares and the publish that may fail.
