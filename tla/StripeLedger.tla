---------------------------- MODULE StripeLedger ----------------------------
(***************************************************************************)
(* A confirmed Stripe payment on its way into the ledger: the stripe       *)
(* plugin (plugins/stripe/src/lib.rs) composed with the outbox, the        *)
(* in-process event bus (server/src/events.rs) and finance's two writers.  *)
(*                                                                         *)
(* Three routes lead to one entry: the intent the relay delivers, the      *)
(* payment.received event finance subscribes to, and a treasurer's manual  *)
(* booking.  The payment row's ledger_status is written by all of them and *)
(* by the relay's outcome events, each at an await of its own.  The bus is *)
(* in memory: an outcome or a payment.received still queued when the       *)
(* process dies, or whose handler errors, is lost.                         *)
(***************************************************************************)
EXTENDS Outbox, Sequences

CONSTANTS
  Hooks,       \* webhook deliveries that may be in progress at once
  MaxQueue     \* bound: events queued on the bus

ASSUME StripeAssumption == MaxQueue \in Nat \ {0}

VARIABLES
  paid,     \* stripe.payments.ledger_status, "none" while there is no row
  link,     \* does the row carry its ledger_intent_id?
  hook,     \* the webhook handlers: where each one is, and its payment
  manual,   \* route_book's answer from finance, before it is written down
  bus       \* broadcast events queued to their subscriber

stripeVars == <<paid, link, hook, manual, bus>>
svars == <<vars, stripeVars>>

Statuses ==
  {"none", "unbooked", "intent_enqueued", "delegated_event", "booked",
   "refused", "failed"}
Answers == {"booked", "refused", "failed"}
Idle    == [at |-> "idle", key |-> NoKey]

Outcome(i, v) == [type |-> "outcome", id |-> i, state |-> v]
Received(k)   == [type |-> "received", key |-> k]
Events == [type : {"outcome"}, id : Ids, state : Terminal]
            \cup [type : {"received"}, key : Keys]

STypeOK ==
  /\ TypeOK
  /\ paid \in [Keys -> Statuses]
  /\ link \in [Keys -> BOOLEAN]
  /\ hook \in [Hooks -> {Idle} \cup [at : {"reread", "publish", "mark"}, key : Keys]]
  /\ manual \in [Keys -> Answers \cup {"none"}]
  /\ bus \in Seq(Events) /\ Len(bus) <= MaxQueue

SInit ==
  /\ Init
  /\ paid = [k \in Keys |-> "none"]
  /\ link = [k \in Keys |-> FALSE]
  /\ hook = [h \in Hooks |-> Idle]
  /\ manual = [k \in Keys |-> "none"]
  /\ bus = <<>>

-----------------------------------------------------------------------------
(* handle_webhook                                                          *)

\* sql_insert_payment with an intent: outbox_enqueue is evaluated before the
\* conflict on payment_id is seen, so the intent is enqueued (or found) on
\* every delivery, while the row is written only by the first.  The first
\* delivery leaves the rest to the relay; a later one re-reads the row.
WebhookWithIntent(h, k) ==
  /\ hook[h] = Idle /\ dbUp /\ ~revoked[PrincipalOf[k]]
  /\ IF Enqueued(k) THEN UNCHANGED vars ELSE Enqueue(k)
  /\ IF paid[k] = "none"
       THEN /\ paid' = [paid EXCEPT ![k] = "intent_enqueued"]
            /\ link' = [link EXCEPT ![k] = TRUE]
            /\ hook' = hook
       ELSE /\ hook' = [hook EXCEPT ![h] = [at |-> "reread", key |-> k]]
            /\ UNCHANGED <<paid, link>>
  /\ UNCHANGED <<manual, bus>>

\* fund_for_intent has seen that the fund is missing or closed: no intent, and
\* the first delivery hands the payment to finance as an event.
WebhookWithoutIntent(h, k) ==
  /\ hook[h] = Idle /\ dbUp
  /\ paid' = [paid EXCEPT ![k] = IF @ = "none" THEN "unbooked" ELSE @]
  /\ hook' = [hook EXCEPT ![h] =
                [at |-> IF paid[k] = "none" THEN "publish" ELSE "reread", key |-> k]]
  /\ UNCHANGED <<vars, link, manual, bus>>

\* sql_payment_by_payment_id, then already_delegated: only a payment with
\* neither an event nor an intent outstanding is handed off again.
Reread(h) ==
  LET k == hook[h].key
      alreadyDelegated == paid[k] \in {"delegated_event", "intent_enqueued"}
  IN
  /\ hook[h].at = "reread" /\ dbUp
  /\ hook' = [hook EXCEPT ![h] = IF alreadyDelegated THEN Idle ELSE [@ EXCEPT !.at = "publish"]]
  /\ UNCHANGED <<vars, paid, link, manual, bus>>

PublishReceived(h) ==
  /\ hook[h].at = "publish" /\ dbUp /\ Len(bus) < MaxQueue
  /\ bus'  = Append(bus, Received(hook[h].key))
  /\ hook' = [hook EXCEPT ![h].at = "mark"]
  /\ UNCHANGED <<vars, paid, link, manual>>

\* sql_set_ledger_outcome: by row id, whatever the status has become.
MarkDelegated(h) ==
  /\ hook[h].at = "mark" /\ dbUp
  /\ paid' = [paid EXCEPT ![hook[h].key] = "delegated_event"]
  /\ hook' = [hook EXCEPT ![h] = Idle]
  /\ UNCHANGED <<vars, link, manual, bus>>

\* A database error ends the handler with a 5xx; Stripe delivers again.
WebhookFails(h) ==
  /\ hook[h] # Idle /\ ~dbUp
  /\ hook' = [hook EXCEPT ![h] = Idle]
  /\ UNCHANGED <<vars, paid, link, manual, bus>>

-----------------------------------------------------------------------------
(* The subscribers, and route_book.                                        *)

\* The outcome in the payment's own words.
SettledAs(v) ==
  CASE v = "delivered" -> "booked"
    [] v = "refused"   -> "refused"
    [] v = "exhausted" -> "failed"

\* The stripe plugin's subscription to core.outbox.*: sql_settle_from_intent
\* is guarded on the intent id and on ledger_status = 'intent_enqueued'.
SettleFromIntent ==
  /\ bus # <<>> /\ Head(bus).type = "outcome"
  /\ LET ev == Head(bus)
         k  == key[ev.id]
     IN paid' = IF dbUp /\ link[k] /\ paid[k] = "intent_enqueued"
                  THEN [paid EXCEPT ![k] = SettledAs(ev.state)] ELSE paid
  /\ bus' = Tail(bus)
  /\ UNCHANGED <<vars, link, hook, manual>>

\* finance's on_payment_received: probe, fund, insert.  A fund that does not
\* exist or a failed query is an error the bus logs; the event is gone.
OnPaymentReceived ==
  /\ bus # <<>> /\ Head(bus).type = "received"
  /\ \/ dbUp /\ ledger' = Booked(Head(bus).key)
     \/ ledger' = ledger
  /\ bus' = Tail(bus)
  /\ UNCHANGED <<rowVars, principalVars, dbUp, routed, relayVars, raised,
                 lost, rearms, paid, link, hook, manual>>

\* route_book, up to finance's answer: an entry or a duplicate is a 2xx; any
\* other answer is a refusal and no answer is a failure, whether or not the
\* entry had been written by then.
AskFinanceToBook(k) ==
  /\ paid[k] # "none" /\ manual[k] = "none"
  /\ \/ dbUp /\ ledger' = Booked(k)
     \/ ledger' = ledger
  /\ \E a \in Answers :
       /\ a = "booked" => dbUp /\ ledger' = Booked(k)
       /\ manual' = [manual EXCEPT ![k] = a]
  /\ UNCHANGED <<rowVars, principalVars, dbUp, routed, relayVars, raised,
                 lost, rearms, paid, link, hook, bus>>

\* route_book's unguarded write of that answer; a database error loses it.
WriteBookOutcome(k) ==
  /\ manual[k] # "none"
  /\ paid'   = IF dbUp THEN [paid EXCEPT ![k] = manual[k]] ELSE paid
  /\ manual' = [manual EXCEPT ![k] = "none"]
  /\ UNCHANGED <<vars, link, hook, bus>>

-----------------------------------------------------------------------------
(* The outbox's own steps, seen from here.                                 *)

Raising(r) == pc[r] = "recorded" /\ pc'[r] = "draining" /\ dbUp

\* Any step but the enqueue, which is the webhook's.  A raised event also goes
\* out on the bus.
OutboxStep ==
  /\ Next
  /\ key' = key
  /\ \A r \in Relays : pc[r] # "down" => pc'[r] # "down"
  /\ IF \E r \in Relays : Raising(r)
       THEN /\ Len(bus) < MaxQueue
            /\ bus' = Append(bus, LET r == CHOOSE r \in Relays : Raising(r)
                                  IN Outcome(job[r], verdict[r]))
       ELSE bus' = bus
  /\ UNCHANGED <<paid, link, hook, manual>>

\* The process dies with its handlers and its bus.
ProcessCrash(r) ==
  /\ Crash(r)
  /\ hook'   = [h \in Hooks |-> Idle]
  /\ manual' = [k \in Keys |-> "none"]
  /\ bus'    = <<>>
  /\ UNCHANGED <<paid, link>>

Alive == \A r \in Relays : pc[r] # "down"

SNext ==
  \/ OutboxStep
  \/ \E r \in Relays : ProcessCrash(r)
  \/ Alive /\ \E h \in Hooks :
       \/ \E k \in Keys : WebhookWithIntent(h, k) \/ WebhookWithoutIntent(h, k)
       \/ Reread(h) \/ PublishReceived(h) \/ MarkDelegated(h) \/ WebhookFails(h)
  \/ Alive /\ \E k \in Keys : AskFinanceToBook(k) \/ WriteBookOutcome(k)
  \/ Alive /\ (SettleFromIntent \/ OnPaymentReceived)

SSpec == SInit /\ [][SNext]_svars

-----------------------------------------------------------------------------
(* Properties                                                              *)

IntentDelivered(k) == \E i \in Ids : key[i] = k /\ state[i] = "delivered"

\* Mutant: a payment handed to finance by event is taken to be finance's.
ListedUnlessDelegated(k) ==
  /\ paid[k] \notin {"none", "booked", "delegated_event"}
  /\ ~(link[k] /\ IntentDelivered(k))

\* sql_unbooked, past its age threshold: the treasurer's worklist.
Listed(k) ==
  /\ paid[k] \notin {"none", "booked"}
  /\ ~(link[k] /\ IntentDelivered(k))

\* No confirmed payment is ever both missing from the ledger and missing from
\* the worklist, whatever events were lost, replayed or handled late ("a
\* dropped event cannot make a booking invisible or invent one").
WorklistIsComplete ==
  \A k \in Keys : paid[k] # "none" /\ ledger[k] = 0 => Listed(k)

\* Three routes, one entry: the relay, payment.received and route_book all
\* write under the payment id ("still one entry, because finance's unique
\* index refuses the second").
OneEntryPerPayment == \A k \in Keys : ledger[k] <= 1

\* Nothing reaches the ledger for a payment the plugin has not recorded: the
\* payment row and its intent commit together.
LedgerKnowsOnlyPayments == \A k \in Keys : ledger[k] > 0 => paid[k] # "none"

\* All three: no route, order or loss leaves a payment unaccounted for.
PaymentsAreAccounted == WorklistIsComplete /\ OneEntryPerPayment /\ LedgerKnowsOnlyPayments

\* The module comment: "a genuinely-recorded payment is a no-op" on redelivery.
\* A payment finance has confirmed keeps that status through any redelivery.
RedeliveryIsNoOpOnceBooked ==
  [][\A h \in Hooks : \A k \in Keys :
       paid[k] = "booked" /\ hook[h].key = k /\ hook'[h] = Idle
         => paid'[k] = "booked"]_svars

=============================================================================
