--------------------------- MODULE StripeCheckout ---------------------------
(***************************************************************************)
(* Checkout sessions and the webhook that settles them                     *)
(* (plugins/stripe/src/lib.rs): a pending row, a call to Stripe, a settled *)
(* row; and later two kinds of event about one payment, each delivered any *)
(* number of times and in any order.  What becomes of the payment in the   *)
(* ledger is StripeLedger.  Stripe and the payer are external.             *)
(***************************************************************************)
EXTENDS PluginHost

CONSTANT Sessions

VARIABLES
  rows,        \* stripe.checkout_sessions: each row's status, and has it a url?
  opened,      \* external: sessions open at Stripe
  charged,     \* external: sessions whose card was charged
  sent,        \* external: events Stripe delivers, for good
  seen,        \* stripe.webhook_events: redeliveries of each event
  payments     \* stripe.payments: the session whose payment it is, and the
               \* session id the row carries

checkoutRows == <<rows, opened, charged, sent, seen, payments>>
checkoutVars == <<checkoutRows, hostVars>>

\* checkout.session.completed (paid, or an async method still pending) and
\* payment_intent.succeeded.
Shapes == {"paid", "unpaid", "intent"}
Events == [of : Sessions, shape : Shapes]

CheckoutInit ==
  /\ HostInit /\ rows = [s \in Sessions |-> [status |-> "none", url |-> FALSE]]
  /\ opened = {} /\ charged = {} /\ sent = {} /\ seen = <<>> /\ payments = {}

-----------------------------------------------------------------------------
(* route_checkout.                                                         *)

OpenCheckout(h, s) ==
  /\ rows[s].status = "none" /\ rows' = [rows EXCEPT ![s].status = "pending"]
  /\ Ask(h, [at |-> "call", session |-> s]) /\ Silent
  /\ UNCHANGED <<opened, charged, sent, seen, payments>>

\* Stripe opens the session or refuses, and its answer arrives or does not.
CallStripe(h) ==
  /\ Doing(h, "call") /\ Silent /\ UNCHANGED <<rows, charged, sent, seen, payments>>
  /\ \/ opened' = opened \cup {hand[h].session} /\ Go(h, [at |-> "created"])
     \/ opened' \in {opened, opened \cup {hand[h].session}} /\ Go(h, [at |-> "failed"])

Marks(h, step, status) == Doing(h, step) /\ rows' = [rows EXCEPT ![hand[h].session].status = status]

\* Its own failure is ignored (unwrap_or(0)), which is CheckoutFails here.
MarkFailed(h) ==
  Marks(h, "failed", "failed") /\ Answer(h) /\ Silent /\ UNCHANGED <<opened, charged, sent, seen, payments>>

\* sql_set_session_created: from here on the row shows the payer's url.
SettleCreated(h) ==
  /\ Doing(h, "created") /\ Go(h, [at |-> "announce"]) /\ Silent
  /\ rows' = [rows EXCEPT ![hand[h].session] = [status |-> "created", url |-> TRUE]]
  /\ UNCHANGED <<opened, charged, sent, seen, payments>>

AnnounceCreated(h) ==
  /\ Doing(h, "announce") /\ Answer(h) /\ UNCHANGED checkoutRows
  /\ Publish([type |-> "stripe.checkout.created", session |-> hand[h].session])

-----------------------------------------------------------------------------
(* External: the payer and Stripe.                                         *)

Payable(s) == s \in opened /\ rows[s].url /\ ~\E e \in sent : e.of = s
Says(s, shapes) == sent' = sent \cup {[of |-> s, shape |-> x] : x \in shapes}

\* Paid at once; or by a method that settles after the session completed.
PayNow(s) ==
  /\ Payable(s) /\ charged' = charged \cup {s} /\ Says(s, {"paid", "intent"})
  /\ UNCHANGED <<rows, opened, seen, payments, hostVars>>
PayLater(s) ==
  /\ Payable(s) /\ Says(s, {"unpaid"}) /\ UNCHANGED <<rows, opened, charged, seen, payments, hostVars>>
Clears(s) ==
  /\ [of |-> s, shape |-> "unpaid"] \in sent /\ s \notin charged
  /\ charged' = charged \cup {s} /\ Says(s, {"intent"})
  /\ UNCHANGED <<rows, opened, seen, payments, hostVars>>

-----------------------------------------------------------------------------
(* handle_webhook, for a verified delivery.                                *)

\* The receipt; a delivery that was here before is counted.
Deliver(h, e) ==
  /\ e \in sent /\ Silent /\ UNCHANGED <<rows, opened, charged, sent, payments>>
  /\ IF e \in DOMAIN seen
       THEN UNCHANGED seen /\ Ask(h, [at |-> "bump", event |-> e, session |-> e.of, fresh |-> FALSE])
       ELSE /\ seen' = (e :> 0) @@ seen
            /\ Ask(h, [at |-> "classify", event |-> e, session |-> e.of, fresh |-> TRUE])
BumpRedeliveries(h) ==
  /\ Doing(h, "bump") /\ seen' = [seen EXCEPT ![hand[h].event] = @ + 1]
  /\ Go(h, [at |-> "classify"]) /\ Silent /\ UNCHANGED <<rows, opened, charged, sent, payments>>

\* classify_webhook: an unpaid session is nothing.
\* Mutant: a completed session is a payment.
ClassifyCompleted(h) == Proceed(h, "classify", TRUE, "record") /\ Silent /\ UNCHANGED checkoutRows
Classify(h) ==
  /\ Proceed(h, "classify", hand[h].event.shape # "unpaid", "record")
  /\ Silent /\ UNCHANGED checkoutRows

\* The session names itself; a payment intent's metadata names our row
\* (session_ref), and nothing writes the stripe_session_id it is asked for.
Carried(e) == IF e.shape = "intent" THEN "blank" ELSE e.of

Recorded(s) == \E p \in payments : p.of = s

Records(h) ==
  /\ payments' = payments \cup {[of |-> hand[h].session, session_id |-> Carried(hand[h].event)]}
  /\ Go(h, [at |-> "settle"])

\* ON CONFLICT (payment_id) DO NOTHING; StripeLedger has what a repeat does next.
Record(h) ==
  /\ Doing(h, "record") /\ Silent /\ UNCHANGED <<rows, opened, charged, sent, seen>>
  /\ IF Recorded(hand[h].session) THEN Answer(h) /\ UNCHANGED payments ELSE Records(h)

\* sql_set_session_status_by_row, by the newly recorded alone.
SettleSession(h) ==
  /\ Marks(h, "settle", "completed") /\ Go(h, [at |-> "confirm"]) /\ Silent
  /\ UNCHANGED <<opened, charged, sent, seen, payments>>

Confirmed(s) == [type |-> "stripe.payment.confirmed", session |-> s]
Confirm(h) ==
  /\ Doing(h, "confirm") /\ Answer(h) /\ Publish(Confirmed(hand[h].session)) /\ UNCHANGED checkoutRows

\* A statement or a publish errs, or the process dies: the handler is over.
CheckoutFails(h) == ~Rests(h) /\ Answer(h) /\ Silent /\ UNCHANGED checkoutRows

Till(h) ==
  \/ \E s \in Sessions : OpenCheckout(h, s)
  \/ CallStripe(h) \/ MarkFailed(h) \/ SettleCreated(h) \/ AnnounceCreated(h)
  \/ \E e \in Events : Deliver(h, e)
  \/ BumpRedeliveries(h) \/ Classify(h) \/ Record(h) \/ SettleSession(h) \/ Confirm(h)
  \/ CheckoutFails(h)

CheckoutNext ==
  \/ \E h \in Hands : Till(h)
  \/ \E s \in Sessions : PayNow(s) \/ PayLater(s) \/ Clears(s)

CheckoutSpec == CheckoutInit /\ [][CheckoutNext]_checkoutVars

-----------------------------------------------------------------------------
(* "Whichever arrives first records the payment and the other is a no-op":  *)
(* two events, each redelivered, one payment row and one announcement.      *)
ConfirmedOnce ==
  \A s \in Sessions :
    /\ Cardinality({p \in payments : p.of = s}) <= 1
    /\ Cardinality({k \in DOMAIN bus : bus[k] = Confirmed(s)}) <= 1

(* What the rows say of the card is so: a payment was charged, a completed  *)
(* session has its payment, and of a failed one "no card was charged",      *)
(* whatever Stripe did with the call that was not answered.                 *)
RowsTellTheCharge ==
  /\ \A p \in payments : p.of \in charged
  /\ \A s \in Sessions :
       /\ rows[s].status = "completed" => Recorded(s)
       /\ rows[s].status = "failed" => s \notin charged

(* Both, of every session.                                                 *)
CheckoutTellsTheTruth == ConfirmedOnce /\ RowsTellTheCharge

(* route_get_session answers "one session, with the payment it produced".   *)
(* It looks the payment up by the session id the payment carries, which is  *)
(* blank when payment_intent.succeeded was the first to arrive.             *)
CompletedShowsItsPayment ==
  \A s \in Sessions : rows[s].status = "completed" => \E p \in payments : p.session_id = s
=============================================================================
