---------------------------- MODULE StoreOrders ----------------------------
(***************************************************************************)
(* The shop's orders (plugins/store/src/lib.rs): placed at a tier's share, *)
(* paid through a Checkout session stripe opened or comped by an           *)
(* authority, and the scholarship draw that funds the difference.          *)
(*                                                                         *)
(* The plugin holds no transaction: a handler reads the order, calls       *)
(* stripe or finance as its caller, and writes in a statement guarded on   *)
(* the order's row and checked by the table's constraints.  Reads, calls   *)
(* and writes are separate steps here; other handlers, the relay that      *)
(* delivers a draw's intent, and the lossy bus that tells the shop how it  *)
(* went run in between.  The relay's own protocol is module Outbox: here   *)
(* an intent is owed, perhaps booked, and ended.                           *)
(***************************************************************************)
EXTENDS Integers, Sequences

CONSTANTS
  Orders, Clerks,   \* order ids; handlers that may be in progress at once
  ShopTiers, ShopBps,        \* TIERS: each tier's share, in basis points
  Prices,            \* prices the catalogue's item may be given, in cents
  MaxSessions,       \* bound: Checkout sessions stripe opens
  MaxShopCalls,          \* bound: requests
  NoOrder

ASSUME StoreAssumption ==
  /\ ShopBps \in [ShopTiers -> Nat] /\ Prices \subseteq Nat
  /\ MaxSessions \in Nat /\ MaxShopCalls \in Nat

VARIABLES
  item,      \* the catalogue's item: its price, and whether it is for sale
  order,     \* store.orders, NoOrder before the insert
  serving,        \* each caller's handler: its step, its order, what it has learnt
  sessions,  \* Checkout sessions: the amount, whether paid, whether booked
  intent,    \* the order's draw in core.outbox
  under,     \* finance holds a transfer under the intent's key
  subsidised,     \* how often scholarship has paid for the order
  told,      \* outcome events on their way to the shop
  doubt,     \* history: a transfer finance made that the shop does not know of
  shopCalls

storeVars == <<item, order, serving, sessions, intent, under, subsidised, told, doubt, shopCalls>>

Ended    == {"delivered", "refused", "exhausted"}
Ready  == {"idle", "ok", "conflict", "badgateway", "internal"}
Steps    == {"place", "checkout", "attach", "book", "complete", "comp", "draw",
             "transfer", "outcome"}
Ledger   == {"unbooked", "booked", "refused", "failed"}
DrawStates    == {"none", "intent_enqueued", "attempting"} \cup Ledger

\* charged_unit_cents: the tier's share, half-up, and never above the price.
Charged(price, tier) ==
  LET share == (price * ShopBps[tier] + 5000) \div 10000
  IN IF share < price THEN share ELSE price

\* What sql_insert_order writes for one unit at this price and tier.
Priced(price, tier) ==
  [status |-> "open", price |-> price, charged |-> Charged(price, tier),
   funded |-> price - Charged(price, tier), session |-> 0, payment |-> 0,
   ledger |-> "unbooked",
   draw |-> IF price > Charged(price, tier) THEN "unbooked" ELSE "none"]

\* The CHECK constraints of store.orders: a statement that would break one
\* fails, and an intent it enqueued goes with it.
Constraints(row) ==
  /\ row.charged <= row.price /\ row.funded = row.price - row.charged
  /\ (row.funded = 0) <=> (row.draw = "none")
  /\ row.status = "awaiting_payment" => row.session # 0
  /\ row.status = "paid" => row.charged = row.price /\ row.charged > 0 /\ row.payment # 0
  /\ row.status = "comped" => row.charged = 0 /\ row.funded = row.price

Placed(o)        == order[o] # NoOrder
Completable(row) == row.status \in {"open", "awaiting_payment"}
Completed(o)     == Placed(o) /\ order[o].status \in {"paid", "comped"}

\* sql_unsettled, of a completed order: its payment's entry is unconfirmed, or
\* its draw is not booked and its intent not delivered.
Listed(o) ==
  \/ order[o].status = "paid" /\ order[o].ledger # "booked"
  \/ order[o].funded > 0 /\ order[o].draw # "booked" /\ intent[o] # "delivered"

StoreInit ==
  /\ item \in [price : Prices, active : {TRUE}]
  /\ order = [o \in Orders |-> NoOrder]
  /\ serving = [c \in Clerks |-> [pc |-> "idle", order |-> NoOrder, ref |-> 0, out |-> "unbooked"]]
  /\ sessions = <<>>
  /\ intent = [o \in Orders |-> "none"] /\ told = [o \in Orders |-> {}]
  /\ under = [o \in Orders |-> FALSE] /\ doubt = [o \in Orders |-> FALSE]
  /\ subsidised = [o \in Orders |-> 0]
  /\ shopCalls = 0

Turn(c, pc, o, ref, out) ==
  serving' = [serving EXCEPT ![c] = [pc |-> pc, order |-> o, ref |-> ref, out |-> out]]

Respond(c, pc) == Turn(c, pc, NoOrder, 0, "unbooked")

\* A request whose first read passed the handler's checks.
Take(c, pc, o, ref) ==
  /\ serving[c].pc \in Ready /\ shopCalls < MaxShopCalls
  /\ shopCalls' = shopCalls + 1
  /\ Turn(c, pc, o, ref, "unbooked")

At(c, pc, o) == serving[c].pc = pc /\ serving[c].order = o

\* One guarded UPDATE that answers its caller: what it wrote, a 409 when the
\* guard matched no row, an error when a constraint refused the row.
Update(c, o, guard, row) ==
  \/ guard /\ Constraints(row) /\ order' = [order EXCEPT ![o] = row] /\ Respond(c, "ok")
  \/ guard /\ ~Constraints(row) /\ Respond(c, "internal") /\ UNCHANGED order
  \/ ~guard /\ Respond(c, "conflict") /\ UNCHANGED order

-----------------------------------------------------------------------------
(* The catalogue and the placement.                                        *)

EditItem ==
  /\ shopCalls < MaxShopCalls /\ shopCalls' = shopCalls + 1
  /\ item' \in [price : Prices, active : BOOLEAN]
  /\ UNCHANGED <<order, serving, sessions, intent, under, subsidised, told, doubt>>

\* The placement reads the catalogue ...
BeginPlace(c, o) ==
  /\ ~Placed(o) /\ \A d \in Clerks : ~At(d, "place", o)
  /\ item.active
  /\ Take(c, "place", o, item.price)
  /\ UNCHANGED <<item, order, sessions, intent, under, subsidised, told, doubt>>

\* ... and inserts the order at the price it read.
Place(c, o, tier) ==
  /\ At(c, "place", o)
  /\ Update(c, o, TRUE, Priced(serving[c].ref, tier))
  /\ UNCHANGED <<item, sessions, intent, under, subsidised, told, doubt, shopCalls>>

-----------------------------------------------------------------------------
(* Checkout, and the payment of its session.                               *)

BeginCheckout(c, o) ==
  /\ Placed(o) /\ order[o].status = "open" /\ order[o].charged > 0
  /\ Take(c, "checkout", o, order[o].charged)
  /\ UNCHANGED <<item, order, sessions, intent, under, subsidised, told, doubt>>

\* stripe opens a session for the amount that was read, or refuses; its answer
\* may be lost when the session is open.
OpenSession(c, o) ==
  /\ At(c, "checkout", o)
  /\ \/ /\ Len(sessions) < MaxSessions
        /\ sessions' = Append(sessions, [amount |-> serving[c].ref, paid |-> FALSE, booked |-> FALSE])
        /\ Turn(c, "attach", o, Len(sessions'), "unbooked") \/ Respond(c, "badgateway")
     \/ Respond(c, "badgateway") /\ UNCHANGED sessions
  /\ UNCHANGED <<item, order, intent, under, subsidised, told, doubt, shopCalls>>

\* Mutant: the session is attached to any order that is not completed yet.
AttachAgain(c, o) ==
  /\ At(c, "attach", o)
  /\ Update(c, o, Completable(order[o]),
       [order[o] EXCEPT !.status = "awaiting_payment", !.session = serving[c].ref])
  /\ UNCHANGED <<item, sessions, intent, under, subsidised, told, doubt, shopCalls>>

Attach(c, o) ==
  /\ At(c, "attach", o)
  /\ Update(c, o, order[o].status = "open",
       [order[o] EXCEPT !.status = "awaiting_payment", !.session = serving[c].ref])
  /\ UNCHANGED <<item, sessions, intent, under, subsidised, told, doubt, shopCalls>>

\* The member pays a session, attached or not, and stripe's own worklist may
\* book the payment: the shop hears of neither.
Pay(s) ==
  /\ ~sessions[s].booked
  /\ sessions' = [sessions EXCEPT ![s].paid = TRUE, ![s].booked = sessions[s].paid]
  /\ UNCHANGED <<item, order, serving, intent, under, subsidised, told, doubt, shopCalls>>

-----------------------------------------------------------------------------
(* Completion and comp.                                                    *)

\* payment_matches: the amount always, the session when the order has one.
PaymentMatches(o, s) ==
  /\ sessions[s].paid /\ sessions[s].amount = order[o].charged
  /\ order[o].session \in {0, s}

\* The order is read, and stripe's record of the payment.
BeginComplete(c, o, s) ==
  /\ Placed(o) /\ Completable(order[o]) /\ order[o].charged > 0
  /\ PaymentMatches(o, s)
  /\ Take(c, "book", o, s)
  /\ UNCHANGED <<item, order, sessions, intent, under, subsidised, told, doubt>>

\* stripe is asked to book the payment: a lost answer reads as a failure.
BookPayment(c, o) ==
  /\ At(c, "book", o)
  /\ \E out \in {"booked", "refused", "failed"}, entry \in BOOLEAN :
       /\ out = "booked" => entry
       /\ sessions' = [sessions EXCEPT ![serving[c].ref].booked = @ \/ entry]
       /\ Turn(c, "complete", o, serving[c].ref, out)
  /\ UNCHANGED <<item, order, intent, under, subsidised, told, doubt, shopCalls>>

\* The draw the completing statement writes: draw_enqueue_expr, where funded.
WithDraw(row) ==
  IF row.funded > 0 THEN [row EXCEPT !.draw = "intent_enqueued"]
                    ELSE [row EXCEPT !.draw = "none"]

\* The intent commits with the order's row, or neither does.
Enqueues(o, guard, row) ==
  intent' = IF guard /\ Constraints(row) /\ row.draw = "intent_enqueued"
              THEN [intent EXCEPT ![o] = "pending"] ELSE intent

\* The order is marked paid, whatever the ledger answered.
Complete(c, o) ==
  /\ At(c, "complete", o)
  /\ LET guard == Completable(order[o]) /\ order[o].charged > 0
         row   == WithDraw([order[o] EXCEPT !.status = "paid", !.payment = serving[c].ref,
                                         !.ledger = serving[c].out])
     IN Update(c, o, guard, row) /\ Enqueues(o, guard, row)
  /\ UNCHANGED <<item, sessions, under, subsidised, told, doubt, shopCalls>>

BeginComp(c, o) ==
  /\ Placed(o) /\ Completable(order[o])
  /\ Take(c, "comp", o, 0)
  /\ UNCHANGED <<item, order, sessions, intent, under, subsidised, told, doubt>>

\* A comp: nothing is charged, and the whole price is drawn.
Comped(row) ==
  WithDraw([row EXCEPT !.status = "comped", !.charged = 0, !.funded = row.price])

\* Mutant: the draw is enqueued by a statement of its own, after the comp's.
CompThenEnqueue(c, o) ==
  /\ At(c, "comp", o)
  /\ Update(c, o, Completable(order[o]), Comped(order[o]))
  /\ UNCHANGED <<item, sessions, intent, under, subsidised, told, doubt, shopCalls>>

Comp(c, o) ==
  /\ At(c, "comp", o)
  /\ LET guard == Completable(order[o])
     IN Update(c, o, guard, Comped(order[o])) /\ Enqueues(o, guard, Comped(order[o]))
  /\ UNCHANGED <<item, sessions, under, subsidised, told, doubt, shopCalls>>

-----------------------------------------------------------------------------
(* The draw's intent: the relay, an operator, and the bus.                 *)

\* finance books the intent's transfer, once under its key.
RelayBooks(o) ==
  /\ intent[o] = "pending" /\ ~under[o]
  /\ under' = [under EXCEPT ![o] = TRUE] /\ subsidised' = [subsidised EXCEPT ![o] = @ + 1]
  /\ UNCHANGED <<item, order, serving, sessions, intent, told, doubt, shopCalls>>

\* The relay ends the intent and says so on the bus: only what is booked is
\* delivered, but a booking whose answer was lost may end otherwise.
RelayEnds(o, end) ==
  /\ intent[o] = "pending"
  /\ end = "delivered" => under[o]
  /\ intent' = [intent EXCEPT ![o] = end] /\ told' = [told EXCEPT ![o] = @ \cup {end}]
  /\ doubt' = [doubt EXCEPT ![o] = @ \/ (under[o] /\ end # "delivered")]
  /\ UNCHANGED <<item, order, serving, sessions, under, subsidised, shopCalls>>

\* An operator sends an ended intent again, whatever the order says by now.
Rearm(o) ==
  /\ intent[o] \in {"refused", "exhausted"}
  /\ shopCalls < MaxShopCalls /\ shopCalls' = shopCalls + 1
  /\ intent' = [intent EXCEPT ![o] = "pending"]
  /\ doubt' = [doubt EXCEPT ![o] = TRUE]
  /\ UNCHANGED <<item, order, serving, sessions, under, subsidised, told>>

\* Mutant: an exhausted intent is settled as a booked one.
SettledUnlessRefused(end) ==
  CASE end = "delivered" -> "booked"
    [] end = "refused"   -> "refused"
    [] end = "exhausted" -> "booked"

\* What the subscription writes for an intent's end.
SettledAs(end) ==
  CASE end = "delivered" -> "booked"
    [] end = "refused"   -> "refused"
    [] end = "exhausted" -> "failed"

\* sql_settle_from_intent: only an order whose draw is still the intent's.
Settle(o, end) ==
  /\ end \in told[o] /\ told' = [told EXCEPT ![o] = @ \ {end}]
  /\ order' = IF order[o].draw = "intent_enqueued"
                THEN [order EXCEPT ![o].draw = SettledAs(end)] ELSE order
  /\ UNCHANGED <<item, serving, sessions, intent, under, subsidised, doubt, shopCalls>>

LoseEvent(o, end) ==
  /\ end \in told[o] /\ told' = [told EXCEPT ![o] = @ \ {end}]
  /\ UNCHANGED <<item, order, serving, sessions, intent, under, subsidised, doubt, shopCalls>>

-----------------------------------------------------------------------------
(* The draw by hand: read, record the attempt, transfer, record the answer. *)

\* Mutant: the handler looks only for a booked draw.
BeginDrawUnlessBooked(c, o) ==
  /\ Completed(o) /\ order[o].funded > 0 /\ order[o].draw # "booked"
  /\ Take(c, "draw", o, 0)
  /\ UNCHANGED <<item, order, sessions, intent, under, subsidised, told, doubt>>

BeginDraw(c, o) ==
  /\ Completed(o) /\ order[o].funded > 0
  /\ order[o].draw \notin {"booked", "intent_enqueued"}
  /\ Take(c, "draw", o, 0)
  /\ UNCHANGED <<item, order, sessions, intent, under, subsidised, told, doubt>>

Drawing(c, o) == At(c, "transfer", o) \/ At(c, "outcome", o)

\* The attempt is recorded unless the draw is booked by now.
Attempt(c, o) ==
  /\ At(c, "draw", o)
  /\ \/ /\ order[o].draw # "booked"
        /\ order' = [order EXCEPT ![o].draw = "attempting"]
        /\ Turn(c, "transfer", o, 0, "unbooked")
        /\ doubt' = [doubt EXCEPT ![o] = @ \/ \E d \in Clerks \ {c} : Drawing(d, o)]
     \/ order[o].draw = "booked" /\ Respond(c, "conflict") /\ UNCHANGED <<order, doubt>>
  /\ UNCHANGED <<item, sessions, intent, under, subsidised, told, shopCalls>>

\* finance moves the money under no reference of the order's, or refuses; an
\* answer that is lost reads as a failure.
TransferByHand(c, o) ==
  /\ At(c, "transfer", o)
  /\ \/ /\ subsidised' = [subsidised EXCEPT ![o] = @ + 1]
        /\ \/ Turn(c, "outcome", o, 0, "booked") /\ UNCHANGED doubt
           \/ Turn(c, "outcome", o, 0, "failed") /\ doubt' = [doubt EXCEPT ![o] = TRUE]
     \/ /\ \E out \in {"refused", "failed"} : Turn(c, "outcome", o, 0, out)
        /\ UNCHANGED <<subsidised, doubt>>
  /\ UNCHANGED <<item, order, sessions, intent, under, told, shopCalls>>

WriteOutcome(c, o) ==
  /\ At(c, "outcome", o)
  /\ order' = [order EXCEPT ![o].draw = serving[c].out]
  /\ Respond(c, IF serving[c].out = "booked" THEN "ok" ELSE "badgateway")
  /\ UNCHANGED <<item, sessions, intent, under, subsidised, told, doubt, shopCalls>>

\* The process dies with every handler in it.
ShopCrash ==
  /\ \E c \in Clerks : serving[c].pc \in Steps
  /\ serving' = [c \in Clerks |-> [pc |-> "idle", order |-> NoOrder, ref |-> 0, out |-> "unbooked"]]
  /\ doubt' = [o \in Orders |->
       doubt[o] \/ \E c \in Clerks : At(c, "outcome", o) /\ serving[c].out = "booked"]
  /\ told' = [o \in Orders |-> {}]
  /\ UNCHANGED <<item, order, sessions, intent, under, subsidised, shopCalls>>

-----------------------------------------------------------------------------
ShopHandler(c, o) ==
  \/ BeginPlace(c, o) \/ \E tier \in ShopTiers : Place(c, o, tier)
  \/ BeginCheckout(c, o) \/ OpenSession(c, o) \/ Attach(c, o)
  \/ \E s \in DOMAIN sessions : BeginComplete(c, o, s)
  \/ BookPayment(c, o) \/ Complete(c, o)
  \/ BeginComp(c, o) \/ Comp(c, o)
  \/ BeginDraw(c, o) \/ Attempt(c, o) \/ TransferByHand(c, o) \/ WriteOutcome(c, o)

StoreNext ==
  \/ \E c \in Clerks, o \in Orders : ShopHandler(c, o)
  \/ \E o \in Orders : RelayBooks(o) \/ Rearm(o)
  \/ \E o \in Orders, end \in Ended : RelayEnds(o, end) \/ Settle(o, end) \/ LoseEvent(o, end)
  \/ \E s \in DOMAIN sessions : Pay(s)
  \/ EditItem \/ ShopCrash

StoreSpec == StoreInit /\ [][StoreNext]_storeVars

-----------------------------------------------------------------------------
(* Types, and the row the schema admits: an order whose draw rides on an    *)
(* intent has one, which the constraints alone cannot say.                  *)
OrderRows ==
  [status : {"open", "awaiting_payment", "paid", "comped"}, price : Nat, charged : Nat,
   funded : Nat, session : Nat, payment : Nat, ledger : Ledger, draw : DrawStates]

ASSUME NoOrderAssumption == NoOrder \notin OrderRows

StoreTypeOK ==
  /\ item \in [price : Prices, active : BOOLEAN]
  /\ \A o \in Orders :
       /\ Placed(o) => order[o] \in OrderRows /\ Constraints(order[o])
       /\ intent[o] \in {"none", "pending"} \cup Ended /\ told[o] \subseteq Ended
       /\ subsidised[o] \in Nat /\ under[o] \in BOOLEAN /\ doubt[o] \in BOOLEAN
       /\ Placed(o) /\ order[o].draw = "intent_enqueued" => intent[o] # "none"
  /\ \A c \in Clerks : serving[c].pc \in Ready \cup Steps

(* A completed order that has left the worklist is paid for: its payment is *)
(* in the ledger and its subsidy has left scholarship, whatever answers and *)
(* events were lost on the way (sql_unsettled).                             *)
SettledMeansMoney ==
  \A o \in Orders : Completed(o) /\ ~Listed(o) =>
    /\ order[o].status = "paid" => sessions[order[o].payment].booked
    /\ order[o].funded > 0 => subsidised[o] > 0

(* Scholarship pays for an order at most once as long as every answer       *)
(* arrives, nobody draws while another draw runs and no ended intent is     *)
(* sent again: the intent and the hand-made draw exclude each other.        *)
SecondTransferNeedsDoubt ==
  \A o \in Orders : subsidised[o] > 1 => doubt[o]

(* An order is completed once: neither a comp nor a payment that read it    *)
(* before rewrites what it was sold for, or by which payment.               *)
CompletedOnce ==
  [][\A o \in Orders : Completed(o) =>
       /\ order'[o].status = order[o].status /\ order'[o].payment = order[o].payment
       /\ order'[o].charged = order[o].charged /\ order'[o].funded = order[o].funded]_storeVars

(* The session a member was sent to stays the order's: an overlapping       *)
(* checkout does not replace it, and none is attached to a completed order. *)
SessionStands ==
  [][\A o \in Orders : Placed(o) /\ order[o].session # 0 =>
       order'[o].session = order[o].session]_storeVars

(* Both: what an order was sold for, and how, stands.                      *)
OrdersKeepTheirTerms == CompletedOnce /\ SessionStands

(* The doc of route_complete: a tier-funded order that is paid has its draw *)
(* enqueued in the statement that marks it paid.  The constraint            *)
(* store_orders_paid_is_charged refuses every such statement.               *)
PaidReductionIsCompleted ==
  \A c \in Clerks : serving[c].pc # "internal"
=============================================================================
