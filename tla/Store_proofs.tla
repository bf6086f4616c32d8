---------------------------- MODULE Store_proofs ----------------------------
(***************************************************************************)
(* The shop, for any orders, prices, tiers and handlers in progress: an    *)
(* order that left the worklist is paid for, scholarship pays twice only   *)
(* in doubt, and what an order was sold for stands.                        *)
(***************************************************************************)
EXTENDS StoreOrders, StripeCheckout, TLAPS, FiniteSetTheorems

(***************************************************************************)
(* The types of the state.                                                 *)
(***************************************************************************)

Works    == [pc : Ready \cup Steps, order : Orders \cup {NoOrder}, ref : Nat, out : Ledger]
Checkouts == [amount : Nat, paid : BOOLEAN, booked : BOOLEAN]

StoreShape ==
  /\ item \in [price : Prices, active : BOOLEAN]
  /\ order \in [Orders -> OrderRows \cup {NoOrder}]
  /\ serving \in [Clerks -> Works]
  /\ sessions \in Seq(Checkouts)
  /\ intent \in [Orders -> {"none", "pending"} \cup Ended]
  /\ told \in [Orders -> SUBSET Ended]
  /\ under \in [Orders -> BOOLEAN] /\ doubt \in [Orders -> BOOLEAN]
  /\ subsidised \in [Orders -> Nat]
  /\ shopCalls \in Nat

(***************************************************************************)
(* What the rows, the intents and the handlers in progress say.            *)
(***************************************************************************)

RowOK(o) ==
  Placed(o) =>
    /\ Constraints(order[o])
    /\ order[o].status = "open" => order[o].session = 0
    /\ ~Completed(o) => order[o].draw \in {"none", "unbooked"}
    /\ order[o].draw = "intent_enqueued" => intent[o] # "none"
    /\ order[o].draw = "booked" => subsidised[o] > 0
    /\ order[o].status = "paid" =>
         /\ order[o].payment \in DOMAIN sessions
         /\ order[o].ledger = "booked" => sessions[order[o].payment].booked

IntentOK(o) ==
  /\ intent[o] # "none" => Completed(o)
  /\ told[o] # {} => intent[o] # "none"
  /\ under[o] => subsidised[o] > 0
  /\ intent[o] = "delivered" \/ "delivered" \in told[o] => under[o]

AtDraw(c, o) == At(c, "draw", o) \/ Drawing(c, o)

ClerkOK(c) ==
  /\ serving[c].pc \in Steps => serving[c].order \in Orders
  /\ \A o \in Orders :
       /\ At(c, "place", o) => /\ ~Placed(o)
                               /\ \A d \in Clerks \ {c} : ~At(d, "place", o)
       /\ serving[c].order = o /\ serving[c].pc \in Steps \ {"place"} => Placed(o)
       /\ AtDraw(c, o) => Completed(o) /\ order[o].funded > 0
       /\ At(c, "outcome", o) /\ serving[c].out = "booked" => subsidised[o] > 0
  /\ serving[c].pc \in {"attach", "book", "complete"} => serving[c].ref \in DOMAIN sessions
  /\ serving[c].pc = "complete" /\ serving[c].out = "booked" => sessions[serving[c].ref].booked

\* While nothing about the order's draw is in doubt.
Clear(o) ==
  /\ subsidised[o] <= 1 /\ told[o] \subseteq {intent[o]}
  /\ under[o] => intent[o] \in {"pending", "delivered"}
  /\ intent[o] \in {"pending", "delivered"} =>
       /\ order[o].draw \in {"intent_enqueued", "booked"}
       /\ \A c \in Clerks : ~AtDraw(c, o)
  /\ intent[o] = "pending" => order[o].draw = "intent_enqueued"
  /\ \A c \in Clerks : Drawing(c, o) =>
       /\ order[o].draw = "attempting"
       /\ \A d \in Clerks \ {c} : ~Drawing(d, o)
  /\ subsidised[o] > 0 =>
       \/ under[o]
       \/ Placed(o) /\ order[o].draw = "booked"
       \/ \E c \in Clerks : At(c, "outcome", o) /\ serving[c].out = "booked"

StoreInv ==
  /\ StoreShape
  /\ \A o \in Orders : RowOK(o) /\ IntentOK(o) /\ (~doubt[o] => Clear(o))
  /\ \A c \in Clerks : ClerkOK(c)

(***************************************************************************)
(* A step only goes forward: what it may never undo.                       *)
(***************************************************************************)

Forward(o) ==
  /\ Placed(o) => Placed(o)'
  /\ Completed(o) =>
       /\ Completed(o)'
       /\ order'[o].status = order[o].status /\ order'[o].payment = order[o].payment
       /\ order'[o].charged = order[o].charged /\ order'[o].funded = order[o].funded
  /\ Placed(o) /\ order[o].session # 0 => order'[o].session = order[o].session
  /\ subsidised'[o] >= subsidised[o]
  /\ under[o] => under'[o]
  /\ doubt[o] => doubt'[o]
  /\ intent[o] # "none" => intent'[o] # "none"

SessionsGrow ==
  /\ DOMAIN sessions \subseteq DOMAIN sessions'
  /\ \A s \in DOMAIN sessions : sessions[s].booked => sessions'[s].booked

\* The invariant is kept, and every order went forward.
Onward == StoreInv' /\ \A o \in Orders : Forward(o)

\* Nothing is written to the order's row, intent, money or events, but that
\* an event may be consumed.
Untouched(o) ==
  /\ order'[o] = order[o] /\ intent'[o] = intent[o] /\ under'[o] = under[o]
  /\ subsidised'[o] = subsidised[o] /\ told'[o] \subseteq told[o] /\ (doubt[o] => doubt'[o])

\* What is untouched went forward.
LEMMA UntouchedForward ==
  ASSUME StoreShape, NEW o \in Orders, Untouched(o)
  PROVE  Forward(o)
  BY DEF Untouched, Forward, Placed, Completed, StoreShape

\* A row stands while nothing is written to it.
LEMMA RowStands ==
  ASSUME StoreInv, SessionsGrow, StoreShape', NEW o \in Orders, Forward(o), order'[o] = order[o]
  PROVE  RowOK(o)'
<1>1. RowOK(o) /\ subsidised[o] \in Nat /\ subsidised'[o] \in Nat
  BY DEF StoreInv, StoreShape
<1> QED
  BY <1>1 DEF RowOK, Forward, SessionsGrow, Placed, Completed

\* What is known of an intent stands while it is not written to.
LEMMA IntentStands ==
  ASSUME StoreInv, StoreShape', NEW o \in Orders, Forward(o),
         intent'[o] = intent[o], told'[o] \subseteq told[o], under'[o] = under[o]
  PROVE  IntentOK(o)'
<1>1. IntentOK(o) /\ subsidised[o] \in Nat /\ subsidised'[o] \in Nat
  BY DEF StoreInv, StoreShape
<1> QED
  BY <1>1 DEF IntentOK, Forward

\* What a handler knows stands while others work.
LEMMA ClerkStands ==
  ASSUME StoreInv, SessionsGrow, StoreShape', \A o \in Orders : Forward(o),
         NEW d \in Clerks, serving'[d] = serving[d],
         \A o \in Orders : At(d, "place", o) =>
           /\ order'[o] = order[o]
           /\ \A e \in Clerks \ {d} : At(e, "place", o)' => At(e, "place", o)
  PROVE  ClerkOK(d)'
<1>1. ClerkOK(d)
  BY DEF StoreInv
<1>2. ASSUME NEW o \in Orders
      PROVE  /\ At(d, "place", o) => ~Placed(o)' /\ \A e \in Clerks \ {d} : ~At(e, "place", o)'
             /\ serving[d].order = o /\ serving[d].pc \in Steps \ {"place"} => Placed(o)'
             /\ AtDraw(d, o) => Completed(o)' /\ order'[o].funded > 0
             /\ At(d, "outcome", o) /\ serving[d].out = "booked" => subsidised'[o] > 0
  <2>1. Forward(o) /\ subsidised[o] \in Nat /\ subsidised'[o] \in Nat
    BY DEF StoreShape, StoreInv
  <2>2. At(d, "place", o) => ~Placed(o)' /\ \A e \in Clerks \ {d} : ~At(e, "place", o)'
    BY <1>1 DEF ClerkOK, Placed
  <2>3. serving[d].order = o /\ serving[d].pc \in Steps \ {"place"} => Placed(o)'
    BY <1>1, <2>1 DEF ClerkOK, Forward
  <2>4. AtDraw(d, o) => Completed(o)' /\ order'[o].funded > 0
    BY <1>1, <2>1 DEF ClerkOK, Forward
  <2>5. At(d, "outcome", o) /\ serving[d].out = "booked" => subsidised'[o] > 0
    BY <1>1, <2>1 DEF ClerkOK, Forward
  <2> QED
    BY <2>2, <2>3, <2>4, <2>5
<1>3. /\ serving[d].pc \in {"attach", "book", "complete"} => serving[d].ref \in DOMAIN sessions'
      /\ serving[d].pc = "complete" /\ serving[d].out = "booked" => sessions'[serving[d].ref].booked
  BY <1>1 DEF ClerkOK, SessionsGrow
<1> QED
  BY <1>1, <1>2, <1>3 DEF ClerkOK, At, AtDraw, Drawing

\* A handler that has answered knows nothing.
LEMMA ClerkRests ==
  ASSUME NEW c \in Clerks, serving'[c].pc \in Ready
  PROVE  ClerkOK(c)'
  BY DEF ClerkOK, At, AtDraw, Drawing, Ready, Steps

\* A draw without doubt stands while nobody works on it.
LEMMA ClearStands ==
  ASSUME NEW o \in Orders, Clear(o), Untouched(o),
         \A d \in Clerks : serving'[d] = serving[d] \/ (~AtDraw(d, o) /\ ~AtDraw(d, o)')
  PROVE  Clear(o)'
<1>1. \A d \in Clerks : /\ AtDraw(d, o)' <=> AtDraw(d, o)
                        /\ Drawing(d, o)' <=> Drawing(d, o)
                        /\ At(d, "outcome", o)' /\ serving'[d].out = "booked"
                             <=> At(d, "outcome", o) /\ serving[d].out = "booked"
  BY DEF AtDraw, Drawing, At
<1>2. /\ order'[o] = order[o] /\ intent'[o] = intent[o] /\ under'[o] = under[o]
      /\ subsidised'[o] = subsidised[o] /\ told'[o] \subseteq told[o]
  BY DEF Untouched
<1> QED
  BY <1>1, <1>2 DEF Clear, Placed

(***************************************************************************)
(* The types, step by step.                                                *)
(***************************************************************************)

\* What a handler that goes on leaves of the others.
LEMMA TurnTyped ==
  ASSUME StoreShape, NEW c \in Clerks, NEW pc \in Ready \cup Steps,
         NEW o \in Orders \cup {NoOrder}, NEW ref \in Nat, NEW out \in Ledger,
         Turn(c, pc, o, ref, out)
  PROVE  /\ serving' \in [Clerks -> Works]
         /\ serving'[c] = [pc |-> pc, order |-> o, ref |-> ref, out |-> out]
         /\ \A d \in Clerks \ {c} : serving'[d] = serving[d]
  BY DEF Turn, StoreShape, Works

\* A response.
LEMMA RespondTyped ==
  ASSUME StoreShape, NEW c \in Clerks, NEW pc \in Ready, Respond(c, pc)
  PROVE  /\ serving' \in [Clerks -> Works]
         /\ serving'[c].pc = pc
         /\ \A d \in Clerks \ {c} : serving'[d] = serving[d]
  BY DEF Respond, Turn, StoreShape, Works, Ledger

\* charged_unit_cents never charges more than the price.
LEMMA ChargedBound ==
  ASSUME NEW price \in Nat, NEW tier \in ShopTiers
  PROVE  Charged(price, tier) \in Nat /\ Charged(price, tier) <= price
<1>1. ShopBps[tier] \in Nat
  BY StoreAssumption
<1>2. price * ShopBps[tier] \in Nat
  BY <1>1
<1>3. ASSUME NEW n \in Nat PROVE (n + 5000) \div 10000 \in Nat
  OBVIOUS
<1>4. (price * ShopBps[tier] + 5000) \div 10000 \in Nat
  BY <1>2, <1>3
<1> QED
  BY <1>4 DEF Charged

\* A placement's row is one the schema admits.
LEMMA PricedTyped ==
  ASSUME NEW price \in Nat, NEW tier \in ShopTiers
  PROVE  /\ Priced(price, tier) \in OrderRows
         /\ Priced(price, tier).status = "open" /\ Priced(price, tier).session = 0
         /\ Priced(price, tier).draw \in {"none", "unbooked"}
  BY ChargedBound DEF Priced, OrderRows, Ledger, DrawStates

\* A guarded UPDATE writes the order's row or none, and its handler answers.
LEMMA UpdateTyped ==
  ASSUME StoreShape, NEW c \in Clerks, NEW o \in Orders, NEW guard, NEW row,
         guard => row \in OrderRows, Update(c, o, guard, row)
  PROVE  /\ order' \in [Orders -> OrderRows \cup {NoOrder}]
         /\ serving' \in [Clerks -> Works] /\ serving'[c].pc \in Ready
         /\ \A d \in Clerks \ {c} : serving'[d] = serving[d]
         /\ \A q \in Orders \ {o} : order'[q] = order[q]
         /\ \/ order' = order /\ ~(guard /\ Constraints(row))
            \/ guard /\ Constraints(row) /\ order'[o] = row
<1>1. \E pc \in Ready : Respond(c, pc)
  BY DEF Update, Ready
<1>2. /\ serving' \in [Clerks -> Works] /\ serving'[c].pc \in Ready
      /\ \A d \in Clerks \ {c} : serving'[d] = serving[d]
  BY <1>1, RespondTyped
<1>3. \/ order' = order /\ ~(guard /\ Constraints(row))
      \/ guard /\ Constraints(row) /\ order' = [order EXCEPT ![o] = row]
  BY DEF Update
<1> QED
  BY <1>2, <1>3 DEF StoreShape

(***************************************************************************)
(* The invariant, step by step.                                            *)
(***************************************************************************)

\* Some handlers work, and on no order's row, intent or money.
LEMMA Elsewhere ==
  ASSUME StoreInv, StoreShape', SessionsGrow, NEW W \in SUBSET Clerks,
         \A o \in Orders : Untouched(o),
         \A d \in Clerks \ W : serving'[d] = serving[d],
         \A c \in W : ClerkOK(c)',
         \A c \in W, o \in Orders : At(c, "place", o)' => \A d \in Clerks \ W : ~At(d, "place", o),
         \A o \in Orders : ~doubt'[o] /\ Clear(o) => Clear(o)'
  PROVE  Onward
<1>1. \A o \in Orders : Forward(o)
  BY UntouchedForward DEF StoreInv
<1>2. ASSUME NEW o \in Orders PROVE RowOK(o)' /\ IntentOK(o)' /\ (~doubt'[o] => Clear(o)')
  <2>1. Untouched(o) /\ Forward(o) /\ (~doubt[o] => Clear(o))
    BY <1>1 DEF StoreInv
  <2>2. RowOK(o)' /\ IntentOK(o)'
    BY <2>1, RowStands, IntentStands DEF Untouched
  <2>3. ~doubt'[o] => Clear(o)'
    BY <2>1 DEF Untouched
  <2> QED
    BY <2>2, <2>3
<1>3. ASSUME NEW d \in Clerks \ W PROVE ClerkOK(d)'
  <2>1. \A o \in Orders : At(d, "place", o) =>
          /\ order'[o] = order[o]
          /\ \A e \in Clerks \ {d} : At(e, "place", o)' => At(e, "place", o)
    <3>1. ASSUME NEW o \in Orders, At(d, "place", o), NEW e \in Clerks \ {d}, At(e, "place", o)'
          PROVE  At(e, "place", o)
      <4>1. e \notin W
        BY <3>1
      <4> QED
        BY <3>1, <4>1 DEF At
    <3> QED
      BY <3>1 DEF Untouched
  <2> QED
    BY <1>1, <2>1, ClerkStands
<1> QED
  BY <1>1, <1>2, <1>3 DEF StoreInv, Onward

\* Some handlers work on one order, or none does and the relay or the bus does.
LEMMA OneOrder ==
  ASSUME StoreInv, StoreShape', SessionsGrow, NEW W \in SUBSET Clerks, NEW o \in Orders,
         Forward(o), RowOK(o)', IntentOK(o)', ~doubt'[o] => Clear(o)',
         \A q \in Orders \ {o} : Untouched(q),
         \A d \in Clerks \ W : /\ serving'[d] = serving[d]
                               /\ At(d, "place", o) => order'[o] = order[o],
         \A c \in W : /\ ClerkOK(c)'
                      /\ \A q \in Orders \ {o} : ~AtDraw(c, q) /\ ~AtDraw(c, q)'
                      /\ \A q \in Orders : ~At(c, "place", q)'
  PROVE  Onward
<1>1. \A q \in Orders : Forward(q)
  BY UntouchedForward DEF StoreInv
<1>2. ASSUME NEW q \in Orders \ {o} PROVE RowOK(q)' /\ IntentOK(q)' /\ (~doubt'[q] => Clear(q)')
  <2>1. Untouched(q) /\ Forward(q) /\ (~doubt[q] => Clear(q))
    BY <1>1 DEF StoreInv
  <2>2. RowOK(q)' /\ IntentOK(q)'
    BY <2>1, RowStands, IntentStands DEF Untouched
  <2>3. \A d \in Clerks : serving'[d] = serving[d] \/ (~AtDraw(d, q) /\ ~AtDraw(d, q)')
    OBVIOUS
  <2>4. ~doubt'[q] => Clear(q)'
    BY <2>1, <2>3, ClearStands DEF Untouched
  <2> QED
    BY <2>2, <2>4
<1>3. ASSUME NEW d \in Clerks \ W PROVE ClerkOK(d)'
  <2>1. \A q \in Orders : At(d, "place", q) =>
          /\ order'[q] = order[q]
          /\ \A e \in Clerks \ {d} : At(e, "place", q)' => At(e, "place", q)
    <3>1. ASSUME NEW q \in Orders, At(d, "place", q), NEW e \in Clerks \ {d}, At(e, "place", q)'
          PROVE  At(e, "place", q)
      <4>1. e \notin W
        BY <3>1
      <4> QED
        BY <3>1, <4>1 DEF At
    <3> QED
      BY <3>1 DEF Untouched
  <2> QED
    BY <1>1, <2>1, ClerkStands
<1> QED
  BY <1>1, <1>2, <1>3 DEF StoreInv, Onward

\* A handler that is not at a draw begins none, or one that the intent leaves to it.
LEMMA ClearElsewhere ==
  ASSUME NEW c \in Clerks, NEW o \in Orders, Clear(o), Untouched(o),
         \A d \in Clerks \ {c} : serving'[d] = serving[d],
         ~AtDraw(c, o), ~Drawing(c, o)',
         At(c, "draw", o)' => intent[o] \notin {"pending", "delivered"}
  PROVE  Clear(o)'
<1>1. /\ \A d \in Clerks \ {c} : /\ AtDraw(d, o)' <=> AtDraw(d, o)
                                 /\ Drawing(d, o)' <=> Drawing(d, o)
                                 /\ At(d, "outcome", o)' /\ serving'[d].out = "booked"
                                      <=> At(d, "outcome", o) /\ serving[d].out = "booked"
      /\ ~At(c, "outcome", o) /\ ~At(c, "outcome", o)' /\ ~Drawing(c, o)
      /\ intent[o] \in {"pending", "delivered"} => ~AtDraw(c, o)'
  BY DEF AtDraw, Drawing, At
<1>2. /\ order'[o] = order[o] /\ intent'[o] = intent[o] /\ under'[o] = under[o]
      /\ subsidised'[o] = subsidised[o] /\ told'[o] \subseteq told[o]
  BY DEF Untouched
<1> QED
  BY <1>1, <1>2 DEF Clear, Placed

\* A request whose first read passed the handler's checks.
LEMMA TakeStep ==
  ASSUME StoreInv, NEW c \in Clerks, NEW o \in Orders, NEW ref \in Nat,
         NEW pc \in {"place", "checkout", "book", "comp", "draw"},
         Take(c, pc, o, ref),
         UNCHANGED <<item, order, sessions, intent, under, subsidised, told, doubt>>,
         pc = "place" => ~Placed(o) /\ \A d \in Clerks : ~At(d, "place", o),
         pc # "place" => Placed(o),
         pc = "book" => ref \in DOMAIN sessions,
         pc = "draw" => /\ Completed(o) /\ order[o].funded > 0
                        /\ order[o].draw \notin {"booked", "intent_enqueued"}
  PROVE  Onward
<1>1. StoreShape /\ pc \in Ready \cup Steps /\ "unbooked" \in Ledger
  BY DEF StoreInv, Steps, Ledger
<1>2. /\ serving' \in [Clerks -> Works]
      /\ serving'[c] = [pc |-> pc, order |-> o, ref |-> ref, out |-> "unbooked"]
      /\ \A d \in Clerks \ {c} : serving'[d] = serving[d]
  BY <1>1, TurnTyped DEF Take
<1>3. StoreShape'
  BY <1>1, <1>2 DEF Take, StoreShape
<1>4. SessionsGrow /\ \A q \in Orders : Untouched(q)
  BY DEF SessionsGrow, Untouched
<1>5. ClerkOK(c)'
  BY <1>2 DEF ClerkOK, At, AtDraw, Drawing, Placed, Completed, Steps
<1>6. \A q \in Orders : ~AtDraw(c, q) /\ ~Drawing(c, q)' /\ (At(c, "draw", q)' => q = o /\ pc = "draw")
  BY <1>2 DEF Take, AtDraw, Drawing, At, Ready
<1>7. ASSUME NEW q \in Orders, ~doubt'[q], Clear(q) PROVE Clear(q)'
  <2>1. At(c, "draw", q)' => intent[q] \notin {"pending", "delivered"}
    BY <1>6, <1>7 DEF Clear
  <2> QED
    BY <1>2, <1>4, <1>6, <1>7, <2>1, ClearElsewhere
<1>8. \A q \in Orders : At(c, "place", q)' => \A d \in Clerks \ {c} : ~At(d, "place", q)
  BY <1>2 DEF At
<1> QED
  BY <1>2, <1>3, <1>4, <1>5, <1>7, <1>8, Elsewhere

\* A handler calls stripe, and learns of a session or of a booking.
LEMMA CallStep ==
  ASSUME StoreInv, NEW c \in Clerks, NEW o \in Orders, OpenSession(c, o) \/ BookPayment(c, o)
  PROVE  Onward
<1>1. StoreShape /\ ClerkOK(c) /\ serving[c] \in Works /\ sessions \in Seq(Checkouts)
  BY DEF StoreInv, StoreShape
<1>2. /\ UNCHANGED <<item, order, intent, under, subsidised, told, doubt, shopCalls>>
      /\ serving[c].pc \in {"checkout", "book"} /\ serving[c].order = o
  BY DEF OpenSession, BookPayment, At
<1>3. Placed(o)
  BY <1>1, <1>2 DEF ClerkOK, Steps
<1>4. /\ sessions' \in Seq(Checkouts) /\ SessionsGrow
      /\ serving' \in [Clerks -> Works] /\ \A d \in Clerks \ {c} : serving'[d] = serving[d]
      /\ \/ serving'[c].pc \in Ready
         \/ /\ serving'[c].pc \in {"attach", "complete"} /\ serving'[c].order = o
            /\ serving'[c].ref \in DOMAIN sessions'
            /\ serving'[c].pc = "complete" /\ serving'[c].out = "booked"
                 => sessions'[serving'[c].ref].booked
  <2>1. CASE OpenSession(c, o)
    <3>1. CASE Respond(c, "badgateway") /\ UNCHANGED sessions
      <4>1. "badgateway" \in Ready
        BY DEF Ready
      <4> QED
        BY <1>1, <3>1, <4>1, RespondTyped DEF SessionsGrow
    <3>2. CASE /\ sessions' = Append(sessions, [amount |-> serving[c].ref, paid |-> FALSE, booked |-> FALSE])
               /\ Turn(c, "attach", o, Len(sessions'), "unbooked") \/ Respond(c, "badgateway")
      <4>1. [amount |-> serving[c].ref, paid |-> FALSE, booked |-> FALSE] \in Checkouts
        BY <1>1 DEF Works, Checkouts
      <4>2. /\ sessions' \in Seq(Checkouts) /\ Len(sessions') \in Nat /\ Len(sessions') \in DOMAIN sessions'
            /\ DOMAIN sessions \subseteq DOMAIN sessions'
            /\ \A s \in DOMAIN sessions : sessions'[s] = sessions[s]
        BY <1>1, <3>2, <4>1
      <4>3. SessionsGrow
        BY <4>2 DEF SessionsGrow
      <4>4. CASE Turn(c, "attach", o, Len(sessions'), "unbooked")
        <5>1. "attach" \in Ready \cup Steps /\ "unbooked" \in Ledger
          BY DEF Steps, Ledger
        <5>2. PICK n \in Nat : n = Len(sessions')
          BY <4>2
        <5>3. /\ serving' \in [Clerks -> Works]
              /\ serving'[c] = [pc |-> "attach", order |-> o, ref |-> n, out |-> "unbooked"]
              /\ \A d \in Clerks \ {c} : serving'[d] = serving[d]
          BY <1>1, <4>4, <5>1, <5>2, TurnTyped
        <5> QED
          BY <4>2, <4>3, <5>2, <5>3
      <4>5. CASE Respond(c, "badgateway")
        <5>1. "badgateway" \in Ready
          BY DEF Ready
        <5> QED
          BY <1>1, <4>2, <4>3, <4>5, <5>1, RespondTyped
      <4> QED
        BY <3>2, <4>4, <4>5
    <3> QED
      BY <2>1, <3>1, <3>2 DEF OpenSession
  <2>2. CASE BookPayment(c, o)
    <3>1. serving[c].ref \in DOMAIN sessions /\ serving[c].ref \in Nat
      BY <1>1, <2>2 DEF BookPayment, At, ClerkOK, Works
    <3>2. PICK out \in {"booked", "refused", "failed"}, entry \in BOOLEAN :
            /\ out = "booked" => entry
            /\ sessions' = [sessions EXCEPT ![serving[c].ref].booked = @ \/ entry]
            /\ Turn(c, "complete", o, serving[c].ref, out)
      BY <2>2 DEF BookPayment
    <3>3. \A s \in DOMAIN sessions : sessions[s] \in Checkouts
      BY <1>1
    <3>4. sessions[serving[c].ref].booked \in BOOLEAN
      BY <3>1, <3>3 DEF Checkouts
    <3>5. PICK b \in BOOLEAN : b = (sessions[serving[c].ref].booked \/ entry)
      BY <3>4
    <3>6. sessions' = [sessions EXCEPT ![serving[c].ref] = [sessions[serving[c].ref] EXCEPT !.booked = b]]
      BY <3>2, <3>5
    <3>7. [sessions[serving[c].ref] EXCEPT !.booked = b] \in Checkouts
      BY <3>1, <3>3 DEF Checkouts
    <3>8. /\ sessions' \in Seq(Checkouts) /\ DOMAIN sessions' = DOMAIN sessions
          /\ sessions'[serving[c].ref] = [sessions[serving[c].ref] EXCEPT !.booked = b]
          /\ \A s \in DOMAIN sessions \ {serving[c].ref} : sessions'[s] = sessions[s]
      BY <1>1, <3>1, <3>6, <3>7
    <3>9. sessions'[serving[c].ref].booked = b
      BY <3>1, <3>3, <3>8 DEF Checkouts
    <3>10. SessionsGrow
      BY <3>5, <3>8, <3>9 DEF SessionsGrow
    <3>11. "complete" \in Ready \cup Steps /\ out \in Ledger
      BY DEF Steps, Ledger
    <3>12. /\ serving' \in [Clerks -> Works]
           /\ serving'[c] = [pc |-> "complete", order |-> o, ref |-> serving[c].ref, out |-> out]
           /\ \A d \in Clerks \ {c} : serving'[d] = serving[d]
      BY <1>1, <3>1, <3>2, <3>11, TurnTyped
    <3> QED
      BY <3>1, <3>2, <3>5, <3>8, <3>9, <3>10, <3>12
  <2> QED
    BY <2>1, <2>2
<1>5. StoreShape'
  BY <1>1, <1>2, <1>4 DEF StoreShape
<1>6. \A q \in Orders : Untouched(q)
  BY <1>2 DEF Untouched
<1>7. ClerkOK(c)'
  <2>1. CASE serving'[c].pc \in Ready
    BY <2>1, ClerkRests
  <2>2. CASE serving'[c].pc \in {"attach", "complete"}
    <3>1. /\ serving'[c].order = o /\ serving'[c].ref \in DOMAIN sessions' /\ Placed(o)'
          /\ serving'[c].pc = "complete" /\ serving'[c].out = "booked"
               => sessions'[serving'[c].ref].booked
      BY <1>2, <1>3, <1>4, <2>2 DEF Ready, Placed
    <3> QED
      BY <2>2, <3>1 DEF ClerkOK, At, AtDraw, Drawing, Steps
  <2> QED
    BY <1>4, <2>1, <2>2
<1>8. \A q \in Orders : ~AtDraw(c, q) /\ ~AtDraw(c, q)' /\ ~At(c, "place", q)'
  BY <1>2, <1>4 DEF AtDraw, Drawing, At, Ready
<1>9. ASSUME NEW q \in Orders, ~doubt'[q], Clear(q) PROVE Clear(q)'
  BY <1>4, <1>6, <1>8, <1>9, ClearStands
<1>10. \A q \in Orders : At(c, "place", q)' => \A d \in Clerks \ {c} : ~At(d, "place", q)
  BY <1>8
<1> QED
  BY <1>4, <1>5, <1>6, <1>7, <1>9, <1>10, Elsewhere

\* The payer, stripe's worklist and the catalogue's editor are no handlers.
LEMMA PaidStep ==
  ASSUME StoreInv, EditItem \/ \E s \in DOMAIN sessions : Pay(s)
  PROVE  Onward
<1>1. StoreShape /\ sessions \in Seq(Checkouts)
  BY DEF StoreInv, StoreShape
<1>2. /\ UNCHANGED <<order, serving, intent, under, subsidised, told, doubt>>
      /\ item' \in [price : Prices, active : BOOLEAN] /\ shopCalls' \in Nat
  <2>1. CASE EditItem
    BY <1>1, <2>1 DEF EditItem, StoreShape
  <2>2. ASSUME NEW s \in DOMAIN sessions, Pay(s)
        PROVE  UNCHANGED <<item, order, serving, intent, under, subsidised, told, doubt, shopCalls>>
    BY <2>2 DEF Pay
  <2> QED
    BY <1>1, <2>1, <2>2 DEF StoreShape
<1>3. sessions' \in Seq(Checkouts) /\ SessionsGrow
  <2>1. CASE EditItem
    BY <1>1, <2>1 DEF EditItem, SessionsGrow
  <2>2. ASSUME NEW s \in DOMAIN sessions, Pay(s) PROVE sessions' \in Seq(Checkouts) /\ SessionsGrow
    <3>1. \A t \in DOMAIN sessions : sessions[t] \in Checkouts
      BY <1>1
    <3>2. PICK row \in Checkouts : row = [sessions[s] EXCEPT !.paid = TRUE, !.booked = sessions[s].paid]
      BY <3>1 DEF Checkouts
    <3>3. sessions' = [sessions EXCEPT ![s] = row] /\ ~sessions[s].booked
      BY <2>2, <3>2 DEF Pay
    <3> QED
      BY <1>1, <3>3 DEF SessionsGrow
  <2> QED
    BY <2>1, <2>2
<1>4. StoreShape'
  BY <1>1, <1>2, <1>3 DEF StoreShape
<1>5. \A q \in Orders : Untouched(q)
  BY <1>2 DEF Untouched
<1>6. \A q \in Orders : ~doubt'[q] /\ Clear(q) => Clear(q)'
  BY <1>2, <1>5, ClearStands
<1>7. {} \in SUBSET Clerks /\ \A d \in Clerks \ {} : serving'[d] = serving[d]
  BY <1>2
<1>8. /\ \A d \in {} : ClerkOK(d)'
      /\ \A d \in {}, q \in Orders : At(d, "place", q)' => \A e \in Clerks \ {} : ~At(e, "place", q)
  OBVIOUS
<1> QED
  BY <1>3, <1>4, <1>5, <1>6, <1>7, <1>8, Elsewhere

\* One handler works on one order.
LEMMA OneClerk ==
  ASSUME StoreInv, StoreShape', SessionsGrow, NEW c \in Clerks, NEW o \in Orders,
         Forward(o), RowOK(o)', IntentOK(o)', ~doubt'[o] => Clear(o)',
         \A q \in Orders \ {o} : Untouched(q),
         \A d \in Clerks \ {c} : serving'[d] = serving[d],
         \A d \in Clerks \ {c} : ~At(d, "place", o),
         ClerkOK(c)',
         \A q \in Orders \ {o} : ~AtDraw(c, q) /\ ~AtDraw(c, q)',
         \A q \in Orders : ~At(c, "place", q)'
  PROVE  Onward
<1> DEFINE W == {c}
<1>1. W \in SUBSET Clerks
  OBVIOUS
<1>2. \A d \in Clerks \ W : /\ serving'[d] = serving[d]
                            /\ At(d, "place", o) => order'[o] = order[o]
  OBVIOUS
<1>3. \A d \in W : /\ ClerkOK(d)'
                   /\ \A q \in Orders \ {o} : ~AtDraw(d, q) /\ ~AtDraw(d, q)'
                   /\ \A q \in Orders : ~At(d, "place", q)'
  OBVIOUS
<1> HIDE DEF W
<1> QED
  BY <1>1, <1>2, <1>3, OneOrder

\* A guarded UPDATE that writes a row of the order, with its intent or without.
LEMMA WriteStep ==
  ASSUME StoreInv, NEW c \in Clerks, NEW o \in Orders, NEW guard, NEW row,
         Update(c, o, guard, row),
         UNCHANGED <<item, sessions, under, subsidised, told, doubt, shopCalls>>,
         serving[c].pc \in {"place", "attach", "complete", "comp"}, serving[c].order = o,
         guard => /\ row \in OrderRows
                  /\ ~Completed(o)
                  /\ Placed(o) /\ order[o].session # 0 => row.session = order[o].session
                  /\ row.status = "open" => row.session = 0
                  /\ row.draw # "booked"
                  /\ row.status = "paid" =>
                       /\ row.payment \in DOMAIN sessions
                       /\ row.ledger = "booked" => sessions[row.payment].booked,
         guard /\ Constraints(row) => \/ /\ row.draw \in {"none", "unbooked"}
                                         /\ intent' = intent
                                      \/ /\ row.draw = "intent_enqueued"
                                         /\ row.status \in {"paid", "comped"}
                                         /\ intent' = [intent EXCEPT ![o] = "pending"],
         ~(guard /\ Constraints(row)) => intent' = intent
  PROVE  Onward
<1>1. StoreShape /\ ClerkOK(c) /\ RowOK(o) /\ IntentOK(o) /\ (~doubt[o] => Clear(o))
  BY DEF StoreInv
<1>2. /\ order' \in [Orders -> OrderRows \cup {NoOrder}]
      /\ serving' \in [Clerks -> Works] /\ serving'[c].pc \in Ready
      /\ \A d \in Clerks \ {c} : serving'[d] = serving[d]
      /\ \A q \in Orders \ {o} : order'[q] = order[q]
      /\ \/ order' = order /\ ~(guard /\ Constraints(row))
         \/ guard /\ Constraints(row) /\ order'[o] = row
  BY <1>1, UpdateTyped
<1>3. /\ intent' \in [Orders -> {"none", "pending"} \cup Ended]
      /\ \A q \in Orders \ {o} : intent'[q] = intent[q]
  BY <1>1 DEF StoreShape
<1>4. StoreShape'
  BY <1>1, <1>2, <1>3 DEF StoreShape
<1>5. SessionsGrow /\ \A q \in Orders \ {o} : Untouched(q)
  BY <1>2, <1>3 DEF SessionsGrow, Untouched
<1>6. ClerkOK(c)' /\ \A q \in Orders : ~AtDraw(c, q) /\ ~AtDraw(c, q)' /\ ~At(c, "place", q)'
  <2>1. \A q \in Orders : ~AtDraw(c, q) /\ ~AtDraw(c, q)' /\ ~At(c, "place", q)'
    BY <1>2 DEF AtDraw, Drawing, At, Ready
  <2> QED
    BY <1>2, <2>1, ClerkRests
<1>7. CASE order' = order /\ ~(guard /\ Constraints(row))
  <2>1. \A q \in Orders : Untouched(q)
    BY <1>5, <1>7 DEF Untouched
  <2>2. ASSUME NEW q \in Orders, ~doubt'[q], Clear(q) PROVE Clear(q)'
    BY <1>2, <1>6, <2>1, <2>2, ClearStands
  <2>3. \A q \in Orders : At(c, "place", q)' => \A d \in Clerks \ {c} : ~At(d, "place", q)
    BY <1>6
  <2> QED
    BY <1>2, <1>4, <1>5, <1>6, <2>1, <2>2, <2>3, Elsewhere
<1>8. CASE guard /\ Constraints(row) /\ order'[o] = row
  <2>1. row # NoOrder /\ row \in OrderRows /\ ~Completed(o) /\ Placed(o)'
    BY <1>8, NoOrderAssumption DEF Placed
  <2>3. intent[o] = "none" /\ told[o] = {}
    BY <1>1, <2>1 DEF IntentOK
  <2>4. /\ intent'[o] \in {"none", "pending"}
        /\ intent'[o] = "pending" <=> row.draw = "intent_enqueued"
        /\ intent'[o] = "pending" => row.status \in {"paid", "comped"}
        /\ row.draw \in {"none", "unbooked", "intent_enqueued"}
    BY <1>1, <1>8, <2>3 DEF StoreShape
  <2>5. Forward(o)
    BY <1>1, <1>8, <2>1, <2>3 DEF Forward, StoreShape
  <2>6. RowOK(o)'
    BY <1>8, <2>1, <2>4 DEF RowOK, Placed, Completed, Constraints
  <2>7. IntentOK(o)'
    BY <1>1, <1>8, <2>1, <2>3, <2>4 DEF IntentOK, Completed, Placed
  <2>8. \A d \in Clerks : ~AtDraw(d, o) /\ ~AtDraw(d, o)'
    <3>1. ASSUME NEW d \in Clerks \ {c} PROVE ~AtDraw(d, o) /\ ~AtDraw(d, o)'
      <4>1. ~AtDraw(d, o)
        BY <2>1 DEF StoreInv, ClerkOK
      <4> QED
        BY <1>2, <4>1 DEF AtDraw, Drawing, At
    <3> QED
      BY <1>6, <3>1
  <2>9. ~doubt'[o] => Clear(o)'
    <3>1. SUFFICES ASSUME ~doubt'[o] PROVE Clear(o)'
      OBVIOUS
    <3>2. Clear(o)
      BY <1>1, <3>1
    <3>3. ~under[o] /\ told[o] = {} /\ subsidised[o] = 0
      <4>1. ~under[o] /\ told[o] = {}
        BY <2>3, <3>2 DEF Clear
      <4>2. ~(Placed(o) /\ order[o].draw = "booked")
        BY <1>1, <2>1 DEF RowOK
      <4>3. \A d \in Clerks : ~At(d, "outcome", o)
        BY <2>8 DEF AtDraw, Drawing
      <4> QED
        BY <1>1, <3>2, <4>1, <4>2, <4>3 DEF Clear, StoreShape
    <3> QED
      BY <1>8, <2>4, <2>8, <3>3 DEF Clear, AtDraw
  <2>10. \A d \in Clerks \ {c} : ~At(d, "place", o)
    <3>1. CASE serving[c].pc = "place"
      BY <1>1, <3>1 DEF ClerkOK, At
    <3>2. CASE serving[c].pc # "place"
      <4>1. Placed(o)
        BY <1>1, <3>2 DEF ClerkOK, Steps
      <4> QED
        BY <4>1 DEF StoreInv, ClerkOK
    <3> QED
      BY <3>1, <3>2
  <2> QED
    BY <1>2, <1>4, <1>5, <1>6, <2>5, <2>6, <2>7, <2>9, <2>10, OneClerk
<1> QED
  BY <1>2, <1>7, <1>8

\* The placement, the attached session, the completion and the comp.
LEMMA UpdateSteps ==
  ASSUME StoreInv, NEW c \in Clerks, NEW o \in Orders,
         \/ \E tier \in ShopTiers : Place(c, o, tier)
         \/ Attach(c, o) \/ Complete(c, o) \/ Comp(c, o)
  PROVE  Onward
<1>1. /\ StoreShape /\ ClerkOK(c) /\ RowOK(o) /\ IntentOK(o)
      /\ serving[c] \in Works /\ order[o] \in OrderRows \cup {NoOrder}
  BY DEF StoreInv, StoreShape
<1>2. ASSUME NEW tier \in ShopTiers, Place(c, o, tier) PROVE Onward
  <2> DEFINE row == Priced(serving[c].ref, tier)
  <2>1. /\ serving[c].pc = "place" /\ serving[c].order = o /\ ~Placed(o)
        /\ Update(c, o, TRUE, row)
        /\ UNCHANGED <<item, sessions, under, subsidised, told, doubt, shopCalls, intent>>
    BY <1>1, <1>2 DEF Place, At, ClerkOK
  <2>2. /\ row \in OrderRows /\ row.status = "open" /\ row.session = 0
        /\ row.draw \in {"none", "unbooked"}
    BY <1>1, PricedTyped DEF Works
  <2>3. ~Completed(o)
    BY <2>1 DEF Completed
  <2> HIDE DEF row
  <2> QED
    BY <2>1, <2>2, <2>3, WriteStep
<1>3. CASE Attach(c, o)
  <2> DEFINE row == [order[o] EXCEPT !.status = "awaiting_payment", !.session = serving[c].ref]
             guard == order[o].status = "open"
  <2>1. /\ serving[c].pc = "attach" /\ serving[c].order = o /\ serving[c].ref \in Nat
        /\ Update(c, o, guard, row)
        /\ UNCHANGED <<item, sessions, under, subsidised, told, doubt, shopCalls, intent>>
    BY <1>1, <1>3 DEF Attach, At, Works
  <2>2. Placed(o) /\ order[o] \in OrderRows
    BY <1>1, <2>1 DEF ClerkOK, Steps, Placed
  <2>3. guard => /\ row \in OrderRows /\ ~Completed(o) /\ order[o].session = 0
                 /\ row.status = "awaiting_payment" /\ row.draw \in {"none", "unbooked"}
    <3>1. guard => ~Completed(o) /\ order[o].session = 0 /\ order[o].draw \in {"none", "unbooked"}
      BY <1>1, <2>2 DEF RowOK, Completed
    <3>2. row \in OrderRows /\ row.status = "awaiting_payment" /\ row.draw = order[o].draw
      BY <2>1, <2>2 DEF OrderRows
    <3> QED
      BY <3>1, <3>2
  <2> HIDE DEF row, guard
  <2> QED
    BY <2>1, <2>3, WriteStep
<1>4. CASE Complete(c, o)
  <2> DEFINE base  == [order[o] EXCEPT !.status = "paid", !.payment = serving[c].ref,
                                       !.ledger = serving[c].out]
             row   == WithDraw(base)
             guard == Completable(order[o]) /\ order[o].charged > 0
  <2>1. /\ serving[c].pc = "complete" /\ serving[c].order = o
        /\ Update(c, o, guard, row) /\ Enqueues(o, guard, row)
        /\ UNCHANGED <<item, sessions, under, subsidised, told, doubt, shopCalls>>
    BY <1>1, <1>4 DEF Complete, At
  <2>2. Placed(o) /\ order[o] \in OrderRows
    BY <1>1, <2>1 DEF ClerkOK, Steps, Placed
  <2>3. /\ serving[c].ref \in DOMAIN sessions /\ serving[c].ref \in Nat /\ serving[c].out \in Ledger
        /\ serving[c].out = "booked" => sessions[serving[c].ref].booked
    BY <1>1, <2>1 DEF ClerkOK, Works
  <2>4. guard => ~Completed(o)
    BY <2>2 DEF Completable, Completed
  <2>5. /\ base \in OrderRows /\ base.status = "paid" /\ base.payment = serving[c].ref
        /\ base.ledger = serving[c].out /\ base.session = order[o].session
    BY <2>2, <2>3 DEF OrderRows
  <2> HIDE DEF base
  <2>6. /\ row \in OrderRows /\ row.status = "paid" /\ row.payment = serving[c].ref
        /\ row.ledger = serving[c].out /\ row.session = order[o].session
        /\ row.draw \in {"none", "intent_enqueued"}
    BY <2>5 DEF WithDraw, OrderRows, DrawStates
  <2> HIDE DEF row, guard
  <2>7. intent' = IF guard /\ Constraints(row) /\ row.draw = "intent_enqueued"
                  THEN [intent EXCEPT ![o] = "pending"] ELSE intent
    BY <2>1 DEF Enqueues
  <2> QED
    BY <2>1, <2>3, <2>4, <2>6, <2>7, WriteStep
<1>5. CASE Comp(c, o)
  <2> DEFINE base  == [order[o] EXCEPT !.status = "comped", !.charged = 0, !.funded = order[o].price]
             row   == WithDraw(base)
             guard == Completable(order[o])
  <2>1. /\ serving[c].pc = "comp" /\ serving[c].order = o
        /\ Update(c, o, guard, row) /\ Enqueues(o, guard, row)
        /\ UNCHANGED <<item, sessions, under, subsidised, told, doubt, shopCalls>>
    BY <1>1, <1>5 DEF Comp, At, Comped
  <2>2. Placed(o) /\ order[o] \in OrderRows
    BY <1>1, <2>1 DEF ClerkOK, Steps, Placed
  <2>4. guard => ~Completed(o)
    BY <2>2 DEF Completable, Completed
  <2>5. base \in OrderRows /\ base.status = "comped" /\ base.session = order[o].session
    BY <2>2 DEF OrderRows
  <2> HIDE DEF base
  <2>6. /\ row \in OrderRows /\ row.status = "comped" /\ row.session = order[o].session
        /\ row.draw \in {"none", "intent_enqueued"}
    BY <2>5 DEF WithDraw, OrderRows, DrawStates
  <2> HIDE DEF row, guard
  <2>7. intent' = IF guard /\ Constraints(row) /\ row.draw = "intent_enqueued"
                  THEN [intent EXCEPT ![o] = "pending"] ELSE intent
    BY <2>1 DEF Enqueues
  <2> QED
    BY <2>1, <2>4, <2>6, <2>7, WriteStep
<1> QED
  BY <1>2, <1>3, <1>4, <1>5

\* No handler works: the relay, an operator or the bus does, on one order.
LEMMA NoClerk ==
  ASSUME StoreInv, StoreShape', SessionsGrow, NEW o \in Orders, serving' = serving,
         Forward(o), RowOK(o)', IntentOK(o)', ~doubt'[o] => Clear(o)',
         \A q \in Orders \ {o} : Untouched(q), Completed(o)
  PROVE  Onward
<1> DEFINE W == {}
<1>1. W \in SUBSET Clerks
  OBVIOUS
<1>2. \A d \in Clerks : ~At(d, "place", o)
  BY DEF StoreInv, ClerkOK, Completed
<1>3. \A d \in Clerks \ W : /\ serving'[d] = serving[d]
                            /\ At(d, "place", o) => order'[o] = order[o]
  BY <1>2
<1>4. \A d \in W : /\ ClerkOK(d)'
                   /\ \A q \in Orders \ {o} : ~AtDraw(d, q) /\ ~AtDraw(d, q)'
                   /\ \A q \in Orders : ~At(d, "place", q)'
  OBVIOUS
<1> HIDE DEF W
<1> QED
  BY <1>1, <1>3, <1>4, OneOrder

\* The relay books, ends and an operator sends an intent again.
LEMMA RelayStep ==
  ASSUME StoreInv, NEW o \in Orders,
         RelayBooks(o) \/ Rearm(o) \/ \E end \in Ended : RelayEnds(o, end)
  PROVE  Onward
<1>1. StoreShape /\ RowOK(o) /\ IntentOK(o) /\ (~doubt[o] => Clear(o))
  BY DEF StoreInv
<1>2. UNCHANGED <<item, order, serving, sessions>> /\ SessionsGrow
  BY DEF RelayBooks, Rearm, RelayEnds, SessionsGrow
<1>3. \A q \in Orders : /\ subsidised[q] \in Nat /\ told[q] \subseteq Ended
                        /\ intent[q] \in {"none", "pending"} \cup Ended
  BY <1>1 DEF StoreShape
<1>4. Completed(o)
  BY <1>1 DEF RelayBooks, Rearm, RelayEnds, IntentOK
<1>5. CASE RelayBooks(o)
  <2>1. /\ intent' = intent /\ told' = told /\ doubt' = doubt /\ shopCalls' = shopCalls
        /\ intent[o] = "pending" /\ ~under[o]
        /\ under' = [under EXCEPT ![o] = TRUE]
        /\ subsidised' = [subsidised EXCEPT ![o] = subsidised[o] + 1]
    BY <1>5 DEF RelayBooks
  <2>2. /\ under'[o] = TRUE /\ subsidised'[o] = subsidised[o] + 1
        /\ \A q \in Orders \ {o} : Untouched(q)
    BY <1>1, <1>2, <2>1 DEF StoreShape, Untouched
  <2>3. StoreShape'
    BY <1>1, <1>2, <2>1 DEF StoreShape
  <2>4. Forward(o)
    BY <1>2, <1>3, <2>1, <2>2 DEF Forward, Placed, Completed
  <2>5. RowOK(o)'
    BY <1>2, <2>3, <2>4, RowStands
  <2>6. IntentOK(o)'
    BY <1>1, <1>2, <1>3, <1>4, <2>1, <2>2 DEF IntentOK, Completed, Placed
  <2>7. ~doubt[o] => subsidised[o] = 0 /\ Clear(o)
    BY <1>1, <1>3, <2>1 DEF Clear, AtDraw, Drawing
  <2>8. ~doubt'[o] => Clear(o)'
    BY <1>2, <2>1, <2>2, <2>7 DEF Clear, AtDraw, Drawing, At, Placed
  <2> QED
    BY <1>2, <1>4, <2>2, <2>3, <2>4, <2>5, <2>6, <2>8, NoClerk
<1>6. CASE Rearm(o)
  <2>1. /\ told' = told /\ under' = under /\ subsidised' = subsidised
        /\ intent[o] \in {"refused", "exhausted"} /\ shopCalls' = shopCalls + 1
        /\ intent' = [intent EXCEPT ![o] = "pending"]
        /\ doubt' = [doubt EXCEPT ![o] = TRUE]
    BY <1>6 DEF Rearm
  <2>2. /\ doubt'[o] = TRUE /\ intent'[o] = "pending"
        /\ \A q \in Orders \ {o} : Untouched(q)
    BY <1>1, <1>2, <2>1 DEF StoreShape, Untouched
  <2>3. StoreShape'
    BY <1>1, <1>2, <2>1 DEF StoreShape
  <2>4. Forward(o)
    BY <1>2, <1>3, <2>1, <2>2 DEF Forward, Placed, Completed
  <2>5. RowOK(o)'
    BY <1>2, <2>3, <2>4, RowStands
  <2>6. IntentOK(o)'
    BY <1>1, <1>2, <1>4, <2>1, <2>2 DEF IntentOK, Completed, Placed
  <2> QED
    BY <1>2, <1>4, <2>2, <2>3, <2>4, <2>5, <2>6, NoClerk
<1>7. ASSUME NEW end \in Ended, RelayEnds(o, end) PROVE Onward
  <2>1. /\ under' = under /\ subsidised' = subsidised /\ shopCalls' = shopCalls
        /\ intent[o] = "pending" /\ (end = "delivered" => under[o])
        /\ intent' = [intent EXCEPT ![o] = end]
        /\ told' = [told EXCEPT ![o] = told[o] \cup {end}]
        /\ doubt' = [doubt EXCEPT ![o] = doubt[o] \/ (under[o] /\ end # "delivered")]
    BY <1>7 DEF RelayEnds
  <2>2. /\ intent'[o] = end /\ told'[o] = told[o] \cup {end} /\ end # "none" /\ end # "pending"
        /\ "pending" \notin Ended /\ end \in {"delivered", "refused", "exhausted"}
        /\ doubt'[o] <=> doubt[o] \/ (under[o] /\ end # "delivered")
        /\ \A q \in Orders \ {o} : Untouched(q)
    BY <1>1, <1>2, <2>1 DEF StoreShape, Untouched, Ended
  <2>3. StoreShape'
    <3>1. intent' \in [Orders -> {"none", "pending"} \cup Ended]
      BY <1>1, <2>1 DEF StoreShape
    <3>2. told' \in [Orders -> SUBSET Ended]
      BY <1>1, <2>1 DEF StoreShape
    <3>3. doubt' \in [Orders -> BOOLEAN]
      BY <1>1, <2>1 DEF StoreShape
    <3> QED
      BY <1>1, <1>2, <2>1, <3>1, <3>2, <3>3 DEF StoreShape
  <2>4. Forward(o)
    BY <1>2, <1>3, <2>1, <2>2 DEF Forward, Placed, Completed
  <2>5. RowOK(o)'
    BY <1>2, <2>3, <2>4, RowStands
  <2>6. IntentOK(o)'
    BY <1>1, <1>2, <1>4, <2>1, <2>2 DEF IntentOK, Completed, Placed
  <2>7. ~doubt'[o] => Clear(o)'
    <3>1. SUFFICES ASSUME ~doubt'[o] PROVE Clear(o)'
      OBVIOUS
    <3>2. Clear(o) /\ (under[o] => end = "delivered")
      BY <1>1, <2>2, <3>1
    <3>3. told'[o] = {end}
      BY <1>3, <2>1, <2>2, <3>2 DEF Clear
    <3>4. /\ order[o].draw = "intent_enqueued" /\ \A d \in Clerks : ~AtDraw(d, o)
          /\ subsidised[o] > 0 => under[o]
      BY <2>1, <3>2 DEF Clear, AtDraw, Drawing
    <3> QED
      BY <1>2, <2>1, <2>2, <3>2, <3>3, <3>4 DEF Clear, AtDraw, Drawing, At, Placed
  <2> QED
    BY <1>2, <1>4, <2>2, <2>3, <2>4, <2>5, <2>6, <2>7, NoClerk
<1> QED
  BY <1>5, <1>6, <1>7

\* An event about an intent's end reaches the shop, or is lost.
LEMMA ToldStep ==
  ASSUME StoreInv, NEW o \in Orders, NEW end \in Ended, Settle(o, end) \/ LoseEvent(o, end)
  PROVE  Onward
<1>1. StoreShape /\ RowOK(o) /\ IntentOK(o) /\ (~doubt[o] => Clear(o))
  BY DEF StoreInv
<1>2. /\ UNCHANGED <<item, serving, sessions, intent, under, subsidised, doubt, shopCalls>>
      /\ SessionsGrow
      /\ end \in told[o] /\ told' = [told EXCEPT ![o] = told[o] \ {end}]
  BY DEF Settle, LoseEvent, SessionsGrow
<1>3. /\ told'[o] = told[o] \ {end} /\ told[o] \subseteq Ended
      /\ told' \in [Orders -> SUBSET Ended] /\ \A q \in Orders \ {o} : told'[q] = told[q]
  BY <1>1, <1>2 DEF StoreShape
<1>4. Completed(o) /\ Placed(o) /\ order[o] \in OrderRows
  BY <1>1, <1>2 DEF IntentOK, Completed, Placed, StoreShape
<1>5. /\ order' \in [Orders -> OrderRows \cup {NoOrder}]
      /\ \A q \in Orders \ {o} : order'[q] = order[q]
      /\ \/ order'[o] = order[o]
         \/ /\ order[o].draw = "intent_enqueued"
            /\ order'[o] = [order[o] EXCEPT !.draw = SettledAs(end)]
            /\ order'[o] \in OrderRows
  <2>1. CASE order' = order
    BY <1>1, <2>1 DEF StoreShape
  <2>2. CASE order[o].draw = "intent_enqueued" /\ order' = [order EXCEPT ![o].draw = SettledAs(end)]
    <3>1. SettledAs(end) \in DrawStates
      BY DEF SettledAs, Ended, DrawStates, Ledger
    <3>2. PICK row \in OrderRows : row = [order[o] EXCEPT !.draw = SettledAs(end)]
      BY <1>4, <3>1 DEF OrderRows
    <3>3. order' = [order EXCEPT ![o] = row]
      BY <2>2, <3>2
    <3> QED
      BY <1>1, <2>2, <3>2, <3>3 DEF StoreShape
  <2> QED
    BY <2>1, <2>2 DEF Settle, LoseEvent
<1>6. StoreShape'
  BY <1>1, <1>2, <1>3, <1>5 DEF StoreShape
<1>7. \A q \in Orders \ {o} : Untouched(q)
  BY <1>2, <1>3, <1>5 DEF Untouched
<1>8. /\ Placed(o)' /\ Completed(o)'
      /\ order'[o].status = order[o].status /\ order'[o].price = order[o].price
      /\ order'[o].charged = order[o].charged /\ order'[o].funded = order[o].funded
      /\ order'[o].session = order[o].session /\ order'[o].payment = order[o].payment
      /\ order'[o].ledger = order[o].ledger
      /\ \/ order'[o].draw = order[o].draw
         \/ order[o].draw = "intent_enqueued" /\ order'[o].draw = SettledAs(end)
  BY <1>4, <1>5, NoOrderAssumption DEF Placed, Completed, OrderRows
<1>9. /\ SettledAs(end) \in {"booked", "refused", "failed"}
      /\ SettledAs(end) = "booked" <=> end = "delivered"
  BY DEF SettledAs, Ended
<1>10. /\ intent'[o] = intent[o] /\ under'[o] = under[o] /\ subsidised'[o] = subsidised[o]
       /\ doubt'[o] = doubt[o] /\ subsidised[o] \in Nat
  BY <1>1, <1>2 DEF StoreShape
<1>11. Forward(o)
  BY <1>8, <1>10 DEF Forward
<1>12. RowOK(o)'
  BY <1>1, <1>2, <1>4, <1>8, <1>9, <1>10 DEF RowOK, Constraints, IntentOK
<1>13. IntentOK(o)'
  BY <1>1, <1>3, <1>8, <1>10 DEF IntentOK
<1>14. ~doubt'[o] => Clear(o)'
  <2>1. SUFFICES ASSUME ~doubt'[o] PROVE Clear(o)'
    OBVIOUS
  <2>2. Clear(o) /\ end = intent[o] /\ end # "pending"
    BY <1>1, <1>2, <1>10, <2>1 DEF Clear, Ended
  <2>3. \A d \in Clerks : /\ AtDraw(d, o)' <=> AtDraw(d, o)
                          /\ Drawing(d, o)' <=> Drawing(d, o)
                          /\ At(d, "outcome", o)' <=> At(d, "outcome", o)
    BY <1>2 DEF AtDraw, Drawing, At
  <2> QED
    BY <1>2, <1>3, <1>8, <1>9, <1>10, <2>2, <2>3, <1>4 DEF Clear
<1> QED
  BY <1>2, <1>4, <1>6, <1>7, <1>11, <1>12, <1>13, <1>14, NoClerk

\* A handler at a draw works on a completed order that owes one.
LEMMA DrawerKnows ==
  ASSUME StoreInv, NEW c \in Clerks, NEW o \in Orders, AtDraw(c, o)
  PROVE  /\ Completed(o) /\ Placed(o) /\ order[o] \in OrderRows /\ order[o].funded > 0
         /\ Constraints(order[o])
         /\ \A d \in Clerks : ~At(d, "place", o)
         /\ \A q \in Orders \ {o} : ~AtDraw(c, q)
         /\ \A d \in Clerks : ~doubt[o] /\ Drawing(d, o) /\ Drawing(c, o) => d = c
         /\ ~doubt[o] => /\ intent[o] \notin {"pending", "delivered"}
                         /\ ~under[o] /\ Clear(o)
<1>1. StoreShape /\ ClerkOK(c) /\ RowOK(o) /\ (~doubt[o] => Clear(o))
  BY DEF StoreInv
<1>2. Completed(o) /\ Placed(o) /\ order[o] \in OrderRows /\ order[o].funded > 0
  BY <1>1 DEF ClerkOK, Completed, Placed, StoreShape
<1>3. \A d \in Clerks : ~At(d, "place", o)
  BY <1>2 DEF StoreInv, ClerkOK
<1>4. \A q \in Orders \ {o} : ~AtDraw(c, q)
  BY DEF AtDraw, Drawing, At
<1>5. ~doubt[o] => intent[o] \notin {"pending", "delivered"} /\ ~under[o] /\ Clear(o)
  BY <1>1 DEF Clear
<1>6. \A d \in Clerks : ~doubt[o] /\ Drawing(d, o) /\ Drawing(c, o) => d = c
  BY <1>1 DEF Clear
<1> QED
  BY <1>1, <1>2, <1>3, <1>4, <1>5, <1>6 DEF RowOK

\* A row whose draw alone is rewritten keeps its constraints and its terms.
LEMMA DrawRewritten ==
  ASSUME NEW row \in OrderRows, Constraints(row), row.funded > 0,
         NEW draw \in DrawStates \ {"none"}
  PROVE  LET new == [row EXCEPT !.draw = draw]
         IN /\ new \in OrderRows /\ Constraints(new) /\ new.draw = draw
            /\ new.status = row.status /\ new.payment = row.payment
            /\ new.charged = row.charged /\ new.funded = row.funded
            /\ new.session = row.session /\ new.ledger = row.ledger
  BY DEF OrderRows, Constraints

\* The attempt is recorded, or the draw was booked by now.
LEMMA AttemptStep ==
  ASSUME StoreInv, NEW c \in Clerks, NEW o \in Orders, Attempt(c, o)
  PROVE  Onward
<1>1. /\ StoreShape /\ RowOK(o) /\ IntentOK(o) /\ AtDraw(c, o) /\ ~Drawing(c, o)
      /\ UNCHANGED <<item, sessions, intent, under, subsidised, told, shopCalls>> /\ SessionsGrow
  BY DEF StoreInv, Attempt, AtDraw, Drawing, At, SessionsGrow
<1>2. /\ Completed(o) /\ Placed(o) /\ order[o] \in OrderRows /\ order[o].funded > 0
      /\ Constraints(order[o])
      /\ \A d \in Clerks : ~At(d, "place", o)
      /\ \A q \in Orders \ {o} : ~AtDraw(c, q)
      /\ ~doubt[o] => intent[o] \notin {"pending", "delivered"} /\ ~under[o] /\ Clear(o)
  BY <1>1, DrawerKnows
<1>3. CASE order[o].draw = "booked" /\ Respond(c, "conflict") /\ UNCHANGED <<order, doubt>>
  <2>1. "conflict" \in Ready
    BY DEF Ready
  <2>2. /\ serving' \in [Clerks -> Works] /\ serving'[c].pc = "conflict"
        /\ \A d \in Clerks \ {c} : serving'[d] = serving[d]
    BY <1>1, <1>3, <2>1, RespondTyped
  <2>3. StoreShape' /\ \A q \in Orders : Untouched(q)
    BY <1>1, <1>3, <2>2 DEF StoreShape, Untouched
  <2>4. ClerkOK(c)' /\ \A q \in Orders : ~At(c, "place", q)' /\ ~AtDraw(c, q)'
    BY <2>1, <2>2, ClerkRests DEF At, AtDraw, Drawing
  <2>5. Forward(o) /\ RowOK(o)' /\ IntentOK(o)'
    <3>1. Forward(o)
      BY <1>1, <2>3, UntouchedForward
    <3> QED
      BY <1>1, <1>3, <2>3, <3>1, RowStands, IntentStands
  <2>6. ~doubt'[o] => Clear(o)'
    <3>1. SUFFICES ASSUME ~doubt'[o] PROVE Clear(o)'
      OBVIOUS
    <3>2. Clear(o)
      BY <1>2, <1>3, <3>1
    <3>3. /\ \A d \in Clerks : /\ AtDraw(d, o)' => AtDraw(d, o)
                               /\ Drawing(d, o)' <=> Drawing(d, o)
          /\ \A d \in Clerks : At(d, "outcome", o)' /\ serving'[d].out = "booked"
                                 <=> At(d, "outcome", o) /\ serving[d].out = "booked"
      BY <1>1, <2>2, <2>4 DEF AtDraw, Drawing, At
    <3> QED
      BY <1>1, <1>3, <3>2, <3>3 DEF Clear, Placed
  <2> QED
    BY <1>1, <1>2, <2>2, <2>3, <2>4, <2>5, <2>6, OneClerk
<1>4. ASSUME order[o].draw # "booked",
             order' = [order EXCEPT ![o].draw = "attempting"],
             Turn(c, "transfer", o, 0, "unbooked"),
             doubt' = [doubt EXCEPT ![o] = @ \/ \E d \in Clerks \ {c} : Drawing(d, o)]
      PROVE  Onward
  <2>1. "transfer" \in Ready \cup Steps /\ "unbooked" \in Ledger /\ "attempting" \in DrawStates \ {"none"}
    BY DEF Steps, Ledger, DrawStates
  <2>2. /\ serving' \in [Clerks -> Works]
        /\ serving'[c] = [pc |-> "transfer", order |-> o, ref |-> 0, out |-> "unbooked"]
        /\ \A d \in Clerks \ {c} : serving'[d] = serving[d]
    BY <1>1, <1>4, <2>1, TurnTyped
  <2>3. PICK row \in OrderRows :
          /\ row = [order[o] EXCEPT !.draw = "attempting"]
          /\ Constraints(row) /\ row.draw = "attempting"
          /\ row.status = order[o].status /\ row.payment = order[o].payment
          /\ row.charged = order[o].charged /\ row.funded = order[o].funded
          /\ row.session = order[o].session /\ row.ledger = order[o].ledger
    <3>1. order[o] \in OrderRows /\ Constraints(order[o]) /\ order[o].funded > 0
      BY <1>2
    <3>2. PICK draw : draw = "attempting"
      OBVIOUS
    <3>3. draw \in DrawStates \ {"none"}
      BY <2>1, <3>2
    <3>4. PICK row \in OrderRows :
            /\ row = [order[o] EXCEPT !.draw = draw]
            /\ Constraints(row) /\ row.draw = draw
            /\ row.status = order[o].status /\ row.payment = order[o].payment
            /\ row.charged = order[o].charged /\ row.funded = order[o].funded
            /\ row.session = order[o].session /\ row.ledger = order[o].ledger
      BY <3>1, <3>3, DrawRewritten
    <3> QED
      BY <3>2, <3>4
  <2>4. /\ order' \in [Orders -> OrderRows \cup {NoOrder}] /\ order'[o] = row
        /\ \A q \in Orders \ {o} : order'[q] = order[q]
    BY <1>1, <1>4, <2>3 DEF StoreShape
  <2>5. PICK b \in BOOLEAN : b <=> doubt[o] \/ \E d \in Clerks \ {c} : Drawing(d, o)
    OBVIOUS
  <2>6. /\ doubt' \in [Orders -> BOOLEAN] /\ (doubt'[o] <=> b)
        /\ \A q \in Orders \ {o} : doubt'[q] = doubt[q]
    <3>1. (doubt[o] \/ \E d \in Clerks \ {c} : Drawing(d, o)) = b
      BY <2>5
    <3>2. doubt' = [doubt EXCEPT ![o] = b]
      BY <1>4, <3>1
    <3> QED
      BY <1>1, <3>2 DEF StoreShape
  <2>7. StoreShape' /\ \A q \in Orders \ {o} : Untouched(q)
    BY <1>1, <2>2, <2>4, <2>6 DEF StoreShape, Untouched
  <2>8. Placed(o)' /\ Completed(o)'
    BY <1>2, <2>3, <2>4, NoOrderAssumption DEF Placed, Completed
  <2>9. Forward(o)
    BY <1>1, <2>3, <2>4, <2>5, <2>6, <2>8 DEF Forward, StoreShape
  <2>10. RowOK(o)' /\ IntentOK(o)'
    BY <1>1, <1>2, <2>3, <2>4, <2>8 DEF RowOK, IntentOK
  <2>11. ClerkOK(c)' /\ \A q \in Orders : ~At(c, "place", q)' /\ (q # o => ~AtDraw(c, q)')
    <3>1. order'[o].funded > 0
      BY <1>2, <2>3, <2>4
    <3> QED
      BY <2>2, <2>8, <3>1 DEF ClerkOK, At, AtDraw, Drawing, Steps
  <2>12. ~doubt'[o] => Clear(o)'
    <3>1. SUFFICES ASSUME ~doubt'[o] PROVE Clear(o)'
      OBVIOUS
    <3>2. Clear(o) /\ intent[o] \notin {"pending", "delivered"} /\ ~under[o]
      BY <1>2, <2>5, <2>6, <3>1
    <3>3. \A d \in Clerks : ~Drawing(d, o)
      BY <1>1, <2>5, <2>6, <3>1
    <3>4. subsidised[o] = 0
      BY <1>1, <1>4, <3>2, <3>3 DEF Clear, Drawing, StoreShape
    <3>5. \A d \in Clerks \ {c} : ~Drawing(d, o)'
      BY <2>2, <3>3 DEF Drawing, At
    <3> QED
      BY <1>1, <2>3, <2>4, <3>2, <3>4, <3>5 DEF Clear
  <2> QED
    BY <1>1, <1>2, <2>2, <2>7, <2>9, <2>10, <2>11, <2>12, OneClerk
<1> QED
  BY <1>3, <1>4 DEF Attempt

\* finance moves the money, or refuses; its answer may be lost.
LEMMA TransferStep ==
  ASSUME StoreInv, NEW c \in Clerks, NEW o \in Orders, TransferByHand(c, o)
  PROVE  Onward
<1>1. /\ StoreShape /\ AtDraw(c, o) /\ Drawing(c, o) /\ ~At(c, "outcome", o)
      /\ UNCHANGED <<item, order, sessions, intent, under, told, shopCalls>> /\ SessionsGrow
  BY DEF StoreInv, TransferByHand, AtDraw, Drawing, At, SessionsGrow
<1>2. /\ Completed(o) /\ Placed(o) /\ order[o].funded > 0
      /\ \A d \in Clerks : ~At(d, "place", o)
      /\ \A q \in Orders \ {o} : ~AtDraw(c, q)
      /\ \A d \in Clerks : ~doubt[o] /\ Drawing(d, o) => d = c
      /\ ~doubt[o] => intent[o] \notin {"pending", "delivered"} /\ ~under[o] /\ Clear(o)
  BY <1>1, DrawerKnows
<1>3. PICK out \in {"booked", "refused", "failed"}, n \in {subsidised[o], subsidised[o] + 1}, b \in BOOLEAN :
        /\ Turn(c, "outcome", o, 0, out)
        /\ subsidised' = [subsidised EXCEPT ![o] = n]
        /\ doubt' = [doubt EXCEPT ![o] = b]
        /\ doubt[o] => b
        /\ out = "booked" => n = subsidised[o] + 1
        /\ ~b => n = subsidised[o] \/ out = "booked"
  <2>1. subsidised = [subsidised EXCEPT ![o] = subsidised[o]] /\ doubt = [doubt EXCEPT ![o] = doubt[o]]
        /\ doubt[o] \in BOOLEAN
    BY <1>1 DEF StoreShape
  <2>2. CASE /\ subsidised' = [subsidised EXCEPT ![o] = subsidised[o] + 1]
             /\ Turn(c, "outcome", o, 0, "booked") /\ UNCHANGED doubt
    BY <2>1, <2>2
  <2>3. CASE /\ subsidised' = [subsidised EXCEPT ![o] = subsidised[o] + 1]
             /\ Turn(c, "outcome", o, 0, "failed") /\ doubt' = [doubt EXCEPT ![o] = TRUE]
    BY <2>1, <2>3
  <2>4. CASE /\ \E out \in {"refused", "failed"} : Turn(c, "outcome", o, 0, out)
             /\ UNCHANGED <<subsidised, doubt>>
    BY <2>1, <2>4
  <2> QED
    BY <2>2, <2>3, <2>4 DEF TransferByHand
<1>4. "outcome" \in Ready \cup Steps /\ out \in Ledger /\ subsidised[o] \in Nat /\ n \in Nat
  BY <1>1, <1>3 DEF Steps, Ledger, StoreShape
<1>5. /\ serving' \in [Clerks -> Works]
      /\ serving'[c] = [pc |-> "outcome", order |-> o, ref |-> 0, out |-> out]
      /\ \A d \in Clerks \ {c} : serving'[d] = serving[d]
  BY <1>1, <1>3, <1>4, TurnTyped
<1>6. /\ subsidised' \in [Orders -> Nat] /\ doubt' \in [Orders -> BOOLEAN]
      /\ subsidised'[o] = n /\ (doubt'[o] <=> b)
      /\ \A q \in Orders \ {o} : subsidised'[q] = subsidised[q] /\ doubt'[q] = doubt[q]
  BY <1>1, <1>3, <1>4 DEF StoreShape
<1>7. StoreShape' /\ \A q \in Orders \ {o} : Untouched(q)
  BY <1>1, <1>5, <1>6 DEF StoreShape, Untouched
<1>8. Placed(o)' /\ Completed(o)' /\ order'[o] = order[o] /\ n >= subsidised[o]
  BY <1>1, <1>2, <1>3, <1>4 DEF Placed, Completed
<1>9. Forward(o)
  BY <1>1, <1>3, <1>6, <1>8 DEF Forward
<1>10. RowOK(o)' /\ IntentOK(o)'
  BY <1>1, <1>7, <1>8, <1>9, RowStands, IntentStands
<1>11. ClerkOK(c)' /\ \A q \in Orders : ~At(c, "place", q)' /\ (q # o => ~AtDraw(c, q)')
  <2>1. order'[o].funded > 0 /\ (out = "booked" => subsidised'[o] > 0)
    BY <1>2, <1>3, <1>4, <1>6, <1>8
  <2> QED
    BY <1>5, <1>8, <2>1 DEF ClerkOK, At, AtDraw, Drawing, Steps
<1>12. ~doubt'[o] => Clear(o)'
  <2>1. SUFFICES ASSUME ~doubt'[o] PROVE Clear(o)'
    OBVIOUS
  <2>2. Clear(o) /\ intent[o] \notin {"pending", "delivered"} /\ ~under[o] /\ ~doubt[o] /\ ~b
    BY <1>2, <1>3, <1>6, <2>1
  <2>3. order[o].draw = "attempting" /\ \A d \in Clerks \ {c} : ~Drawing(d, o)
    BY <1>1, <2>2 DEF Clear
  <2>4. \A d \in Clerks : ~At(d, "outcome", o)
    BY <1>1, <2>3 DEF Drawing
  <2>5. subsidised[o] = 0
    BY <1>4, <2>2, <2>3, <2>4 DEF Clear
  <2>6. \A d \in Clerks \ {c} : ~Drawing(d, o)'
    BY <1>5, <2>3 DEF Drawing, At
  <2>7. subsidised'[o] \in {0, 1} /\ (subsidised'[o] > 0 => At(c, "outcome", o)' /\ serving'[c].out = "booked")
    BY <1>3, <1>5, <1>6, <2>2, <2>5 DEF At
  <2>8. order'[o] = order[o] /\ intent'[o] = intent[o] /\ told'[o] = told[o] /\ under'[o] = under[o]
    BY <1>1
  <2>9. told[o] \subseteq {intent[o]}
    BY <2>2 DEF Clear
  <2> QED
    BY <2>2, <2>3, <2>6, <2>7, <2>8, <2>9 DEF Clear
<1> QED
  BY <1>1, <1>2, <1>5, <1>7, <1>9, <1>10, <1>11, <1>12, OneClerk

\* The answer is written to the order's draw.
LEMMA OutcomeStep ==
  ASSUME StoreInv, NEW c \in Clerks, NEW o \in Orders, WriteOutcome(c, o)
  PROVE  Onward
<1>1. /\ StoreShape /\ RowOK(o) /\ IntentOK(o) /\ ClerkOK(c)
      /\ AtDraw(c, o) /\ Drawing(c, o) /\ At(c, "outcome", o)
      /\ UNCHANGED <<item, sessions, intent, under, subsidised, told, doubt, shopCalls>> /\ SessionsGrow
  BY DEF StoreInv, WriteOutcome, AtDraw, Drawing, At, SessionsGrow
<1>2. /\ Completed(o) /\ Placed(o) /\ order[o] \in OrderRows /\ order[o].funded > 0
      /\ Constraints(order[o])
      /\ \A d \in Clerks : ~At(d, "place", o)
      /\ \A q \in Orders \ {o} : ~AtDraw(c, q)
      /\ \A d \in Clerks : ~doubt[o] /\ Drawing(d, o) => d = c
      /\ ~doubt[o] => intent[o] \notin {"pending", "delivered"} /\ ~under[o] /\ Clear(o)
  BY <1>1, DrawerKnows
<1>3. PICK out \in Ledger : out = serving[c].out
  BY <1>1 DEF StoreShape, Works
<1>4. out \in DrawStates \ {"none"} /\ out # "intent_enqueued" /\ (out = "booked" => subsidised[o] > 0)
  BY <1>1, <1>3 DEF ClerkOK, Ledger, DrawStates
<1>5. PICK row \in OrderRows :
        /\ row = [order[o] EXCEPT !.draw = out]
        /\ Constraints(row) /\ row.draw = out
        /\ row.status = order[o].status /\ row.payment = order[o].payment
        /\ row.charged = order[o].charged /\ row.funded = order[o].funded
        /\ row.session = order[o].session /\ row.ledger = order[o].ledger
  BY <1>2, <1>4, DrawRewritten
<1>6. order' = [order EXCEPT ![o] = row]
  BY <1>3, <1>5 DEF WriteOutcome
<1>7. /\ order' \in [Orders -> OrderRows \cup {NoOrder}] /\ order'[o] = row
      /\ \A q \in Orders \ {o} : order'[q] = order[q]
  BY <1>1, <1>6 DEF StoreShape
<1>8. PICK pc \in Ready : Respond(c, pc)
  BY DEF WriteOutcome, Ready
<1>9. /\ serving' \in [Clerks -> Works] /\ serving'[c].pc \in Ready
      /\ \A d \in Clerks \ {c} : serving'[d] = serving[d]
  BY <1>1, <1>8, RespondTyped
<1>10. StoreShape' /\ \A q \in Orders \ {o} : Untouched(q)
  BY <1>1, <1>7, <1>9 DEF StoreShape, Untouched
<1>11. Placed(o)' /\ Completed(o)'
  BY <1>2, <1>5, <1>7, NoOrderAssumption DEF Placed, Completed
<1>12. Forward(o)
  BY <1>1, <1>5, <1>7, <1>11 DEF Forward, StoreShape
<1>13. RowOK(o)' /\ IntentOK(o)'
  BY <1>1, <1>2, <1>4, <1>5, <1>7, <1>11 DEF RowOK, IntentOK
<1>14. ClerkOK(c)' /\ \A q \in Orders : ~At(c, "place", q)' /\ ~AtDraw(c, q)'
  BY <1>9, ClerkRests DEF At, AtDraw, Drawing, Ready
<1>15. ~doubt'[o] => Clear(o)'
  <2>1. SUFFICES ASSUME ~doubt'[o] PROVE Clear(o)'
    OBVIOUS
  <2>2. Clear(o) /\ intent[o] \notin {"pending", "delivered"} /\ ~under[o] /\ ~doubt[o]
    BY <1>1, <1>2, <2>1
  <2>3. order[o].draw = "attempting" /\ \A d \in Clerks \ {c} : ~Drawing(d, o)
    BY <1>1, <2>2 DEF Clear
  <2>4. subsidised[o] > 0 => out = "booked"
    BY <1>3, <2>2, <2>3 DEF Clear, Drawing
  <2>5. \A d \in Clerks : ~Drawing(d, o)'
    BY <1>9, <1>14, <2>3 DEF AtDraw, Drawing, At
  <2> QED
    BY <1>1, <1>5, <1>7, <1>11, <2>2, <2>4, <2>5 DEF Clear
<1> QED
  BY <1>1, <1>2, <1>9, <1>10, <1>12, <1>13, <1>14, <1>15, OneClerk

\* The process dies with every handler in it, and the bus forgets.
LEMMA CrashStep ==
  ASSUME StoreInv, ShopCrash
  PROVE  Onward
<1>1. /\ StoreShape /\ UNCHANGED <<item, order, sessions, intent, under, subsidised, shopCalls>>
      /\ SessionsGrow
  BY DEF StoreInv, ShopCrash, SessionsGrow
<1>2. /\ serving' \in [Clerks -> Works] /\ \A d \in Clerks : serving'[d].pc = "idle"
      /\ told' \in [Orders -> SUBSET Ended] /\ \A q \in Orders : told'[q] = {}
  BY DEF ShopCrash, Works, Ready, Ledger
<1>3. \A q \in Orders : /\ doubt[q] => doubt'[q]
                        /\ (\E d \in Clerks : At(d, "outcome", q) /\ serving[d].out = "booked") => doubt'[q]
  BY DEF ShopCrash
<1>4. doubt' \in [Orders -> BOOLEAN]
  BY <1>1 DEF ShopCrash, StoreShape
<1>5. StoreShape' /\ \A q \in Orders : Untouched(q)
  BY <1>1, <1>2, <1>3, <1>4 DEF StoreShape, Untouched
<1>6. \A d \in Clerks : ClerkOK(d)'
  BY <1>2, ClerkRests DEF Ready
<1>7. \A d \in Clerks, q \in Orders : ~At(d, "place", q)' /\ ~AtDraw(d, q)' /\ ~Drawing(d, q)'
  BY <1>2 DEF At, AtDraw, Drawing
<1>8. ASSUME NEW q \in Orders, ~doubt'[q], Clear(q) PROVE Clear(q)'
  BY <1>1, <1>2, <1>3, <1>7, <1>8 DEF Clear, Placed
<1>9. Clerks \in SUBSET Clerks /\ \A d \in Clerks \ Clerks : serving'[d] = serving[d]
  OBVIOUS
<1>10. \A d \in Clerks, q \in Orders : At(d, "place", q)' => \A e \in Clerks \ Clerks : ~At(e, "place", q)
  OBVIOUS
<1> QED
  BY <1>1, <1>5, <1>6, <1>8, <1>9, <1>10, Elsewhere

\* A handler's first read passes its checks.
LEMMA BeginSteps ==
  ASSUME StoreInv, NEW c \in Clerks, NEW o \in Orders,
         \/ BeginPlace(c, o) \/ BeginCheckout(c, o)
         \/ \E s \in DOMAIN sessions : BeginComplete(c, o, s)
         \/ BeginComp(c, o) \/ BeginDraw(c, o)
  PROVE  Onward
<1>1. /\ StoreShape /\ item.price \in Nat /\ (Placed(o) => order[o] \in OrderRows)
      /\ \A s \in DOMAIN sessions : s \in Nat
  <2>1. StoreShape /\ sessions \in Seq(Checkouts)
    BY DEF StoreInv, StoreShape
  <2>2. \A s \in DOMAIN sessions : s \in Nat
    BY <2>1
  <2>3. item.price \in Nat /\ (Placed(o) => order[o] \in OrderRows)
    BY <2>1, StoreAssumption DEF StoreShape, Placed
  <2> QED
    BY <2>1, <2>2, <2>3
<1>2. CASE BeginPlace(c, o)
  <2>1. /\ ~Placed(o) /\ \A d \in Clerks : ~At(d, "place", o)
        /\ Take(c, "place", o, item.price)
        /\ UNCHANGED <<item, order, sessions, intent, under, subsidised, told, doubt>>
    BY <1>2 DEF BeginPlace
  <2> QED
    BY <1>1, <2>1, TakeStep
<1>3. CASE BeginCheckout(c, o)
  <2>1. /\ Placed(o) /\ order[o].charged \in Nat
        /\ Take(c, "checkout", o, order[o].charged)
        /\ UNCHANGED <<item, order, sessions, intent, under, subsidised, told, doubt>>
    BY <1>1, <1>3 DEF BeginCheckout, OrderRows
  <2> QED
    BY <2>1, TakeStep
<1>4. ASSUME NEW s \in DOMAIN sessions, BeginComplete(c, o, s) PROVE Onward
  <2>1. /\ Placed(o) /\ s \in Nat /\ Take(c, "book", o, s)
        /\ UNCHANGED <<item, order, sessions, intent, under, subsidised, told, doubt>>
    BY <1>1, <1>4 DEF BeginComplete
  <2> QED
    BY <2>1, TakeStep
<1>5. CASE BeginComp(c, o)
  <2>1. /\ Placed(o) /\ Take(c, "comp", o, 0)
        /\ UNCHANGED <<item, order, sessions, intent, under, subsidised, told, doubt>>
    BY <1>5 DEF BeginComp
  <2> QED
    BY <2>1, TakeStep
<1>6. CASE BeginDraw(c, o)
  <2>1. /\ Placed(o) /\ Completed(o) /\ order[o].funded > 0
        /\ order[o].draw \notin {"booked", "intent_enqueued"}
        /\ Take(c, "draw", o, 0)
        /\ UNCHANGED <<item, order, sessions, intent, under, subsidised, told, doubt>>
    BY <1>6 DEF BeginDraw, Completed
  <2> QED
    BY <2>1, TakeStep
<1> QED
  BY <1>2, <1>3, <1>4, <1>5, <1>6

\* The shop before its first order.
LEMMA StoreStarts == StoreInit => StoreInv
<1> SUFFICES ASSUME StoreInit PROVE StoreInv
  OBVIOUS
<1>1. \A c \in Clerks : serving[c].pc = "idle"
  BY DEF StoreInit
<1>2. \A c \in Clerks, o \in Orders : ~At(c, "place", o) /\ ~AtDraw(c, o) /\ ~Drawing(c, o) /\ ~At(c, "outcome", o)
  BY <1>1 DEF At, AtDraw, Drawing
<1>3. \A c \in Clerks : ClerkOK(c)
  BY <1>1, <1>2 DEF ClerkOK, Steps
<1>4. StoreShape
  <2>1. serving \in [Clerks -> Works]
    BY DEF StoreInit, Works, Ready, Ledger
  <2>2. sessions \in Seq(Checkouts)
    BY DEF StoreInit
  <2>3. order \in [Orders -> OrderRows \cup {NoOrder}] /\ item \in [price : Prices, active : BOOLEAN]
    BY DEF StoreInit
  <2> QED
    BY <2>1, <2>2, <2>3 DEF StoreInit, StoreShape
<1>5. \A o \in Orders : RowOK(o) /\ IntentOK(o) /\ Clear(o)
  <2> SUFFICES ASSUME NEW o \in Orders PROVE RowOK(o) /\ IntentOK(o) /\ Clear(o)
    OBVIOUS
  <2>1. /\ ~Placed(o) /\ intent[o] = "none" /\ told[o] = {} /\ under[o] = FALSE
        /\ subsidised[o] = 0
    BY DEF StoreInit, Placed
  <2>2. RowOK(o) /\ IntentOK(o)
    BY <2>1 DEF RowOK, IntentOK
  <2>3. Clear(o)
    BY <1>2, <2>1 DEF Clear
  <2> QED
    BY <2>2, <2>3
<1> QED
  BY <1>3, <1>4, <1>5 DEF StoreInv

\* Every step keeps the invariant, and goes forward.
LEMMA StoreSteps == StoreInv /\ [StoreNext]_storeVars => Onward
<1> SUFFICES ASSUME StoreInv, [StoreNext]_storeVars PROVE Onward
  OBVIOUS
<1>1. ASSUME NEW c \in Clerks, NEW o \in Orders, ShopHandler(c, o) PROVE Onward
  BY <1>1, BeginSteps, UpdateSteps, CallStep, AttemptStep, TransferStep, OutcomeStep DEF ShopHandler
<1>2. ASSUME NEW o \in Orders, RelayBooks(o) \/ Rearm(o) PROVE Onward
  BY <1>2, RelayStep
<1>3. ASSUME NEW o \in Orders, NEW end \in Ended, RelayEnds(o, end) \/ Settle(o, end) \/ LoseEvent(o, end)
      PROVE  Onward
  BY <1>3, RelayStep, ToldStep
<1>4. CASE EditItem \/ \E s \in DOMAIN sessions : Pay(s)
  BY <1>4, PaidStep
<1>5. CASE ShopCrash
  BY <1>5, CrashStep
<1>6. CASE UNCHANGED storeVars
  <2>1. StoreInv'
    BY <1>6 DEF storeVars, StoreInv, StoreShape, RowOK, IntentOK, Clear, ClerkOK, Placed, Completed,
                AtDraw, Drawing, At, Constraints
  <2>2. \A o \in Orders : Untouched(o)
    BY <1>6 DEF storeVars, Untouched
  <2> QED
    BY <2>1, <2>2, UntouchedForward DEF Onward, StoreInv
<1> QED
  BY <1>1, <1>2, <1>3, <1>4, <1>5, <1>6 DEF StoreNext

(***************************************************************************)
(* The theorems.                                                           *)
(***************************************************************************)

\* What the rows, intents and handlers of the shop know of each other always
\* holds, and while nothing is in doubt an intent and a hand-made draw exclude
\* each other.
THEOREM StoreInvariant == StoreSpec => []StoreInv
<1>1. StoreInv /\ [StoreNext]_storeVars => StoreInv'
  BY StoreSteps DEF Onward
<1> QED
  BY StoreStarts, <1>1, PTL DEF StoreSpec

\* Every order's row is one the table's constraints admit, and an order whose
\* draw rides on an intent has one.
THEOREM StoreTyped == StoreSpec => []StoreTypeOK
<1>1. StoreInv => StoreTypeOK
  BY DEF StoreInv, StoreShape, StoreTypeOK, RowOK, Works, Placed
<1> QED
  BY StoreInvariant, <1>1, PTL

\* A completed order that is off the worklist of sql_unsettled is paid for.
THEOREM SettledIsPaid == StoreSpec => []SettledMeansMoney
<1>1. StoreInv => SettledMeansMoney
  <2> SUFFICES ASSUME StoreInv, NEW o \in Orders, Completed(o), ~Listed(o)
               PROVE  /\ order[o].status = "paid" => sessions[order[o].payment].booked
                      /\ order[o].funded > 0 => subsidised[o] > 0
    BY DEF SettledMeansMoney
  <2>1. RowOK(o) /\ IntentOK(o) /\ Placed(o)
    BY DEF StoreInv, Completed
  <2> QED
    BY <2>1 DEF Listed, RowOK, IntentOK
<1> QED
  BY StoreInvariant, <1>1, PTL

\* Scholarship pays for an order twice only after an answer was lost, two draws
\* ran at once, or an operator sent an ended intent again.
THEOREM SecondTransfer == StoreSpec => []SecondTransferNeedsDoubt
<1>1. StoreInv => SecondTransferNeedsDoubt
  <2> SUFFICES ASSUME StoreInv, NEW o \in Orders, subsidised[o] > 1 PROVE doubt[o]
    BY DEF SecondTransferNeedsDoubt
  <2>1. subsidised[o] \in Nat /\ (~doubt[o] => subsidised[o] <= 1)
    BY DEF StoreInv, StoreShape, Clear
  <2> QED
    BY <2>1
<1> QED
  BY StoreInvariant, <1>1, PTL

\* What an order was sold for, by which payment, and the session its member was
\* sent to, stand whatever handlers, outcomes and crashes come after.
THEOREM TermsStand == StoreSpec => OrdersKeepTheirTerms
<1>1. StoreInv /\ [StoreNext]_storeVars =>
        [\A o \in Orders : Completed(o) =>
           /\ order'[o].status = order[o].status /\ order'[o].payment = order[o].payment
           /\ order'[o].charged = order[o].charged /\ order'[o].funded = order[o].funded]_storeVars
  BY StoreSteps DEF Onward, Forward
<1>2. StoreInv /\ [StoreNext]_storeVars =>
        [\A o \in Orders : Placed(o) /\ order[o].session # 0 =>
           order'[o].session = order[o].session]_storeVars
  BY StoreSteps DEF Onward, Forward
<1> QED
  BY StoreInvariant, <1>1, <1>2, PTL DEF StoreSpec, OrdersKeepTheirTerms, CompletedOnce, SessionStands

(***************************************************************************)
(* The till in front of it: what a checkout row says of a session is what  *)
(* the provider did, and what was announced.                               *)
(***************************************************************************)

TillEvents == [type : {"stripe.checkout.created", "stripe.payment.confirmed"}, session : Sessions]
TillRows   == [status : {"none", "pending", "created", "failed", "completed"}, url : BOOLEAN]

TillShape ==
  /\ rows \in [Sessions -> TillRows] /\ bus \in Seq(TillEvents)
  /\ charged \subseteq Sessions /\ sent \subseteq Events
  /\ hand = [h \in Hands |-> hand[h]]

\* Handlers that open a session; that go by an event; that settle a payment.
Opens(h)    == hand[h].at \in {"call", "created", "failed"}
Listens(h)  == hand[h].at \in {"bump", "classify", "record"}
Settles(h)  == hand[h].at \in {"settle", "confirm"}

\* What a handler knows at its step.
TillKnows(h) ==
  /\ Opens(h) \/ Listens(h) \/ Settles(h) \/ Doing(h, "announce") =>
       "session" \in DOMAIN hand[h] /\ hand[h].session \in Sessions
  /\ Opens(h) => rows[hand[h].session] = [status |-> "pending", url |-> FALSE]
  /\ Listens(h) => /\ "event" \in DOMAIN hand[h] /\ hand[h].event \in sent
                   /\ hand[h].session = hand[h].event.of
  /\ Doing(h, "record") => hand[h].event.shape # "unpaid"
  /\ Settles(h) => Recorded(hand[h].session)

\* Two handlers neither open the same session nor settle the same payment.
TillApart ==
  \A g, h \in Hands :
    (Opens(g) /\ Opens(h)) \/ (Settles(g) /\ Settles(h)) =>
      (hand[g].session = hand[h].session => g = h)

\* What the rows, the card and the events say of each other.
TillRowsOK ==
  \A s \in Sessions :
    /\ rows[s].status \in {"none", "failed"} => ~rows[s].url
    /\ rows[s].status = "completed" => Recorded(s)
    /\ s \in charged => rows[s].url
TillSent ==
  \A e \in sent : rows[e.of].url /\ (e.shape # "unpaid" => e.of \in charged)
TillPaid ==
  \A p, q \in payments : p.of \in charged /\ (p.of = q.of => p = q)

\* A payment that was announced is recorded, once, and nobody settles it.
TillTold ==
  \A s \in Sessions, k \in DOMAIN bus : bus[k] = Confirmed(s) =>
    /\ Recorded(s)
    /\ \A j \in DOMAIN bus : bus[j] = Confirmed(s) => j = k
    /\ \A h \in Hands : Settles(h) => hand[h].session # s

TillInv ==
  /\ TillShape /\ TillApart /\ TillRowsOK /\ TillSent /\ TillPaid /\ TillTold
  /\ \A h \in Hands : TillKnows(h)

\* A handler keeps what it knows while others work.
LEMMA TillStays ==
  ASSUME TillInv, NEW h \in Hands, hand'[h] = hand[h], sent \subseteq sent',
         payments \subseteq payments',
         Opens(h) => rows'[hand[h].session] = rows[hand[h].session]
  PROVE  TillKnows(h)'
<1>1. TillKnows(h)
  BY DEF TillInv
<1> QED
  BY <1>1 DEF TillKnows, Opens, Listens, Settles, Doing, Recorded

\* What a handler that goes on has kept and has learnt.
LEMMA TillGo ==
  ASSUME TillInv, NEW h \in Hands, NEW more, Go(h, more)
  PROVE  /\ hand' = [g \in Hands |-> hand'[g]]
         /\ \A g \in Hands \ {h} : hand'[g] = hand[g]
         /\ DOMAIN hand'[h] = DOMAIN more \cup DOMAIN hand[h]
         /\ \A k \in DOMAIN more : hand'[h][k] = more[k]
         /\ \A k \in DOMAIN hand[h] \ DOMAIN more : hand'[h][k] = hand[h][k]
  BY DEF Go, Knowing, TillInv, TillShape

\* What it has kept where it only goes on to another step.
LEMMA TillNext ==
  ASSUME TillInv, NEW h \in Hands, NEW step, Go(h, [at |-> step]), "session" \in DOMAIN hand[h]
  PROVE  /\ hand' = [g \in Hands |-> hand'[g]]
         /\ \A g \in Hands \ {h} : hand'[g] = hand[g]
         /\ hand'[h].at = step /\ "session" \in DOMAIN hand'[h] /\ hand'[h].session = hand[h].session
         /\ "event" \in DOMAIN hand[h] => "event" \in DOMAIN hand'[h] /\ hand'[h].event = hand[h].event
<1> DEFINE more == [at |-> step]
<1>1. Go(h, more) /\ DOMAIN more = {"at"} /\ more.at = step
  OBVIOUS
<1> HIDE DEF more
<1>2. /\ hand' = [g \in Hands |-> hand'[g]] /\ \A g \in Hands \ {h} : hand'[g] = hand[g]
      /\ DOMAIN hand'[h] = {"at"} \cup DOMAIN hand[h] /\ hand'[h].at = step
      /\ \A k \in DOMAIN hand[h] \ {"at"} : hand'[h][k] = hand[h][k]
  BY <1>1, TillGo
<1> QED
  BY <1>2

\* A request whose handler goes on.
LEMMA TillAsked ==
  ASSUME TillInv, NEW h \in Hands, NEW step, Ask(h, step)
  PROVE  /\ hand' = [g \in Hands |-> hand'[g]] /\ hand'[h] = step /\ hand[h] = Idle
         /\ \A g \in Hands \ {h} : hand'[g] = hand[g]
  BY DEF Ask, Rests, TillInv, TillShape

\* A handler that has answered knows nothing.
LEMMA TillAnswered ==
  ASSUME TillInv, NEW h \in Hands, Answer(h)
  PROVE  /\ hand' = [g \in Hands |-> hand'[g]] /\ TillKnows(h)'
         /\ \A g \in Hands \ {h} : hand'[g] = hand[g]
         /\ ~Opens(h)' /\ ~Settles(h)'
  BY DEF Answer, TillInv, TillShape, TillKnows, Idle, Doing, Opens, Settles, Listens

\* One handler works, and takes up no session and no payment it had not.
LEMMA TillHand ==
  ASSUME TillInv, NEW h \in Hands,
         hand' = [g \in Hands |-> hand'[g]], \A g \in Hands \ {h} : hand'[g] = hand[g],
         Opens(h)' => Opens(h) /\ hand'[h].session = hand[h].session,
         Settles(h)' => Settles(h) /\ hand'[h].session = hand[h].session
  PROVE  /\ TillApart'
         /\ UNCHANGED bus /\ payments \subseteq payments' => TillTold'
<1>1. \A g \in Hands : /\ Opens(g)' => Opens(g) /\ hand'[g].session = hand[g].session
                       /\ Settles(g)' => Settles(g) /\ hand'[g].session = hand[g].session
  BY DEF Opens, Settles
<1>2. TillApart'
  BY <1>1 DEF TillInv, TillApart
<1>3. ASSUME UNCHANGED bus, payments \subseteq payments' PROVE TillTold'
  BY <1>1, <1>3 DEF TillInv, TillTold, Recorded, Confirmed
<1> QED
  BY <1>2, <1>3

\* One handler works, and writes no row, payment or event.
LEMMA TillQuiet ==
  ASSUME TillInv, NEW h \in Hands, UNCHANGED <<rows, charged, sent, payments, bus>>,
         hand' = [g \in Hands |-> hand'[g]], \A g \in Hands \ {h} : hand'[g] = hand[g],
         Opens(h)' => Opens(h) /\ hand'[h].session = hand[h].session,
         Settles(h)' => Settles(h) /\ hand'[h].session = hand[h].session,
         TillKnows(h)'
  PROVE  TillInv'
<1>1. TillShape'
  BY DEF TillInv, TillShape
<1>2. TillRowsOK' /\ TillSent' /\ TillPaid'
  BY DEF TillInv, TillRowsOK, TillSent, TillPaid, Recorded
<1>3. \A g \in Hands : TillKnows(g)'
  BY TillStays
<1> QED
  BY <1>1, <1>2, <1>3, TillHand DEF TillInv

\* The steps of a handler that write nothing the others go by.
LEMMA TillQuietSteps ==
  ASSUME TillInv, NEW h \in Hands,
         \/ CallStripe(h) \/ BumpRedeliveries(h) \/ Classify(h) \/ CheckoutFails(h)
         \/ \E e \in Events : Deliver(h, e)
         \/ Doing(h, "record") /\ Answer(h) /\ Silent /\ UNCHANGED <<rows, opened, charged, sent, seen, payments>>
  PROVE  TillInv'
<1>1. UNCHANGED <<rows, charged, sent, payments, bus>> /\ TillKnows(h)
  BY DEF CallStripe, BumpRedeliveries, Classify, CheckoutFails, Deliver, Silent, checkoutRows, TillInv
<1>2. CASE Answer(h)
  BY <1>1, <1>2, TillAnswered, TillQuiet
<1>3. ASSUME NEW step \in {"created", "failed"}, Doing(h, "call"), Go(h, [at |-> step]) PROVE TillInv'
  <2>1. Opens(h) /\ "session" \in DOMAIN hand[h] /\ hand[h].session \in Sessions
        /\ rows[hand[h].session] = [status |-> "pending", url |-> FALSE]
    BY <1>1, <1>3 DEF TillKnows, Opens, Doing
  <2>2. /\ hand' = [g \in Hands |-> hand'[g]] /\ \A g \in Hands \ {h} : hand'[g] = hand[g]
        /\ hand'[h].at = step /\ "session" \in DOMAIN hand'[h] /\ hand'[h].session = hand[h].session
    BY <1>3, <2>1, TillNext
  <2>3. TillKnows(h)' /\ Opens(h)' /\ ~Settles(h)'
    BY <1>1, <2>1, <2>2 DEF TillKnows, Opens, Listens, Settles, Doing
  <2> QED
    BY <1>1, <2>1, <2>2, <2>3, TillQuiet
<1>4. ASSUME NEW step \in {"classify", "record"}, Listens(h), Go(h, [at |-> step]),
             step = "record" => hand[h].event.shape # "unpaid"
      PROVE  TillInv'
  <2>1. /\ {"session", "event"} \subseteq DOMAIN hand[h] /\ hand[h].session \in Sessions
        /\ hand[h].event \in sent /\ hand[h].session = hand[h].event.of
    BY <1>1, <1>4 DEF TillKnows
  <2>2. /\ hand' = [g \in Hands |-> hand'[g]] /\ \A g \in Hands \ {h} : hand'[g] = hand[g]
        /\ hand'[h].at = step /\ {"session", "event"} \subseteq DOMAIN hand'[h]
        /\ hand'[h].session = hand[h].session /\ hand'[h].event = hand[h].event
    BY <1>4, <2>1, TillNext
  <2>3. TillKnows(h)' /\ ~Opens(h)' /\ ~Settles(h)'
    BY <1>1, <1>4, <2>1, <2>2 DEF TillKnows, Opens, Listens, Settles, Doing
  <2> QED
    BY <1>1, <2>2, <2>3, TillQuiet
<1>5. ASSUME NEW e \in Events, Deliver(h, e) PROVE TillInv'
  <2>1. PICK step : /\ Ask(h, step) /\ step.at \in {"bump", "classify"}
                    /\ {"session", "event"} \subseteq DOMAIN step /\ step.event = e /\ step.session = e.of
    <3>1. e \in sent /\ \E at \in {"bump", "classify"}, fresh \in BOOLEAN :
            Ask(h, [at |-> at, event |-> e, session |-> e.of, fresh |-> fresh])
      BY <1>5 DEF Deliver
    <3>2. PICK at \in {"bump", "classify"}, fresh \in BOOLEAN :
            Ask(h, [at |-> at, event |-> e, session |-> e.of, fresh |-> fresh])
      BY <3>1
    <3> DEFINE step == [at |-> at, event |-> e, session |-> e.of, fresh |-> fresh]
    <3>3. /\ Ask(h, step) /\ step.at \in {"bump", "classify"}
          /\ {"session", "event"} \subseteq DOMAIN step /\ step.event = e /\ step.session = e.of
      BY <3>2
    <3> QED
      BY <3>3
  <2>2. /\ hand' = [g \in Hands |-> hand'[g]] /\ \A g \in Hands \ {h} : hand'[g] = hand[g]
        /\ hand'[h] = step
    BY <2>1, TillAsked
  <2>3. e \in sent /\ e.of \in Sessions
    BY <1>5 DEF Deliver, Events
  <2>4. TillKnows(h)' /\ ~Opens(h)' /\ ~Settles(h)'
    BY <1>1, <2>1, <2>2, <2>3 DEF TillKnows, Opens, Listens, Settles, Doing
  <2> QED
    BY <1>1, <2>2, <2>4, TillQuiet
<1> QED
  BY <1>2, <1>3, <1>4, <1>5 DEF CallStripe, BumpRedeliveries, Classify, CheckoutFails, Proceed, Listens, Doing

\* route_checkout's pending row.
LEMMA OpenStep ==
  ASSUME TillInv, NEW h \in Hands, NEW s \in Sessions, OpenCheckout(h, s)
  PROVE  TillInv'
<1>1. /\ TillShape /\ rows[s].status = "none" /\ UNCHANGED <<charged, sent, payments, bus>>
      /\ rows' = [rows EXCEPT ![s].status = "pending"] /\ rows[s] \in TillRows
      /\ Ask(h, [at |-> "call", session |-> s])
  BY DEF TillInv, OpenCheckout, Silent, TillShape
<1> DEFINE step == [at |-> "call", session |-> s]
<1>2. Ask(h, step) /\ step.at = "call" /\ "session" \in DOMAIN step /\ step.session = s
  BY <1>1
<1> HIDE DEF step
<1>3. /\ hand' = [g \in Hands |-> hand'[g]] /\ \A g \in Hands \ {h} : hand'[g] = hand[g]
      /\ hand'[h] = step /\ hand[h] = Idle
  BY <1>2, TillAsked
<1>4. /\ rows' \in [Sessions -> TillRows] /\ rows'[s] = [status |-> "pending", url |-> rows[s].url]
      /\ \A t \in Sessions \ {s} : rows'[t] = rows[t]
  BY <1>1 DEF TillShape, TillRows
<1>5. rows[s].url = FALSE /\ rows'[s] = [status |-> "pending", url |-> FALSE]
  BY <1>1, <1>4 DEF TillInv, TillRowsOK, TillRows
<1>6. TillShape'
  BY <1>1, <1>3, <1>4 DEF TillShape
<1>7. \A g \in Hands : Opens(g) => hand[g].session # s
  BY <1>1 DEF TillInv, TillKnows
<1>8. \A g \in Hands : TillKnows(g)'
  <2>1. TillKnows(h)'
    BY <1>2, <1>3, <1>5 DEF TillKnows, Opens, Listens, Settles, Doing
  <2>2. ASSUME NEW g \in Hands \ {h} PROVE TillKnows(g)'
    <3>1. Opens(g) => rows'[hand[g].session] = rows[hand[g].session]
      BY <1>4, <1>7 DEF TillInv, TillKnows
    <3> QED
      BY <1>1, <1>3, <3>1, TillStays
  <2> QED
    BY <2>1, <2>2
<1>9. TillApart'
  <2>1. \A g \in Hands \ {h} : (Opens(g)' <=> Opens(g)) /\ (Settles(g)' <=> Settles(g))
    BY <1>3 DEF Opens, Settles
  <2>2. hand'[h].session = s /\ ~Settles(h)'
    BY <1>2, <1>3 DEF Settles
  <2> QED
    BY <1>3, <1>7, <2>1, <2>2 DEF TillInv, TillApart
<1>10. TillTold'
  <2>1. \A g \in Hands : Settles(g)' => Settles(g) /\ hand'[g].session = hand[g].session
    BY <1>2, <1>3 DEF Settles
  <2> QED
    BY <1>1, <2>1 DEF TillInv, TillTold, Recorded, Confirmed
<1>11. TillRowsOK' /\ TillSent' /\ TillPaid'
  <2>1. \A t \in Sessions : rows'[t].url = rows[t].url
                          /\ (rows'[t].status = rows[t].status \/ rows'[t].status = "pending")
    BY <1>4, <1>5, <1>1
  <2>2. \A e \in sent : e.of \in Sessions
    BY <1>1 DEF TillShape, Events
  <2> QED
    BY <1>1, <2>1, <2>2 DEF TillInv, TillRowsOK, TillSent, TillPaid, Recorded
<1> QED
  BY <1>6, <1>8, <1>9, <1>10, <1>11 DEF TillInv

\* The row of a handler that opens a session is its own to settle.
LEMMA OpenedStep ==
  ASSUME TillInv, NEW h \in Hands, MarkFailed(h) \/ SettleCreated(h)
  PROVE  TillInv'
<1>1. TillShape /\ TillKnows(h) /\ Opens(h) /\ UNCHANGED <<charged, sent, payments, bus>>
  BY DEF TillInv, MarkFailed, SettleCreated, Marks, Doing, Opens, Silent
<1>2. PICK s \in Sessions : /\ s = hand[h].session /\ rows[s] = [status |-> "pending", url |-> FALSE]
                            /\ "session" \in DOMAIN hand[h]
  BY <1>1 DEF TillKnows
<1>3. /\ hand' = [g \in Hands |-> hand'[g]] /\ \A g \in Hands \ {h} : hand'[g] = hand[g]
      /\ ~Opens(h)' /\ ~Settles(h)' /\ TillKnows(h)'
  <2>1. CASE MarkFailed(h)
    BY <2>1, TillAnswered DEF MarkFailed
  <2>2. CASE SettleCreated(h)
    <3>1. /\ hand' = [g \in Hands |-> hand'[g]] /\ \A g \in Hands \ {h} : hand'[g] = hand[g]
          /\ hand'[h].at = "announce" /\ "session" \in DOMAIN hand'[h] /\ hand'[h].session = s
      BY <1>2, <2>2, TillNext DEF SettleCreated
    <3> QED
      BY <3>1 DEF TillKnows, Opens, Listens, Settles, Doing
  <2> QED
    BY <2>1, <2>2
<1>4. PICK row \in TillRows : /\ rows' = [rows EXCEPT ![s] = row]
                              /\ row.status \in {"failed", "created"}
                              /\ row.status = "failed" => ~row.url
  <2>1. CASE MarkFailed(h)
    <3>1. rows' = [rows EXCEPT ![s].status = "failed"]
      BY <1>2, <2>1 DEF MarkFailed, Marks
    <3>2. rows[s] \in TillRows /\ ~rows[s].url
      <4>1. rows[s].url = FALSE
        BY <1>2
      <4> QED
        BY <1>1, <4>1 DEF TillShape
    <3>3. PICK row : row = [rows[s] EXCEPT !.status = "failed"]
      OBVIOUS
    <3>4. row \in TillRows /\ row.status = "failed" /\ ~row.url
      BY <3>2, <3>3 DEF TillRows
    <3>5. rows' = [rows EXCEPT ![s] = row]
      BY <3>1, <3>3
    <3> QED
      BY <3>4, <3>5
  <2>2. CASE SettleCreated(h)
    <3>1. PICK row : row = [status |-> "created", url |-> TRUE]
      OBVIOUS
    <3>2. row \in TillRows /\ row.status = "created"
      BY <3>1 DEF TillRows
    <3>3. rows' = [rows EXCEPT ![s] = row]
      BY <1>2, <2>2, <3>1 DEF SettleCreated
    <3> QED
      BY <3>2, <3>3
  <2> QED
    BY <2>1, <2>2
<1>5. /\ rows' \in [Sessions -> TillRows] /\ rows'[s] = row
      /\ \A t \in Sessions \ {s} : rows'[t] = rows[t]
  BY <1>1, <1>4 DEF TillShape
<1>6. TillShape'
  BY <1>1, <1>3, <1>5 DEF TillShape
<1>7. ASSUME NEW g \in Hands PROVE TillKnows(g)'
  <2>1. CASE g # h
    <3>1. Opens(g) => hand[g].session # s /\ hand[g].session \in Sessions
      BY <1>1, <1>2, <2>1 DEF TillInv, TillApart, TillKnows
    <3>2. Opens(g) => rows'[hand[g].session] = rows[hand[g].session]
      BY <1>5, <3>1
    <3> QED
      BY <1>1, <1>3, <2>1, <3>2, TillStays
  <2> QED
    BY <1>3, <2>1
<1>8. TillApart' /\ TillTold'
  BY <1>1, <1>3, TillHand
<1>9. TillRowsOK' /\ TillSent' /\ TillPaid'
  <2>1. s \notin charged
    BY <1>2 DEF TillInv, TillRowsOK
  <2>2. \A e \in sent : e.of \in Sessions /\ e.of # s
    BY <1>1, <1>2 DEF TillInv, TillSent, TillShape, Events
  <2>3. row.status \in {"failed", "created"} /\ (row.status = "failed" => ~row.url)
    BY <1>4
  <2> QED
    BY <1>1, <1>5, <2>1, <2>2, <2>3 DEF TillInv, TillRowsOK, TillSent, TillPaid, Recorded
<1> QED
  BY <1>6, <1>7, <1>8, <1>9 DEF TillInv

\* The troop is told that a session was opened.
LEMMA AnnounceStep ==
  ASSUME TillInv, NEW h \in Hands, AnnounceCreated(h)
  PROVE  TillInv'
<1>1. /\ TillShape /\ TillKnows(h) /\ Doing(h, "announce") /\ Answer(h)
      /\ UNCHANGED <<rows, charged, sent, payments>>
  BY DEF TillInv, AnnounceCreated, checkoutRows
<1>2. PICK e \in TillEvents : bus' = Append(bus, e) /\ e.type # "stripe.payment.confirmed"
  <2>1. [type |-> "stripe.checkout.created", session |-> hand[h].session] \in TillEvents
    BY <1>1 DEF TillKnows, TillEvents
  <2> QED
    BY <2>1 DEF AnnounceCreated, Publish
<1>3. /\ hand' = [g \in Hands |-> hand'[g]] /\ \A g \in Hands \ {h} : hand'[g] = hand[g]
      /\ ~Opens(h)' /\ ~Settles(h)' /\ TillKnows(h)'
  BY <1>1, TillAnswered
<1>4. /\ bus' \in Seq(TillEvents) /\ DOMAIN bus' = DOMAIN bus \cup {Len(bus) + 1}
      /\ \A k \in DOMAIN bus : bus'[k] = bus[k]
      /\ bus'[Len(bus) + 1] = e
  BY <1>1, <1>2 DEF TillShape
<1>5. TillShape' /\ TillApart'
  BY <1>1, <1>3, <1>4, TillHand DEF TillShape
<1>6. \A g \in Hands : TillKnows(g)'
  BY <1>1, <1>3, TillStays
<1>7. TillRowsOK' /\ TillSent' /\ TillPaid'
  BY <1>1 DEF TillInv, TillRowsOK, TillSent, TillPaid, Recorded
<1>8. TillTold'
  <2>1. \A t \in Sessions : e # Confirmed(t)
    BY <1>2 DEF Confirmed
  <2>2. \A g \in Hands : Settles(g)' => Settles(g) /\ hand'[g].session = hand[g].session
    BY <1>3 DEF Settles
  <2> QED
    BY <1>1, <1>4, <2>1, <2>2 DEF TillInv, TillTold, Recorded, Confirmed
<1> QED
  BY <1>5, <1>6, <1>7, <1>8 DEF TillInv

\* The first event about a payment records it, and its handler alone settles it.
LEMMA RecordStep ==
  ASSUME TillInv, NEW h \in Hands, Record(h), ~Recorded(hand[h].session)
  PROVE  TillInv'
<1>1. /\ TillShape /\ TillKnows(h) /\ Doing(h, "record") /\ Records(h)
      /\ UNCHANGED <<rows, charged, sent, bus>>
  BY DEF TillInv, Record, Silent
<1>2. PICK s \in Sessions : /\ s = hand[h].session /\ s \in charged
                            /\ "session" \in DOMAIN hand[h] /\ ~Recorded(s)
  BY <1>1 DEF TillKnows, Listens, Doing, TillInv, TillSent
<1>3. PICK p : p.of = s /\ payments' = payments \cup {p}
  BY <1>1, <1>2 DEF Records
<1>4. /\ hand' = [g \in Hands |-> hand'[g]] /\ \A g \in Hands \ {h} : hand'[g] = hand[g]
      /\ hand'[h].at = "settle" /\ "session" \in DOMAIN hand'[h] /\ hand'[h].session = s
  BY <1>1, <1>2, TillNext DEF Records
<1>5. TillShape'
  BY <1>1, <1>4 DEF TillShape
<1>6. \A g \in Hands : TillKnows(g)'
  <2>1. TillKnows(h)'
    BY <1>3, <1>4 DEF TillKnows, Opens, Listens, Settles, Doing, Recorded
  <2>2. \A g \in Hands \ {h} : TillKnows(g)'
    BY <1>1, <1>3, <1>4, TillStays
  <2> QED
    BY <2>1, <2>2
<1>7. \A g \in Hands \ {h} : /\ (Opens(g)' <=> Opens(g)) /\ (Settles(g)' <=> Settles(g))
                             /\ Settles(g) => hand[g].session # s
  BY <1>2, <1>4 DEF Opens, Settles, TillInv, TillKnows
<1>8. TillApart'
  <2>1. ~Opens(h)'
    BY <1>4 DEF Opens
  <2> QED
    BY <1>4, <1>7, <2>1 DEF TillInv, TillApart
<1>9. TillRowsOK' /\ TillSent'
  BY <1>1, <1>3 DEF TillInv, TillRowsOK, TillSent, Recorded
<1>10. TillPaid'
  BY <1>1, <1>2, <1>3 DEF TillInv, TillPaid, Recorded
<1>11. TillTold'
  <2>1. \A k \in DOMAIN bus : bus[k] # Confirmed(s)
    BY <1>2 DEF TillInv, TillTold
  <2>2. ASSUME NEW t \in Sessions, NEW k \in DOMAIN bus, bus[k] = Confirmed(t)
        PROVE  /\ Recorded(t)'
               /\ \A j \in DOMAIN bus : bus[j] = Confirmed(t) => j = k
               /\ \A g \in Hands : Settles(g)' => hand'[g].session # t
    <3>1. t # s
      BY <2>1, <2>2
    <3>2. /\ Recorded(t) /\ \A j \in DOMAIN bus : bus[j] = Confirmed(t) => j = k
          /\ \A g \in Hands : Settles(g) => hand[g].session # t
      BY <2>2 DEF TillInv, TillTold
    <3> QED
      BY <1>3, <1>4, <1>7, <3>1, <3>2 DEF Recorded
  <2> QED
    BY <1>1, <2>2 DEF TillTold, Confirmed
<1> QED
  BY <1>5, <1>6, <1>8, <1>9, <1>10, <1>11 DEF TillInv

\* The session is marked completed.
LEMMA SettleStep ==
  ASSUME TillInv, NEW h \in Hands, SettleSession(h)
  PROVE  TillInv'
<1>1. /\ TillShape /\ TillKnows(h) /\ Doing(h, "settle") /\ UNCHANGED <<charged, sent, payments, bus>>
  BY DEF TillInv, SettleSession, Marks, Silent
<1>2. PICK s \in Sessions : s = hand[h].session /\ "session" \in DOMAIN hand[h] /\ Recorded(s)
  BY <1>1 DEF TillKnows, Settles, Doing
<1>3. rows[s] \in TillRows /\ rows[s].url = TRUE
  BY <1>1, <1>2 DEF TillInv, TillPaid, TillRowsOK, Recorded, TillShape, TillRows
<1>4. /\ hand' = [g \in Hands |-> hand'[g]] /\ \A g \in Hands \ {h} : hand'[g] = hand[g]
      /\ hand'[h].at = "confirm" /\ "session" \in DOMAIN hand'[h] /\ hand'[h].session = s
  BY <1>2, TillNext DEF SettleSession
<1>5. rows' = [rows EXCEPT ![s].status = "completed"]
  BY <1>2 DEF SettleSession, Marks
<1>6. /\ rows' \in [Sessions -> TillRows] /\ rows'[s] = [status |-> "completed", url |-> TRUE]
      /\ \A t \in Sessions \ {s} : rows'[t] = rows[t]
  BY <1>1, <1>3, <1>5 DEF TillShape, TillRows
<1>7. TillShape'
  BY <1>1, <1>4, <1>6 DEF TillShape
<1>8. \A g \in Hands : TillKnows(g)'
  <2>1. TillKnows(h)'
    BY <1>1, <1>2, <1>4 DEF TillKnows, Opens, Listens, Settles, Doing, Recorded
  <2>2. ASSUME NEW g \in Hands \ {h} PROVE TillKnows(g)'
    <3>1. Opens(g) => hand[g].session # s /\ hand[g].session \in Sessions
      BY <1>3 DEF TillInv, TillKnows
    <3>2. Opens(g) => rows'[hand[g].session] = rows[hand[g].session]
      BY <1>6, <3>1
    <3> QED
      BY <1>1, <1>4, <3>2, TillStays
  <2> QED
    BY <2>1, <2>2
<1>9. TillApart' /\ TillTold'
  <2>1. ~Opens(h)' /\ Settles(h) /\ hand'[h].session = hand[h].session
    BY <1>1, <1>2, <1>4 DEF Opens, Settles, Doing
  <2> QED
    BY <1>1, <1>4, <2>1, TillHand
<1>10. TillRowsOK' /\ TillSent' /\ TillPaid'
  <2>1. \A t \in Sessions : /\ rows'[t].url = rows[t].url
                           /\ (rows'[t].status = rows[t].status \/ (rows'[t].status = "completed" /\ t = s))
    <3>1. rows'[s].status = "completed" /\ rows'[s].url = rows[s].url
      <4>1. rows'[s].status = "completed" /\ rows'[s].url = TRUE
        BY <1>6
      <4> QED
        BY <1>3, <4>1
    <3>2. \A t \in Sessions \ {s} : rows'[t].url = rows[t].url /\ rows'[t].status = rows[t].status
      BY <1>6
    <3> QED
      BY <3>1, <3>2
  <2>2. \A e \in sent : e.of \in Sessions
    BY <1>1 DEF TillShape, Events
  <2>3. TillSent' /\ TillPaid'
    BY <1>1, <2>1, <2>2 DEF TillInv, TillSent, TillPaid
  <2>4. \A t \in Sessions : Recorded(t)' <=> Recorded(t)
    BY <1>1 DEF Recorded
  <2>5. ASSUME NEW t \in Sessions
        PROVE  /\ rows'[t].status \in {"none", "failed"} => ~rows'[t].url
               /\ rows'[t].status = "completed" => Recorded(t)
               /\ t \in charged => rows'[t].url
    BY <1>2, <2>1 DEF TillInv, TillRowsOK
  <2> QED
    BY <1>1, <2>3, <2>4, <2>5 DEF TillRowsOK
<1> QED
  BY <1>7, <1>8, <1>9, <1>10 DEF TillInv

\* The payment is announced.
LEMMA ConfirmStep ==
  ASSUME TillInv, NEW h \in Hands, Confirm(h)
  PROVE  TillInv'
<1>1. /\ TillShape /\ TillKnows(h) /\ Doing(h, "confirm") /\ Answer(h) /\ Settles(h)
      /\ UNCHANGED <<rows, charged, sent, payments>>
  BY DEF TillInv, Confirm, checkoutRows, Settles, Doing
<1>2. PICK s \in Sessions : /\ s = hand[h].session /\ Recorded(s)
                            /\ bus' = Append(bus, Confirmed(s)) /\ Confirmed(s) \in TillEvents
  BY <1>1 DEF TillKnows, Confirm, Publish, Confirmed, TillEvents
<1>3. /\ hand' = [g \in Hands |-> hand'[g]] /\ \A g \in Hands \ {h} : hand'[g] = hand[g]
      /\ ~Opens(h)' /\ ~Settles(h)' /\ TillKnows(h)'
  BY <1>1, TillAnswered
<1>4. /\ bus' \in Seq(TillEvents) /\ DOMAIN bus' = DOMAIN bus \cup {Len(bus) + 1}
      /\ \A k \in DOMAIN bus : bus'[k] = bus[k]
      /\ bus'[Len(bus) + 1] = Confirmed(s)
  BY <1>1, <1>2 DEF TillShape
<1>5. TillShape' /\ TillApart'
  BY <1>1, <1>3, <1>4, TillHand DEF TillShape
<1>6. \A g \in Hands : TillKnows(g)'
  BY <1>1, <1>3, TillStays
<1>7. TillRowsOK' /\ TillSent' /\ TillPaid'
  BY <1>1 DEF TillInv, TillRowsOK, TillSent, TillPaid, Recorded
<1>8. TillTold'
  <2>1. \A k \in DOMAIN bus : bus[k] # Confirmed(s)
    BY <1>1, <1>2 DEF TillInv, TillTold
  <2>2. \A g \in Hands : Settles(g)' => /\ Settles(g) /\ hand'[g].session = hand[g].session
                                        /\ hand[g].session # s
    BY <1>1, <1>2, <1>3 DEF Settles, TillInv, TillApart
  <2>3. \A t \in Sessions : Confirmed(s) = Confirmed(t) => s = t
    BY DEF Confirmed
  <2>4. ASSUME NEW t \in Sessions, NEW k \in DOMAIN bus', bus'[k] = Confirmed(t)
        PROVE  /\ Recorded(t)
               /\ \A j \in DOMAIN bus' : bus'[j] = Confirmed(t) => j = k
               /\ \A g \in Hands : Settles(g)' => hand'[g].session # t
    <3>1. CASE t = s
      BY <1>2, <1>4, <2>1, <2>2, <2>4, <3>1
    <3>2. CASE t # s
      <4>1. k \in DOMAIN bus /\ bus[k] = Confirmed(t) /\ \A j \in DOMAIN bus' : bus'[j] = Confirmed(t) => j \in DOMAIN bus
        BY <1>4, <2>3, <2>4, <3>2
      <4> QED
        BY <1>4, <2>2, <4>1 DEF TillInv, TillTold
    <3> QED
      BY <3>1, <3>2
  <2>5. \A t \in Sessions : Recorded(t)' <=> Recorded(t)
    BY <1>1 DEF Recorded
  <2> QED
    BY <2>4, <2>5 DEF TillTold, Confirmed
<1> QED
  BY <1>5, <1>6, <1>7, <1>8 DEF TillInv

\* The payer pays, at once or by a method that settles later, and Stripe says so.
LEMMA PayerSteps ==
  ASSUME TillInv, NEW s \in Sessions, PayNow(s) \/ PayLater(s) \/ Clears(s)
  PROVE  TillInv'
<1>1. TillShape /\ UNCHANGED <<rows, payments, hand, bus>>
  BY DEF TillInv, PayNow, PayLater, Clears, hostVars
<1>2. PICK shapes \in SUBSET Shapes :
        /\ sent' = sent \cup {[of |-> s, shape |-> x] : x \in shapes}
        /\ charged' = charged \/ charged' = charged \cup {s}
        /\ shapes = {"unpaid"} \/ charged' = charged \cup {s}
  <2>1. {"paid", "intent"} \in SUBSET Shapes /\ {"unpaid"} \in SUBSET Shapes /\ {"intent"} \in SUBSET Shapes
    BY DEF Shapes
  <2> QED
    BY <2>1 DEF PayNow, PayLater, Clears, Says
<1>3. rows[s].url
  BY DEF PayNow, PayLater, Clears, Payable, TillInv, TillSent
<1>4. sent \subseteq sent' /\ sent' \subseteq Events /\ charged' \subseteq Sessions /\ charged \subseteq charged'
  BY <1>1, <1>2 DEF TillShape, Events
<1>5. TillShape'
  BY <1>1, <1>4 DEF TillShape
<1>6. \A g \in Hands : TillKnows(g)'
  BY <1>1, <1>4, TillStays
<1>7. TillApart' /\ TillTold' /\ TillPaid'
  BY <1>1, <1>4 DEF TillInv, TillApart, TillTold, TillPaid, Opens, Settles, Recorded, Confirmed
<1>8. TillRowsOK'
  BY <1>1, <1>2, <1>3 DEF TillInv, TillRowsOK, Recorded
<1>9. TillSent'
  <2>1. ASSUME NEW e \in sent' PROVE rows'[e.of].url /\ (e.shape # "unpaid" => e.of \in charged')
    <3>1. CASE e \in sent
      BY <1>1, <1>4, <3>1 DEF TillInv, TillSent
    <3>2. ASSUME NEW x \in shapes, e = [of |-> s, shape |-> x] PROVE rows'[e.of].url /\ (e.shape # "unpaid" => e.of \in charged')
      BY <1>1, <1>2, <1>3, <3>2
    <3> QED
      BY <1>2, <3>1, <3>2
  <2> QED
    BY <2>1 DEF TillSent
<1> QED
  BY <1>5, <1>6, <1>7, <1>8, <1>9 DEF TillInv

\* The till before its first session.
LEMMA TillStarts == CheckoutInit => TillInv
<1> SUFFICES ASSUME CheckoutInit PROVE TillInv
  OBVIOUS
<1>1. TillShape
  BY DEF CheckoutInit, HostInit, TillShape, TillRows
<1>2. \A h \in Hands : ~Opens(h) /\ ~Settles(h) /\ ~Listens(h) /\ TillKnows(h)
  BY DEF CheckoutInit, HostInit, TillKnows, Idle, Doing, Opens, Settles, Listens
<1>3. DOMAIN bus = {} /\ sent = {} /\ payments = {} /\ charged = {}
  BY DEF CheckoutInit, HostInit
<1>4. TillRowsOK
  BY <1>3 DEF CheckoutInit, TillRowsOK
<1> QED
  BY <1>1, <1>2, <1>3, <1>4 DEF TillInv, TillApart, TillSent, TillPaid, TillTold

\* Every step of the till keeps the invariant.
LEMMA TillSteps == TillInv /\ [CheckoutNext]_checkoutVars => TillInv'
<1> SUFFICES ASSUME TillInv, [CheckoutNext]_checkoutVars PROVE TillInv'
  OBVIOUS
<1>1. ASSUME NEW h \in Hands, Till(h) PROVE TillInv'
  <2>1. CASE Record(h)
    <3>1. CASE Recorded(hand[h].session)
      BY <2>1, <3>1, TillQuietSteps DEF Record
    <3> QED
      BY <2>1, <3>1, RecordStep
  <2> QED
    BY <1>1, <2>1, OpenStep, TillQuietSteps, OpenedStep, AnnounceStep, SettleStep, ConfirmStep DEF Till
<1>2. CASE UNCHANGED checkoutVars
  <2>1. UNCHANGED <<rows, charged, sent, payments, bus, hand>>
    BY <1>2 DEF checkoutVars, checkoutRows, hostVars
  <2> QED
    BY <2>1 DEF TillInv, TillShape, TillApart, TillRowsOK, TillSent, TillPaid, TillTold, TillKnows,
                Opens, Settles, Listens, Doing, Recorded, Confirmed
<1> QED
  BY <1>1, <1>2, PayerSteps DEF CheckoutNext

\* A set of which no two members differ.
LEMMA AtMostOne ==
  ASSUME NEW S, \A x, y \in S : x = y
  PROVE  Cardinality(S) <= 1
<1>1. CASE S = {}
  BY <1>1, FS_EmptySet
<1>2. ASSUME NEW x \in S PROVE Cardinality(S) <= 1
  <2>1. S = {x}
    OBVIOUS
  <2> QED
    BY <2>1, FS_Singleton
<1> QED
  BY <1>1, <1>2

\* What rows, card, events and handlers know of each other always holds.
THEOREM TillInvariant == CheckoutSpec => []TillInv
  BY TillStarts, TillSteps, PTL DEF CheckoutSpec

\* One payment and one announcement per session, and rows that tell the charge.
THEOREM CheckoutsTellTheTruth == CheckoutSpec => []CheckoutTellsTheTruth
<1>1. TillInv => CheckoutTellsTheTruth
  <2> SUFFICES ASSUME TillInv PROVE CheckoutTellsTheTruth
    OBVIOUS
  <2>1. ConfirmedOnce
    <3>1. ASSUME NEW s \in Sessions
          PROVE  /\ Cardinality({p \in payments : p.of = s}) <= 1
                 /\ Cardinality({k \in DOMAIN bus : bus[k] = Confirmed(s)}) <= 1
      <4>1. \A p, q \in {p \in payments : p.of = s} : p = q
        BY DEF TillInv, TillPaid
      <4>2. \A j, k \in {k \in DOMAIN bus : bus[k] = Confirmed(s)} : j = k
        BY DEF TillInv, TillTold
      <4> QED
        BY <4>1, <4>2, AtMostOne
    <3> QED
      BY <3>1 DEF ConfirmedOnce
  <2>2. RowsTellTheCharge
    BY DEF TillInv, TillPaid, TillRowsOK, RowsTellTheCharge
  <2> QED
    BY <2>1, <2>2 DEF CheckoutTellsTheTruth
<1> QED
  BY TillInvariant, <1>1, PTL
=============================================================================
