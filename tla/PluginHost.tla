----------------------------- MODULE PluginHost -----------------------------
(***************************************************************************)
(* What every first-party plugin stands on: requests handled concurrently, *)
(* each statement of a handler on its own (PluginDb runs no transaction),  *)
(* and the event bus, a broadcast that each subscriber reads in order.     *)
(***************************************************************************)
EXTENDS Naturals, Sequences, FiniteSets, TLC

CONSTANTS
  Hands,     \* handlers that may be in progress at once
  MaxAsks    \* bound: requests

ASSUME HostAssumption == IsFiniteSet(Hands) /\ MaxAsks \in Nat

VARIABLES
  hand,      \* each handler: its step, and what it has read so far
  asks,      \* requests made
  bus        \* events published, in order

hostVars == <<hand, asks, bus>>

Idle == [at |-> "idle"]

HostInit == hand = [h \in Hands |-> Idle] /\ asks = 0 /\ bus = <<>>

Rests(h)       == hand[h] = Idle
Doing(h, step) == hand[h].at = step

Asked == asks < MaxAsks /\ asks' = asks + 1

\* A request whose handler has more statements to run, and one that has none.
Ask(h, step) == Rests(h) /\ Asked /\ hand' = [hand EXCEPT ![h] = step]
AskOnce      == Asked /\ UNCHANGED hand

\* What a handler knows, with `more` read since.
Knowing(known, more) ==
  [k \in DOMAIN more \cup DOMAIN known |-> IF k \in DOMAIN more THEN more[k] ELSE known[k]]

\* On to the next statement; or the response.
Go(h, more) == hand' = [hand EXCEPT ![h] = Knowing(@, more)] /\ UNCHANGED asks
Answer(h)   == hand' = [hand EXCEPT ![h] = Idle] /\ UNCHANGED asks

\* One statement that answers unless its guard lets the handler go on.
Proceed(h, step, guard, next) ==
  Doing(h, step) /\ IF guard THEN Go(h, [at |-> next]) ELSE Answer(h)

Publish(event) == bus' = Append(bus, event)
Silent         == UNCHANGED bus
=============================================================================
