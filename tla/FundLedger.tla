------------------------------ MODULE FundLedger ------------------------------
(***************************************************************************)
(* The funds and their ledger: finance's two writers of money              *)
(* (plugins/finance/src/lib.rs), insert_entry for an income or an expense  *)
(* and TRANSFER_SQL for a pair of legs.                                    *)
(*                                                                         *)
(* Each is one statement, and each statement is two steps here: Postgres   *)
(* runs it READ COMMITTED, so its guards read a snapshot of what had       *)
(* committed when it began, and only the unique index on external_ref is   *)
(* checked against what has committed when it ends.  The statements the    *)
(* handler runs afterwards (why nothing was written; the balance, the      *)
(* audit row, the event) are steps of their own, and a client whose answer *)
(* was lost sends the same request again.                                  *)
(***************************************************************************)
EXTENDS Integers, FiniteSets, FiniteSetsExt

CONSTANTS
  Funds, Clients,
  Refs,       \* external references (idempotency keys) clients may send
  Amounts,    \* magnitudes a request may name
  Opening,    \* what every fund holds at first
  MaxCalls,   \* bound: requests, retries not counted
  NoRef

ASSUME FundAssumption ==
  /\ IsFiniteSet(Funds) /\ IsFiniteSet(Clients) /\ Clients # {}
  /\ Amounts \subseteq Nat \ {0} /\ IsFiniteSet(Amounts) /\ Amounts # {}
  /\ Opening \in Nat /\ MaxCalls \in Nat
  /\ NoRef \notin Refs

VARIABLES
  balance,     \* SUM(amount_cents) of each fund's committed entries
  moved,       \* committed money moves carrying each reference
  flow,        \* committed income less committed expense
  overdrawn,   \* funds an authorised entry may have taken negative
  req, at,     \* each client's request, and how far its handler is
  plan,        \* did the statement's guards pass on its snapshot?
  calls

fundVars == <<balance, moved, flow, overdrawn, req, at, plan, calls>>

\* An income and an expense name one fund; a transfer names two.
Entries   == [kind : {"income", "expense"}, fund : Funds, amount : Amounts,
              ref : Refs \cup {NoRef}, overdraft : BOOLEAN]
Transfers == {t \in [kind : {"transfer"}, fund : Funds, to : Funds, amount : Amounts,
                     ref : Refs \cup {NoRef}, overdraft : BOOLEAN] : t.fund # t.to}
Requests  == Entries \cup Transfers
Answers   == {"created", "duplicate", "refused", "failed"}
NoRequest == [kind |-> "none"]

FTypeOK ==
  /\ balance \in [Funds -> Int]
  /\ moved \in [Refs -> Nat]
  /\ flow \in Int
  /\ overdrawn \subseteq Funds
  /\ req \in [Clients -> Requests \cup {NoRequest}]
  /\ at \in [Clients -> {"idle", "sent", "writing", "written", "nothing"} \cup Answers]
  /\ plan \in [Clients -> BOOLEAN]
  /\ calls \in 0..MaxCalls
  /\ \A c \in Clients : at[c] # "idle" => req[c] \in Requests

FInit ==
  /\ balance = [f \in Funds |-> Opening]
  /\ moved = [x \in Refs |-> 0]
  /\ flow = 0
  /\ overdrawn = {}
  /\ req = [c \in Clients |-> NoRequest]
  /\ at = [c \in Clients |-> "idle"]
  /\ plan = [c \in Clients |-> FALSE]
  /\ calls = 0

Goto(c, next) == at' = [at EXCEPT ![c] = next]
ledgerVars == <<balance, moved, flow, overdrawn>>

-----------------------------------------------------------------------------
Call(c) ==
  /\ at[c] = "idle" /\ calls < MaxCalls
  /\ \E q \in Requests : req' = [req EXCEPT ![c] = q]
  /\ Goto(c, "sent")
  /\ calls' = calls + 1
  /\ UNCHANGED <<ledgerVars, plan>>

Held(x) == x \in Refs /\ moved[x] > 0

\* What a request's own fund gains: the sign comes from the kind.
Signed(q) == IF q.kind = "income" THEN q.amount ELSE -q.amount

\* The guard on the SELECT.
Funded(q)       == q.overdraft \/ balance[q.fund] + Signed(q) >= 0

\* The statement reads its snapshot.  A transfer also probes its reference
\* (NOT EXISTS); an entry leaves that to ON CONFLICT.
ReadSnapshot(c) ==
  LET q == req[c] IN
  /\ at[c] = "sent"
  /\ plan' = [plan EXCEPT ![c] = Funded(q) /\ (q.kind = "transfer" => ~Held(q.ref))]
  /\ Goto(c, "writing")
  /\ UNCHANGED <<ledgerVars, req, calls>>

\* Both legs of a transfer, or the one entry.
Posted(q) ==
  [f \in Funds |-> IF f = q.fund THEN balance[f] + Signed(q)
                   ELSE IF q.kind = "transfer" /\ f = q.to THEN balance[f] + q.amount
                   ELSE balance[f]]
\* Mutant: ON CONFLICT DO NOTHING on the transfer too, whose out-leg alone
\* carries the reference.
PostedPerLeg(q) ==
  [f \in Funds |-> IF f = q.fund /\ ~Held(q.ref) THEN balance[f] + Signed(q)
                   ELSE IF q.kind = "transfer" /\ f = q.to THEN balance[f] + q.amount
                   ELSE balance[f]]

Post(q) ==
  /\ balance' = Posted(q)
  /\ moved' = [x \in Refs |-> IF x = q.ref THEN moved[x] + 1 ELSE moved[x]]
  /\ flow' = IF q.kind = "transfer" THEN flow ELSE flow + Signed(q)
  /\ overdrawn' = IF q.overdraft THEN overdrawn \cup {q.fund} ELSE overdrawn

\* Mutant: a transfer that meets its reference writes its other leg.
CommitPerLeg(c) ==
  LET q == req[c] IN
  /\ at[c] = "writing"
  /\ IF ~plan[c] THEN Goto(c, "nothing") /\ UNCHANGED ledgerVars
     ELSE IF Held(q.ref)
       THEN /\ balance' = PostedPerLeg(q) /\ UNCHANGED <<moved, flow, overdrawn>>
            /\ Goto(c, "nothing")
       ELSE Post(q) /\ Goto(c, "written")
  /\ UNCHANGED <<req, plan, calls>>

\* Mutant: the reference is probed on the snapshot and nowhere else.
CommitUnindexed(c) ==
  LET q == req[c] IN
  /\ at[c] = "writing"
  /\ IF plan[c] THEN Post(q) /\ Goto(c, "written")
                ELSE Goto(c, "nothing") /\ UNCHANGED ledgerVars
  /\ UNCHANGED <<req, plan, calls>>

\* The statement ends.  A reference that has been committed meanwhile is a
\* conflict: an entry does nothing, a transfer is a unique violation and the
\* whole statement is undone.
Commit(c) ==
  LET q == req[c] IN
  /\ at[c] = "writing"
  /\ \/ ~plan[c] /\ Goto(c, "nothing") /\ UNCHANGED ledgerVars
     \/ /\ plan[c] /\ Held(q.ref) /\ UNCHANGED ledgerVars
        /\ Goto(c, IF q.kind = "transfer" THEN "failed" ELSE "nothing")
     \/ plan[c] /\ ~Held(q.ref) /\ Post(q) /\ Goto(c, "written")
  /\ UNCHANGED <<req, plan, calls>>

\* Nothing was written: explain_no_entry, or existing_transfer and
\* explain_no_transfer, look for the reference now.
\* Mutant: a keyed request that wrote nothing is a duplicate.
ExplainByKey(c) ==
  /\ at[c] = "nothing"
  /\ Goto(c, IF req[c].ref # NoRef THEN "duplicate" ELSE "refused")
  /\ UNCHANGED <<ledgerVars, req, plan, calls>>
Explain(c) ==
  /\ at[c] = "nothing"
  /\ Goto(c, IF Held(req[c].ref) THEN "duplicate" ELSE "refused")
  /\ UNCHANGED <<ledgerVars, req, plan, calls>>

\* The balance, the audit row and the event, then the answer.
Report(c) ==
  /\ at[c] = "written"
  /\ Goto(c, "created")
  /\ UNCHANGED <<ledgerVars, req, plan, calls>>

\* A statement errors, or the answer is lost, at any point.
Fail(c) ==
  /\ at[c] \in {"sent", "writing", "written", "nothing"}
  /\ Goto(c, "failed")
  /\ UNCHANGED <<ledgerVars, req, plan, calls>>

\* A caller that holds a key sends the same request again; that is the relay's
\* case, and the draws'.
Retry(c) ==
  /\ at[c] = "failed" /\ req[c].ref # NoRef
  /\ Goto(c, "sent")
  /\ UNCHANGED <<ledgerVars, req, plan, calls>>

Done(c) ==
  /\ at[c] \in Answers
  /\ req' = [req EXCEPT ![c] = NoRequest]
  /\ Goto(c, "idle")
  /\ UNCHANGED <<ledgerVars, plan, calls>>

FNext ==
  \E c \in Clients :
    \/ Call(c) \/ ReadSnapshot(c) \/ Commit(c) \/ Explain(c) \/ Report(c)
    \/ Fail(c) \/ Retry(c) \/ Done(c)

FSpec == FInit /\ [][FNext]_fundVars

-----------------------------------------------------------------------------
\* A reference moves money once, however its attempts overlap and are retried
\* ("a replayed entry ... a no-op rather than a second deposit").
RefMovesOnce == \A x \in Refs : moved[x] <= 1

\* Transfers create and destroy nothing: the funds together hold what they
\* opened with and what came in less what went out ("the sum of every fund is
\* unchanged by this call").
TransfersConserve ==
  MapThenSumSet(LAMBDA f : balance[f], Funds) = Opening * Cardinality(Funds) + flow

\* A 201 or a "duplicate" is about money that did move: the relay records
\* `delivered` from either.
AnswerIsHeld ==
  \A c \in Clients :
    at[c] \in {"created", "duplicate"} /\ req[c].ref # NoRef => moved[req[c].ref] = 1

\* What the guard is worth when statements overlap: a fund nobody authorised to
\* be overdrawn is overdrawn by no more than every client but one can have in
\* flight.
OverdraftIsBounded ==
  \A f \in Funds \ overdrawn :
    balance[f] + (Cardinality(Clients) - 1) * Max(Amounts) >= 0

\* Both, of all the funds.
BooksBalance == TransfersConserve /\ OverdraftIsBounded

\* No fund is negative unless somebody authorised it.  One client at a time
\* keeps it; two do not, although the comment on insert_entry says the guards
\* ride along with the INSERT ... SELECT, "which is what makes them sound".
FundsStayFunded == \A f \in Funds \ overdrawn : balance[f] >= 0

=============================================================================
