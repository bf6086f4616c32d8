------------------------------ MODULE DuesDraw ------------------------------
(***************************************************************************)
(* A member's dues for one year, and the scholarship draw that funds them  *)
(* (plugins/finance/src/lib.rs).                                           *)
(*                                                                         *)
(* The assessment is one statement, the transfer out of `scholarship` is   *)
(* another, and the row learns how the transfer went in a third: three     *)
(* awaits of one handler, with other treasurers, the scout, a hand-made    *)
(* transfer and the waiver repair in between.  The transfer carries a      *)
(* deterministic reference, so its money moves once whatever amount is     *)
(* asked for the second time; TRANSFER_SQL itself is module FundLedger's.  *)
(***************************************************************************)
EXTENDS Integers

CONSTANTS
  Callers,         \* handlers that may be in progress at once
  Tiers, Bps,      \* TIERS: each tier's share, in basis points
  Bases,           \* membership costs a treasurer may state, in cents
  ConfiguredBase,  \* the configured membership cost
  Legacy,          \* a row waived at zero by the first migration, or NoRow
  MaxDuesCalls,        \* bound: requests
  NoRow

VARIABLES
  row,      \* the member's row of finance.dues for the year
  drawn,    \* what scholarship moved under the draw's reference, 0 if nothing
  asked,    \* each caller's request
  doing,    \* ... and how far its handler is
  repair,   \* the share a repair has computed and not written, 0 if none
  duesCalls

duesVars == <<row, drawn, asked, doing, repair, duesCalls>>

Statuses  == {"assessed", "self_reported", "waived"}
Outcomes  == {"booked", "refused", "failed"}
Draws     == {"none", "unbooked", "attempting"} \cup Outcomes
Unsettled == {"unbooked", "attempting", "failed"}
DuesRequests ==
  [status : Statuses, tier : Tiers, base : Bases, books : BOOLEAN, self : BOOLEAN]
Resting   == {"idle", "ok", "conflict", "internal"}
Places    == Resting \cup {"upsert", "unwritten", "transfer"} \cup Outcomes

\* assessed_cents: half-up to the cent, as the code's one division does.
Assessed(tier, base) == (base * Bps[tier] + 5000) \div 10000

\* funded_cents_for: all of a waiver, else the discount, within what is owed.
FundedCents(status, tier, base) ==
  LET owed     == Assessed(tier, base)
      discount == base - owed
  IN IF status = "waived" THEN owed
     ELSE IF discount <= 0 THEN 0
     ELSE IF discount <= owed THEN discount ELSE owed

Row(q, draw) ==
  [status |-> q.status, tier |-> q.tier, base |-> q.base,
   assessed |-> Assessed(q.tier, q.base),
   funded |-> FundedCents(q.status, q.tier, q.base), draw |-> draw]

DuesRows ==
  [status : Statuses, tier : Tiers, base : Bases, assessed : Nat, funded : Nat, draw : Draws]

ASSUME DuesAssumption ==
  /\ Bps \in [Tiers -> Nat]
  /\ Bases \subseteq Nat /\ ConfiguredBase \in Bases
  /\ MaxDuesCalls \in Nat
  /\ NoRow \notin DuesRows
  /\ Legacy # NoRow =>
       /\ Legacy \in DuesRows
       /\ Legacy.status = "waived" /\ Legacy.assessed = 0 /\ Legacy.funded = 0

DTypeOK ==
  /\ row = NoRow \/ row \in DuesRows
  /\ drawn \in Nat
  /\ asked \in [Callers -> DuesRequests \cup {NoRow}]
  /\ doing \in [Callers -> Places]
  /\ repair \in Nat
  /\ duesCalls \in 0..MaxDuesCalls
  /\ \A c \in Callers : doing[c] \notin Resting => asked[c] \in DuesRequests
  /\ \A c \in Callers : doing[c] \in Outcomes => row # NoRow

DInit ==
  /\ row \in {NoRow, Legacy}
  /\ drawn = 0
  /\ asked = [c \in Callers |-> NoRow]
  /\ doing = [c \in Callers |-> "idle"]
  /\ repair = 0
  /\ duesCalls = 0

Onto(c, next) == doing' = [doing EXCEPT ![c] = next]

AskFor(c, q) ==
  /\ doing[c] \in Resting /\ duesCalls < MaxDuesCalls
  /\ asked' = [asked EXCEPT ![c] = q]
  /\ Onto(c, "upsert")
  /\ duesCalls' = duesCalls + 1
  /\ UNCHANGED <<row, drawn, repair>>

-----------------------------------------------------------------------------
(* route_assess_dues and route_self_report.                                *)

\* A treasurer states status, tier and base; books says whether the caller
\* holds finance:write as well.
AssessDues(c) == \E q \in DuesRequests : ~q.self /\ AskFor(c, q)

\* The scout names a tier.  The base is read from the row, or configured.
SelfReport(c) ==
  \E t \in Tiers :
    AskFor(c, [status |-> "self_reported", tier |-> t, books |-> FALSE, self |-> TRUE,
            base |-> IF row = NoRow THEN ConfiguredBase ELSE row.base])

ToFund(q) == FundedCents(q.status, q.tier, q.base)

\* The draw's state before anybody tries to book it.  Mutant: a caller who may
\* not book leaves no draw at all.
OpeningUnlessBooks(q) == IF q.books /\ ToFund(q) > 0 THEN "attempting" ELSE "none"
OpeningDraw(q) ==
  IF ToFund(q) = 0 THEN "none" ELSE IF q.books THEN "attempting" ELSE "unbooked"

\* upsert_dues: a booked draw stays booked while status and funding stay what
\* they were, and a change to either writes nothing.
\* Mutant: only the status is compared.
GuardedByStatus(q) == row # NoRow /\ row.draw = "booked" /\ row.status # q.status
Guarded(q) ==
  /\ row # NoRow /\ row.draw = "booked"
  /\ row.status # q.status \/ row.funded # ToFund(q)

Upsert(c) ==
  LET q == asked[c] IN
  /\ doing[c] = "upsert" /\ ~Guarded(q)
  /\ row' = Row(q, IF row # NoRow /\ row.draw = "booked" THEN "booked" ELSE OpeningDraw(q))
  /\ Onto(c, IF q.books /\ ToFund(q) > 0 THEN "transfer" ELSE "ok")
  /\ UNCHANGED <<drawn, asked, repair, duesCalls>>

UpsertRefused(c) ==
  /\ doing[c] = "upsert" /\ Guarded(asked[c])
  /\ Onto(c, "unwritten")
  /\ UNCHANGED <<row, drawn, asked, repair, duesCalls>>

\* existing_dues_row and booked_draw_change_refusal: a 409 in words when the
\* booked funding differs, the handler's 500 when it does not.
ExplainRefusal(c) ==
  /\ doing[c] = "unwritten"
  /\ Onto(c, IF row.draw = "booked" /\ row.funded # ToFund(asked[c])
               THEN "conflict" ELSE "internal")
  /\ UNCHANGED <<row, drawn, asked, repair, duesCalls>>

\* book_dues_draw: the transfer under the member's and the year's reference.  A
\* reference the ledger holds is answered with the transfer it made, whatever
\* its amount; the balances, the audit row and the event that follow a new
\* transfer may still fail it.
BookDraw(c) ==
  /\ doing[c] = "transfer"
  /\ \/ drawn = 0 /\ drawn' = ToFund(asked[c]) /\ \E o \in {"booked", "failed"} : Onto(c, o)
     \/ drawn # 0 /\ drawn' = drawn /\ Onto(c, "booked")
     \/ drawn = 0 /\ drawn' = drawn /\ Onto(c, "refused")
     \/ drawn' = drawn /\ Onto(c, "failed")
  /\ UNCHANGED <<row, asked, repair, duesCalls>>

\* set_dues_draw_state: by member and year, whatever the row has become.
\* draw_ref, the transfer's group, is set exactly when the state is booked.
SetDuesDrawState(c) ==
  /\ doing[c] \in Outcomes
  /\ row' = [row EXCEPT !.draw = doing[c]]
  /\ Onto(c, "ok")
  /\ UNCHANGED <<drawn, asked, repair, duesCalls>>

\* A database error, a closed connection or a crash ends the handler.
Abandon(c) ==
  /\ doing[c] \notin Resting
  /\ Onto(c, "idle")
  /\ UNCHANGED <<row, drawn, asked, repair, duesCalls>>

-----------------------------------------------------------------------------
(* The ways around the assessment.                                         *)

\* A finance:write holder books an outstanding draw with POST
\* /api/finance/transfer, under the reference the row's answer stated.
BookByHand ==
  /\ row # NoRow /\ row.draw \in Unsettled /\ row.funded > 0 /\ drawn = 0
  /\ drawn' = row.funded
  /\ UNCHANGED <<row, asked, doing, repair, duesCalls>>

\* route_repair_waived_dues reads its worklist and computes a share...
WaivedAtZero == row # NoRow /\ row.status = "waived" /\ row.assessed = 0 /\ row.base > 0
ReadForRepair ==
  /\ repair = 0 /\ WaivedAtZero
  /\ Assessed(row.tier, row.base) > 0
  /\ repair' = Assessed(row.tier, row.base)
  /\ UNCHANGED <<row, drawn, asked, doing, duesCalls>>

\* Mutant: the repair forgets the funding.
WriteRepairUnfunded ==
  /\ repair > 0
  /\ row' = IF WaivedAtZero
              THEN [row EXCEPT !.assessed = repair, !.draw = "unbooked"]
              ELSE row
  /\ repair' = 0
  /\ UNCHANGED <<drawn, asked, doing, duesCalls>>
\* ...and writes it to a row that is still waived at zero.
WriteRepair ==
  /\ repair > 0
  /\ row' = IF WaivedAtZero
              THEN [row EXCEPT !.assessed = repair, !.funded = repair, !.draw = "unbooked"]
              ELSE row
  /\ repair' = 0
  /\ UNCHANGED <<drawn, asked, doing, duesCalls>>

DNext ==
  \/ \E c \in Callers :
       \/ AssessDues(c) \/ SelfReport(c) \/ Upsert(c) \/ UpsertRefused(c)
       \/ ExplainRefusal(c) \/ BookDraw(c) \/ SetDuesDrawState(c) \/ Abandon(c)
  \/ BookByHand \/ ReadForRepair \/ WriteRepair

DSpec == DInit /\ [][DNext]_duesVars

-----------------------------------------------------------------------------
\* A member who is waived owes nothing, through every revision and repair
\* ("Waived but owing" stays unrepresentable).
WaivedOwesNothing ==
  row # NoRow /\ row.status = "waived" => row.funded = row.assessed

\* Funding that has not moved is never reported as none, nor as booked: it is
\* on the worklist, or refused ("neither refused nor silently unfunded").
NotSilentlyUnfunded ==
  row # NoRow /\ row.funded > 0 /\ drawn = 0 => row.draw \in Unsettled \cup {"refused"}

\* One waiver, one transfer, however many answers are lost and whoever retries.
MovedOnce == [][drawn # 0 => drawn' = drawn]_duesVars

\* A row booked for an amount keeps its status and that amount, whatever was
\* read, checked or computed before it was booked, until another caller's
\* outcome says that it is not booked ("a booked draw's funding is not
\* re-derived in place").
BookedFundingIsFrozen ==
  [][row # NoRow /\ row.draw = "booked" /\ row.funded > 0
       => row'.funded = row.funded /\ row'.status = row.status]_duesVars

\* Both: what a year's draw moved and what its row says are settled once.
DrawIsSettledOnce == MovedOnce /\ BookedFundingIsFrozen

-----------------------------------------------------------------------------
(* What the comments say and the code does not do.                         *)

\* booked_draw_change_refusal: a booked row whose funding is not what moved is
\* the state "the statement refuses".
BookedIsFunded ==
  row # NoRow /\ row.draw = "booked" => row.funded = drawn

=============================================================================
