------------------------------ MODULE Treasury ------------------------------
(***************************************************************************)
(* The treasurer's desk (plugins/finance/src/lib.rs, 003_receipts.sql):    *)
(* the funds and their budget lines, what a lodge or a member owes, dues   *)
(* payments, and the receipts issued from the ledger.                      *)
(*                                                                         *)
(* insert_receipt is one statement and two steps here: its guards read a   *)
(* snapshot, and only the unique index on supersedes_id sees what another  *)
(* treasurer has committed by the time it ends.                            *)
(***************************************************************************)
EXTENDS PluginHost

CONSTANTS
  Codes, DuesCode,    \* fund codes; the one dues land in
  Keys,               \* external references a payment may carry
  MaxEntries, MaxReceipts

ASSUME TreasuryAssumption == DuesCode \in Codes /\ MaxEntries \in Nat /\ MaxReceipts \in Nat

VARIABLES
  funds,       \* finance.funds: each code's status
  budgets,     \* finance.budgets: fund and direction of the lines there are
  assessed,    \* finance.dues: who has a row, one member and one lodge
  entries,     \* finance.transactions, in id order
  receipts     \* finance.receipts, in id order; what a row corrects, or 0

treasuryRows == <<funds, budgets, assessed, entries, receipts>>
treasuryVars == <<treasuryRows, hostVars>>

NoKey      == "no key"
Direction  == {"income", "expense"}
Payers      == {"member", "lodge"}

TreasuryInit ==
  /\ HostInit /\ funds = [c \in Codes |-> "none"] /\ budgets = {} /\ assessed = {}
  /\ entries = <<>> /\ receipts = <<>>

-----------------------------------------------------------------------------
(* Funds, budgets, assessments: one statement each.                        *)

\* ON CONFLICT (code) DO NOTHING.
CreateFund(c) ==
  /\ funds[c] = "none" /\ funds' = [funds EXCEPT ![c] = "active"]
  /\ AskOnce /\ Silent /\ UNCHANGED <<budgets, assessed, entries, receipts>>

\* No writer of money reads the status.
EditFund(c) ==
  /\ funds[c] # "none" /\ \E s \in {"active", "closed"} : funds' = [funds EXCEPT ![c] = s]
  /\ AskOnce /\ Silent /\ UNCHANGED <<budgets, assessed, entries, receipts>>

SetBudget(c, d) ==
  /\ funds[c] # "none" /\ budgets' = budgets \cup {<<c, d>>}
  /\ AskOnce /\ Silent /\ UNCHANGED <<funds, assessed, entries, receipts>>

AssessOne(who) ==
  /\ assessed' = assessed \cup {who}
  /\ AskOnce /\ Silent /\ UNCHANGED <<funds, budgets, entries, receipts>>

\* Money that left; FundLedger has the guards of its insert.
Spend(c) ==
  /\ funds[c] # "none" /\ Len(entries) < MaxEntries
  /\ entries' = Append(entries, [kind |-> "expense", key |-> NoKey])
  /\ AskOnce /\ Silent /\ UNCHANGED <<funds, budgets, assessed, receipts>>

-----------------------------------------------------------------------------
(* A dues payment: the entry, then the member's standing, then the event.  *)

BeginDues(h, key) ==
  /\ funds[DuesCode] # "none"
  /\ Ask(h, [at |-> "dues", key |-> key]) /\ Silent /\ UNCHANGED treasuryRows

\* One member and one year: every income is theirs.
Dues(n) == Cardinality({k \in 1..n : entries[k].kind = "income"})

\* insert_entry, with ON CONFLICT (external_ref) DO NOTHING.
InsertDues(h) ==
  /\ Doing(h, "dues") /\ Silent /\ UNCHANGED <<funds, budgets, assessed, receipts>>
  /\ IF hand[h].key # NoKey /\ \E k \in DOMAIN entries : entries[k].key = hand[h].key
       THEN Answer(h) /\ UNCHANGED entries
       ELSE /\ Len(entries) < MaxEntries
            /\ entries' = Append(entries, [kind |-> "income", key |-> hand[h].key])
            /\ Go(h, [at |-> "standing", entry |-> Len(entries')])

\* sql_dues_standing: derived from the ledger.  No assessment, no standing.
\* Mutant: the standing that was there before the entry.
PaidBefore(h) == Dues(hand[h].entry - 1)
Paid(h)       == Dues(Len(entries))
ReadStanding(h) ==
  /\ Doing(h, "standing") /\ Silent /\ UNCHANGED treasuryRows
  /\ Go(h, [at |-> "paid", paid |-> IF "member" \in assessed THEN Paid(h) ELSE 0,
            known |-> "member" \in assessed])

PublishPayment(h) ==
  /\ Doing(h, "paid") /\ Answer(h) /\ UNCHANGED treasuryRows
  /\ Publish([type |-> "finance.dues.payment", entry |-> hand[h].entry,
              paid |-> hand[h].paid, known |-> hand[h].known])

-----------------------------------------------------------------------------
(* Receipts.                                                               *)

Receiptable(n) == n \in DOMAIN entries /\ entries[n].kind = "income"
Corrected(r)   == \E k \in DOMAIN receipts : receipts[k].corrects = r

\* read_receipt_entry and receipt_refusal.
BeginIssue(h, n) ==
  /\ Receiptable(n)
  /\ Ask(h, [at |-> "issue", entry |-> n, corrects |-> 0]) /\ Silent /\ UNCHANGED treasuryRows

BeginCorrection(h, r) ==
  /\ ~Corrected(r)
  /\ Ask(h, [at |-> "issue", entry |-> receipts[r].entry, corrects |-> r])
  /\ Silent /\ UNCHANGED treasuryRows

\* The guards of the INSERT ... SELECT, on its snapshot.
ReadGuards(h) ==
  /\ Silent /\ UNCHANGED treasuryRows
  /\ Proceed(h, "issue", Receiptable(hand[h].entry) /\ (hand[h].corrects # 0 => ~Corrected(hand[h].corrects)),
             "write")

NewReceipt(h) == [entry |-> hand[h].entry, corrects |-> hand[h].corrects]

Written(h) ==
  /\ Len(receipts) < MaxReceipts /\ receipts' = Append(receipts, NewReceipt(h))
  /\ Go(h, [at |-> "issued", receipt |-> Len(receipts')])

\* idx_receipts_one_correction, and the trigger that wants the same entry.
InsertReceipt(h) ==
  /\ Doing(h, "write") /\ Silent /\ UNCHANGED <<funds, budgets, assessed, entries>>
  /\ IF hand[h].corrects # 0 /\ (Corrected(hand[h].corrects) \/ receipts[hand[h].corrects].entry # hand[h].entry)
       THEN Answer(h) /\ UNCHANGED receipts
       ELSE Written(h)

PublishReceipt(h) ==
  /\ Doing(h, "issued") /\ Answer(h) /\ UNCHANGED treasuryRows
  /\ Publish([type |-> "finance.receipt.issued", receipt |-> hand[h].receipt])

TreasuryFails(h) == ~Rests(h) /\ Answer(h) /\ Silent /\ UNCHANGED treasuryRows

Treasurer(h) ==
  \/ \E key \in Keys \cup {NoKey} : BeginDues(h, key)
  \/ InsertDues(h) \/ ReadStanding(h) \/ PublishPayment(h)
  \/ \E n \in DOMAIN entries : BeginIssue(h, n)
  \/ \E r \in DOMAIN receipts : BeginCorrection(h, r)
  \/ ReadGuards(h) \/ InsertReceipt(h) \/ PublishReceipt(h) \/ TreasuryFails(h)

TreasuryNext ==
  \/ \E c \in Codes : CreateFund(c) \/ EditFund(c) \/ Spend(c) \/ \E d \in Direction : SetBudget(c, d)
  \/ \E who \in Payers : AssessOne(who)
  \/ \E h \in Hands : Treasurer(h)

TreasurySpec == TreasuryInit /\ [][TreasuryNext]_treasuryVars

-----------------------------------------------------------------------------
(* Whichever treasurers correct the same receipt at once, its corrections   *)
(* form a chain: each receipt has one correction at most, issued later, for *)
(* the same money, and that money came in.                                  *)
CorrectionsFormAChain ==
  \A k \in DOMAIN receipts : LET r == receipts[k] IN
    /\ Receiptable(r.entry)
    /\ r.corrects # 0 =>
         /\ r.corrects < k /\ receipts[r.corrects].entry = r.entry
         /\ \A j \in DOMAIN receipts : receipts[j].corrects = r.corrects => j = k

(* What the troop is told a member has paid covers the payment it is told   *)
(* of, and every one before it.                                            *)
StandingCoversThePayment ==
  \A k \in DOMAIN bus : LET e == bus[k] IN
    e.type = "finance.dues.payment" /\ e.known => e.paid >= Dues(e.entry)

(* Both: the papers the desk gives out agree with the ledger.              *)
PapersAgree == CorrectionsFormAChain /\ StandingCoversThePayment
=============================================================================
