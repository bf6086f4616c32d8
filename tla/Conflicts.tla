----------------------------- MODULE Conflicts -----------------------------
(***************************************************************************)
(* The staged resolution of a dispute (plugins/conflicts/src/lib.rs): the  *)
(* case, its append-only ledger, the people with standing in it, and the   *)
(* scheduled nudge.  Handlers read the case, decide, write by id, and add  *)
(* the ledger's row in a statement of its own; the nudge is a task that    *)
(* never overlaps itself.  The opaque events are not modelled: nobody      *)
(* subscribes to them.                                                     *)
(***************************************************************************)
EXTENDS PluginHost

CONSTANTS
  Cases, Folk,
  NudgeBatch      \* stalled cases one pass considers (100)

VARIABLES
  cases,     \* conflicts.cases
  waiting,   \* the filed cases, ordered by stage_since
  ledger,    \* conflicts.stage_log, which a trigger keeps append-only
  pass,      \* the nudge in progress: the cases it has read and still nudges
  unlogged   \* history: cases whose handler ended between its write and its row

caseVars == <<cases, waiting, ledger, pass, unlogged, hostVars>>

NoCase     == [status |-> "none"]
Pathway    == 1..4                  \* direct conversation ... troop council
EntryStage == 1

CaseInit ==
  /\ HostInit /\ cases = [c \in Cases |-> NoCase]
  /\ waiting = <<>> /\ ledger = {} /\ pass = <<>> /\ unlogged = {}

CaseFiled(c) == cases[c] # NoCase
CaseOpen(c)  == cases[c].status = "open"

IsParty(c, who)       == who \in cases[c].parties
IsFacilitator(c, who) == who \in cases[c].facilitators /\ ~IsParty(c, who)

Entry(c, kind, to, whom) == [case |-> c, kind |-> kind, to |-> to, whom |-> whom]

-----------------------------------------------------------------------------
(* Requests.                                                               *)

\* The insert; the filer is a party, and those the filer names.
FileCase(h, c, who, others) ==
  /\ ~CaseFiled(c) /\ Silent
  /\ cases' = [cases EXCEPT ![c] =
       [status |-> "open", stage |-> EntryStage, parties |-> {who} \cup others,
        founders |-> {who} \cup others, facilitators |-> {}, stalled |-> FALSE,
        cooling |-> FALSE, nudged |-> FALSE]]
  /\ waiting' = Append(waiting, c)
  /\ Ask(h, [at |-> "log", entry |-> Entry(c, "filed", EntryStage, who)])
  /\ UNCHANGED <<ledger, pass, unlogged>>

\* fetch_case and the checks a handler makes on what it read.
BeginCase(h, step, c, guard, entry) ==
  /\ CaseFiled(c) /\ guard
  /\ Ask(h, [at |-> step, entry |-> entry]) /\ Silent
  /\ UNCHANGED <<cases, waiting, ledger, pass, unlogged>>

CaseOf(h) == hand[h].entry.case

\* The UPDATE by id, whatever the case is by now; then its row in the ledger.
CaseBecomes(h, step, row) ==
  /\ Doing(h, step) /\ Silent
  /\ cases' = [cases EXCEPT ![CaseOf(h)] = row]
  /\ Go(h, [at |-> "log"]) /\ UNCHANGED <<ledger, pass, unlogged>>

\* advance_stage: the stage's clock starts anew.
AdvanceStage(h) ==
  /\ CaseBecomes(h, "advance", [cases[CaseOf(h)] EXCEPT !.stage = hand[h].entry.to,
       !.stalled = FALSE, !.cooling = FALSE, !.nudged = FALSE])
  /\ waiting' = Append(SelectSeq(waiting, LAMBDA c : c # CaseOf(h)), CaseOf(h))

Close(h, step, status) ==
  CaseBecomes(h, step, [cases[CaseOf(h)] EXCEPT !.status = status]) /\ UNCHANGED waiting
RecordResolution(h) == Close(h, "resolve", "resolved")
RecordAgreement(h)  == Close(h, "agree", "resolved")
WithdrawCase(h)     == Close(h, "withdraw_case", "withdrawn")

\* array_append, array_remove.
SetFacilitator(h) ==
  /\ CaseBecomes(h, "staff", [cases[CaseOf(h)] EXCEPT !.facilitators =
       IF hand[h].entry.kind = "assigned" THEN @ \cup {hand[h].entry.whom}
                                          ELSE @ \ {hand[h].entry.whom}])
  /\ UNCHANGED waiting

\* Mutant: a party is added and nothing is written down.
AddPartyQuietly(h) ==
  /\ Doing(h, "party") /\ Answer(h) /\ Silent
  /\ cases' = [cases EXCEPT ![CaseOf(h)].parties = @ \cup {hand[h].entry.whom}]
  /\ UNCHANGED <<waiting, ledger, pass, unlogged>>

AddParty(h) ==
  /\ CaseBecomes(h, "party", [cases[CaseOf(h)] EXCEPT !.parties = @ \cup {hand[h].entry.whom}])
  /\ UNCHANGED waiting

LogEntry(h) ==
  /\ Doing(h, "log") /\ ledger' = ledger \cup {hand[h].entry} /\ Answer(h) /\ Silent
  /\ UNCHANGED <<cases, waiting, pass, unlogged>>

CaseFails(h) ==
  /\ ~Rests(h) /\ Answer(h) /\ Silent
  /\ unlogged' = IF Doing(h, "log") THEN unlogged \cup {CaseOf(h)} ELSE unlogged
  /\ UNCHANGED <<cases, waiting, ledger, pass>>

-----------------------------------------------------------------------------
(* The stage_nudge schedule.                                               *)

Due(c) == CaseOpen(c) /\ cases[c].stalled

\* The oldest of the stalled, and of those the ones whose cooldown has expired.
ReadStalled ==
  LET stalled == SelectSeq(waiting, Due)
      probed  == SubSeq(stalled, 1, IF Len(stalled) < NudgeBatch THEN Len(stalled) ELSE NudgeBatch)
      ready   == SelectSeq(probed, LAMBDA c : ~cases[c].cooling)
  IN /\ pass = <<>> /\ ready # <<>>
     /\ pass' = [i \in DOMAIN ready |-> Entry(ready[i], "nudge", cases[ready[i]].stage, "schedule")]
     /\ UNCHANGED <<cases, waiting, ledger, unlogged, hostVars>>

\* By id: the case may have moved or closed since it was read.  Its row in the
\* ledger is a second statement, which nothing here tells apart from the first.
Nudge ==
  /\ pass # <<>>
  /\ cases' = [cases EXCEPT ![Head(pass).case].cooling = TRUE, ![Head(pass).case].nudged = TRUE]
  /\ ledger' = ledger \cup {Head(pass)} /\ pass' = Tail(pass)
  /\ UNCHANGED <<waiting, unlogged, hostVars>>

\* A statement fails, the run's timeout, or the plugin's tasks are aborted.
PassEnds == pass # <<>> /\ pass' = <<>> /\ UNCHANGED <<cases, waiting, ledger, unlogged, hostVars>>

StageAges(c) ==
  /\ CaseFiled(c) /\ ~cases[c].stalled
  /\ cases' = [cases EXCEPT ![c].stalled = TRUE]
  /\ UNCHANGED <<waiting, ledger, pass, unlogged, hostVars>>
CooldownExpires(c) ==
  /\ CaseFiled(c) /\ cases[c].cooling
  /\ cases' = [cases EXCEPT ![c].cooling = FALSE]
  /\ UNCHANGED <<waiting, ledger, pass, unlogged, hostVars>>

-----------------------------------------------------------------------------
Circle(h) ==
  \/ \E c \in Cases, who \in Folk :
       \/ \E others \in SUBSET (Folk \ {who}) : FileCase(h, c, who, others)
       \/ \E to \in Pathway :
            BeginCase(h, "advance", c, IsFacilitator(c, who) /\ CaseOpen(c) /\ to > cases[c].stage,
                      Entry(c, "transition", to, who))
       \/ BeginCase(h, "resolve", c, IsFacilitator(c, who) /\ CaseOpen(c),
                    Entry(c, "resolution", cases[c].stage, who))
       \/ BeginCase(h, "agree", c, IsParty(c, who) /\ CaseOpen(c) /\ cases[c].stage = EntryStage,
                    Entry(c, "agreement", EntryStage, who))
       \/ BeginCase(h, "withdraw_case", c, IsParty(c, who) /\ CaseOpen(c),
                    Entry(c, "withdrawn", cases[c].stage, who))
       \/ \* an open case gains a party from somebody who has standing in it
          BeginCase(h, "party", c, CaseOpen(c) /\ ~IsParty(c, who), Entry(c, "party_added", 0, who))
       \/ BeginCase(h, "staff", c, who \notin cases[c].facilitators, Entry(c, "assigned", 0, who))
       \/ BeginCase(h, "staff", c, who \in cases[c].facilitators, Entry(c, "released", 0, who))
  \/ AdvanceStage(h) \/ RecordResolution(h) \/ RecordAgreement(h) \/ WithdrawCase(h)
  \/ SetFacilitator(h) \/ AddParty(h) \/ LogEntry(h) \/ CaseFails(h)

Nudging == ReadStalled \/ Nudge
Clock   == \E c \in Cases : StageAges(c) \/ CooldownExpires(c)

CaseNext == (\E h \in Hands : Circle(h)) \/ Nudging \/ PassEnds \/ Clock

CaseSpec == CaseInit /\ [][CaseNext]_caseVars

\* Time passes, the schedule runs again and again, and from some time on a
\* pass is no longer cut short.
NudgeFairness ==
  /\ WF_caseVars(Nudging) /\ <>[][~PassEnds]_caseVars
  /\ \A c \in Cases : WF_caseVars(CooldownExpires(c))

NudgedSpec == CaseSpec /\ NudgeFairness

-----------------------------------------------------------------------------
(* The history is the accountability: whatever stage and status handlers    *)
(* that overlap have left a case in, and whoever has standing in it, the    *)
(* ledger says how that came about; but for a handler that ended between   *)
(* its write and its row, or is between them.                              *)
LedgerAccountsForTheCase ==
  \A c \in Cases :
    CaseFiled(c) /\ c \notin unlogged /\ (\A h \in Hands : Doing(h, "log") => CaseOf(h) # c) =>
      LET row    == cases[c]
          Has(kinds, to, who) ==
            \E e \in ledger : e.case = c /\ e.kind \in kinds /\ e.to \in to /\ e.whom \in who
      IN /\ Has({"filed", "transition"}, {row.stage}, Folk)
         /\ row.status = "resolved" => Has({"resolution", "agreement"}, Pathway, Folk)
         /\ row.status = "withdrawn" => Has({"withdrawn"}, Pathway, Folk)
         /\ \A p \in row.parties \ row.founders : Has({"party_added"}, {0}, {p})
         /\ \A p \in row.facilitators : Has({"assigned"}, {0}, {p})

(* The doc of should_nudge: a case nobody has touched keeps surfacing.  The *)
(* batch is read before the cooldown is looked at, so the oldest cases fill *)
(* it whether or not they were nudged.                                     *)
StalledAreNudged ==
  \A c \in Cases : Due(c) /\ ~cases[c].nudged ~> ~Due(c) \/ cases[c].nudged

(* The pathway only advances: a facilitator's move, decided when the case   *)
(* was at an earlier stage, takes it back.                                 *)
StageOnlyAdvances ==
  [][\A c \in Cases : CaseFiled(c) => cases'[c].stage >= cases[c].stage]_caseVars
=============================================================================
