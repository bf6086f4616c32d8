----------------------------- MODULE Equipment -----------------------------
(***************************************************************************)
(* The gear pool and its checkout log (plugins/equipment/src/lib.rs).      *)
(*                                                                         *)
(* Every mutating handler asks its questions in statements of their own    *)
(* (fetch_item, then open_checkout) and writes in another: what the write  *)
(* relies on is either in its WHERE clause, in the partial unique index,   *)
(* in the foreign key, or in nothing but the answer it read earlier.  Its   *)
(* events are left off the bus: nothing here subscribes to them.           *)
(***************************************************************************)
EXTENDS PluginHost

CONSTANTS
  Items,          \* catalogue ids
  MaxRows,        \* MAX_LIMIT: checkouts the availability query answers at most (200)
  Grades,         \* condition grades, as their condition_rank
  LastDay,        \* bound: days 0..LastDay pass
  MaxLog,         \* bound: checkouts recorded
  OpenEnded,          \* no date: an open-ended checkout
  Unborn, Deleted      \* a row that is not there yet, a row that was deleted

VARIABLES
  today,
  pool,    \* equipment.items: Unborn before the insert, Deleted after a delete
  log,     \* equipment.checkouts, in id order; a cascade leaves Deleted
  lost     \* history: returns whose second statement never ran, per item

poolRows == <<today, pool, log, lost>>
poolVars == <<poolRows, hostVars>>

Days     == 0..LastDay
Unusable == 4                 \* the rank of `unserviceable`, and of what is not a grade
Statuses == {"available", "maintenance", "retired"}

Kit  == [status : Statuses, grade : Nat, services : Nat]
Loan == [item : Items, out : Nat, due : Nat \cup {OpenEnded}, left : Nat,
         in : Nat \cup {OpenEnded}, back : Nat, damaged : BOOLEAN]

ASSUME GearAssumption ==
  /\ Items \subseteq Nat /\ MaxRows \in Nat \ {0}
  /\ LastDay \in Nat /\ Grades \subseteq Nat /\ OpenEnded \notin Nat
  /\ Unborn # Deleted /\ \A x \in {Unborn, Deleted} : x \notin Kit /\ x \notin Loan

Exists(i) == pool[i] \notin {Unborn, Deleted}
Row(k)    == log[k] # Deleted
OpenRows(i) == {k \in DOMAIN log : Row(k) /\ log[k].item = i /\ log[k].in = OpenEnded}
History(i)  == {k \in DOMAIN log : Row(k) /\ log[k].item = i}
Closed(i)   == {k \in History(i) : log[k].in # OpenEnded}

\* is_downgrade: a worse grade has a higher rank.
Downgrade(from, to) == to > from

PoolInit ==
  /\ HostInit /\ today = 0 /\ log = <<>>
  /\ pool = [i \in Items |-> Unborn] /\ lost = [i \in Items |-> 0]

-----------------------------------------------------------------------------
(* The catalogue.                                                          *)

CreateItem(i, grade) ==
  /\ pool[i] = Unborn /\ AskOnce
  /\ pool' = [pool EXCEPT ![i] = [status |-> "available", grade |-> grade, services |-> 0]]
  /\ UNCHANGED <<today, log, lost>>

\* A patch that states a condition: one statement, on whatever row is there.
EditItem(i, grade) ==
  /\ Exists(i) /\ AskOnce
  /\ pool' = [pool EXCEPT ![i].grade = grade]
  /\ UNCHANGED <<today, log, lost>>

-----------------------------------------------------------------------------
(* Out and back.                                                           *)

\* fetch_item: in the pool, and usable; due_on is not in the past.
BeginCheckout(h, i, grade, due) ==
  /\ Exists(i) /\ pool[i].status = "available" /\ pool[i].grade < Unusable
  /\ due \in today..LastDay \cup {OpenEnded}
  /\ Ask(h, [at |-> "out_look", item |-> i, grade |-> grade, due |-> due])
  /\ UNCHANGED <<today, pool, log, lost>>

\* open_checkout, before a checkout, a flag or a retirement.
AskOpen(h, looking, next) ==
  /\ Doing(h, looking)
  /\ IF OpenRows(hand[h].item) # {} THEN Answer(h) ELSE Go(h, [at |-> next])
  /\ UNCHANGED <<today, pool, log, lost>>

NewRow(h) ==
  [item |-> hand[h].item, out |-> today, due |-> hand[h].due, left |-> hand[h].grade,
   in |-> OpenEnded, back |-> Unusable, damaged |-> FALSE]

\* Mutant: the insert trusts what open_checkout answered.
InsertUnindexed(h) ==
  /\ Doing(h, "insert") /\ Len(log) < MaxLog /\ Exists(hand[h].item)
  /\ log' = Append(log, NewRow(h)) /\ Answer(h)
  /\ UNCHANGED <<today, pool, lost>>

\* The insert: the index admits one open row per item, the key a row that exists.
Insert(h) ==
  /\ Doing(h, "insert") /\ Len(log) < MaxLog
  /\ IF Exists(hand[h].item) /\ OpenRows(hand[h].item) = {}
       THEN log' = Append(log, NewRow(h)) ELSE UNCHANGED log
  /\ Answer(h) /\ UNCHANGED <<today, pool, lost>>

\* fetch_item and open_checkout: the row a checkin is about.
BeginCheckin(h, i, grade) ==
  /\ Exists(i)
  /\ \E k \in OpenRows(i) : Ask(h, [at |-> "close", item |-> i, row |-> k, grade |-> grade])
  /\ UNCHANGED <<today, pool, log, lost>>

Returned(k, grade) ==
  log' = [log EXCEPT ![k].in = today, ![k].back = grade,
                     ![k].damaged = Downgrade(log[k].left, grade)]

\* Mutant: a row that is closed by now is corrected instead.
CloseRowCorrecting(h) ==
  /\ Doing(h, "close")
  /\ IF Row(hand[h].row)
       THEN /\ Returned(hand[h].row, hand[h].grade)
            /\ IF log[hand[h].row].in = OpenEnded THEN Go(h, [at |-> "carry"]) ELSE Answer(h)
       ELSE Answer(h) /\ UNCHANGED log
  /\ UNCHANGED <<today, pool, lost>>

\* The first statement of a checkin: close the row, if it is still open ...
CloseRow(h) ==
  /\ Doing(h, "close")
  /\ IF Row(hand[h].row) /\ log[hand[h].row].in = OpenEnded
       THEN Returned(hand[h].row, hand[h].grade) /\ Go(h, [at |-> "carry"])
       ELSE Answer(h) /\ UNCHANGED log
  /\ UNCHANGED <<today, pool, lost>>

\* ... and the second: the item carries the condition and banks the service.
Carry(h) ==
  /\ Doing(h, "carry")
  /\ LET i == hand[h].item
     IN pool' = IF Exists(i)
          THEN [pool EXCEPT ![i].grade = hand[h].grade, ![i].services = @ + 1] ELSE pool
  /\ Answer(h) /\ UNCHANGED <<today, log, lost>>

-----------------------------------------------------------------------------
(* Maintenance, retirement, deletion.                                      *)

BeginFlag(h, i) ==
  /\ Exists(i) /\ pool[i].status = "available"
  /\ Ask(h, [at |-> "flag_look", item |-> i])
  /\ UNCHANGED <<today, pool, log, lost>>

\* One guarded update of the item's status.
SetStatus(h, guard, status) ==
  LET i == hand[h].item
  IN /\ pool' = IF guard THEN [pool EXCEPT ![i].status = status] ELSE pool
     /\ Answer(h) /\ UNCHANGED <<today, log, lost>>

Flag(h) ==
  /\ Doing(h, "flag")
  /\ SetStatus(h, Exists(hand[h].item) /\ pool[hand[h].item].status = "available", "maintenance")

BeginReturn(h, i) ==
  /\ Exists(i) /\ pool[i].status # "available"
  /\ Ask(h, [at |-> "restore", item |-> i])
  /\ UNCHANGED <<today, pool, log, lost>>

\* return_to_service: back from maintenance, or from a retirement, with the
\* condition the caller states or the one it had.
Restore(h, grade) ==
  LET i == hand[h].item
  IN /\ Doing(h, "restore")
     /\ pool' = IF Exists(i) /\ pool[i].status # "available"
          THEN [pool EXCEPT ![i].status = "available", ![i].grade = grade] ELSE pool
     /\ Answer(h) /\ UNCHANGED <<today, log, lost>>

BeginRetire(h, i) ==
  /\ Exists(i) /\ pool[i].status # "retired"
  /\ Ask(h, [at |-> "retire_look", item |-> i])
  /\ UNCHANGED <<today, pool, log, lost>>

Retire(h) ==
  /\ Doing(h, "retire")
  /\ SetStatus(h, Exists(hand[h].item) /\ pool[hand[h].item].status # "retired", "retired")

BeginDelete(h, i) ==
  /\ Exists(i)
  /\ Ask(h, [at |-> "delete_look", item |-> i])
  /\ UNCHANGED <<today, pool, log, lost>>

LookHistory(h) ==
  /\ Doing(h, "delete_look")
  /\ IF History(hand[h].item) # {} THEN Answer(h) ELSE Go(h, [at |-> "delete"])
  /\ UNCHANGED <<today, pool, log, lost>>

\* The delete names the item alone; the log's rows go with it.
Delete(h) ==
  /\ Doing(h, "delete")
  /\ LET i == hand[h].item
     IN /\ pool' = [pool EXCEPT ![i] = Deleted]
        /\ log' = [k \in DOMAIN log |-> IF k \in History(i) THEN Deleted ELSE log[k]]
  /\ Answer(h) /\ UNCHANGED <<today, lost>>

-----------------------------------------------------------------------------
(* A statement fails, or the process dies under the handler.               *)
Fail(h) ==
  /\ ~Rests(h)
  /\ lost' = IF Doing(h, "carry") THEN [lost EXCEPT ![hand[h].item] = @ + 1] ELSE lost
  /\ Answer(h) /\ UNCHANGED <<today, pool, log>>

Midnight ==
  /\ today < LastDay /\ today' = today + 1
  /\ UNCHANGED <<pool, log, lost, hand, asks>>

-----------------------------------------------------------------------------
(* Availability: the query's rows, partitioned in Rust.                    *)

\* The WHERE clause of the second query: COALESCE(checked_in, due_on, infinity).
Touching(from, to) ==
  {k \in DOMAIN log : Row(k) /\
     LET end == IF log[k].in # OpenEnded THEN log[k].in ELSE log[k].due
     IN log[k].out <= to /\ (end = OpenEnded \/ end >= from)}

\* Its ORDER BY: by item, then in the order of the log.
Precedes(j, k) ==
  \/ log[j].item < log[k].item
  \/ log[j].item = log[k].item /\ j < k

\* Its LIMIT: the rows past the first MaxRows are not in the answer.
Fetched(from, to) ==
  {k \in Touching(from, to) :
     Cardinality({j \in Touching(from, to) : Precedes(j, k)}) < MaxRows}

\* checkout_end: an open row ends on its due date while that is not past.
End(k) ==
  IF log[k].in # OpenEnded THEN log[k].in
  ELSE IF log[k].due # OpenEnded /\ log[k].due >= today THEN log[k].due ELSE OpenEnded

\* Mutant: the window's last day is not part of it.
OverlapsBefore(from, to, start, end) == start < to /\ (end = OpenEnded \/ end >= from)

Overlaps(from, to, start, end) == start <= to /\ (end = OpenEnded \/ end >= from)

\* partition_availability: what a planner may take over from..to.
Offered(i, from, to) ==
  /\ Exists(i) /\ pool[i].status = "available" /\ pool[i].grade < Unusable
  /\ \A k \in Fetched(from, to) :
       log[k].item = i => ~Overlaps(from, to, log[k].out, End(k))

-----------------------------------------------------------------------------
Desk(h) ==
  \/ \E i \in Items, grade \in Grades, due \in Days \cup {OpenEnded} : BeginCheckout(h, i, grade, due)
  \/ AskOpen(h, "out_look", "insert") \/ Insert(h)
  \/ \E i \in Items, grade \in Grades : BeginCheckin(h, i, grade)
  \/ CloseRow(h) \/ Carry(h)
  \/ \E i \in Items : BeginFlag(h, i) \/ BeginReturn(h, i) \/ BeginRetire(h, i) \/ BeginDelete(h, i)
  \/ AskOpen(h, "flag_look", "flag") \/ Flag(h)
  \/ \E grade \in Grades : Restore(h, grade)
  \/ AskOpen(h, "retire_look", "retire") \/ Retire(h)
  \/ LookHistory(h) \/ Delete(h)
  \/ Fail(h)

PoolNext ==
  \/ \E h \in Hands : Desk(h) /\ Silent
  \/ \E i \in Items, grade \in Grades : (CreateItem(i, grade) \/ EditItem(i, grade)) /\ Silent
  \/ Midnight /\ Silent

PoolSpec == PoolInit /\ [][PoolNext]_poolVars

-----------------------------------------------------------------------------
(* An item is with one holder: the partial unique index, whatever           *)
(* open_checkout answered to two handlers at once.                          *)
OneHolder == \A i \in Items : Cardinality(OpenRows(i)) <= 1

(* service_count is the number of returns the item has banked: each closed  *)
(* row counts once, except one whose checkin is between its two statements  *)
(* or died there.                                                           *)
ServicesAreReturns ==
  \A i \in Items : Exists(i) =>
    pool[i].services + lost[i] + Cardinality({h \in Hands : Doing(h, "carry") /\ hand[h].item = i})
      = Cardinality(Closed(i))

(* Row k has its item on day d: out by then, and not back nor due by then.  *)
AwayOn(k, d) ==
  /\ log[k].out <= d
  /\ IF log[k].in # OpenEnded THEN d <= log[k].in
     ELSE log[k].due = OpenEnded \/ d <= log[k].due

(* What a planner is offered for a window is on the shelf every day of it,  *)
(* as far as anybody has promised: no row holds it on a day between its     *)
(* start and its return or its due date.  It is so as long as the query's   *)
(* LIMIT holds every row that touches the window.                           *)
OfferedIsFree ==
  \A i \in Items : \A from \in Days : \A to \in from..LastDay :
    Offered(i, from, to) /\ Cardinality(Touching(from, to)) <= MaxRows =>
      \A d \in from..to : \A k \in History(i) : ~AwayOn(k, d)

(* What the desk says of its shelves is so.                                *)
ShelvesAreTrue == OfferedIsFree /\ ServicesAreReturns

(* A return is recorded once: an overlapping checkin rewrites neither the   *)
(* condition nor who is answerable for the damage.                          *)
ReturnedOnce ==
  [][\A k \in DOMAIN log : Row(k) /\ log[k].in # OpenEnded => log'[k] \in {log[k], Deleted}]_poolVars

(* An item leaves the pool through service or retirement and comes back     *)
(* only to the pool: a flag that read it before a retirement does not turn  *)
(* the retirement into a service.                                           *)
StatusMovesLegally ==
  [][\A i \in Items : Exists(i) /\ pool'[i] # Deleted /\ pool'[i].status # pool[i].status =>
       <<pool[i].status, pool'[i].status>> \in
         {<<"available", "maintenance">>, <<"available", "retired">>,
          <<"maintenance", "retired">>, <<"maintenance", "available">>,
          <<"retired", "available">>}]_poolVars

(* Both, of every step.                                                    *)
GearMovesLegally == ReturnedOnce /\ StatusMovesLegally

(* The answer's notice: an item is available when no checkout touches the   *)
(* window.  Past the LIMIT the later items' rows are not fetched, and what  *)
(* they hold is offered.                                                    *)
HeldGearIsNotOffered ==
  \A i \in Items : \A from \in Days : \A to \in from..LastDay : Offered(i, from, to) =>
    \A d \in from..to : \A k \in History(i) : ~AwayOn(k, d)

(* checkout_end's doc: an overdue open checkout blocks its item             *)
(* indefinitely.  The query never fetches its row.                          *)
OverdueGearIsNotOffered ==
  \A i \in Items : \A k \in OpenRows(i) : log[k].due # OpenEnded /\ log[k].due < today =>
    \A to \in today..LastDay : ~Offered(i, today, to)
=============================================================================
