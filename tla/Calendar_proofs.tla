-------------------------- MODULE Calendar_proofs --------------------------
(***************************************************************************)
(* What is listed of an event is its series, however handlers and the desk *)
(* move it, cancel it and take weeks out of it.  DatesInv says of every    *)
(* event that its rule can be expanded from where it is and from wherever  *)
(* a handler is about to move it, and of the weeks taken out that they are *)
(* finitely many; the rest is OccurrencesAreThose, of Recurrence_proofs.   *)
(***************************************************************************)
EXTENDS Memory_proofs, Recurrence_proofs

\* An event's row, and what a handler is about to write into one.
Laying(row) ==
  /\ {"rule", "start", "exdates"} \subseteq DOMAIN row /\ IsFiniteSet(row.exdates)
  /\ \A to \in Moves \cup {row.start} : Expandable(row.rule, to)
Dating(k) == (k.at = "edit" => k.start \in Moves) /\ (k.at = "exclude" => IsFiniteSet(k.exdates))

RowsAreLaid  == \A e \in DOMAIN events : Listed(e) => Laying(events[e])
HandsAreDated == \A h \in Hands : Dating(hand[h])
DatesInv == RowsAreLaid /\ HandsAreDated

\* Only who is at an event says of it what is written.
LEMMA HandsStayDated ==
  ASSUME HandsAreDated, hand = [h \in Hands |-> hand[h]],
         NEW h \in Hands, NEW k, hand' = [hand EXCEPT ![h] = k], Dating(k)
  PROVE  HandsAreDated'
<1>1. \A g \in Hands : hand'[g] = IF g = h THEN k ELSE hand[g]
  OBVIOUS
<1> QED BY <1>1 DEF HandsAreDated, Dating

\* The other desks' steps are about no event.
LEMMA DatesAside ==
  ASSUME HandsAreDated, hand = [h \in Hands |-> hand[h]],
         NEW h \in Hands, NEW steps, MovesTo(h, steps), steps \cap {"edit", "exclude"} = {}
  PROVE  HandsAreDated'
<1>1. PICK k : hand' = [hand EXCEPT ![h] = k] /\ k.at \in steps
  BY DEF MovesTo
<1>2. Dating(k)
  BY <1>1 DEF Dating
<1> QED BY <1>1, <1>2, HandsStayDated

\* None of their steps is one of the calendar's two.
LEMMA StepsApart ==
  \A steps \in {GovSteps, LodgeSteps, RecordSteps} : steps \cap {"edit", "exclude"} = {}
BY DEF GovSteps, FloorDesk, OnMotions, LodgeSteps, Steps, RecordSteps

\* A row may be written over by one that is laid out, or deleted.
LEMMA RowWritten ==
  ASSUME RowsAreLaid, EventsInv, NEW x, NEW row, row = Gone \/ Laying(row),
         events' = [events EXCEPT ![x] = row]
  PROVE  RowsAreLaid'
<1>1. PICK S : events \in Seq(S)
  BY DEF EventsInv
<1>2. DOMAIN events' = DOMAIN events /\ \A e \in DOMAIN events : events'[e] = IF e = x THEN row ELSE events[e]
  OBVIOUS
<1> QED BY <1>2 DEF RowsAreLaid, Listed, Laying

\* And one that is laid out may be added.
LEMMA RowAdded ==
  ASSUME RowsAreLaid, EventsInv, NEW row, Laying(row), events' = Append(events, row)
  PROVE  RowsAreLaid'
<1>1. PICK S : events \in Seq(S)
  BY DEF EventsInv
<1>2. \A e \in DOMAIN events' : events'[e] = row \/ (e \in DOMAIN events /\ events'[e] = events[e])
  BY <1>1
<1> QED BY <1>2 DEF RowsAreLaid, Listed, Laying

\* A new row is laid out if its rule can be expanded from wherever it may be moved.
LEMMA EventIsLaid ==
  ASSUME NEW rule, NEW start, NEW m, \A to \in Moves \cup {start} : Expandable(rule, to)
  PROVE  Laying(Event(rule, start, m))
<1>1. PICK row : row = Event(rule, start, m)
  OBVIOUS
<1>2. /\ {"rule", "start", "exdates"} \subseteq DOMAIN row /\ row.exdates = {}
      /\ row.rule = rule /\ row.start = start
  BY <1>1 DEF Event
<1> QED BY <1>1, <1>2, FS_EmptySet DEF Laying

\* As that of an event that does not recur, a debrief's, can.
LEMMA OnceIsLaid == ASSUME NEW start \in Int, NEW m PROVE Laying(Event(Once, start, m))
<1>1. \A to \in Moves \cup {start} : Expandable(Once, to)
  BY CalendarAssumption DEF Expandable, Once
<1> QED BY <1>1, EventIsLaid

\* What people create is laid out: create_event accepted its rule.
LEMMA CreatedIsLaid ==
  ASSUME NEW x \in Schedules, x.rule.freq # "once" => Accepts(x.rule), NEW m
  PROVE  Laying(Event(x.rule, x.start, m))
<1>1. x.rule \in RecurrenceRules \cup {Once} /\ x.start \in Int
  BY CalendarAssumption
<1>2. CASE x.rule = Once
  BY <1>1, <1>2, OnceIsLaid
<1>3. CASE x.rule # Once
  <2>1. x.rule \in RecurrenceRules /\ x.rule.freq # "once"
    BY <1>1, <1>3 DEF RecurrenceRules
  <2>2. \A to \in Moves \cup {x.start} : LaidOut(x.rule, to)
    BY <1>3, <2>1, CalendarAssumption
  <2>3. \A to \in Moves \cup {x.start} : Expandable(x.rule, to)
    BY <2>1, <2>2 DEF Expandable
  <2> QED BY <2>3, EventIsLaid
<1> QED BY <1>2, <1>3

\* A request says of an event only what may be written into its row.
LEMMA EventBegun ==
  ASSUME HandsAreDated, hand = [h \in Hands |-> hand[h]],
         NEW h \in Hands, NEW step, NEW e, NEW guard, NEW read,
         BeginEvent(h, step, e, guard, read),
         step = "edit" => "start" \in DOMAIN read /\ read.start \in Moves,
         step = "exclude" => "exdates" \in DOMAIN read /\ IsFiniteSet(read.exdates)
  PROVE  HandsAreDated' /\ UNCHANGED events
<1>1. PICK more, k : more = [at |-> step, event |-> e] /\ k = Knowing(read, more)
  OBVIOUS
<1>2. DOMAIN more = {"at", "event"} /\ more.at = step
  BY <1>1
<1>3. /\ k.at = step /\ ("start" \in DOMAIN read => k.start = read.start)
      /\ ("exdates" \in DOMAIN read => k.exdates = read.exdates)
  BY <1>1, <1>2 DEF Knowing
<1>4. Dating(k)
  BY <1>3 DEF Dating
<1>5. hand' = [hand EXCEPT ![h] = k] /\ UNCHANGED events
  BY <1>1 DEF BeginEvent, Ask, calRows
<1> QED BY <1>4, <1>5, HandsStayDated

\* A handler that writes by id writes a row that is laid out, or none.
LEMMA EventRewritten ==
  ASSUME DatesInv, EventsInv, hand = [h \in Hands |-> hand[h]],
         NEW h \in Hands, NEW step, NEW row, Rewrites(h, step, row),
         hand[h].event \in DOMAIN events /\ Listed(hand[h].event) => Laying(row)
  PROVE  DatesInv'
<1>1. PICK x : x = hand[h].event
  OBVIOUS
<1>2. Dating(Idle)
  BY DEF Dating, Idle
<1>3. HandsAreDated'
  BY <1>2, HandsStayDated DEF Rewrites, Answer, DatesInv
<1>4. RowsAreLaid'
  <2>1. CASE events' = events
    BY <2>1 DEF RowsAreLaid, Listed, Laying, DatesInv
  <2>2. CASE x \in DOMAIN events /\ Listed(x)
    <3>1. events' = [events EXCEPT ![x] = row] /\ Laying(row)
      BY <1>1, <2>2 DEF Rewrites
    <3> QED BY <3>1, RowWritten DEF DatesInv
  <2>3. CASE ~ (x \in DOMAIN events /\ Listed(x))
    <3>1. \A r : [events EXCEPT ![x] = r] = events \/ x \in DOMAIN events
      BY DEF EventsInv
    <3>2. events' = events
      BY <1>1, <2>3, <3>1 DEF Rewrites
    <3> QED BY <2>1, <3>2
  <2> QED BY <2>2, <2>3
<1> QED BY <1>3, <1>4 DEF DatesInv

\* An organiser keeps the dates.
LEMMA OrganiserDates ==
  ASSUME DatesInv, EventsInv, hand = [h \in Hands |-> hand[h]], NEW h \in Hands, Organiser(h)
  PROVE  DatesInv'
<1>0. RowsAreLaid /\ HandsAreDated /\ Dating(Idle)
  BY DEF DatesInv, Dating, Idle
<1>1. ASSUME UNCHANGED events, HandsAreDated' PROVE DatesInv'
  BY <1>0, <1>1 DEF DatesInv, RowsAreLaid, Listed, Laying
<1>2. ASSUME NEW e \in DOMAIN events,
             \/ \E to \in Moves : BeginEvent(h, "edit", e, TRUE, [start |-> to])
             \/ BeginEvent(h, "cancel", e, events[e].status # "cancelled", <<>>)
             \/ BeginEvent(h, "delete", e, TRUE, <<>>)
             \/ \E at \in Probed(events[e]) :
                  \/ BeginEvent(h, "exclude", e, TRUE, [exdates |-> events[e].exdates \cup {at}])
                  \/ \E p \in People, yes \in {"going", "maybe"} :
                       BeginEvent(h, "rsvp", e, TRUE,
                         [row |-> [event |-> e, member |-> p, at |-> at, response |-> yes]])
             \/ \E p \in People, yes \in {"going", "maybe"} :
                  BeginEvent(h, "rsvp", e, TRUE,
                    [row |-> [event |-> e, member |-> p, at |-> Standing, response |-> yes]])
      PROVE  DatesInv'
  <2>1. ASSUME NEW to \in Moves, BeginEvent(h, "edit", e, TRUE, [start |-> to]) PROVE DatesInv'
    <3>1. PICK read : read = [start |-> to]
      OBVIOUS
    <3>2. "start" \in DOMAIN read /\ read.start \in Moves
      BY <3>1
    <3>3. HandsAreDated' /\ UNCHANGED events
      BY <1>0, <2>1, <3>1, <3>2, EventBegun
    <3> QED BY <1>1, <3>3
  <2>2. ASSUME NEW at, BeginEvent(h, "exclude", e, TRUE, [exdates |-> events[e].exdates \cup {at}])
        PROVE  DatesInv'
    <3>1. PICK read : read = [exdates |-> events[e].exdates \cup {at}]
      OBVIOUS
    <3>2. IsFiniteSet(events[e].exdates)
      BY <1>0, <2>2 DEF BeginEvent, RowsAreLaid, Laying
    <3>3. "exdates" \in DOMAIN read /\ IsFiniteSet(read.exdates)
      BY <3>1, <3>2, FS_AddElement
    <3>4. HandsAreDated' /\ UNCHANGED events
      BY <1>0, <2>2, <3>1, <3>3, EventBegun
    <3> QED BY <1>1, <3>4
  <2>3. ASSUME NEW step \in {"cancel", "delete", "rsvp"}, NEW guard, NEW read,
               BeginEvent(h, step, e, guard, read)
        PROVE  DatesInv'
    <3>1. HandsAreDated' /\ UNCHANGED events
      BY <1>0, <2>3, EventBegun
    <3> QED BY <1>1, <3>1
  <2> QED BY <1>2, <2>1, <2>2, <2>3
<1>3. PICK x, k : x = hand[h].event /\ k = hand[h]
  OBVIOUS
<1>4. ASSUME x \in DOMAIN events, Listed(x)
      PROVE  /\ k.at = "edit" => Laying([events[x] EXCEPT !.start = k.start])
             /\ Laying([events[x] EXCEPT !.status = "cancelled"])
             /\ k.at = "exclude" => Laying([events[x] EXCEPT !.exdates = k.exdates])
  <2>1. PICK r : r = events[x]
    OBVIOUS
  <2>2. Laying(r) /\ Dating(k)
    BY <1>0, <1>3, <1>4, <2>1 DEF RowsAreLaid, HandsAreDated
  <2>3. ASSUME k.at = "edit" PROVE Laying([r EXCEPT !.start = k.start])
    <3>1. PICK row, to : to = k.start /\ row = [r EXCEPT !.start = to]
      OBVIOUS
    <3>2. DOMAIN row = DOMAIN r /\ row.start = to /\ row.rule = r.rule /\ row.exdates = r.exdates
      BY <2>2, <3>1 DEF Laying
    <3>3. to \in Moves
      BY <2>2, <2>3, <3>1 DEF Dating
    <3> QED BY <2>2, <3>1, <3>2, <3>3 DEF Laying
  <2>4. Laying([r EXCEPT !.status = "cancelled"])
    BY <2>2 DEF Laying
  <2>5. ASSUME k.at = "exclude" PROVE Laying([r EXCEPT !.exdates = k.exdates])
    <3>1. PICK row, X : X = k.exdates /\ row = [r EXCEPT !.exdates = X]
      OBVIOUS
    <3>2. DOMAIN row = DOMAIN r /\ row.start = r.start /\ row.rule = r.rule /\ row.exdates = X
      BY <2>2, <3>1 DEF Laying
    <3>3. IsFiniteSet(X)
      BY <2>2, <2>5, <3>1 DEF Dating
    <3> QED BY <2>2, <3>1, <3>2, <3>3 DEF Laying
  <2> QED BY <2>1, <2>3, <2>4, <2>5
<1>5. CASE EditEvent(h)
  <2>1. PICK row : row = [events[x] EXCEPT !.start = k.start]
    OBVIOUS
  <2>2. Rewrites(h, "edit", row) /\ k.at = "edit"
    BY <1>3, <1>5, <2>1 DEF EditEvent, Rewrites, Doing
  <2> QED BY <1>3, <1>4, <2>1, <2>2, EventRewritten
<1>6. CASE CancelEvent(h)
  <2>1. PICK row : row = [events[x] EXCEPT !.status = "cancelled"]
    OBVIOUS
  <2>2. Rewrites(h, "cancel", row)
    BY <1>3, <1>6, <2>1 DEF CancelEvent
  <2> QED BY <1>3, <1>4, <2>1, <2>2, EventRewritten
<1>7. CASE CancelOccurrence(h)
  <2>1. PICK row : row = [events[x] EXCEPT !.exdates = k.exdates]
    OBVIOUS
  <2>2. Rewrites(h, "exclude", row) /\ k.at = "exclude"
    BY <1>3, <1>7, <2>1 DEF CancelOccurrence, Rewrites, Doing
  <2> QED BY <1>3, <1>4, <2>1, <2>2, EventRewritten
<1>8. CASE DeleteEvent(h) \/ RecordRsvp(h)
             \/ (hand[h].at \in {"edit", "cancel", "delete", "exclude", "rsvp"} /\ Answer(h)
                 /\ UNCHANGED events)
  <2>1. Answer(h) /\ (events' = events \/ events' = [events EXCEPT ![x] = Gone])
    BY <1>3, <1>8 DEF DeleteEvent, RecordRsvp
  <2>2. HandsAreDated'
    BY <1>0, <2>1, HandsStayDated DEF Answer
  <2>3. RowsAreLaid'
    BY <1>0, <1>1, <2>1, <2>2, RowWritten DEF DatesInv
  <2> QED BY <2>2, <2>3 DEF DatesInv
<1> QED BY <1>2, <1>5, <1>6, <1>7, <1>8 DEF Organiser, calRows

\* So does every other step: the other plugins' handlers, the clerks and the desk.
LEMMA DatesStep == MemoryInv /\ DatesInv /\ [MemoryNext]_memoryVars => DatesInv'
<1> SUFFICES ASSUME MemoryInv, DatesInv, [MemoryNext]_memoryVars PROVE DatesInv'
  OBVIOUS
<1>0. EventsInv /\ hand = [h \in Hands |-> hand[h]] /\ RowsAreLaid /\ HandsAreDated
  BY DEF MemoryInv, FloorInv, FloorTyped, DebriefInv, DatesInv
<1>1. ASSUME UNCHANGED events, HandsAreDated' PROVE DatesInv'
  BY <1>0, <1>1 DEF DatesInv, RowsAreLaid, Listed, Laying
<1>2. ASSUME UNCHANGED <<events, hand>> PROVE DatesInv'
  BY <1>0, <1>1, <1>2 DEF HandsAreDated, Dating
<1>3. ASSUME UNCHANGED events, NEW h \in Hands, NEW steps \in {GovSteps, LodgeSteps, RecordSteps},
             MovesTo(h, steps)
      PROVE  DatesInv'
  <2>1. HandsAreDated'
    BY <1>0, <1>3, StepsApart, DatesAside
  <2> QED BY <1>1, <1>3, <2>1
<1>4. CASE Deliberate
  <2>1. GovNext /\ UNCHANGED events
    BY <1>4 DEF Deliberate, calRows
  <2>2. CASE \E h \in Hands : Chamber(h)
    BY <1>3, <2>1, <2>2, ChamberHands
  <2>3. CASE ~\E h \in Hands : Chamber(h)
    <3>1. UNCHANGED hand
      BY <2>1, <2>3 DEF GovNext, EditMeeting, MarkAttendance, RejectAmendment, AskOnce
    <3> QED BY <1>2, <2>1, <3>1
  <2> QED BY <2>2, <2>3
<1>5. CASE Undertake
  <2>1. MissionNext /\ UNCHANGED events
    BY <1>5 DEF Undertake, calRows
  <2>2. CASE \E h \in Hands : Lodge(h) \/ Planner(h)
    BY <1>3, <2>1, <2>2, LodgeHands
  <2>3. CASE ~\E h \in Hands : Lodge(h) \/ Planner(h)
    <3>1. UNCHANGED hand
      BY <2>1, <2>3 DEF MissionNext, ProposeMission, DeleteMilestone, AskOnce
    <3> QED BY <1>2, <2>1, <3>1
  <2> QED BY <2>2, <2>3
<1>6. CASE KeepRecords
  <2>1. UNCHANGED events
    BY <1>6 DEF KeepRecords, calRows
  <2>2. CASE \E h \in Hands : Librarian(h)
    BY <1>3, <2>1, <2>2, LibrarianHands
  <2>3. CASE ~\E h \in Hands : Librarian(h)
    <3>1. UNCHANGED hand
      BY <1>6, <2>3 DEF KeepRecords, Shelves, FileRecord, CreateLink, DeleteLink, AskOnce, Clerk, Ingest,
         FileEvent, FileImpact, Tie, IngestEnds, LoseIngest, hostVars
    <3> QED BY <1>2, <2>1, <3>1
  <2> QED BY <2>2, <2>3
<1>7. CASE KeepCalendar
  <2>1. ASSUME NEW row, Laying(row), events' = Append(events, row), UNCHANGED hand PROVE DatesInv'
    <3>1. RowsAreLaid'
      BY <1>0, <2>1, RowAdded
    <3>2. HandsAreDated'
      BY <1>0, <2>1 DEF HandsAreDated, Dating
    <3> QED BY <3>1, <3>2 DEF DatesInv
  <2>2. ASSUME NEW x \in Schedules, CreateEvent(x) PROVE DatesInv'
    <3>1. PICK row : row = Event(x.rule, x.start, OfNone)
      OBVIOUS
    <3>2. Laying(row) /\ events' = Append(events, row) /\ UNCHANGED hand
      BY <2>2, <3>1, CreatedIsLaid DEF CreateEvent, AskOnce
    <3> QED BY <2>1, <3>2
  <2>3. ASSUME NEW h \in Hands, Organiser(h) PROVE DatesInv'
    BY <1>0, <2>3, OrganiserDates
  <2>4. CASE DebriefClerk(DebriefDesk)
    <3>1. PICK s : s = DebriefDesk
      OBVIOUS
    <3>2. CASE InsertDebrief(s)
      <4>1. PICK m, row : m = task[s].event.mission /\ row = Event(Once, 0, m)
        OBVIOUS
      <4>2. Laying(row)
        BY <4>1, OnceIsLaid
      <4>3. UNCHANGED hand /\ (UNCHANGED events \/ events' = Append(events, row))
        BY <3>2, <4>1 DEF InsertDebrief, hostVars
      <4> QED BY <1>2, <2>1, <4>2, <4>3
    <3>3. CASE HearCompletion(s) \/ DebriefExists(s) \/ DebriefEnds(s) \/ MissCompletion(s)
      <4>1. UNCHANGED <<events, hand>>
        BY <3>3 DEF HearCompletion, DebriefExists, DebriefEnds, MissCompletion, calRows, hostVars
      <4> QED BY <1>2, <4>1
    <3> QED BY <2>4, <3>1, <3>2, <3>3 DEF DebriefClerk
  <2> QED BY <1>7, <2>2, <2>3, <2>4 DEF KeepCalendar, Office
<1>8. CASE UNCHANGED memoryVars
  BY <1>2, <1>8 DEF memoryVars, memoryRows, calRows, hostVars
<1> QED BY <1>4, <1>5, <1>6, <1>7, <1>8 DEF MemoryNext

\* What is listed of a row that is laid out is its series.
LEMMA LaidRowsCountRight == DatesInv => OccurrencesAreTheSeries
<1> SUFFICES ASSUME DatesInv, NEW e \in DOMAIN events, Listed(e),
                    NEW from \in Windows, NEW limit \in Limits
             PROVE  LET row   == events[e]
                        meant == Series(row.rule, row.start) \ row.exdates
                        due   == {d \in meant : d >= from}
                    IN Occurs(row, from, limit) = Ascending({d \in due : Rank(d, due) <= limit})
  BY DEF OccurrencesAreTheSeries
<1>1. PICK rule, start, exdates :
        rule = events[e].rule /\ start = events[e].start /\ exdates = events[e].exdates
  OBVIOUS
<1>2. Expandable(rule, start) /\ IsFiniteSet(exdates) /\ from \in Int /\ limit \in Nat
  BY <1>1, CalendarAssumption DEF DatesInv, RowsAreLaid, Laying
<1>3. PICK due : due = {d \in Series(rule, start) \ exdates : d >= from}
  OBVIOUS
<1>4. OccurrencesFor(rule, start, exdates, from, limit) = Ascending(FirstOf(limit, due))
  BY <1>2, <1>3, OccurrencesAreThose
<1> QED BY <1>1, <1>3, <1>4 DEF Occurs, FirstOf

\* CalendarCountsRight: whatever people create, move, cut and answer at once,
\* what is listed of an event is the series its rule means, less the dates taken
\* out, and each member is counted once for each date of it.
THEOREM CalendarStaysRight == MemorySpec => []CalendarCountsRight
<1>1. MemoryInit => DatesInv
  <2>1. MemoryInit => events = <<>> /\ hand = [h \in Hands |-> Idle]
    BY DEF MemoryInit, CalInit, GovInit, HostInit
  <2> QED BY <2>1 DEF DatesInv, RowsAreLaid, HandsAreDated, Dating, Idle
<1>2. DatesInv /\ ProjectionCountsPeople => CalendarCountsRight
  BY LaidRowsCountRight DEF CalendarCountsRight
<1> QED BY <1>1, <1>2, DatesStep, MemoryInvariant, PeopleAreCountedOnce, PTL DEF MemorySpec
=============================================================================
