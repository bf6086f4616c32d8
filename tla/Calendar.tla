------------------------------ MODULE Calendar ------------------------------
(***************************************************************************)
(* The troop's calendar (plugins/calendar/src/lib.rs): events that recur,  *)
(* the weeks taken out of a series, what members answer, and the debrief   *)
(* it schedules when a mission is completed.  A handler reads the event,   *)
(* validates against what it read, and writes by id.                       *)
(***************************************************************************)
EXTENDS BusReaders, Recurrence

CONSTANTS
  Schedules,    \* what people create: a rule and a start
  Moves,        \* starts an event may be moved to
  People,       \* members who answer
  ProbeLimit,   \* occurrences searched for the one a request names
  MaxEvents,    \* bound: rows of calendar.events
  Windows,      \* the days a list is asked from
  Limits        \* and how many occurrences

VARIABLES
  events,    \* calendar.events, in id order
  rsvps,     \* calendar.rsvps
  missed     \* history: missions whose completion no handler finished with, and
             \* those whose debrief was deleted

calRows == <<events, rsvps>>
calVars == <<calRows, missed, readerVars, hostVars>>

Gone     == [status |-> "deleted"]
OfNone   == 0                  \* source_mission_id NULL; missions count from 1
Standing == -2                 \* occurrence_at '-infinity': the whole series
Once     == [freq |-> "once"]

(* What people create and move is on the calendar laid out, as far as an    *)
(* expansion walks.                                                         *)
ASSUME CalendarAssumption ==
  /\ Windows \subseteq Int /\ Moves \subseteq Int /\ Limits \subseteq Nat
  /\ \A x \in Schedules :
       /\ x.rule \in RecurrenceRules \cup {Once} /\ x.start \in Int
       /\ x.rule # Once /\ Accepts(x.rule) => \A to \in Moves \cup {x.start} : LaidOut(x.rule, to)

CalInit == ReadersInit /\ events = <<>> /\ rsvps = {} /\ missed = {}

Listed(e) == events[e] # Gone

Event(rule, start, mission) ==
  [status |-> "scheduled", rule |-> rule, start |-> start, exdates |-> {}, mission |-> mission]

Occurs(row, from, limit) == OccurrencesFor(row.rule, row.start, row.exdates, from, limit)

\* A request's occurrence is one of the series, as far as it is searched.
Probed(row) == {Occurs(row, row.start, ProbeLimit)[i] :
                  i \in DOMAIN Occurs(row, row.start, ProbeLimit)}

-----------------------------------------------------------------------------
(* Events.                                                                 *)

CreateEvent(schedule) ==
  /\ Len(events) < MaxEvents /\ AskOnce /\ Silent
  /\ schedule.rule.freq # "once" => Accepts(schedule.rule)
  /\ events' = Append(events, Event(schedule.rule, schedule.start, OfNone))
  /\ UNCHANGED <<rsvps, missed, readerVars>>

\* fetch_event, with what the request makes of it.
BeginEvent(h, step, e, guard, read) ==
  /\ Listed(e) /\ guard /\ Ask(h, Knowing(read, [at |-> step, event |-> e])) /\ Silent
  /\ UNCHANGED <<calRows, missed, readerVars>>

\* An UPDATE by id of the columns the request names, if the row is still there.
Rewrites(h, step, row) ==
  /\ Doing(h, step) /\ Answer(h) /\ Silent
  /\ events' = IF Listed(hand[h].event) THEN [events EXCEPT ![hand[h].event] = row] ELSE events
  /\ UNCHANGED <<rsvps, missed, readerVars>>

EditEvent(h)   == Rewrites(h, "edit", [events[hand[h].event] EXCEPT !.start = hand[h].start])
CancelEvent(h) == Rewrites(h, "cancel", [events[hand[h].event] EXCEPT !.status = "cancelled"])

\* The whole list of excluded dates is written, as it was read and one more.
CancelOccurrence(h) ==
  Rewrites(h, "exclude", [events[hand[h].event] EXCEPT !.exdates = hand[h].exdates])

\* Its answers go with it; a debrief's mission is not scheduled for again.
DeleteEvent(h) ==
  /\ Doing(h, "delete") /\ Answer(h) /\ Silent
  /\ events' = [events EXCEPT ![hand[h].event] = Gone]
  /\ rsvps' = {r \in rsvps : r.event # hand[h].event}
  /\ missed' = IF Listed(hand[h].event) THEN missed \cup {events[hand[h].event].mission} ELSE missed
  /\ UNCHANGED readerVars

-----------------------------------------------------------------------------
(* Answers: one row for a member and an occurrence, or for the series.     *)

Slot(r) == <<r.event, r.member, r.at>>

RecordRsvp(h) ==
  /\ Doing(h, "rsvp") /\ Listed(hand[h].event) /\ Answer(h) /\ Silent
  /\ rsvps' = {r \in rsvps : Slot(r) # Slot(hand[h].row)} \cup {hand[h].row}
  /\ UNCHANGED <<events, missed, readerVars>>

\* rsvp_counts: an answer for the occurrence goes before one for the series.
Answers(e, at) ==
  {r \in rsvps : r.event = e /\ (r.at = at \/ (r.at = Standing /\
     ~\E s \in rsvps : s.event = e /\ s.member = r.member /\ s.at = at))}
Going(e, at) == Cardinality({r \in Answers(e, at) : r.response = "going"})

-----------------------------------------------------------------------------
(* The debrief of a completed mission.                                     *)

DebriefDesk == "debrief"     \* the subscription that does it

Debriefs(mission) == {e \in DOMAIN events : Listed(e) /\ events[e].mission = mission}

HearCompletion(s) ==
  Receive(s, {"mission.completed"}, "debrief_exists") /\ UNCHANGED <<calRows, missed, hostVars>>

\* Mutant: the existing debrief of any mission will do.
DebriefExistsForAny(s) ==
  /\ Handling(s, "debrief_exists")
  /\ IF \E e \in DOMAIN events : Listed(e) /\ events[e].mission # OfNone
       THEN Handled(s) ELSE Onward(s, "debrief_insert")
  /\ UNCHANGED <<calRows, missed, hostVars>>

DebriefExists(s) ==
  /\ Handling(s, "debrief_exists")
  /\ IF Debriefs(task[s].event.mission) # {} THEN Handled(s) ELSE Onward(s, "debrief_insert")
  /\ UNCHANGED <<calRows, missed, hostVars>>

\* ON CONFLICT (source_mission_id) DO NOTHING.
InsertDebrief(s) ==
  /\ Handling(s, "debrief_insert") /\ Handled(s) /\ Len(events) < MaxEvents
  /\ LET mission == task[s].event.mission
     IN events' = IF Debriefs(mission) # {} THEN events
                  ELSE Append(events, Event(Once, 0, mission))
  /\ UNCHANGED <<rsvps, missed, hostVars>>

\* The missions some of the bus's events say were completed.
CompletedIn(K) == {bus[k].mission : k \in {k \in K : bus[k].type = "mission.completed"}}

\* The statement fails or the task is aborted; or the event was never received.
DebriefEnds(s) ==
  /\ task[s] # Idle /\ (Handled(s) \/ Rebound(s))
  /\ missed' = missed \cup {task[s].event.mission} \cup
       CompletedIn(cursor[s]..cursor'[s] - 1)
  /\ UNCHANGED <<calRows, hostVars>>

MissCompletion(s) ==
  /\ Miss(s) /\ UNCHANGED <<calRows, hostVars>>
  /\ missed' = missed \cup CompletedIn({cursor[s]})

-----------------------------------------------------------------------------
Organiser(h) ==
  \/ \E e \in DOMAIN events :
       \/ \E to \in Moves : BeginEvent(h, "edit", e, TRUE, [start |-> to])
       \/ BeginEvent(h, "cancel", e, events[e].status # "cancelled", <<>>)
       \/ BeginEvent(h, "delete", e, TRUE, <<>>)
       \/ /\ Listed(e) /\ events[e].rule # Once
          /\ \E at \in Probed(events[e]) :
               \/ BeginEvent(h, "exclude", e, TRUE, [exdates |-> events[e].exdates \cup {at}])
               \/ \E p \in People, yes \in {"going", "maybe"} :
                    BeginEvent(h, "rsvp", e, TRUE,
                      [row |-> [event |-> e, member |-> p, at |-> at, response |-> yes]])
       \/ \E p \in People, yes \in {"going", "maybe"} :
            BeginEvent(h, "rsvp", e, TRUE,
              [row |-> [event |-> e, member |-> p, at |-> Standing, response |-> yes]])
  \/ EditEvent(h) \/ CancelEvent(h) \/ CancelOccurrence(h) \/ DeleteEvent(h) \/ RecordRsvp(h)
  \/ /\ hand[h].at \in {"edit", "cancel", "delete", "exclude", "rsvp"} /\ Answer(h) /\ Silent
     /\ UNCHANGED <<calRows, missed, readerVars>>

Office == (\E x \in Schedules : CreateEvent(x)) \/ \E h \in Hands : Organiser(h)

DebriefClerk(s) ==
  HearCompletion(s) \/ DebriefExists(s) \/ InsertDebrief(s) \/ DebriefEnds(s) \/ MissCompletion(s)

-----------------------------------------------------------------------------
(* Every mission that completed has one debrief on the calendar, once its   *)
(* event was handled: one, however often it completed, and one each; but    *)
(* for a handler that was ended, and a debrief somebody deleted.            *)
ClosedMissionsAreDebriefed ==
  \A mission \in CompletedIn(1..cursor[DebriefDesk] - 1) \ missed :
    task[DebriefDesk] = Idle \/ task[DebriefDesk].event.mission # mission
      => Cardinality(Debriefs(mission)) = 1

(* The quorum projection is of people: for every occurrence of an event, a  *)
(* member is counted once, by the answer for that date where there is one.  *)
ProjectionCountsPeople ==
  \A e \in DOMAIN events : Listed(e) /\ events[e].rule # Once =>
    \A at \in Probed(events[e]), p \in People :
      Cardinality({r \in Answers(e, at) : r.member = p}) <= 1

(* What is listed of a series is the series: the first dates, from any day  *)
(* on and however many are asked for, that its rule means, less the dates   *)
(* taken out.                                                               *)
OccurrencesAreTheSeries ==
  \A e \in DOMAIN events : Listed(e) =>
    LET row   == events[e]
        meant == Series(row.rule, row.start) \ row.exdates
    IN \A from \in Windows, limit \in Limits :
         LET due == {d \in meant : d >= from}
         IN Occurs(row, from, limit) =
              Ascending({d \in due : Rank(d, due) <= limit})

(* Both, of every event on the calendar.                                   *)
CalendarCountsRight == OccurrencesAreTheSeries /\ ProjectionCountsPeople

(* The module's doc refuses what it does not implement rather than ignore   *)
(* it; a monthly rule may name its months, and occurs in every one.         *)
MonthsAreHonoured ==
  \A e \in DOMAIN events : Listed(e) /\ events[e].rule # Once =>
    \A d \in Probed(events[e]) :
      events[e].rule.byMonth # {} => MonthInYear(MonthOf(d)) \in events[e].rule.byMonth

(* A week that was cancelled stays cancelled: the exclusion another handler *)
(* made since the list was read is written over.                            *)
ExcludedStays ==
  [][\A e \in DOMAIN events : Listed(e) => events'[e] = Gone \/
       events[e].exdates \subseteq events'[e].exdates]_calVars
=============================================================================
