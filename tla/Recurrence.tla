---------------------------- MODULE Recurrence ----------------------------
(***************************************************************************)
(* Recurrence rules (plugins/calendar/src/recurrence.rs): the occurrences  *)
(* of a rule, period by period from the series' start.  Dates are days     *)
(* counted from a first day of a first month that begins a week; the       *)
(* calendar is a cycle of month lengths, so that months differ and the     *)
(* years of a cycle may too.                                               *)
(***************************************************************************)
EXTENDS Integers, Sequences, FiniteSets, SequencesExt

CONSTANTS
  WeekLen,        \* 7
  MonthLengths,   \* the lengths of the months of one cycle of years
  MonthsInYear,   \* 12
  LastMonth,      \* bound: months the calendar is laid out for
  MaxPeriods      \* recurrence periods one expansion walks (4000)

ASSUME RecurrenceAssumption ==
  /\ WeekLen \in Nat \ {0} /\ MonthsInYear \in Nat \ {0}
  /\ MonthLengths \in Seq(Nat \ {0}) /\ MonthLengths # <<>>
  /\ LastMonth \in Nat /\ MaxPeriods \in Nat

Never == -1       \* a rule without COUNT or UNTIL

Rank(d, S)   == Cardinality({e \in S : e <= d})
Ascending(S) == [i \in 1..Cardinality(S) |-> CHOOSE d \in S : Rank(d, S) = i]

-----------------------------------------------------------------------------
(* The calendar, which is chrono's.                                        *)

MonthLength(m) == MonthLengths[(m % Len(MonthLengths)) + 1]

FirstDay[m \in 0..LastMonth + 1] == IF m = 0 THEN 0 ELSE FirstDay[m-1] + MonthLength(m-1)

MonthOf(d) == CHOOSE m \in 0..LastMonth : FirstDay[m] <= d /\ d < FirstDay[m+1]
DayOf(d)   == d - FirstDay[MonthOf(d)] + 1
YearOf(d)  == MonthOf(d) \div MonthsInYear
WeekOf(d)  == d \div WeekLen
Weekday(d) == d % WeekLen

MonthInYear(m) == (m % MonthsInYear) + 1

\* from_ymd_opt: the month may be too short for the day.
OnDay(m, day) == IF day \in 1..MonthLength(m) THEN {FirstDay[m] + day - 1} ELSE {}

-----------------------------------------------------------------------------
(* A rule that recurs; nth is 0 for a weekday without an ordinal.          *)
RecurrenceRules ==
  [freq : {"daily", "weekly", "monthly", "yearly"}, interval : Int,
   byDay : SUBSET [weekday : 0..WeekLen - 1, nth : Int], byMonthDay : SUBSET Int,
   byMonth : SUBSET (1..MonthsInYear), count : Nat \cup {Never}, until : Int]

\* parse_rrule refuses what the expansion does not implement.
Accepts(rule) ==
  /\ rule.interval >= 1 /\ rule.count # 0 /\ 0 \notin rule.byMonthDay
  /\ rule.count # Never => rule.until = Never
  /\ rule.freq = "daily" => rule.byDay = {} /\ rule.byMonthDay = {} /\ rule.byMonth = {}
  /\ rule.freq = "weekly" =>
       rule.byMonthDay = {} /\ rule.byMonth = {} /\ \A on \in rule.byDay : on.nth = 0
  /\ rule.freq \in {"monthly", "yearly"} => rule.byDay = {} \/ rule.byMonthDay = {}

\* BYMONTHDAY: negative days count from the month's end.
ResolveMonthDay(m, day) == OnDay(m, IF day > 0 THEN day ELSE MonthLength(m) + 1 + day)

\* Mutant: the weekday is looked for in the first week even if the month
\* begins after it.
NthWeekdayUnwrapped(m, weekday, nth) ==
  OnDay(m, 1 + weekday - Weekday(FirstDay[m]) + (nth - 1) * WeekLen)

\* BYDAY with an ordinal: the nth such weekday, from the end when negative.
NthWeekday(m, weekday, nth) ==
  LET last == MonthLength(m)
  IN IF nth > 0
       THEN OnDay(m, 1 + ((weekday - Weekday(FirstDay[m])) % WeekLen) + (nth - 1) * WeekLen)
       ELSE OnDay(m, last - ((Weekday(FirstDay[m] + last - 1) - weekday) % WeekLen)
                          + (nth + 1) * WeekLen)

EveryWeekday(m, weekday) ==
  {d \in FirstDay[m]..FirstDay[m+1] - 1 : Weekday(d) = weekday}

MonthCandidates(rule, start, m) ==
  IF rule.byMonthDay # {} THEN UNION {ResolveMonthDay(m, day) : day \in rule.byMonthDay}
  ELSE IF rule.byDay # {}
    THEN UNION {IF on.nth = 0 THEN EveryWeekday(m, on.weekday)
                              ELSE NthWeekday(m, on.weekday, on.nth) : on \in rule.byDay}
  ELSE OnDay(m, DayOf(start))

\* The candidates of period k, 0 being the one that contains the start.
PeriodCandidates(rule, start, k) ==
  CASE rule.freq = "daily"  -> {start + k * rule.interval}
    [] rule.freq = "weekly" ->
         {(WeekOf(start) + k * rule.interval) * WeekLen + w :
            w \in IF rule.byDay = {} THEN {Weekday(start)} ELSE {on.weekday : on \in rule.byDay}}
    [] rule.freq = "monthly" ->
         MonthCandidates(rule, start, MonthOf(start) + k * rule.interval)
    [] rule.freq = "yearly" ->
         LET first == (YearOf(start) + k * rule.interval) * MonthsInYear
         IN UNION {MonthCandidates(rule, start, first + month - 1) :
                     month \in IF rule.byMonth = {} THEN {MonthInYear(MonthOf(start))}
                                                    ELSE rule.byMonth}

\* One candidate of the walk: COUNT counts it, UNTIL and COUNT end there.
Take(rule, start, from, limit, walk, d) ==
  IF walk.done \/ d < start THEN walk
  ELSE IF \/ rule.until # Never /\ d > rule.until
          \/ rule.count # Never /\ walk.produced = rule.count
    THEN [walk EXCEPT !.done = TRUE]
  ELSE LET found == IF d >= from THEN Append(walk.found, d) ELSE walk.found
       IN [found |-> found, produced |-> walk.produced + 1, done |-> Len(found) >= limit]

\* One period of it.
Turn(rule, start, from, limit, walk, k) ==
  FoldLeft(LAMBDA w, d : Take(rule, start, from, limit, w, d), walk,
           Ascending(PeriodCandidates(rule, start, k)))

\* expand: the walk from the start, which COUNT counts from and UNTIL ends,
\* to the first `limit` occurrences at or after `from`.
Expand(rule, start, from, limit) ==
  FoldLeft(LAMBDA w, k : Turn(rule, start, from, limit, w, k),
           [found |-> <<>>, produced |-> 0, done |-> limit = 0],
           [k \in 1..MaxPeriods |-> k - 1]).found

\* retain: without the excluded dates.
Retained(found, exdates) ==
  FoldLeft(LAMBDA kept, d : IF d \in exdates THEN kept ELSE Append(kept, d), <<>>, found)

\* occurrences_for: an event that does not recur occurs at its start; excluded
\* dates are taken out of a series expanded by as many more.
OccurrencesFor(rule, start, exdates, from, limit) ==
  LET wanted == limit + Cardinality(exdates)
      found  == IF rule.freq = "once"
                  THEN IF start >= from THEN <<start>> ELSE <<>>
                  ELSE Expand(rule, start, from, wanted)
      kept   == Retained(found, exdates)
  IN IF Len(kept) > limit THEN SubSeq(kept, 1, limit) ELSE kept

-----------------------------------------------------------------------------
(* The series by its meaning: which days are in it, whatever walks them.   *)

Period(rule, d) ==
  CASE rule.freq = "daily" -> d [] rule.freq = "weekly" -> WeekOf(d)
    [] rule.freq = "monthly" -> MonthOf(d) [] rule.freq = "yearly" -> YearOf(d)

\* Bound: the periods one expansion walks are within the calendar laid out, as
\* they are within chrono's.
LaidOut(rule, start) ==
  LET last == Period(rule, start) + MaxPeriods * rule.interval
  IN /\ start \in 0..FirstDay[LastMonth]
     /\ CASE rule.freq = "daily"   -> last <= FirstDay[LastMonth]
          [] rule.freq = "weekly"  -> last * WeekLen <= FirstDay[LastMonth]
          [] rule.freq = "monthly" -> last <= LastMonth
          [] rule.freq = "yearly"  -> last * MonthsInYear <= LastMonth

\* The same weekdays of d's month, those up to d, and those from d on.
Alike(d)  == {e \in FirstDay[MonthOf(d)]..FirstDay[MonthOf(d)+1] - 1 : Weekday(e) = Weekday(d)}
IsNth(d, nth) ==
  \/ nth = 0
  \/ nth = Rank(d, Alike(d))
  \/ -nth = Cardinality({e \in Alike(d) : e >= d})

DayFits(rule, start, d) ==
  CASE rule.byMonthDay # {} -> \/ DayOf(d) \in rule.byMonthDay
                               \/ DayOf(d) - MonthLength(MonthOf(d)) - 1 \in rule.byMonthDay
    [] rule.byMonthDay = {} /\ rule.byDay # {} ->
         \E on \in rule.byDay : on.weekday = Weekday(d) /\ IsNth(d, on.nth)
    [] OTHER -> DayOf(d) = DayOf(start)

Recurs(rule, start, d) ==
  LET apart == Period(rule, d) - Period(rule, start)
  IN /\ d >= start /\ apart % rule.interval = 0 /\ apart \div rule.interval < MaxPeriods
     /\ CASE rule.freq = "daily"   -> TRUE
          [] rule.freq = "weekly"  -> IF rule.byDay = {} THEN Weekday(d) = Weekday(start)
                                      ELSE \E on \in rule.byDay : on.weekday = Weekday(d)
          [] rule.freq = "monthly" -> DayFits(rule, start, d)
          [] rule.freq = "yearly"  ->
               /\ DayFits(rule, start, d)
               /\ LET month == MonthInYear(MonthOf(d))
                  IN IF rule.byMonth = {} THEN month = MonthInYear(MonthOf(start))
                                          ELSE month \in rule.byMonth

\* The days of the series before the calendar's end.
Series(rule, start) ==
  IF rule.freq = "once" THEN {start}
  ELSE LET all == {d \in start..FirstDay[LastMonth] : Recurs(rule, start, d)}
       IN {d \in all : /\ rule.until # Never => d <= rule.until
                       /\ rule.count # Never => Rank(d, all) <= rule.count}
=============================================================================
