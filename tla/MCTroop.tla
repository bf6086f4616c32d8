------------------------------ MODULE MCTroop ------------------------------
(***************************************************************************)
(* The troop's plugins on small instances.  They share the host and        *)
(* nothing else (the four of Memory share the bus too), so each behaviour  *)
(* is about one scene, chosen at first, with the requests it may spend.    *)
(***************************************************************************)
EXTENDS Memory, Equipment, Conflicts, Announcements, OfflineQueue, Roster, Accounts, Scheduler

CONSTANTS h1, h2, fay, gus, m1

VARIABLE scene

deskRows == <<poolRows, cases, waiting, ledger, pass, unlogged, notices, receipts>>
coreRows == <<queueVars, rosterRows, accountRows, timerRows>>
troopVars == <<scene, memoryVars, deskRows, coreRows>>

MCBudget ==
  "floor" :> 5 @@ "accords" :> 3 @@ "missions" :> 7 @@ "record" :> 2 @@
  "library" :> 2 @@ "series" :> 1 @@ "office" :> 3 @@ "gear" :> 4 @@ "circle" :> 4 @@
  "notices" :> 5 @@ "offline" :> 0 @@ "roster" :> 4 @@ "accounts" :> 5 @@ "timer" :> 3
Within == scene' = scene /\ asks' <= MCBudget[scene]

MCRules   == {[basis |-> "one_third_registered", expected |-> 4, fixed |-> 0]}
MCFiled   == {<<"impact", 1>>}
MCLengths == <<5, 3, 4, 5, 4, 4>>
MCHandle  == [x \in Persons |-> "jo"]
MCCalled  == [s \in Subjects |-> "jo"]

MCSeries ==
  LET rules ==
        {r \in [freq : {"daily", "weekly", "monthly", "yearly"}, interval : 1..2,
                byDay : {{}, {[weekday |-> 0, nth |-> 0], [weekday |-> 2, nth |-> 0]}} \cup
                        {{[weekday |-> w, nth |-> n]} : w \in {0, 2}, n \in {-2, -1, 1, 2}},
                byMonthDay : {{}, {2}, {5, -1}, {-5}}, byMonth : {{}, {1, 3}},
                count : {Never, 2}, until : {Never, 12}] :
           Accepts(r) /\ (r.freq = "monthly" => r.byMonth = {})}
  IN {[rule |-> r, start |-> s] : r \in rules \cup {Once}, s \in {1, 4, 7}}
MCMeetings ==
  {[rule |-> [freq |-> "weekly", interval |-> 1, byDay |-> {}, byMonthDay |-> {},
              byMonth |-> {}, count |-> Never, until |-> Never], start |-> 1]}

\* Some scenes begin further on: with a motion a vote was cast on and a mission
\* whose report is written; once the motion has passed; or once it was adopted
\* twice and the mission completed twice, with what that put on the bus.
Seconded ==
  [stage |-> "seconded", by |-> fay, second |-> gus, body |-> "congress", met |-> FALSE,
   threshold |-> "simple_majority", result |-> "pending", yes |-> 0, no |-> 0, text |-> {}]
Reporting ==
  [stage |-> "report", state |-> "open", edited |-> FALSE, criteria |-> TRUE,
   approver |-> "lodge", hours |-> FALSE, debriefed |-> TRUE, summary |-> TRUE, mentor |-> "none"]
Passed == [Seconded EXCEPT !.stage = "decided", !.result = "passed", !.yes = 1]
Ended  == [Reporting EXCEPT !.state = "completed"]
Carrying == <<[motion |-> m1, on |-> Main, voter |-> fay, choice |-> "yes"]>>
Version(status) == [motion |-> m1, status |-> status]

Completion(m) == [type |-> "mission.completed", mission |-> m, impact |-> TRUE, summary |-> TRUE]
Histories ==
  {<<Completion(1), Completion(1)>>,
   <<[type |-> "motion.proposed", motion |-> m1],
     [type |-> "motion.outcome", motion |-> m1, result |-> "passed"]>>,
   <<[type |-> "motion.outcome", motion |-> m1, result |-> "passed"],
     [type |-> "motion.proposed", motion |-> m1]>>,
   <<[type |-> "accords.adopted", version |-> 1], [type |-> "accords.adopted", version |-> 2]>>}

Published ==
  /\ bus = <<>> /\ UNCHANGED <<memoryRows, hand, asks>>
  /\ bus' \in IF scene = "office" THEN {<<Completion(1), Completion(m)>> : m \in 1..2}
              ELSE Histories

MemoryFrom(row, adopted, passed, mission) ==
  /\ meeting \in [status : {"open"}, rule : Rules, minutes : {"none"}]
  /\ present = {} /\ votes = Carrying /\ accords = adopted /\ carried = passed /\ unretired = 0
  /\ floor = [m \in Motions |-> row] /\ amends = [a \in Amendments |-> NoText]
  /\ missions = [m \in Missions |-> mission] /\ appeals = <<>> /\ matches = <<>> /\ plans = <<>>
  /\ hand = [h \in Hands |-> Idle] /\ asks = 0 /\ bus = <<>>
  /\ cursor = [s \in Subscriptions |-> 1] /\ task = [s \in Subscriptions |-> Idle]
  /\ records = <<>> /\ edges = {} /\ broken = {} /\ events = <<>> /\ rsvps = {} /\ missed = {}

MCInit ==
  /\ scene \in DOMAIN MCBudget
  /\ \/ scene \notin {"record", "accords", "library", "office"} /\ MemoryInit
     \/ scene = "record" /\ MemoryFrom(Seconded, <<>>, {}, Reporting)
     \/ scene = "accords" /\ MemoryFrom(Passed, <<>>, {m1}, Ended)
     \/ /\ scene \in {"library", "office"}
        /\ MemoryFrom(Passed, <<Version("superseded"), Version("adopted")>>, {m1}, Ended)
  /\ PoolInit /\ CaseInit /\ NoticeInit /\ QueueInit /\ RosterInit /\ AccountsInit /\ TimerInit

-----------------------------------------------------------------------------
MemoryStep ==
  /\ UNCHANGED <<deskRows, coreRows>>
  /\ \/ scene \in {"floor", "accords"} /\ GovNext
          /\ UNCHANGED <<missionRows, archRows, broken, calRows, missed, readerVars>>
     \/ scene = "missions" /\ MissionNext
          /\ UNCHANGED <<govRows, carried, unretired, archRows, broken, calRows, missed, readerVars>>
     \/ scene = "record" /\ MemoryNext
     \/ scene = "series" /\ (\E x \in MCSeries : CreateEvent(x))
          /\ UNCHANGED <<govRows, carried, unretired, missionRows, archRows, broken>>
     \/ scene = "library" /\ KeepRecords
     \/ scene = "office" /\ KeepCalendar
     \/ scene \in {"library", "office"} /\ Published

DeskStep ==
  /\ UNCHANGED <<memoryRows, coreRows>>
  /\ \/ scene = "gear" /\ PoolNext /\ UNCHANGED <<cases, waiting, ledger, pass, unlogged, notices, receipts>>
     \/ scene = "circle" /\ CaseNext /\ UNCHANGED <<poolRows, notices, receipts>>
     \/ scene = "notices" /\ NoticeNext /\ UNCHANGED <<poolRows, cases, waiting, ledger, pass, unlogged>>

CoreStep ==
  /\ UNCHANGED <<memoryRows, deskRows>>
  /\ \/ scene = "offline" /\ QueueNext /\ UNCHANGED <<hostVars, rosterRows, accountRows, timerRows>>
     \/ scene = "roster" /\ RosterNext /\ UNCHANGED <<queueVars, accountRows, timerRows>>
     \/ scene = "accounts" /\ AccountsNext /\ UNCHANGED <<queueVars, rosterRows, timerRows>>
     \/ scene = "timer" /\ TimerNext /\ UNCHANGED <<queueVars, rosterRows, accountRows>>

MCNext == (MemoryStep \/ DeskStep \/ CoreStep) /\ Within

MCSpec == MCInit /\ [][MCNext]_troopVars

MCSymmetry == Permutations(Hands)
=============================================================================
