------------------------------ MODULE Missions ------------------------------
(***************************************************************************)
(* A mission's life (plugins/missions/src/lib.rs): request, review,        *)
(* approval, execution, debrief, report, and the appeal of a rejection.    *)
(* Every handler reads the mission, asks for a stage, and writes by id;    *)
(* paperwork and transition are statements of their own.                   *)
(***************************************************************************)
EXTENDS PluginHost

CONSTANTS
  Missions, Mentors,
  MaxAppeals,      \* bound: appeals filed
  MaxPlans         \* bound: mentorships, and milestones

VARIABLES
  missions,  \* missions.missions
  appeals,   \* missions.mission_appeals, in id order
  matches,   \* missions.mentorships, in id order
  plans      \* missions.milestones, in id order; <<>> where one was deleted

plansVars   == <<matches, plans>>
missionRows == <<missions, appeals, plansVars>>
missionVars == <<missionRows, hostVars>>

NoMission == [stage |-> "none"]

MissionInit ==
  /\ HostInit /\ missions = [m \in Missions |-> NoMission] /\ appeals = <<>>
  /\ matches = <<>> /\ plans = <<>>

Proposed(m) == missions[m] # NoMission

ProposeMission(m) ==
  /\ ~Proposed(m) /\ AskOnce /\ Silent
  /\ missions' = [missions EXCEPT ![m] =
       [stage |-> "request", state |-> "open", edited |-> FALSE, criteria |-> FALSE,
        approver |-> "nobody", hours |-> FALSE, debriefed |-> FALSE, summary |-> FALSE,
        mentor |-> "none"]]
  /\ UNCHANGED <<appeals, plansVars>>

\* fetch_mission and require_stage.
Start(h, step, m, stages, read) ==
  /\ missions[m].stage \in stages
  /\ Ask(h, Knowing(read, [at |-> step, mission |-> m])) /\ Silent /\ UNCHANGED missionRows

Mission(h) == missions[hand[h].mission]

\* One UPDATE by id, after which the handler goes on, or answers.
Writes(h, step, row) ==
  /\ Doing(h, step) /\ Silent
  /\ missions' = [missions EXCEPT ![hand[h].mission] = row] /\ UNCHANGED <<appeals, plansVars>>
Then(h, step) == Go(h, [at |-> step])

\* transition: stage and state, whatever they are by now.
Transition(h, step, to, state) ==
  Writes(h, step, [Mission(h) EXCEPT !.stage = to, !.state = state])

Edit(h) == Writes(h, "edit_mission", [Mission(h) EXCEPT !.edited = TRUE]) /\ Answer(h)

Submit(h) == Transition(h, "submit", "review", "open") /\ Answer(h)

\* The review settles the criteria, matches the mentor it names, then advances
\* the mission or returns it.  (mentor is history: whom the last review named.)
Review(h) ==
  /\ Writes(h, "review", [Mission(h) EXCEPT !.criteria = TRUE])
  /\ Then(h, IF hand[h].mentor = "none" THEN "reviewed" ELSE "mentor")
MatchReviewed(h) ==
  /\ Doing(h, "mentor") /\ Len(matches) < MaxPlans /\ Then(h, "reviewed") /\ Silent
  /\ matches' = Append(matches, [mission |-> hand[h].mission, mentor |-> hand[h].mentor, status |-> "active"])
  /\ UNCHANGED <<missions, appeals, plans>>
Reviewed(h) ==
  /\ Writes(h, "reviewed", [Mission(h) EXCEPT !.stage = hand[h].next, !.state = "open",
                                              !.mentor = hand[h].mentor])
  /\ Answer(h)

\* One statement decides; the stage is asked for, the state is not.
Decision(h) ==
  /\ Writes(h, "decision", [Mission(h) EXCEPT
       !.stage = IF hand[h].approved THEN "execution" ELSE "approval",
       !.state = IF hand[h].approved THEN "open" ELSE "rejected", !.approver = "lodge"])
  /\ Answer(h)

Progress(h) == Writes(h, "progress", [Mission(h) EXCEPT !.hours = TRUE]) /\ Answer(h)

\* Mutant: the mission moves on, and then its notes are written.
DebriefAfterwards(h) ==
  Transition(h, "debrief", "debrief", "open") /\ Then(h, "debriefed")

Debrief(h)   == Writes(h, "debrief", [Mission(h) EXCEPT !.debriefed = TRUE]) /\ Then(h, "debriefed")
Debriefed(h) == Transition(h, "debriefed", "debrief", "open") /\ Answer(h)

Report(h)   == Writes(h, "report", [Mission(h) EXCEPT !.summary = TRUE]) /\ Then(h, "reported")
Reported(h) == Transition(h, "reported", "report", "open") /\ Answer(h)

Complete(h)   == Transition(h, "complete", "report", "completed") /\ Then(h, "publish")

\* The event carries the impact that was read before the transition; it is an
\* object with every key, never the empty one.
PublishCompleted(h) ==
  /\ Doing(h, "publish") /\ Answer(h) /\ UNCHANGED missionRows
  /\ Publish([type |-> "mission.completed", mission |-> hand[h].mission, impact |-> TRUE,
              summary |-> hand[h].summary])

-----------------------------------------------------------------------------
(* Appeals.                                                                *)

BeginAppeal(h, m) ==
  /\ Proposed(m) /\ missions[m].state = "rejected"
  /\ Ask(h, [at |-> "appeal", mission |-> m]) /\ Silent /\ UNCHANGED missionRows

Appeal(h) ==
  /\ Doing(h, "appeal") /\ Len(appeals) < MaxAppeals /\ Answer(h) /\ Silent
  /\ appeals' = Append(appeals, [mission |-> hand[h].mission, status |-> "pending"])
  /\ UNCHANGED <<missions, plansVars>>

BeginAppealDecision(h, k, outcome) ==
  /\ appeals[k].status = "pending"
  /\ Ask(h, [at |-> "rule_appeal", mission |-> appeals[k].mission, appeal |-> k, outcome |-> outcome])
  /\ Silent /\ UNCHANGED missionRows

\* By id: the appeal, and when it is overturned the mission, wherever it is.
DecideAppeal(h) ==
  /\ Doing(h, "rule_appeal") /\ Silent
  /\ appeals' = [appeals EXCEPT ![hand[h].appeal].status = hand[h].outcome]
  /\ IF hand[h].outcome = "overturned" THEN Then(h, "overturn") ELSE Answer(h)
  /\ UNCHANGED <<missions, plansVars>>

Overturn(h) ==
  /\ Writes(h, "overturn", [Mission(h) EXCEPT !.stage = "execution", !.state = "open",
                                              !.approver = "council"])
  /\ Answer(h)

-----------------------------------------------------------------------------
(* Mentors and milestones.                                                 *)

PlanStages == {"approval", "execution"}
Keep       == 101            \* no percentage given

\* match_mentor: at any stage, and whatever the mentor already carries.
BeginMatch(h, m, who) ==
  /\ Proposed(m) /\ Ask(h, [at |-> "match", mission |-> m, mentor |-> who])
  /\ Silent /\ UNCHANGED missionRows
Match(h) ==
  /\ Doing(h, "match") /\ Len(matches) < MaxPlans /\ Answer(h) /\ Silent
  /\ matches' = Append(matches, [mission |-> hand[h].mission, mentor |-> hand[h].mentor, status |-> "active"])
  /\ UNCHANGED <<missions, appeals, plans>>

\* close_mentorship: by id, a closed one too.
BeginEndMatch(h, k, status) ==
  /\ Ask(h, [at |-> "unmatch", match |-> k, status |-> status]) /\ Silent /\ UNCHANGED missionRows
EndMatch(h) ==
  /\ Doing(h, "unmatch") /\ Answer(h) /\ Silent
  /\ matches' = [matches EXCEPT ![hand[h].match].status = hand[h].status]
  /\ UNCHANGED <<missions, appeals, plans>>

AddMilestone(h) ==
  /\ Doing(h, "plan") /\ Len(plans) < MaxPlans /\ Answer(h) /\ Silent
  /\ plans' = Append(plans, [mission |-> hand[h].mission, status |-> "pending", pct |-> 0, dated |-> FALSE])
  /\ UNCHANGED <<missions, appeals, matches>>

\* A status, a percentage, or both; `done` alone is 100.
BeginMilestone(h, k, status, pct) ==
  /\ plans[k] # <<>> /\ missions[plans[k].mission].stage \in PlanStages
  /\ Ask(h, [at |-> "milestone", plan |-> k, status |-> status, pct |-> pct])
  /\ Silent /\ UNCHANGED missionRows
UpdateMilestone(h) ==
  /\ Doing(h, "milestone") /\ Answer(h) /\ Silent /\ UNCHANGED <<missions, appeals, matches>>
  /\ LET k == hand[h].plan
         p == plans[k]
         status == IF hand[h].status = "same" THEN p.status ELSE hand[h].status
         pct == IF hand[h].pct # Keep THEN hand[h].pct
                ELSE IF hand[h].status = "done" THEN 100 ELSE p.pct
     IN plans' = IF p = <<>> THEN plans
                 ELSE [plans EXCEPT ![k].status = status, ![k].pct = pct,
                                    ![k].dated = @ \/ status = "done"]

DeleteMilestone(k) ==
  /\ plans[k] # <<>> /\ plans' = [plans EXCEPT ![k] = <<>>]
  /\ AskOnce /\ Silent /\ UNCHANGED <<missions, appeals, matches>>

-----------------------------------------------------------------------------
Steps == {"edit_mission", "submit", "review", "mentor", "reviewed", "decision", "progress",
          "debrief", "debriefed", "report", "reported", "complete", "publish", "appeal",
          "rule_appeal", "overturn", "match", "unmatch", "plan", "milestone"}
MissionFails(h) == hand[h].at \in Steps /\ Answer(h) /\ Silent /\ UNCHANGED missionRows

Lodge(h) ==
  \/ \E m \in Missions :
       \/ Start(h, "edit_mission", m, {"request", "review"}, <<>>)
       \/ Start(h, "submit", m, {"request"}, <<>>)
       \/ \E next \in {"approval", "request"} : \E who \in Mentors \cup {"none"} :
            Start(h, "review", m, {"review"}, [next |-> next, mentor |-> who])
       \/ \E yes \in BOOLEAN : Start(h, "decision", m, {"approval"}, [approved |-> yes])
       \/ Start(h, "progress", m, {"execution"}, <<>>)
       \/ Start(h, "debrief", m, {"execution"}, <<>>)
       \/ Start(h, "report", m, {"debrief"}, <<>>)
       \/ Start(h, "complete", m, {"report"}, [summary |-> missions[m].summary])
       \/ BeginAppeal(h, m)
  \/ \E k \in DOMAIN appeals, o \in {"overturned", "upheld"} : BeginAppealDecision(h, k, o)
  \/ Edit(h) \/ Submit(h) \/ Review(h) \/ MatchReviewed(h) \/ Reviewed(h) \/ Decision(h) \/ Progress(h)
  \/ Debrief(h) \/ Debriefed(h) \/ Report(h) \/ Reported(h) \/ Complete(h) \/ PublishCompleted(h)
  \/ Appeal(h) \/ DecideAppeal(h) \/ Overturn(h)
  \/ MissionFails(h)

Planner(h) ==
  \/ \E m \in Missions : Start(h, "plan", m, PlanStages, <<>>) \/ \E who \in Mentors : BeginMatch(h, m, who)
  \/ \E k \in DOMAIN matches, status \in {"completed", "ended"} : BeginEndMatch(h, k, status)
  \/ \E k \in DOMAIN plans, status \in {"same", "pending", "done"}, pct \in {Keep, 40} :
       BeginMilestone(h, k, status, pct)
  \/ Match(h) \/ EndMatch(h) \/ AddMilestone(h) \/ UpdateMilestone(h)

MissionNext ==
  \/ \E m \in Missions : ProposeMission(m)
  \/ \E h \in Hands : Lodge(h) \/ Planner(h)
  \/ \E k \in DOMAIN plans : DeleteMilestone(k)

MissionSpec == MissionInit /\ [][MissionNext]_missionVars

-----------------------------------------------------------------------------
(* However handlers overlap and appeals rewind it, a mission is never at a  *)
(* stage whose paperwork is missing: criteria before approval, an approver  *)
(* before execution, notes before the debrief closes, a summary before the  *)
(* report; and what the troop is told of a completed one has its summary.   *)
PaperworkPrecedesStage ==
  /\ \A m \in Missions : LET row == missions[m] IN
       /\ row.stage \in {"approval", "execution", "debrief", "report"} => row.criteria
       /\ row.stage \in {"execution", "debrief", "report"} => row.approver # "nobody"
       /\ row.stage \in {"debrief", "report"} => row.debriefed
       /\ row.stage = "report" => row.summary
  /\ \A k \in DOMAIN bus : bus[k].type = "mission.completed" => bus[k].summary

(* A mission whose last review named a mentor has that mentorship on        *)
(* record, whichever reviews overlapped and whoever closed it since.        *)
NamedMentorsAreMatched ==
  \A m \in Missions : Proposed(m) /\ missions[m].mentor # "none" =>
    \E k \in DOMAIN matches : matches[k].mission = m /\ matches[k].mentor = missions[m].mentor

(* Both, of every mission.                                                 *)
MissionsAreDocumented == PaperworkPrecedesStage /\ NamedMentorsAreMatched

(* The module's doc ends the lifecycle at complete; an appeal that is still *)
(* pending, or a second handler, opens a completed mission again.           *)
CompletedStays ==
  [][\A m \in Missions : Proposed(m) /\ missions[m].state = "completed" =>
       missions'[m].state = "completed"]_missionVars
=============================================================================
