----------------------------- MODULE Governance -----------------------------
(***************************************************************************)
(* Motions, votes, amendments, quorum and the Accords                      *)
(* (plugins/governance/src/lib.rs).  Every handler reads the motion, checks *)
(* its stage, and writes by id alone: what stands between two handlers is  *)
(* the unique index on votes, the unique version, and nothing else.        *)
(***************************************************************************)
EXTENDS PluginHost

CONSTANTS
  Motions, Amendments, Members,
  Rules,         \* quorum rules a meeting may be given: [basis, expected, fixed]
  Thresholds,    \* thresholds motions may ask for
  MaxVersions    \* bound: Accords versions

VARIABLES
  meeting,   \* the meeting: its status, its quorum rule, the state of its minutes
  present,   \* members recorded present at it
  floor,     \* governance.motions: NoRow, or the motion's row
  amends,    \* governance.amendments
  votes,     \* governance.votes: a sequence, as the table holds what was inserted
  accords,   \* governance.accords_versions, by version
  carried,   \* history: motions a close has recorded as passed
  unretired  \* history: adoptions that died before superseding the others

govRows == <<meeting, present, floor, amends, votes, accords>>
govVars == <<govRows, carried, unretired, hostVars>>

NoRow   == [stage |-> "none"]
NoText  == [status |-> "none"]
Main    == "motion"                 \* COALESCE(amendment_id, 0)
Stances == {"yes", "no", "abstain"}
Open    == {"seconded", "debate", "voting"}
Alive   == {"proposed"} \cup Open
Bodies  == {"congress", "tc"}

GovInit ==
  /\ HostInit
  /\ meeting \in [status : {"scheduled"}, rule : Rules, minutes : {"none"}]
  /\ present = {} /\ votes = <<>> /\ accords = <<>> /\ carried = {} /\ unretired = 0
  /\ floor = [m \in Motions |-> NoRow] /\ amends = [a \in Amendments |-> NoText]

-----------------------------------------------------------------------------
(* Quorum and tallies.                                                     *)

\* compute_quorum: what is not configured requires nobody, and is never met.
Required(rule) ==
  CASE rule.basis = "one_third_registered" /\ rule.expected > 0 -> (rule.expected + 2) \div 3
    [] rule.basis = "majority_members" /\ rule.expected > 0     -> rule.expected \div 2 + 1
    [] rule.basis = "fixed"                                     -> rule.fixed
    [] OTHER                                                    -> 0

QuorumMet(count, required) == required > 0 /\ count >= required

Cast(m, on)          == {i \in DOMAIN votes : votes[i].motion = m /\ votes[i].on = on}
Count(m, on, choice) == Cardinality({i \in Cast(m, on) : votes[i].choice = choice})

\* tally_votes: abstentions are recorded and not counted; an empty room
\* carries nothing.
Carries(threshold, yes, no) ==
  /\ yes + no > 0
  /\ CASE threshold = "two_thirds" -> yes * 3 >= (yes + no) * 2
       [] threshold = "unanimous"  -> no = 0
       [] OTHER                    -> yes > no

-----------------------------------------------------------------------------
(* Meetings: each handler reads the row before it updates it by id.        *)

BeginMeeting(h, step) ==
  /\ step \in {"open", "close_meeting"} => meeting.status # "closed"
  /\ Ask(h, [at |-> step]) /\ Silent
  /\ UNCHANGED <<govRows, carried, unretired>>

MeetingBecomes(h, step, row) ==
  /\ Doing(h, step) /\ meeting' = row /\ Answer(h) /\ Silent
  /\ UNCHANGED <<present, floor, amends, votes, accords, carried, unretired>>

OpenMeeting(h)  == MeetingBecomes(h, "open", [meeting EXCEPT !.status = "open"])
CloseMeeting(h) == MeetingBecomes(h, "close_meeting", [meeting EXCEPT !.status = "closed"])
DraftMinutes(h) == MeetingBecomes(h, "draft", [meeting EXCEPT !.minutes = "draft"])
AdoptMinutes(h) == MeetingBecomes(h, "adopt_minutes", [meeting EXCEPT !.minutes = "adopted"])

\* One statement each: the quorum rule, and a member's attendance.
EditMeeting(rule) ==
  /\ AskOnce /\ Silent /\ meeting' = [meeting EXCEPT !.rule = rule]
  /\ UNCHANGED <<present, floor, amends, votes, accords, carried, unretired>>

MarkAttendance(who, here) ==
  /\ AskOnce /\ Silent
  /\ present' = IF here THEN present \cup {who} ELSE present \ {who}
  /\ UNCHANGED <<meeting, floor, amends, votes, accords, carried, unretired>>

-----------------------------------------------------------------------------
(* Motions.                                                                *)

ProposeMotion(h, m, who, body, met, threshold) ==
  /\ floor[m] = NoRow /\ Ask(h, [at |-> "proposed", motion |-> m]) /\ Silent
  /\ floor' = [floor EXCEPT ![m] =
       [stage |-> "proposed", by |-> who, second |-> "nobody", body |-> body, met |-> met,
        threshold |-> threshold, result |-> "pending", yes |-> 0, no |-> 0, text |-> {}]]
  /\ UNCHANGED <<meeting, present, amends, votes, accords, carried, unretired>>

\* A motion is on the floor before anybody is told.
AnnounceProposal(h) ==
  /\ Doing(h, "proposed") /\ Answer(h)
  /\ Publish([type |-> "motion.proposed", motion |-> hand[h].motion])
  /\ UNCHANGED <<govRows, carried, unretired>>

\* fetch_motion and require_motion_stage.
Begin(h, step, m, stages, read) ==
  /\ floor[m].stage \in stages
  /\ Ask(h, Knowing(read, [at |-> step, motion |-> m])) /\ Silent
  /\ UNCHANGED <<govRows, carried, unretired>>

\* require_present: a motion of no meeting is open to anybody who may vote.
Admit(h, step, next) ==
  /\ Proceed(h, step, floor[hand[h].motion].met => hand[h].who \in present, next) /\ Silent
  /\ UNCHANGED <<govRows, carried, unretired>>

\* The write of a handler that moves a motion: by id, whatever it is by now.
MotionBecomes(h, step, row) ==
  /\ Doing(h, step) /\ floor' = [floor EXCEPT ![hand[h].motion] = row] /\ Answer(h) /\ Silent
  /\ UNCHANGED <<meeting, present, amends, votes, accords, carried, unretired>>

Motion(h) == floor[hand[h].motion]

BeginSecond(h, m, who) ==
  /\ floor[m].stage = "proposed" => floor[m].by # who
  /\ Begin(h, "second_room", m, {"proposed"}, [who |-> who])

Second(h) ==
  MotionBecomes(h, "second", [Motion(h) EXCEPT !.stage = "seconded", !.second = hand[h].who])

BeginDebate(h, m, step) ==
  Begin(h, step, m, IF step = "debate_opens" THEN {"seconded"} ELSE {"debate"}, <<>>)
OpenDebate(h)  == MotionBecomes(h, "debate_opens", [Motion(h) EXCEPT !.stage = "debate"])
CloseDebate(h) == MotionBecomes(h, "debate_closes", [Motion(h) EXCEPT !.stage = "voting"])

BeginWithdraw(h, m) == Begin(h, "withdraw", m, Alive, <<>>)
Withdraw(h) == MotionBecomes(h, "withdraw", [Motion(h) EXCEPT !.stage = "withdrawn"])

BeginImplement(h, m) ==
  /\ floor[m].stage = "decided" => floor[m].result = "passed"
  /\ Begin(h, "implement", m, {"decided"}, <<>>)
Implement(h) == MotionBecomes(h, "implement", [Motion(h) EXCEPT !.stage = "implemented"])

-----------------------------------------------------------------------------
(* Votes.                                                                  *)

BeginVote(h, m, who, choice) ==
  Begin(h, "vote_room", m, Open, [who |-> who, choice |-> choice, on |-> Main])

\* vote_amendment: a formal amendment that is not decided yet.
BeginAmendmentVote(h, a, who, choice) ==
  /\ amends[a].status = "proposed" /\ amends[a].kind = "formal"
  /\ Begin(h, "vote_room", amends[a].motion, Open, [who |-> who, choice |-> choice, on |-> a])

Ballot(h) == [motion |-> hand[h].motion, on |-> hand[h].on, voter |-> hand[h].who,
              choice |-> hand[h].choice]
Voted(ballot) ==
  \E i \in Cast(ballot.motion, ballot.on) : votes[i].voter = ballot.voter

\* ON CONFLICT (motion, amendment or 0, voter) DO NOTHING.
CastVote(h) ==
  /\ Doing(h, "cast") /\ Answer(h) /\ Silent
  /\ votes' = IF Voted(Ballot(h)) THEN votes ELSE Append(votes, Ballot(h))
  /\ UNCHANGED <<meeting, present, floor, amends, accords, carried, unretired>>

-----------------------------------------------------------------------------
(* close_motion: the motion, the meeting, the room, the votes, the decision. *)

BeginClose(h, m) ==
  Begin(h, IF floor[m].stage \in Open /\ floor[m].met THEN "rule" ELSE "tally", m, Open, <<>>)

ReadRule(h) ==
  /\ Doing(h, "rule") /\ Go(h, [at |-> "room", required |-> Required(meeting.rule)]) /\ Silent
  /\ UNCHANGED <<govRows, carried, unretired>>

CountRoom(h) ==
  /\ Proceed(h, "room", QuorumMet(Cardinality(present), hand[h].required), "tally") /\ Silent
  /\ UNCHANGED <<govRows, carried, unretired>>

TallyMotion(h) ==
  /\ Doing(h, "tally") /\ Silent
  /\ Go(h, [at |-> "decide", yes |-> Count(hand[h].motion, Main, "yes"),
            no |-> Count(hand[h].motion, Main, "no")])
  /\ UNCHANGED <<govRows, carried, unretired>>

Verdict(h) ==
  IF Carries(Motion(h).threshold, hand[h].yes, hand[h].no) THEN "passed" ELSE "failed"

Decide(h) ==
  LET m == hand[h].motion
  IN /\ Doing(h, "decide") /\ Silent
     /\ floor' = [floor EXCEPT ![m].stage = "decided", ![m].result = Verdict(h),
                               ![m].yes = hand[h].yes, ![m].no = hand[h].no]
     /\ carried' = IF Verdict(h) = "passed" THEN carried \cup {m} ELSE carried
     /\ Go(h, [at |-> "announce", verdict |-> Verdict(h)])
     /\ UNCHANGED <<meeting, present, amends, votes, accords, unretired>>

\* publish_motion_passed, publish_motion_failed.
Announce(h) ==
  /\ Doing(h, "announce") /\ Answer(h)
  /\ Publish([type |-> "motion.outcome", motion |-> hand[h].motion, result |-> hand[h].verdict])
  /\ UNCHANGED <<govRows, carried, unretired>>

-----------------------------------------------------------------------------
(* Amendments.                                                             *)

\* propose_amendment: fetch_motion and the stage; then the insert, of a motion
\* that may have been decided or withdrawn meanwhile.
BeginAmendment(h, m, kind) == Begin(h, "propose_amendment", m, Alive, [kind |-> kind])

InsertAmendment(h, a) ==
  /\ Doing(h, "propose_amendment") /\ amends[a] = NoText /\ Answer(h) /\ Silent
  /\ amends' = [amends EXCEPT ![a] =
                  [status |-> "proposed", kind |-> hand[h].kind, motion |-> hand[h].motion]]
  /\ UNCHANGED <<meeting, present, floor, votes, accords, carried, unretired>>

\* reject_amendment: one guarded statement.
RejectAmendment(a) ==
  /\ amends[a].status = "proposed" /\ AskOnce /\ Silent
  /\ amends' = [amends EXCEPT ![a].status = "rejected"]
  /\ UNCHANGED <<meeting, present, floor, votes, accords, carried, unretired>>

\* accept_amendment and close_amendment read the amendment and its motion,
\* the motion's text with it ...
BeginRuling(h, a) ==
  /\ amends[a].status = "proposed"
  /\ Ask(h, [motion |-> amends[a].motion, amendment |-> a, text |-> floor[amends[a].motion].text,
             at |-> IF amends[a].kind = "friendly" THEN "accept" ELSE "amendment_tally"])
  /\ Silent /\ UNCHANGED <<govRows, carried, unretired>>

\* ... the second, the votes on it ...
TallyAmendment(h) ==
  LET m == hand[h].motion
      a == hand[h].amendment
  IN /\ Doing(h, "amendment_tally") /\ Silent
     /\ Go(h, [at |-> IF Carries(Motion(h).threshold, Count(m, a, "yes"), Count(m, a, "no"))
                        THEN "accept" ELSE "decline"])
     /\ UNCHANGED <<govRows, carried, unretired>>

\* ... then write the amendment's status by id ...
Rule(h) ==
  LET a == hand[h].amendment
  IN /\ hand[h].at \in {"accept", "decline"} /\ Silent
     /\ IF Doing(h, "accept")
          THEN amends' = [amends EXCEPT ![a].status = "accepted"] /\ Go(h, [at |-> "apply"])
          ELSE amends' = [amends EXCEPT ![a].status = "rejected"] /\ Answer(h)
     /\ UNCHANGED <<meeting, present, floor, votes, accords, carried, unretired>>

\* ... and the motion's text, from the text read at the start.
ApplyAmendment(h) ==
  MotionBecomes(h, "apply", [Motion(h) EXCEPT !.text = hand[h].text \cup {hand[h].amendment}])

-----------------------------------------------------------------------------
(* Accords versions.                                                       *)

\* fetch_motion: passed, and a Congress's.  The stage is not asked for.
BeginAdopt(h, m) ==
  /\ floor[m] # NoRow
  /\ floor[m].result = "passed" /\ floor[m].body = "congress"
  /\ Ask(h, [at |-> "exists", motion |-> m]) /\ Silent
  /\ UNCHANGED <<govRows, carried, unretired>>

CheckSource(h) ==
  /\ Proceed(h, "exists", \A v \in DOMAIN accords : accords[v].motion # hand[h].motion, "insert")
  /\ Silent /\ UNCHANGED <<govRows, carried, unretired>>

\* INSERT ... MAX(version) + 1, under the unique index on version.
InsertVersion(h) ==
  /\ Doing(h, "insert") /\ Len(accords) < MaxVersions /\ Silent
  /\ accords' = Append(accords, [motion |-> hand[h].motion, status |-> "adopted"])
  /\ Go(h, [at |-> "supersede", version |-> Len(accords) + 1])
  /\ UNCHANGED <<meeting, present, floor, amends, votes, carried, unretired>>

\* Mutant: the update looks for drafts, and a version is adopted as it is inserted.
SupersedeDrafts(h) ==
  /\ Doing(h, "supersede") /\ Silent
  /\ Go(h, [at |-> "adopted"])
  /\ UNCHANGED <<meeting, present, floor, amends, votes, accords, carried, unretired>>

\* A statement of its own: every adopted version but this one.
Supersede(h) ==
  /\ Doing(h, "supersede") /\ Silent
  /\ accords' = [v \in DOMAIN accords |->
                   IF v = hand[h].version THEN accords[v]
                   ELSE [accords[v] EXCEPT !.status = "superseded"]]
  /\ Go(h, [at |-> "adopted"])
  /\ UNCHANGED <<meeting, present, floor, amends, votes, carried, unretired>>

PublishAdopted(h) ==
  /\ Doing(h, "adopted") /\ Answer(h)
  /\ Publish([type |-> "accords.adopted", version |-> hand[h].version])
  /\ UNCHANGED <<govRows, carried, unretired>>

-----------------------------------------------------------------------------
\* A statement fails, or the caller's connection takes the handler with it.
GovFail(h) ==
  /\ ~Rests(h) /\ Answer(h) /\ Silent
  /\ unretired' = IF Doing(h, "supersede") THEN unretired + 1 ELSE unretired
  /\ UNCHANGED <<govRows, carried>>

Chamber(h) ==
  \/ \E step \in {"open", "close_meeting", "draft", "adopt_minutes"} : BeginMeeting(h, step)
  \/ OpenMeeting(h) \/ CloseMeeting(h) \/ DraftMinutes(h) \/ AdoptMinutes(h)
  \/ \E m \in Motions :
       \/ \E who \in Members : BeginSecond(h, m, who)
       \/ \E who \in Members, choice \in Stances : BeginVote(h, m, who, choice)
       \/ \E step \in {"debate_opens", "debate_closes"} : BeginDebate(h, m, step)
       \/ \E who \in Members, body \in Bodies, met \in BOOLEAN, t \in Thresholds :
            ProposeMotion(h, m, who, body, met, t)
       \/ BeginWithdraw(h, m) \/ BeginImplement(h, m) \/ BeginClose(h, m) \/ BeginAdopt(h, m)
       \/ \E kind \in {"friendly", "formal"} : BeginAmendment(h, m, kind)
  \/ \E a \in Amendments :
       BeginRuling(h, a) \/ InsertAmendment(h, a)
       \/ \E who \in Members, choice \in Stances : BeginAmendmentVote(h, a, who, choice)
  \/ AnnounceProposal(h) \/ Admit(h, "second_room", "second") \/ Second(h)
  \/ OpenDebate(h) \/ CloseDebate(h) \/ Withdraw(h) \/ Implement(h)
  \/ Admit(h, "vote_room", "cast") \/ CastVote(h)
  \/ ReadRule(h) \/ CountRoom(h) \/ TallyMotion(h) \/ Decide(h) \/ Announce(h)
  \/ TallyAmendment(h) \/ Rule(h) \/ ApplyAmendment(h)
  \/ CheckSource(h) \/ InsertVersion(h) \/ Supersede(h) \/ PublishAdopted(h)
  \/ GovFail(h)

GovNext ==
  \/ \E h \in Hands : Chamber(h)
  \/ \E rule \in Rules : EditMeeting(rule)
  \/ \E who \in Members, here \in BOOLEAN : MarkAttendance(who, here)
  \/ \E a \in Amendments : RejectAmendment(a)

GovSpec == GovInit /\ [][GovNext]_govVars

-----------------------------------------------------------------------------
(* No motion gets past its proposal on its mover's word alone, however the  *)
(* handlers that move it overlap.                                          *)
SecondedByAnother ==
  \A m \in Motions : floor[m].stage \in Open \cup {"decided", "implemented"} =>
    floor[m].second \in Members \ {floor[m].by}

(* A member has one vote on a motion and one on each amendment: two of     *)
(* their requests may both have found the motion open.                     *)
OneVoteEach ==
  \A i, j \in DOMAIN votes :
    /\ votes[i].motion = votes[j].motion /\ votes[i].on = votes[j].on
    /\ votes[i].voter = votes[j].voter
    => i = j

(* The recorded outcome is the one the recorded counts give under the       *)
(* motion's threshold, and no count is of votes nobody cast.               *)
OutcomeFollowsVotes ==
  \A m \in Motions : floor[m].stage # "none" /\ floor[m].result # "pending" =>
    /\ (floor[m].result = "passed") = Carries(floor[m].threshold, floor[m].yes, floor[m].no)
    /\ floor[m].yes <= Count(m, Main, "yes") /\ floor[m].no <= Count(m, Main, "no")

(* Text enters a motion through the mover's acceptance or a vote: a        *)
(* friendly amendment in it is accepted, a formal one had a vote for it.   *)
AppliedWasCarried ==
  \A m \in Motions : floor[m].stage # "none" => \A a \in floor[m].text :
    /\ amends[a].kind = "friendly" => amends[a].status = "accepted"
    /\ amends[a].kind = "formal" => Count(m, a, "yes") > 0

(* Every version of the Accords comes from a Congress motion that a count   *)
(* of votes has carried, whatever became of the motion's row since.        *)
AccordsHaveMandate ==
  \A v \in DOMAIN accords :
    accords[v].motion \in carried /\ floor[accords[v].motion].body = "congress"

(* Once the adoptions in progress have finished, at most one version is in  *)
(* force; each that died between its two statements may leave one more.    *)
FewInForce ==
  Cardinality({v \in DOMAIN accords : accords[v].status = "adopted"})
    <= 1 + unretired + Cardinality({h \in Hands : Doing(h, "supersede")})

(* All of it, of everything on the floor.                                  *)
FloorIsInOrder ==
  /\ SecondedByAnother /\ OneVoteEach /\ OutcomeFollowsVotes
  /\ AppliedWasCarried /\ AccordsHaveMandate /\ FewInForce

(* The module's doc: that each adopted motion creates one version is a      *)
(* constraint, not a convention.  Two adoptions of one motion both pass    *)
(* the check before either inserts.                                        *)
OneVersionPerMotion ==
  \A v, w \in DOMAIN accords : accords[v].motion = accords[w].motion => v = w
=============================================================================
