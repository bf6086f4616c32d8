---------------------------- MODULE Memory_proofs ----------------------------
(***************************************************************************)
(* Governance, missions, the archive and the calendar, proved.             *)
(*                                                                         *)
(* FloorInv says of every motion, amendment, vote and version what its row  *)
(* may hold, and of every handler what it may be sure of between the row   *)
(* it read and the row it writes by id.  Nothing a handler relies on can   *)
(* be taken back while it runs (FloorGrows): that is what makes the        *)
(* unlocked statements safe, and what the proof has to find.  MissionInv   *)
(* does the same for missions.  MemoryInv adds what the events on the bus, *)
(* the clerks' tasks, the records and the debriefs say of both.  ChainInv  *)
(* ties the records two by two, and the last part walks the links.         *)
(***************************************************************************)
EXTENDS Memory, TLAPS, FiniteSetTheorems, WellFoundedInduction

\* The rows of the tables.
Stages     == Alive \cup {"withdrawn", "decided", "implemented"}
MotionRows ==
  [stage : Stages, by : Members, second : Members \cup {"nobody"}, body : Bodies, met : BOOLEAN,
   threshold : Thresholds, result : {"pending", "passed", "failed"}, yes : Nat, no : Nat,
   text : SUBSET Amendments]
AmendRows  ==
  [status : {"proposed", "accepted", "rejected"}, kind : {"friendly", "formal"}, motion : Motions]
Ballots    == [motion : Motions, on : Amendments \cup {Main}, voter : Members, choice : Stances]
Versions   == [motion : Motions, status : {"adopted", "superseded"}]

HasMotion(m) == floor[m] # NoRow

FloorTyped ==
  /\ floor \in [Motions -> MotionRows \cup {NoRow}]
  /\ amends \in [Amendments -> AmendRows \cup {NoText}]
  /\ votes \in Seq(Ballots) /\ accords \in Seq(Versions)
  /\ carried \subseteq Motions /\ unretired \in Nat
  /\ hand = [h \in Hands |-> hand[h]]

\* The motion was seconded, by somebody who did not move it.
Backed(m) == floor[m].second \in Members \ {floor[m].by}

\* What a text may have in it.
Applied(m, b) ==
  /\ amends[b] # NoText
  /\ amends[b].kind = "friendly" => amends[b].status = "accepted"
  /\ amends[b].kind = "formal" => Count(m, b, "yes") > 0

\* What is so of a motion.
RowStands(m) ==
  HasMotion(m) =>
    /\ floor[m].stage \in Open \cup {"decided", "implemented"} => Backed(m)
    /\ floor[m].result = "passed" => m \in carried
    /\ floor[m].result # "pending" =>
         /\ floor[m].result = "passed" <=> Carries(floor[m].threshold, floor[m].yes, floor[m].no)
         /\ floor[m].yes <= Count(m, Main, "yes") /\ floor[m].no <= Count(m, Main, "no")
    /\ \A b \in floor[m].text : Applied(m, b)

Mandated(v) ==
  /\ accords[v].motion \in carried
  /\ HasMotion(accords[v].motion) /\ floor[accords[v].motion].body = "congress"

\* What a handler of the floor knows, by its step.
OnMotions ==
  {"proposed", "second_room", "second", "debate_opens", "debate_closes", "withdraw", "implement",
   "vote_room", "cast", "rule", "room", "tally", "decide", "announce", "accept", "decline",
   "amendment_tally", "apply", "exists", "insert", "propose_amendment"}
FloorKnows(k) ==
  /\ k.at \in OnMotions =>
       {"at", "motion"} \subseteq DOMAIN k /\ k.motion \in Motions /\ HasMotion(k.motion)
  /\ k.at \in {"second_room", "second"} =>
       "who" \in DOMAIN k /\ k.who \in Members \ {floor[k.motion].by}
  /\ k.at \in {"debate_opens", "debate_closes", "implement", "rule", "room", "tally", "decide"} =>
       Backed(k.motion)
  /\ k.at = "decide" =>
       /\ {"yes", "no"} \subseteq DOMAIN k /\ k.yes \in Nat /\ k.no \in Nat
       /\ k.yes <= Count(k.motion, Main, "yes") /\ k.no <= Count(k.motion, Main, "no")
  /\ k.at = "announce" =>
       /\ "verdict" \in DOMAIN k /\ floor[k.motion].result # "pending"
       /\ k.verdict = "passed" => k.motion \in carried
  /\ k.at \in {"vote_room", "cast"} =>
       /\ {"who", "on", "choice"} \subseteq DOMAIN k /\ k.who \in Members
       /\ k.on \in Amendments \cup {Main} /\ k.choice \in Stances
  /\ k.at = "propose_amendment" => "kind" \in DOMAIN k /\ k.kind \in {"friendly", "formal"}
  /\ k.at \in {"accept", "decline", "amendment_tally", "apply"} =>
       /\ {"amendment", "text"} \subseteq DOMAIN k
       /\ k.amendment \in Amendments /\ amends[k.amendment] # NoText
       /\ k.text \subseteq Amendments /\ \A b \in k.text : Applied(k.motion, b)
  /\ k.at \in {"decline", "amendment_tally"} => amends[k.amendment].kind = "formal"
  /\ k.at = "accept" =>
       (amends[k.amendment].kind = "formal" => Count(k.motion, k.amendment, "yes") > 0)
  /\ k.at = "apply" => Applied(k.motion, k.amendment)
  /\ k.at \in {"exists", "insert"} => k.motion \in carried /\ floor[k.motion].body = "congress"
  /\ k.at \in {"supersede", "adopted"} => "version" \in DOMAIN k /\ k.version \in DOMAIN accords

FloorInv ==
  /\ FloorTyped
  /\ \A m \in Motions : RowStands(m)
  /\ \A b \in Amendments : amends[b] # NoText => HasMotion(amends[b].motion)
  /\ OneVoteEach
  /\ \A v \in DOMAIN accords : Mandated(v)
  /\ FewInForce
  /\ \A h \in Hands : FloorKnows(hand[h])

-----------------------------------------------------------------------------
(* Counts.                                                                 *)

\* A count of votes, of any table.
CountIn(vs, m, on, c) ==
  Cardinality({i \in DOMAIN vs : vs[i].motion = m /\ vs[i].on = on /\ vs[i].choice = c})

\* It is what the tally counts.
LEMMA CountIsCountIn ==
  ASSUME NEW m, NEW on, NEW c
  PROVE  Count(m, on, c) = CountIn(votes, m, on, c) /\ Count(m, on, c)' = CountIn(votes', m, on, c)
<1>1. {i \in Cast(m, on) : votes[i].choice = c}
        = {i \in DOMAIN votes : votes[i].motion = m /\ votes[i].on = on /\ votes[i].choice = c}
  BY DEF Cast
<1>2. {i \in Cast(m, on)' : votes'[i].choice = c}
        = {i \in DOMAIN votes' : votes'[i].motion = m /\ votes'[i].on = on /\ votes'[i].choice = c}
  BY DEF Cast
<1> QED BY <1>1, <1>2 DEF Count, CountIn

\* A count is a number, and one more vote takes away from none.
LEMMA CountGrows ==
  ASSUME NEW S, NEW vs \in Seq(S), NEW m, NEW on, NEW c
  PROVE  /\ CountIn(vs, m, on, c) \in Nat
         /\ \A b \in S : /\ CountIn(Append(vs, b), m, on, c) \in Nat
                         /\ CountIn(vs, m, on, c) <= CountIn(Append(vs, b), m, on, c)
<1>1. ASSUME NEW ws \in Seq(S)
      PROVE  /\ IsFiniteSet({i \in DOMAIN ws : ws[i].motion = m /\ ws[i].on = on /\ ws[i].choice = c})
             /\ CountIn(ws, m, on, c) \in Nat
  <2>1. IsFiniteSet(1..Len(ws))
    BY <1>1, FS_Interval
  <2>2. IsFiniteSet({i \in DOMAIN ws : ws[i].motion = m /\ ws[i].on = on /\ ws[i].choice = c})
    BY <2>1, FS_Subset
  <2> QED BY <2>2, FS_CardinalityType DEF CountIn
<1>2. ASSUME NEW b \in S
      PROVE  CountIn(vs, m, on, c) <= CountIn(Append(vs, b), m, on, c)
  <2> DEFINE C(ws) == {i \in DOMAIN ws : ws[i].motion = m /\ ws[i].on = on /\ ws[i].choice = c}
  <2>1. Append(vs, b) \in Seq(S)
    OBVIOUS
  <2>2. C(vs) \in SUBSET C(Append(vs, b))
    OBVIOUS
  <2>3. IsFiniteSet(C(Append(vs, b)))
    BY <1>1, <2>1
  <2>4. Cardinality(C(vs)) <= Cardinality(C(Append(vs, b)))
    <3> HIDE DEF C
    <3> QED BY <2>2, <2>3, FS_Subset
  <2> QED BY <2>4 DEF CountIn
<1>3. \A b \in S : Append(vs, b) \in Seq(S)
  OBVIOUS
<1> QED BY <1>1, <1>2, <1>3

\* Counts are numbers.
LEMMA CountsAreNumbers ==
  ASSUME FloorTyped, NEW m, NEW on, NEW c PROVE Count(m, on, c) \in Nat
  BY CountIsCountIn, CountGrows DEF FloorTyped

\* A verdict is yes or no, and nothing carries without a vote for it.
LEMMA CarriesIsBoolean ==
  ASSUME NEW t, NEW yes \in Nat, NEW no \in Nat
  PROVE  Carries(t, yes, no) \in BOOLEAN /\ (Carries(t, yes, no) => yes > 0)
  BY DEF Carries

-----------------------------------------------------------------------------
(* What one step leaves to everybody else.                                 *)

FloorGrows ==
  /\ \A m \in Motions : HasMotion(m) =>
       /\ HasMotion(m)' /\ floor'[m].by = floor[m].by /\ floor'[m].body = floor[m].body
       /\ Backed(m) => Backed(m)'
       /\ floor[m].result # "pending" => floor'[m].result # "pending"
  /\ \A b \in Amendments : amends[b] # NoText =>
       /\ amends'[b] # NoText /\ amends'[b].kind = amends[b].kind
       /\ amends[b].kind = "friendly" /\ amends[b].status = "accepted" => amends'[b].status = "accepted"
  /\ \A m, on, c : Count(m, on, c)' \in Nat /\ Count(m, on, c) <= Count(m, on, c)'
  /\ carried \subseteq carried' /\ DOMAIN accords \subseteq DOMAIN accords'

\* What a text has in it may stay in it.
LEMMA AppliedStays ==
  ASSUME FloorTyped, FloorGrows, NEW m, NEW b \in Amendments, Applied(m, b)
  PROVE  Applied(m, b)'
<1>1. Count(m, b, "yes") \in Nat
  BY CountsAreNumbers
<1>2. Count(m, b, "yes")' \in Nat /\ Count(m, b, "yes") <= Count(m, b, "yes")'
  BY DEF FloorGrows
<1>3. /\ amends[b] # NoText /\ amends'[b] # NoText /\ amends'[b].kind = amends[b].kind
      /\ amends[b].kind = "friendly" /\ amends[b].status = "accepted" => amends'[b].status = "accepted"
  BY DEF FloorGrows, Applied
<1> QED BY <1>1, <1>2, <1>3 DEF Applied

\* What a handler knows stays so.
LEMMA FloorKnowsStays ==
  ASSUME FloorTyped, FloorGrows, NEW k, FloorKnows(k) PROVE FloorKnows(k)'
<1>1. /\ k.at \in OnMotions =>
           {"at", "motion"} \subseteq DOMAIN k /\ k.motion \in Motions /\ HasMotion(k.motion)'
      /\ k.at \in {"second_room", "second"} =>
           "who" \in DOMAIN k /\ k.who \in Members \ {floor'[k.motion].by}
      /\ k.at \in {"debate_opens", "debate_closes", "implement", "rule", "room", "tally", "decide"} =>
           Backed(k.motion)'
  BY DEF FloorKnows, FloorGrows, OnMotions
<1>2. k.at = "decide" =>
       /\ {"yes", "no"} \subseteq DOMAIN k /\ k.yes \in Nat /\ k.no \in Nat
       /\ k.yes <= Count(k.motion, Main, "yes")' /\ k.no <= Count(k.motion, Main, "no")'
  BY CountsAreNumbers DEF FloorKnows, FloorGrows
<1>3. k.at = "announce" =>
       /\ "verdict" \in DOMAIN k /\ floor'[k.motion].result # "pending"
       /\ k.verdict = "passed" => k.motion \in carried'
  BY DEF FloorKnows, FloorGrows, OnMotions
<1>4. k.at \in {"vote_room", "cast"} =>
       /\ {"who", "on", "choice"} \subseteq DOMAIN k /\ k.who \in Members
       /\ k.on \in Amendments \cup {Main} /\ k.choice \in Stances
  BY DEF FloorKnows
<1>5. k.at \in {"accept", "decline", "amendment_tally", "apply"} =>
       /\ {"amendment", "text"} \subseteq DOMAIN k
       /\ k.amendment \in Amendments /\ amends'[k.amendment] # NoText
       /\ amends'[k.amendment].kind = amends[k.amendment].kind
       /\ k.text \subseteq Amendments /\ \A b \in k.text : Applied(k.motion, b)'
  BY AppliedStays DEF FloorKnows, FloorGrows
<1>6. k.at \in {"decline", "amendment_tally"} => amends'[k.amendment].kind = "formal"
  BY <1>5 DEF FloorKnows
<1>7. k.at = "accept" =>
       (amends'[k.amendment].kind = "formal" => Count(k.motion, k.amendment, "yes")' > 0)
  BY <1>5, CountsAreNumbers DEF FloorKnows, FloorGrows
<1>8. k.at = "apply" => Applied(k.motion, k.amendment)'
  BY AppliedStays DEF FloorKnows
<1>9. k.at \in {"exists", "insert"} => k.motion \in carried' /\ floor'[k.motion].body = "congress"
  BY DEF FloorKnows, FloorGrows, OnMotions
<1>10. k.at \in {"supersede", "adopted"} => "version" \in DOMAIN k /\ k.version \in DOMAIN accords'
  BY DEF FloorKnows, FloorGrows
<1>11. k.at = "propose_amendment" => "kind" \in DOMAIN k /\ k.kind \in {"friendly", "formal"}
  BY DEF FloorKnows
<1> QED BY <1>1, <1>2, <1>3, <1>4, <1>5, <1>6, <1>7, <1>8, <1>9, <1>10, <1>11 DEF FloorKnows

\* A step that leaves the tables alone takes no count away.
LEMMA SameTables ==
  ASSUME FloorTyped, UNCHANGED <<floor, amends, votes, accords, carried>>
  PROVE  FloorGrows /\ \A m, on, c : Count(m, on, c)' = Count(m, on, c)
<1>1. \A m, on, c : Count(m, on, c)' = Count(m, on, c)
  BY DEF Count, Cast
<1>2. \A m, on, c : Count(m, on, c)' \in Nat /\ Count(m, on, c) <= Count(m, on, c)'
  BY <1>1, CountsAreNumbers
<1> QED BY <1>1, <1>2 DEF FloorGrows, HasMotion, Backed

\* Whoever moves, the others know what they knew.
LEMMA EverybodyKnows ==
  ASSUME FloorInv, FloorGrows, NEW h \in Hands, NEW k, hand' = [hand EXCEPT ![h] = k],
         FloorKnows(k)'
  PROVE  \A g \in Hands : FloorKnows(hand[g])'
<1> SUFFICES ASSUME NEW g \in Hands PROVE FloorKnows(hand[g])'
  OBVIOUS
<1>1. CASE g = h
  <2>1. hand'[g] = k
    BY <1>1 DEF FloorInv, FloorTyped
  <2> QED BY <2>1 DEF FloorKnows
<1>2. CASE g # h
  <2>1. PICK j : j = hand[g]
    OBVIOUS
  <2>2. hand'[g] = j
    BY <1>2, <2>1 DEF FloorInv, FloorTyped
  <2>3. FloorKnows(j)
    BY <2>1 DEF FloorInv, FloorKnows
  <2>4. FloorKnows(j)'
    BY <2>3, FloorKnowsStays DEF FloorInv
  <2> QED BY <2>2, <2>4 DEF FloorKnows
<1> QED BY <1>1, <1>2

\* Who is between the two statements of an adoption.
LEMMA SameAdoptions ==
  ASSUME FloorTyped, NEW h \in Hands, NEW k, hand' = [hand EXCEPT ![h] = k],
         hand[h].at # "supersede", k.at # "supersede",
         FewInForce, UNCHANGED <<accords, unretired>>
  PROVE  FewInForce'
<1>1. {g \in Hands : Doing(g, "supersede")}' = {g \in Hands : Doing(g, "supersede")}
  BY DEF Doing, FloorTyped
<1> QED BY <1>1 DEF FewInForce

\* A handler that only reads, or answers.
LEMMA HandMoves ==
  ASSUME FloorInv, NEW h \in Hands, NEW k, hand' = [hand EXCEPT ![h] = k], FloorKnows(k),
         hand[h].at # "supersede", k.at # "supersede",
         UNCHANGED <<floor, amends, votes, accords, carried, unretired>>
  PROVE  FloorInv'
<1>0. FloorTyped /\ FloorGrows /\ \A m, on, c : Count(m, on, c)' = Count(m, on, c)
  BY SameTables DEF FloorInv
<1>1. FloorTyped'
  BY <1>0 DEF FloorTyped
<1>2. \A m \in Motions : RowStands(m)'
  BY <1>0 DEF FloorInv, RowStands, HasMotion, Backed, Applied
<1>3. (\A b \in Amendments : amends[b] # NoText => HasMotion(amends[b].motion))'
  BY DEF FloorInv, HasMotion
<1>4. OneVoteEach'
  BY DEF FloorInv, OneVoteEach
<1>5. (\A v \in DOMAIN accords : Mandated(v))'
  BY DEF FloorInv, Mandated, HasMotion
<1>6. FewInForce'
  BY <1>0, SameAdoptions DEF FloorInv
<1>7. FloorKnows(k)'
  BY <1>0, FloorKnowsStays
<1>8. \A g \in Hands : FloorKnows(hand[g])'
  BY <1>0, <1>7, EverybodyKnows
<1> QED BY <1>1, <1>2, <1>3, <1>4, <1>5, <1>6, <1>8 DEF FloorInv

\* Who has answered knows nothing of the floor.
LEMMA IdleKnows == FloorKnows(Idle) /\ Idle.at # "supersede"
  BY DEF FloorKnows, Idle, OnMotions

-----------------------------------------------------------------------------
(* Requests.                                                               *)

\* A request on a motion that is at one of some stages ...
LEMMA BegunOn ==
  ASSUME FloorInv, NEW h \in Hands, NEW step, NEW m \in Motions, NEW stages \in SUBSET Stages,
         NEW read, Begin(h, step, m, stages, read)
  PROVE  /\ HasMotion(m) /\ floor[m] \in MotionRows /\ floor[m].stage \in stages
         /\ hand[h] = Idle /\ UNCHANGED <<floor, amends, votes, accords, carried, unretired>>
<1>1. /\ floor[m].stage \in stages /\ hand[h] = Idle
      /\ UNCHANGED <<floor, amends, votes, accords, carried, unretired>>
  BY DEF Begin, Ask, Rests, govRows
<1>2. floor[m] # NoRow
  BY <1>1 DEF NoRow, Stages, Alive, Open
<1>3. floor[m] \in MotionRows
  BY <1>2 DEF FloorInv, FloorTyped
<1> QED BY <1>1, <1>2, <1>3 DEF HasMotion

\* ... has what it read, and the motion.
LEMMA BegunKnows ==
  ASSUME NEW h, NEW step, NEW m, NEW stages, NEW read, Begin(h, step, m, stages, read)
  PROVE  \E k : /\ hand' = [hand EXCEPT ![h] = k]
                /\ {"at", "motion"} \subseteq DOMAIN k /\ k.at = step /\ k.motion = m
                /\ \A x \in DOMAIN read :
                     x \in DOMAIN k /\ (x \notin {"at", "motion"} => k[x] = read[x])
<1>1. hand' = [hand EXCEPT ![h] = Knowing(read, [at |-> step, motion |-> m])]
  BY DEF Begin, Ask
<1>2. PICK more : more = [at |-> step, motion |-> m]
  OBVIOUS
<1>3. DOMAIN more = {"at", "motion"} /\ more.at = step /\ more.motion = m
  BY <1>2
<1>4. PICK k : k = Knowing(read, more)
  OBVIOUS
<1>5. /\ DOMAIN k = {"at", "motion"} \cup DOMAIN read /\ k.at = step /\ k.motion = m
      /\ \A x \in DOMAIN read \ {"at", "motion"} : k[x] = read[x]
  BY <1>3, <1>4 DEF Knowing
<1>6. hand' = [hand EXCEPT ![h] = k]
  BY <1>1, <1>2, <1>4
<1> QED BY <1>5, <1>6

\* Seconding.
LEMMA SecondRequests ==
  ASSUME FloorInv, NEW h \in Hands, NEW m \in Motions, NEW who \in Members, BeginSecond(h, m, who)
  PROVE  FloorInv'
<1>1. PICK read : read = [who |-> who]
  OBVIOUS
<1>2. "who" \in DOMAIN read /\ read.who = who
  BY <1>1
<1>3. PICK stages : stages = {"proposed"}
  OBVIOUS
<1>4. /\ stages \in SUBSET Stages /\ Begin(h, "second_room", m, stages, read)
      /\ who # floor[m].by
  BY <1>1, <1>3 DEF BeginSecond, Stages, Alive, Begin
<1>5. /\ HasMotion(m) /\ hand[h] = Idle
      /\ UNCHANGED <<floor, amends, votes, accords, carried, unretired>>
  BY <1>4, BegunOn
<1>6. PICK k : /\ hand' = [hand EXCEPT ![h] = k]
               /\ {"at", "motion"} \subseteq DOMAIN k /\ k.at = "second_room" /\ k.motion = m
               /\ \A x \in DOMAIN read :
                    x \in DOMAIN k /\ (x \notin {"at", "motion"} => k[x] = read[x])
  BY <1>4, BegunKnows
<1>7. "who" \in DOMAIN k /\ k.who = who
  BY <1>2, <1>6
<1>8. FloorKnows(k)
  BY <1>4, <1>5, <1>6, <1>7 DEF FloorKnows
<1> QED BY <1>5, <1>6, <1>8, IdleKnows, HandMoves

\* Proposing an amendment.
LEMMA AmendRequests ==
  ASSUME FloorInv, NEW h \in Hands, NEW m \in Motions, NEW kind \in {"friendly", "formal"},
         BeginAmendment(h, m, kind)
  PROVE  FloorInv'
<1>1. PICK read : read = [kind |-> kind]
  OBVIOUS
<1>2. "kind" \in DOMAIN read /\ read.kind = kind
  BY <1>1
<1>3. Alive \in SUBSET Stages /\ Begin(h, "propose_amendment", m, Alive, read)
  BY <1>1 DEF BeginAmendment, Stages, Alive
<1>4. /\ HasMotion(m) /\ hand[h] = Idle
      /\ UNCHANGED <<floor, amends, votes, accords, carried, unretired>>
  BY <1>3, BegunOn
<1>5. PICK k : /\ hand' = [hand EXCEPT ![h] = k]
               /\ {"at", "motion"} \subseteq DOMAIN k /\ k.at = "propose_amendment" /\ k.motion = m
               /\ \A x \in DOMAIN read :
                    x \in DOMAIN k /\ (x \notin {"at", "motion"} => k[x] = read[x])
  BY <1>3, BegunKnows
<1>6. "kind" \in DOMAIN k /\ k.kind = kind
  BY <1>2, <1>5
<1>7. FloorKnows(k)
  BY <1>4, <1>5, <1>6 DEF FloorKnows
<1> QED BY <1>4, <1>5, <1>7, IdleKnows, HandMoves

\* Debating, withdrawing, implementing and closing.
LEMMA StageRequests ==
  ASSUME FloorInv, NEW h \in Hands, NEW m \in Motions,
         NEW at \in {"debate_opens", "debate_closes", "withdraw", "implement", "rule", "tally"},
         NEW stages \in SUBSET Stages, NEW read, Begin(h, at, m, stages, read),
         at = "withdraw" \/ stages \subseteq Open \cup {"decided", "implemented"}
  PROVE  FloorInv'
<1>1. /\ HasMotion(m) /\ floor[m].stage \in stages /\ hand[h] = Idle
      /\ UNCHANGED <<floor, amends, votes, accords, carried, unretired>>
  BY BegunOn
<1>2. PICK k : /\ hand' = [hand EXCEPT ![h] = k]
               /\ {"at", "motion"} \subseteq DOMAIN k /\ k.at = at /\ k.motion = m
               /\ \A x \in DOMAIN read :
                    x \in DOMAIN k /\ (x \notin {"at", "motion"} => k[x] = read[x])
  BY BegunKnows
<1>3. at = "withdraw" \/ Backed(m)
  BY <1>1 DEF RowStands, FloorInv
<1>4. FloorKnows(k)
  BY <1>1, <1>2, <1>3 DEF FloorKnows
<1>5. k.at # "supersede"
  BY <1>2
<1> QED BY <1>1, <1>2, <1>4, <1>5, IdleKnows, HandMoves

\* The requests on a motion.
LEMMA MotionRequests ==
  ASSUME FloorInv, NEW h \in Hands, NEW m \in Motions,
         \/ \E step \in {"debate_opens", "debate_closes"} : BeginDebate(h, m, step)
         \/ BeginWithdraw(h, m) \/ BeginImplement(h, m) \/ BeginClose(h, m)
  PROVE  FloorInv'
<1>2. ASSUME NEW at \in {"debate_opens", "debate_closes", "withdraw", "implement", "rule", "tally"},
             NEW stages \in SUBSET Stages, NEW read, Begin(h, at, m, stages, read),
             at = "withdraw" \/ stages \subseteq Open \cup {"decided", "implemented"}
      PROVE  FloorInv'
  BY <1>2, StageRequests
<1>3. ASSUME NEW step \in {"debate_opens", "debate_closes"}, BeginDebate(h, m, step) PROVE FloorInv'
  <2>1. Begin(h, step, m, IF step = "debate_opens" THEN {"seconded"} ELSE {"debate"}, <<>>)
    BY <1>3 DEF BeginDebate
  <2> QED BY <1>2, <2>1 DEF Stages, Alive, Open
<1>4. CASE BeginWithdraw(h, m)
  <2>1. Begin(h, "withdraw", m, Alive, <<>>)
    BY <1>4 DEF BeginWithdraw
  <2> QED BY <1>2, <2>1 DEF Stages
<1>5. CASE BeginImplement(h, m)
  <2>1. Begin(h, "implement", m, {"decided"}, <<>>)
    BY <1>5 DEF BeginImplement
  <2> QED BY <1>2, <2>1 DEF Stages
<1>6. CASE BeginClose(h, m)
  <2>1. PICK at \in {"rule", "tally"} : Begin(h, at, m, Open, <<>>)
    BY <1>6 DEF BeginClose
  <2> QED BY <1>2, <2>1 DEF Stages, Alive
<1> QED BY <1>3, <1>4, <1>5, <1>6

\* Voting, on a motion or on a formal amendment.
LEMMA VoteRequests ==
  ASSUME FloorInv, NEW h \in Hands, NEW who \in Members, NEW choice \in Stances,
         NEW m \in Motions, NEW on \in Amendments \cup {Main},
         Begin(h, "vote_room", m, Open, [who |-> who, choice |-> choice, on |-> on])
  PROVE  FloorInv'
<1>1. PICK read : read = [who |-> who, choice |-> choice, on |-> on]
  OBVIOUS
<1>2. /\ {"who", "choice", "on"} \subseteq DOMAIN read
      /\ read.who = who /\ read.choice = choice /\ read.on = on
  BY <1>1
<1>3. Open \in SUBSET Stages /\ Begin(h, "vote_room", m, Open, read)
  BY <1>1 DEF Stages, Alive
<1>4. /\ HasMotion(m) /\ hand[h] = Idle
      /\ UNCHANGED <<floor, amends, votes, accords, carried, unretired>>
  BY <1>3, BegunOn
<1>5. PICK k : /\ hand' = [hand EXCEPT ![h] = k]
               /\ {"at", "motion"} \subseteq DOMAIN k /\ k.at = "vote_room" /\ k.motion = m
               /\ \A x \in DOMAIN read :
                    x \in DOMAIN k /\ (x \notin {"at", "motion"} => k[x] = read[x])
  BY <1>3, BegunKnows
<1>6. {"who", "choice", "on"} \subseteq DOMAIN k /\ k.who = who /\ k.choice = choice /\ k.on = on
  BY <1>2, <1>5
<1>7. FloorKnows(k)
  BY <1>4, <1>5, <1>6 DEF FloorKnows
<1> QED BY <1>4, <1>5, <1>7, IdleKnows, HandMoves

\* Ruling on an amendment, adopting, and the meetings.
LEMMA OtherRequests ==
  ASSUME FloorInv, NEW h \in Hands,
         \/ \E b \in Amendments : BeginRuling(h, b)
         \/ \E m \in Motions : BeginAdopt(h, m)
         \/ \E step \in {"open", "close_meeting", "draft", "adopt_minutes"} : BeginMeeting(h, step)
  PROVE  FloorInv'
<1>1. ASSUME NEW b \in Amendments, BeginRuling(h, b) PROVE FloorInv'
  <2>1. amends[b] # NoText
    BY <1>1 DEF BeginRuling, NoText
  <2>2. amends[b] \in AmendRows
    BY <2>1 DEF FloorInv, FloorTyped
  <2>3. PICK m \in Motions : m = amends[b].motion
    BY <2>2 DEF AmendRows
  <2>4. HasMotion(m) /\ RowStands(m)
    BY <2>1, <2>3 DEF FloorInv
  <2>5. floor[m] \in MotionRows
    BY <2>4 DEF FloorInv, FloorTyped, HasMotion
  <2>6. floor[m].text \subseteq Amendments /\ \A a \in floor[m].text : Applied(m, a)
    BY <2>4, <2>5 DEF RowStands, MotionRows
  <2>7. PICK at : at = IF amends[b].kind = "friendly" THEN "accept" ELSE "amendment_tally"
    OBVIOUS
  <2>8. /\ at \in {"accept", "amendment_tally"} /\ (at = "accept" => amends[b].kind = "friendly")
        /\ at = "amendment_tally" => amends[b].kind = "formal"
    BY <2>2, <2>7 DEF AmendRows
  <2>9. PICK k : k = [motion |-> m, amendment |-> b, text |-> floor[m].text, at |-> at]
    OBVIOUS
  <2>10. /\ {"at", "motion", "amendment", "text"} \subseteq DOMAIN k /\ k.at = at /\ k.motion = m
         /\ k.amendment = b /\ k.text = floor[m].text
    BY <2>9
  <2>11. /\ hand' = [hand EXCEPT ![h] = k] /\ hand[h] = Idle
         /\ UNCHANGED <<floor, amends, votes, accords, carried, unretired>>
    BY <1>1, <2>3, <2>7, <2>9 DEF BeginRuling, Ask, Rests, govRows
  <2>12. FloorKnows(k)
    BY <2>1, <2>4, <2>6, <2>8, <2>10 DEF FloorKnows
  <2>13. k.at # "supersede"
    BY <2>8, <2>10
  <2> QED BY <2>11, <2>12, <2>13, IdleKnows, HandMoves
<1>2. ASSUME NEW m \in Motions, BeginAdopt(h, m) PROVE FloorInv'
  <2>1. /\ HasMotion(m) /\ floor[m].result = "passed" /\ floor[m].body = "congress"
    BY <1>2 DEF BeginAdopt, HasMotion
  <2>2. m \in carried
    BY <2>1 DEF FloorInv, RowStands
  <2>3. PICK k : k = [at |-> "exists", motion |-> m]
    OBVIOUS
  <2>4. {"at", "motion"} \subseteq DOMAIN k /\ k.at = "exists" /\ k.motion = m
    BY <2>3
  <2>5. /\ hand' = [hand EXCEPT ![h] = k] /\ hand[h] = Idle
        /\ UNCHANGED <<floor, amends, votes, accords, carried, unretired>>
    BY <1>2, <2>3 DEF BeginAdopt, Ask, Rests, govRows
  <2>6. FloorKnows(k)
    BY <2>1, <2>2, <2>4 DEF FloorKnows
  <2> QED BY <2>4, <2>5, <2>6, IdleKnows, HandMoves
<1>3. ASSUME NEW step \in {"open", "close_meeting", "draft", "adopt_minutes"}, BeginMeeting(h, step)
      PROVE  FloorInv'
  <2>1. PICK k : k = [at |-> step]
    OBVIOUS
  <2>2. k.at = step
    BY <2>1
  <2>3. /\ hand' = [hand EXCEPT ![h] = k] /\ hand[h] = Idle
        /\ UNCHANGED <<floor, amends, votes, accords, carried, unretired>>
    BY <1>3, <2>1 DEF BeginMeeting, Ask, Rests, govRows
  <2>4. FloorKnows(k) /\ k.at # "supersede"
    BY <2>2 DEF FloorKnows, OnMotions
  <2> QED BY <2>3, <2>4, IdleKnows, HandMoves
<1> QED BY <1>1, <1>2, <1>3

-----------------------------------------------------------------------------
(* The statements that only read.                                          *)

\* What a handler has once it has read more.
Learnt(k, known, more) ==
  /\ DOMAIN k = DOMAIN more \cup DOMAIN known
  /\ \A x \in DOMAIN more : k[x] = more[x]
  /\ \A x \in DOMAIN known \ DOMAIN more : k[x] = known[x]

\* On to the next statement, with what has been read.
LEMMA GoesOn ==
  ASSUME NEW h, NEW more, Go(h, more)
  PROVE  \E k : hand' = [hand EXCEPT ![h] = k] /\ Learnt(k, hand[h], more)
<1>1. hand' = [hand EXCEPT ![h] = Knowing(hand[h], more)]
  BY DEF Go
<1>2. PICK k : k = Knowing(hand[h], more)
  OBVIOUS
<1>3. Learnt(k, hand[h], more)
  BY <1>2 DEF Knowing, Learnt
<1>4. hand' = [hand EXCEPT ![h] = k]
  BY <1>1, <1>2
<1> QED BY <1>3, <1>4

\* A handler that goes on keeps what it has, but for its step.
Keeps(k, known, next) ==
  /\ DOMAIN k = {"at"} \cup DOMAIN known /\ k.at = next
  /\ \A x \in DOMAIN known : x # "at" => k[x] = known[x]

\* That is what going on means.
LEMMA GoesAlong ==
  ASSUME NEW h, NEW next, Go(h, [at |-> next])
  PROVE  \E k : hand' = [hand EXCEPT ![h] = k] /\ Keeps(k, hand[h], next)
<1>1. PICK more : more = [at |-> next]
  OBVIOUS
<1>2. DOMAIN more = {"at"} /\ more.at = next /\ Go(h, more)
  BY <1>1
<1>3. PICK k : hand' = [hand EXCEPT ![h] = k] /\ Learnt(k, hand[h], more)
  BY <1>2, GoesOn
<1>4. Keeps(k, hand[h], next)
  BY <1>2, <1>3 DEF Learnt, Keeps
<1> QED BY <1>3, <1>4

\* The response.
LEMMA Answering ==
  ASSUME FloorInv, NEW h \in Hands, Answer(h), hand[h].at # "supersede",
         UNCHANGED <<floor, amends, votes, accords, carried, unretired>>
  PROVE  FloorInv'
<1>1. hand' = [hand EXCEPT ![h] = Idle]
  BY DEF Answer
<1>2. PICK k : k = Idle
  OBVIOUS
<1>3. FloorKnows(k) /\ k.at # "supersede"
  BY <1>2, IdleKnows
<1> QED BY <1>1, <1>2, <1>3, HandMoves

\* The room, and whether the motion is adopted already.
LEMMA LookSteps ==
  ASSUME FloorInv, NEW h \in Hands,
         \/ Admit(h, "second_room", "second") \/ Admit(h, "vote_room", "cast")
         \/ CountRoom(h) \/ CheckSource(h)
  PROVE  FloorInv'
<1>1. PICK at, next :
        /\ \/ at = "second_room" /\ next = "second"
           \/ at = "vote_room" /\ next = "cast"
           \/ at = "room" /\ next = "tally"
           \/ at = "exists" /\ next = "insert"
        /\ hand[h].at = at /\ (Go(h, [at |-> next]) \/ Answer(h))
        /\ UNCHANGED <<floor, amends, votes, accords, carried, unretired>>
  BY DEF Admit, CountRoom, CheckSource, Proceed, Doing, govRows
<1>2. CASE Answer(h)
  BY <1>1, <1>2, Answering
<1>3. CASE Go(h, [at |-> next])
  <2>1. PICK k : /\ hand' = [hand EXCEPT ![h] = k] /\ DOMAIN k = {"at"} \cup DOMAIN hand[h]
                 /\ k.at = next /\ \A x \in DOMAIN hand[h] : x # "at" => k[x] = hand[h][x]
    <3>1. PICK more : more = [at |-> next]
      OBVIOUS
    <3>2. Go(h, more) /\ DOMAIN more = {"at"} /\ more.at = next
      BY <1>3, <3>1
    <3>3. PICK k : hand' = [hand EXCEPT ![h] = k] /\ Learnt(k, hand[h], more)
      BY <3>2, GoesOn
    <3> QED BY <3>2, <3>3 DEF Learnt
  <2>2. PICK j : j = hand[h]
    OBVIOUS
  <2>3. FloorKnows(j) /\ j.at = at
    BY <1>1, <2>2 DEF FloorInv
  <2>4. {"at", "motion"} \subseteq DOMAIN j /\ j.motion \in Motions /\ HasMotion(j.motion)
    BY <1>1, <2>3 DEF FloorKnows, OnMotions
  <2>5. {"at", "motion"} \subseteq DOMAIN k /\ k.motion = j.motion
    BY <2>1, <2>2, <2>4
  <2>6. ASSUME next = "second" PROVE FloorKnows(k)
    <3>0. k.at = "second" /\ j.at = at
      BY <2>1, <2>3, <2>6
    <3>1. "who" \in DOMAIN j /\ j.who \in Members \ {floor[j.motion].by}
      BY <1>1, <2>3, <2>6 DEF FloorKnows
    <3>2. "who" \in DOMAIN k /\ k.who = j.who
      BY <2>1, <2>2, <3>1
    <3> QED BY <2>4, <2>5, <3>0, <3>1, <3>2 DEF FloorKnows
  <2>7. ASSUME next = "cast" PROVE FloorKnows(k)
    <3>0. k.at = "cast" /\ j.at = at
      BY <2>1, <2>3, <2>7
    <3>1. /\ {"who", "on", "choice"} \subseteq DOMAIN j /\ j.who \in Members
          /\ j.on \in Amendments \cup {Main} /\ j.choice \in Stances
      BY <1>1, <2>3, <2>7 DEF FloorKnows
    <3>2. {"who", "on", "choice"} \subseteq DOMAIN k
          /\ k.who = j.who /\ k.on = j.on /\ k.choice = j.choice
      BY <2>1, <2>2, <3>1
    <3> QED BY <2>4, <2>5, <3>0, <3>1, <3>2 DEF FloorKnows
  <2>8. ASSUME next = "tally" PROVE FloorKnows(k)
    <3>0. k.at = "tally" /\ j.at = at
      BY <2>1, <2>3, <2>8
    <3>1. Backed(j.motion)
      BY <1>1, <2>3, <2>8 DEF FloorKnows
    <3> QED BY <2>4, <2>5, <3>0, <3>1 DEF FloorKnows
  <2>9. ASSUME next = "insert" PROVE FloorKnows(k)
    <3>0. k.at = "insert" /\ j.at = at
      BY <2>1, <2>3, <2>9
    <3>1. j.motion \in carried /\ floor[j.motion].body = "congress"
      BY <1>1, <2>3, <2>9 DEF FloorKnows
    <3> QED BY <2>4, <2>5, <3>0, <3>1 DEF FloorKnows
  <2>10. FloorKnows(k) /\ k.at # "supersede" /\ hand[h].at # "supersede"
    <3>1. \/ next = "second" \/ next = "cast" \/ next = "tally" \/ next = "insert"
      BY <1>1
    <3>2. FloorKnows(k)
      BY <2>6, <2>7, <2>8, <2>9, <3>1
    <3> QED BY <1>1, <2>1, <3>1, <3>2
  <2> QED BY <1>1, <2>1, <2>10, HandMoves
<1> QED BY <1>1, <1>2, <1>3

\* The quorum a meeting's rule requires.
LEMMA RuleStep == ASSUME FloorInv, NEW h \in Hands, ReadRule(h) PROVE FloorInv'
<1>1. PICK more : more = [at |-> "room", required |-> Required(meeting.rule)]
  OBVIOUS
<1>2. /\ Go(h, more) /\ DOMAIN more = {"at", "required"} /\ more.at = "room" /\ hand[h].at = "rule"
      /\ UNCHANGED <<floor, amends, votes, accords, carried, unretired>>
  BY <1>1 DEF ReadRule, Doing, govRows
<1>3. PICK k : hand' = [hand EXCEPT ![h] = k] /\ Learnt(k, hand[h], more)
  BY <1>2, GoesOn
<1>4. PICK j : j = hand[h]
  OBVIOUS
<1>5. FloorKnows(j) /\ j.at = "rule"
  BY <1>2, <1>4 DEF FloorInv
<1>6. {"at", "motion"} \subseteq DOMAIN j /\ j.motion \in Motions /\ HasMotion(j.motion) /\ Backed(j.motion)
  BY <1>5 DEF FloorKnows, OnMotions
<1>7. {"at", "motion"} \subseteq DOMAIN k /\ k.motion = j.motion /\ k.at = "room"
  BY <1>2, <1>3, <1>4, <1>6 DEF Learnt
<1>8. FloorKnows(k)
  BY <1>6, <1>7 DEF FloorKnows
<1> QED BY <1>2, <1>3, <1>7, <1>8, HandMoves

\* The votes on the motion.
LEMMA TallyStep == ASSUME FloorInv, NEW h \in Hands, TallyMotion(h) PROVE FloorInv'
<1>1. PICK j : j = hand[h]
  OBVIOUS
<1>2. PICK yes, no : yes = Count(j.motion, Main, "yes") /\ no = Count(j.motion, Main, "no")
  OBVIOUS
<1>3. PICK more : more = [at |-> "decide", yes |-> yes, no |-> no]
  OBVIOUS
<1>4. /\ Go(h, more) /\ DOMAIN more = {"at", "yes", "no"} /\ more.at = "decide" /\ j.at = "tally"
      /\ more.yes = yes /\ more.no = no
      /\ UNCHANGED <<floor, amends, votes, accords, carried, unretired>>
  BY <1>1, <1>2, <1>3 DEF TallyMotion, Doing, govRows
<1>5. PICK k : hand' = [hand EXCEPT ![h] = k] /\ Learnt(k, hand[h], more)
  BY <1>4, GoesOn
<1>6. FloorKnows(j)
  BY <1>1 DEF FloorInv
<1>7. {"at", "motion"} \subseteq DOMAIN j /\ j.motion \in Motions /\ HasMotion(j.motion) /\ Backed(j.motion)
  BY <1>4, <1>6 DEF FloorKnows, OnMotions
<1>8. /\ {"at", "motion", "yes", "no"} \subseteq DOMAIN k /\ k.motion = j.motion /\ k.at = "decide"
      /\ k.yes = yes /\ k.no = no
  BY <1>1, <1>4, <1>5, <1>7 DEF Learnt
<1>9. yes \in Nat /\ no \in Nat
  BY <1>2, CountsAreNumbers DEF FloorInv
<1>10. k.yes <= Count(j.motion, Main, "yes") /\ k.no <= Count(j.motion, Main, "no")
  BY <1>2, <1>8, <1>9
<1>11. FloorKnows(k)
  BY <1>7, <1>8, <1>9, <1>10 DEF FloorKnows
<1> QED BY <1>1, <1>4, <1>5, <1>8, <1>11, HandMoves

\* The votes on an amendment.
LEMMA AmendmentTallyStep == ASSUME FloorInv, NEW h \in Hands, TallyAmendment(h) PROVE FloorInv'
<1>1. PICK j : j = hand[h]
  OBVIOUS
<1>2. PICK yes, no : yes = Count(j.motion, j.amendment, "yes") /\ no = Count(j.motion, j.amendment, "no")
  OBVIOUS
<1>3. PICK t : t = floor[j.motion].threshold
  OBVIOUS
<1>4. PICK at : at = IF Carries(t, yes, no) THEN "accept" ELSE "decline"
  OBVIOUS
<1>5. PICK more : more = [at |-> at]
  OBVIOUS
<1>6. yes \in Nat /\ no \in Nat
  BY <1>2, CountsAreNumbers DEF FloorInv
<1>7. (at = "accept" /\ yes > 0) \/ at = "decline"
  BY <1>4, <1>6, CarriesIsBoolean
<1>8. /\ Go(h, more) /\ DOMAIN more = {"at"} /\ more.at = at /\ j.at = "amendment_tally"
      /\ UNCHANGED <<floor, amends, votes, accords, carried, unretired>>
  BY <1>1, <1>2, <1>3, <1>4, <1>5 DEF TallyAmendment, Doing, govRows, Motion
<1>9. PICK k : hand' = [hand EXCEPT ![h] = k] /\ Learnt(k, hand[h], more)
  BY <1>8, GoesOn
<1>10. FloorKnows(j)
  BY <1>1 DEF FloorInv
<1>11. {"at", "motion"} \subseteq DOMAIN j /\ j.motion \in Motions /\ HasMotion(j.motion)
  BY <1>8, <1>10 DEF FloorKnows, OnMotions
<1>12. /\ {"amendment", "text"} \subseteq DOMAIN j
       /\ j.amendment \in Amendments /\ amends[j.amendment] # NoText
       /\ j.text \subseteq Amendments /\ \A b \in j.text : Applied(j.motion, b)
       /\ amends[j.amendment].kind = "formal"
  BY <1>8, <1>10 DEF FloorKnows
<1>13. /\ {"at", "motion", "amendment", "text"} \subseteq DOMAIN k
       /\ k.motion = j.motion /\ k.amendment = j.amendment /\ k.text = j.text /\ k.at = at
  BY <1>1, <1>8, <1>9, <1>11, <1>12 DEF Learnt
<1>14. at = "accept" => Count(k.motion, k.amendment, "yes") > 0
  BY <1>2, <1>7, <1>13
<1>15. FloorKnows(k)
  BY <1>7, <1>11, <1>12, <1>13, <1>14 DEF FloorKnows
<1>16. k.at # "supersede"
  BY <1>7, <1>13
<1> QED BY <1>1, <1>8, <1>9, <1>15, <1>16, HandMoves

\* The meetings and the events.
LEMMA QuietSteps ==
  ASSUME FloorInv, NEW h \in Hands,
         \/ OpenMeeting(h) \/ CloseMeeting(h) \/ DraftMinutes(h) \/ AdoptMinutes(h)
         \/ AnnounceProposal(h) \/ Announce(h) \/ PublishAdopted(h)
  PROVE  FloorInv'
<1>1. /\ hand[h].at \in {"open", "close_meeting", "draft", "adopt_minutes", "proposed", "announce", "adopted"}
      /\ Answer(h) /\ UNCHANGED <<floor, amends, votes, accords, carried, unretired>>
  BY DEF OpenMeeting, CloseMeeting, DraftMinutes, AdoptMinutes, MeetingBecomes,
         AnnounceProposal, Announce, PublishAdopted, Doing, govRows
<1> QED BY <1>1, Answering

-----------------------------------------------------------------------------
(* The statements that move a motion.                                      *)

\* A motion's row is written, whatever its handler then does.
LEMMA FloorWrite ==
  ASSUME FloorInv, NEW h \in Hands, NEW k, hand' = [hand EXCEPT ![h] = k],
         NEW m \in Motions, HasMotion(m), NEW row \in MotionRows, floor' = [floor EXCEPT ![m] = row],
         row.by = floor[m].by, row.body = floor[m].body,
         Backed(m) => row.second \in Members \ {row.by},
         floor[m].result # "pending" => row.result # "pending",
         UNCHANGED <<amends, votes, accords, unretired>>,
         carried \subseteq carried', carried' \subseteq Motions,
         RowStands(m)', FloorKnows(k)', hand[h].at # "supersede", k.at # "supersede"
  PROVE  FloorInv'
<1>1. /\ floor'[m] = row /\ floor'[m] # NoRow /\ FloorTyped
      /\ \A o \in Motions : o # m => floor'[o] = floor[o]
  BY DEF FloorInv, FloorTyped, MotionRows, NoRow, Stages, Alive, Open
<1>2. FloorTyped'
  BY DEF FloorInv, FloorTyped
<1>3. \A o, on, c : Count(o, on, c)' = Count(o, on, c) /\ Count(o, on, c) \in Nat
  <2>1. \A o, on, c : Count(o, on, c)' = Count(o, on, c)
    BY DEF Count, Cast
  <2> QED BY <1>1, <2>1, CountsAreNumbers
<1>4. FloorGrows
  BY <1>1, <1>3 DEF FloorGrows, HasMotion, Backed
<1>5. ASSUME NEW o \in Motions PROVE RowStands(o)'
  <2>1. CASE o = m
    BY <2>1
  <2>2. CASE o # m
    <3>1. RowStands(o) /\ floor'[o] = floor[o]
      BY <1>1, <2>2 DEF FloorInv
    <3> QED BY <1>3, <3>1 DEF RowStands, HasMotion, Backed, Applied
  <2> QED BY <2>1, <2>2
<1>6. (\A b \in Amendments : amends[b] # NoText => HasMotion(amends[b].motion))'
  BY <1>1, <1>4 DEF FloorInv, FloorTyped, FloorGrows, HasMotion, AmendRows
<1>7. OneVoteEach'
  BY DEF FloorInv, OneVoteEach
<1>8. (\A v \in DOMAIN accords : Mandated(v))'
  <2>1. \A v \in DOMAIN accords : accords[v].motion \in Motions /\ Mandated(v)
    <3>1. \A v \in DOMAIN accords : accords[v] \in Versions
      BY <1>1 DEF FloorTyped
    <3> QED BY <3>1 DEF FloorInv, Versions
  <2> QED BY <1>4, <2>1 DEF Mandated, FloorGrows
<1>9. FewInForce'
  BY <1>1, SameAdoptions DEF FloorInv
<1>10. \A g \in Hands : FloorKnows(hand[g])'
  BY <1>4, EverybodyKnows
<1> QED BY <1>2, <1>5, <1>6, <1>7, <1>8, <1>9, <1>10 DEF FloorInv

\* A handler that moves a motion, and answers: which motion, and what is so of it.
LEMMA Moving ==
  ASSUME FloorInv, NEW h \in Hands, NEW step \in OnMotions, NEW row, MotionBecomes(h, step, row)
  PROVE  /\ hand[h].at = step /\ hand[h].motion \in Motions /\ HasMotion(hand[h].motion)
         /\ floor[hand[h].motion] \in MotionRows /\ RowStands(hand[h].motion) /\ FloorKnows(hand[h])
         /\ floor' = [floor EXCEPT ![hand[h].motion] = row] /\ hand' = [hand EXCEPT ![h] = Idle]
         /\ UNCHANGED <<amends, votes, accords, carried, unretired>>
<1>1. /\ hand[h].at = step /\ floor' = [floor EXCEPT ![hand[h].motion] = row]
      /\ hand' = [hand EXCEPT ![h] = Idle] /\ UNCHANGED <<amends, votes, accords, carried, unretired>>
  BY DEF MotionBecomes, Doing, Answer
<1>2. FloorKnows(hand[h])
  BY DEF FloorInv
<1>3. hand[h].motion \in Motions /\ HasMotion(hand[h].motion)
  BY <1>1, <1>2 DEF FloorKnows
<1>4. floor[hand[h].motion] \in MotionRows /\ RowStands(hand[h].motion)
  BY <1>3 DEF FloorInv, FloorTyped, HasMotion
<1> QED BY <1>1, <1>2, <1>3, <1>4

\* A row with the same decision and no more text stands, if it is seconded.
LEMMA StillStands ==
  ASSUME FloorTyped, NEW m \in Motions, HasMotion(m), RowStands(m), NEW row \in MotionRows,
         floor' = [floor EXCEPT ![m] = row], UNCHANGED <<amends, votes, carried>>,
         row.result = floor[m].result, row.threshold = floor[m].threshold,
         row.yes = floor[m].yes, row.no = floor[m].no,
         \A b \in row.text : Applied(m, b),
         row.stage \in Open \cup {"decided", "implemented"} => row.second \in Members \ {row.by}
  PROVE  RowStands(m)'
<1>1. floor'[m] = row
  BY DEF FloorTyped
<1>2. \A on, c : Count(m, on, c)' = Count(m, on, c)
  BY DEF Count, Cast
<1>3. /\ row.result = "passed" => m \in carried'
      /\ row.result # "pending" =>
           /\ row.result = "passed" <=> Carries(row.threshold, row.yes, row.no)
           /\ row.yes <= Count(m, Main, "yes")' /\ row.no <= Count(m, Main, "no")'
  BY <1>2 DEF RowStands
<1>4. \A b \in row.text : Applied(m, b)'
  BY <1>2 DEF Applied
<1> QED BY <1>1, <1>3, <1>4 DEF RowStands, Backed

\* What a transition writes.
LEMMA RowMoves ==
  ASSUME NEW old \in MotionRows, NEW st \in Stages, NEW row, row = [old EXCEPT !.stage = st]
  PROVE  /\ row \in MotionRows /\ row.by = old.by /\ row.body = old.body /\ row.result = old.result
         /\ row.threshold = old.threshold /\ row.yes = old.yes /\ row.no = old.no /\ row.text = old.text
         /\ row.second = old.second /\ row.stage = st
  BY DEF MotionRows

\* A second, the debate, a withdrawal, an implementation.
LEMMA StageSteps ==
  ASSUME FloorInv, NEW h \in Hands,
         Second(h) \/ OpenDebate(h) \/ CloseDebate(h) \/ Withdraw(h) \/ Implement(h)
  PROVE  FloorInv'
<1>1. PICK m, old, who : m = hand[h].motion /\ old = floor[m] /\ who = hand[h].who
  OBVIOUS
<1>2. PICK step, row :
        /\ MotionBecomes(h, step, row)
        /\ \/ step = "second" /\ row = [old EXCEPT !.stage = "seconded", !.second = who]
           \/ step = "debate_opens" /\ row = [old EXCEPT !.stage = "debate"]
           \/ step = "debate_closes" /\ row = [old EXCEPT !.stage = "voting"]
           \/ step = "withdraw" /\ row = [old EXCEPT !.stage = "withdrawn"]
           \/ step = "implement" /\ row = [old EXCEPT !.stage = "implemented"]
  BY <1>1 DEF Second, OpenDebate, CloseDebate, Withdraw, Implement, Motion
<1>3. step \in OnMotions /\ step # "supersede"
  BY <1>2 DEF OnMotions
<1>4. /\ hand[h].at = step /\ m \in Motions /\ HasMotion(m) /\ old \in MotionRows /\ RowStands(m)
      /\ floor' = [floor EXCEPT ![m] = row] /\ hand' = [hand EXCEPT ![h] = Idle]
      /\ UNCHANGED <<amends, votes, accords, carried, unretired>>
  BY <1>1, <1>2, <1>3, Moving
<1>5. FloorKnows(hand[h])
  BY DEF FloorInv
<1>6. /\ step = "second" => who \in Members \ {old.by}
      /\ step \in {"debate_opens", "debate_closes", "implement"} => old.second \in Members \ {old.by}
  BY <1>1, <1>4, <1>5 DEF FloorKnows, Backed
<1>7. /\ row \in MotionRows /\ row.by = old.by /\ row.body = old.body /\ row.result = old.result
      /\ row.threshold = old.threshold /\ row.yes = old.yes /\ row.no = old.no /\ row.text = old.text
      /\ step # "second" => row.second = old.second
      /\ step = "second" => row.second = who
      /\ step = "withdraw" => row.stage = "withdrawn"
  <2>1. CASE step = "second"
    <3>0. PICK st : st = "seconded"
      OBVIOUS
    <3>1. who \in Members \cup {"nobody"} /\ row = [old EXCEPT !.stage = st, !.second = who]
      BY <1>2, <1>6, <2>1, <3>0
    <3>2. st \in Stages
      BY <3>0 DEF Stages, Alive, Open
    <3>3. old \in MotionRows
      BY <1>4
    <3>4. /\ row \in MotionRows /\ row.by = old.by /\ row.body = old.body /\ row.result = old.result
          /\ row.threshold = old.threshold /\ row.yes = old.yes /\ row.no = old.no /\ row.text = old.text
          /\ row.second = who
      BY <3>1, <3>2, <3>3 DEF MotionRows
    <3> QED BY <2>1, <3>4
  <2>2. CASE step # "second"
    <3>1. PICK st : /\ st \in {"debate", "voting", "withdrawn", "implemented"}
                    /\ row = [old EXCEPT !.stage = st] /\ (step = "withdraw" => st = "withdrawn")
      BY <1>2, <2>2
    <3>2. st \in Stages
      BY <3>1 DEF Stages, Alive, Open
    <3> QED BY <1>4, <2>2, <3>1, <3>2, RowMoves
  <2> QED BY <2>1, <2>2
<1>8. row.stage \in Open \cup {"decided", "implemented"} => row.second \in Members \ {row.by}
  BY <1>2, <1>6, <1>7 DEF Open
<1>9. old.second \in Members \ {old.by} => row.second \in Members \ {row.by}
  BY <1>6, <1>7
<1>10. \A b \in row.text : Applied(m, b)
  BY <1>1, <1>4, <1>7 DEF RowStands
<1>11. RowStands(m)'
  BY <1>1, <1>4, <1>7, <1>8, <1>10, StillStands DEF FloorInv
<1>12. PICK k : k = Idle
  OBVIOUS
<1>13. FloorKnows(k)' /\ k.at # "supersede"
  BY <1>12 DEF FloorKnows, Idle, OnMotions
<1>14. Backed(m) => row.second \in Members \ {row.by}
  BY <1>1, <1>9 DEF Backed
<1> QED BY <1>1, <1>3, <1>4, <1>7, <1>11, <1>12, <1>13, <1>14, FloorWrite DEF FloorInv, FloorTyped

\* The text of a motion, with the amendment that was ruled on.
LEMMA ApplyStep == ASSUME FloorInv, NEW h \in Hands, ApplyAmendment(h) PROVE FloorInv'
<1>1. PICK m, old, j : m = hand[h].motion /\ old = floor[m] /\ j = hand[h]
  OBVIOUS
<1>2. PICK text, row : text = j.text \cup {j.amendment} /\ row = [old EXCEPT !.text = text]
  OBVIOUS
<1>3. PICK step : step = "apply"
  OBVIOUS
<1>4. MotionBecomes(h, step, row) /\ step \in OnMotions
  BY <1>1, <1>2, <1>3 DEF ApplyAmendment, Motion, OnMotions
<1>5. /\ j.at = "apply" /\ m \in Motions /\ HasMotion(m) /\ old \in MotionRows /\ RowStands(m)
      /\ floor' = [floor EXCEPT ![m] = row] /\ hand' = [hand EXCEPT ![h] = Idle]
      /\ UNCHANGED <<amends, votes, accords, carried, unretired>>
  BY <1>1, <1>3, <1>4, Moving
<1>6. FloorKnows(j)
  BY <1>1 DEF FloorInv
<1>7. text \subseteq Amendments /\ \A b \in text : Applied(m, b)
  BY <1>1, <1>2, <1>5, <1>6 DEF FloorKnows
<1>8. /\ row \in MotionRows /\ row.by = old.by /\ row.body = old.body /\ row.result = old.result
      /\ row.threshold = old.threshold /\ row.yes = old.yes /\ row.no = old.no /\ row.text = text
      /\ row.second = old.second /\ row.stage = old.stage
  BY <1>2, <1>5, <1>7 DEF MotionRows
<1>9. row.stage \in Open \cup {"decided", "implemented"} => row.second \in Members \ {row.by}
  BY <1>1, <1>5, <1>8 DEF RowStands, Backed
<1>10. RowStands(m)'
  BY <1>1, <1>5, <1>7, <1>8, <1>9, StillStands DEF FloorInv
<1>11. PICK k : k = Idle
  OBVIOUS
<1>12. FloorKnows(k)' /\ k.at # "supersede"
  BY <1>11 DEF FloorKnows, Idle, OnMotions
<1>13. Backed(m) => row.second \in Members \ {row.by}
  BY <1>1, <1>8 DEF Backed
<1> QED BY <1>1, <1>5, <1>8, <1>10, <1>11, <1>12, <1>13, FloorWrite DEF FloorInv, FloorTyped

\* The decision, from the counts its handler read.
LEMMA DecideStep == ASSUME FloorInv, NEW h \in Hands, Decide(h) PROVE FloorInv'
<1>1. PICK m, old, j : m = hand[h].motion /\ old = floor[m] /\ j = hand[h]
  OBVIOUS
<1>2. PICK v : v = Verdict(h)
  OBVIOUS
<1>3. j.at = "decide" /\ FloorKnows(j)
  BY <1>1 DEF Decide, Doing, FloorInv
<1>4. /\ {"at", "motion", "yes", "no"} \subseteq DOMAIN j /\ m \in Motions /\ HasMotion(m) /\ Backed(m)
      /\ j.yes \in Nat /\ j.no \in Nat /\ j.yes <= Count(m, Main, "yes") /\ j.no <= Count(m, Main, "no")
  BY <1>1, <1>3 DEF FloorKnows, OnMotions
<1>5. old \in MotionRows /\ RowStands(m)
  BY <1>1, <1>4 DEF FloorInv, FloorTyped, HasMotion
<1>6. v = IF Carries(old.threshold, j.yes, j.no) THEN "passed" ELSE "failed"
  BY <1>1, <1>2 DEF Verdict, Motion
<1>7. PICK row : row = [old EXCEPT !.stage = "decided", !.result = v, !.yes = j.yes, !.no = j.no]
  OBVIOUS
<1>8. floor' = [floor EXCEPT ![m] = row]
  BY <1>1, <1>2, <1>4, <1>7 DEF Decide, FloorInv, FloorTyped
<1>9. /\ carried' = IF v = "passed" THEN carried \cup {m} ELSE carried
      /\ UNCHANGED <<amends, votes, accords, unretired>>
  BY <1>1, <1>2 DEF Decide
<1>10. PICK more : more = [at |-> "announce", verdict |-> v]
  OBVIOUS
<1>11. Go(h, more) /\ DOMAIN more = {"at", "verdict"} /\ more.at = "announce" /\ more.verdict = v
  BY <1>2, <1>10 DEF Decide
<1>12. PICK k : hand' = [hand EXCEPT ![h] = k] /\ Learnt(k, hand[h], more)
  BY <1>11, GoesOn
<1>13. /\ {"at", "motion", "verdict"} \subseteq DOMAIN k /\ k.at = "announce" /\ k.motion = m /\ k.verdict = v
  BY <1>1, <1>4, <1>11, <1>12 DEF Learnt
<1>14. /\ row \in MotionRows /\ row.by = old.by /\ row.body = old.body /\ row.result = v
       /\ row.threshold = old.threshold /\ row.yes = j.yes /\ row.no = j.no /\ row.text = old.text
       /\ row.second = old.second
  BY <1>4, <1>5, <1>6, <1>7 DEF MotionRows, Stages
<1>15. floor'[m] = row
  BY <1>4, <1>8 DEF FloorInv, FloorTyped
<1>16. \A on, c : Count(m, on, c)' = Count(m, on, c)
  BY <1>9 DEF Count, Cast
<1>17. RowStands(m)'
  <2>1. Backed(m)'
    BY <1>1, <1>4, <1>14, <1>15 DEF Backed
  <2>2. row.result = "passed" => m \in carried'
    BY <1>9, <1>14
  <2>3. row.result = "passed" <=> Carries(row.threshold, row.yes, row.no)
    BY <1>6, <1>14
  <2>4. row.yes <= Count(m, Main, "yes")' /\ row.no <= Count(m, Main, "no")'
    BY <1>4, <1>14, <1>16
  <2>5. \A b \in row.text : Applied(m, b)'
    BY <1>1, <1>4, <1>5, <1>9, <1>14, <1>16 DEF RowStands, Applied
  <2> QED BY <1>15, <2>1, <2>2, <2>3, <2>4, <2>5 DEF RowStands
<1>18. v # "pending" /\ (v = "passed" => m \in carried') /\ HasMotion(m)'
  BY <1>6, <1>9, <1>14, <1>15 DEF HasMotion, MotionRows, NoRow, Stages, Alive, Open
<1>19. FloorKnows(k)'
  BY <1>4, <1>13, <1>14, <1>15, <1>18 DEF FloorKnows
<1>20. carried \subseteq carried' /\ carried' \subseteq Motions
  BY <1>4, <1>9 DEF FloorInv, FloorTyped
<1>21. Backed(m) => row.second \in Members \ {row.by}
  BY <1>1, <1>14 DEF Backed
<1>22. hand[h].at # "supersede" /\ k.at # "supersede"
  BY <1>1, <1>3, <1>13
<1> QED BY <1>1, <1>4, <1>8, <1>9, <1>12, <1>14, <1>17, <1>18, <1>19, <1>20, <1>21, <1>22, FloorWrite

\* A motion that is new.
LEMMA ProposeStep ==
  ASSUME FloorInv, NEW h \in Hands, NEW m \in Motions, NEW who \in Members, NEW body \in Bodies,
         NEW met \in BOOLEAN, NEW t \in Thresholds, ProposeMotion(h, m, who, body, met, t)
  PROVE  FloorInv'
<1>1. PICK row : row =
        [stage |-> "proposed", by |-> who, second |-> "nobody", body |-> body, met |-> met,
         threshold |-> t, result |-> "pending", yes |-> 0, no |-> 0, text |-> {}]
  OBVIOUS
<1>2. row \in MotionRows /\ row.stage = "proposed" /\ row.result = "pending" /\ row.text = {}
  BY <1>1 DEF MotionRows, Stages, Alive
<1>3. PICK k : k = [at |-> "proposed", motion |-> m]
  OBVIOUS
<1>4. {"at", "motion"} \subseteq DOMAIN k /\ k.at = "proposed" /\ k.motion = m
  BY <1>3
<1>5. /\ floor[m] = NoRow /\ floor' = [floor EXCEPT ![m] = row] /\ hand' = [hand EXCEPT ![h] = k]
      /\ hand[h] = Idle /\ UNCHANGED <<amends, votes, accords, carried, unretired>>
  BY <1>1, <1>3 DEF ProposeMotion, Ask, Rests
<1>6. /\ floor'[m] = row /\ row # NoRow /\ FloorTyped
      /\ \A o \in Motions : o # m => floor'[o] = floor[o]
  BY <1>2, <1>5 DEF FloorInv, FloorTyped, NoRow
<1>7. FloorTyped'
  BY <1>2, <1>5 DEF FloorInv, FloorTyped
<1>8. \A o, on, c : Count(o, on, c)' = Count(o, on, c) /\ Count(o, on, c) \in Nat
  <2>1. \A o, on, c : Count(o, on, c)' = Count(o, on, c)
    BY <1>5 DEF Count, Cast
  <2> QED BY <1>6, <2>1, CountsAreNumbers
<1>9. FloorGrows
  BY <1>5, <1>6, <1>8 DEF FloorGrows, HasMotion, Backed
<1>10. ASSUME NEW o \in Motions PROVE RowStands(o)'
  <2>1. CASE o = m
    BY <1>2, <1>6, <2>1 DEF RowStands, Open
  <2>2. CASE o # m
    <3>1. RowStands(o) /\ floor'[o] = floor[o]
      BY <1>6, <2>2 DEF FloorInv
    <3> QED BY <1>5, <1>8, <3>1 DEF RowStands, HasMotion, Backed, Applied
  <2> QED BY <2>1, <2>2
<1>11. (\A b \in Amendments : amends[b] # NoText => HasMotion(amends[b].motion))'
  BY <1>5, <1>6, <1>9 DEF FloorInv, FloorTyped, FloorGrows, HasMotion, AmendRows
<1>12. OneVoteEach'
  BY <1>5 DEF FloorInv, OneVoteEach
<1>13. (\A v \in DOMAIN accords : Mandated(v))'
  <2>1. \A v \in DOMAIN accords : accords[v].motion \in Motions /\ Mandated(v)
    <3>1. \A v \in DOMAIN accords : accords[v] \in Versions
      BY <1>6 DEF FloorTyped
    <3> QED BY <3>1 DEF FloorInv, Versions
  <2> QED BY <1>5, <1>9, <2>1 DEF Mandated, FloorGrows
<1>14. hand[h].at # "supersede" /\ k.at # "supersede"
  BY <1>4, <1>5, IdleKnows
<1>15. FewInForce'
  BY <1>5, <1>6, <1>14, SameAdoptions DEF FloorInv
<1>16. FloorKnows(k)'
  BY <1>4, <1>6 DEF FloorKnows, HasMotion
<1>17. \A g \in Hands : FloorKnows(hand[g])'
  BY <1>5, <1>9, <1>16, EverybodyKnows
<1> QED BY <1>7, <1>10, <1>11, <1>12, <1>13, <1>15, <1>17 DEF FloorInv

-----------------------------------------------------------------------------
(* Votes.                                                                  *)

\* A ballot that is new is the only one of its voter.
LEMMA CastStep == ASSUME FloorInv, NEW h \in Hands, CastVote(h) PROVE FloorInv'
<1>1. PICK j : j = hand[h]
  OBVIOUS
<1>2. j.at = "cast" /\ FloorKnows(j)
  BY <1>1 DEF CastVote, Doing, FloorInv
<1>3. /\ j.motion \in Motions /\ j.who \in Members /\ j.on \in Amendments \cup {Main} /\ j.choice \in Stances
  BY <1>2 DEF FloorKnows, OnMotions
<1>4. PICK b : b = Ballot(h)
  OBVIOUS
<1>5. b \in Ballots
  BY <1>1, <1>3, <1>4 DEF Ballot, Ballots
<1>6. /\ hand[h].at # "supersede" /\ Answer(h) /\ UNCHANGED <<floor, amends, accords, carried, unretired>>
      /\ votes' = IF Voted(b) THEN votes ELSE Append(votes, b)
  BY <1>1, <1>2, <1>4 DEF CastVote
<1>7. CASE Voted(b)
  BY <1>6, <1>7, Answering
<1>8. CASE ~Voted(b)
  <2>0. FloorTyped /\ votes \in Seq(Ballots) /\ votes' = Append(votes, b)
    BY <1>6, <1>8 DEF FloorInv, FloorTyped
  <2>1. FloorTyped'
    <3>1. votes' \in Seq(Ballots)
      BY <1>5, <2>0
    <3>2. hand' = [g \in Hands |-> hand'[g]]
      BY <1>6, <2>0 DEF Answer, FloorTyped
    <3> QED BY <1>6, <2>0, <3>1, <3>2 DEF FloorTyped
  <2>2. \A m, on, c : Count(m, on, c)' \in Nat /\ Count(m, on, c) <= Count(m, on, c)' /\ Count(m, on, c) \in Nat
    BY <1>5, <2>0, CountGrows, CountIsCountIn
  <2>3. FloorGrows
    BY <1>6, <2>2 DEF FloorGrows, HasMotion, Backed
  <2>4. ASSUME NEW m \in Motions PROVE RowStands(m)'
    <3>1. RowStands(m) /\ floor[m] \in MotionRows \cup {NoRow}
      BY <2>0 DEF FloorInv, FloorTyped
    <3>2. CASE floor[m] = NoRow
      BY <1>6, <3>2 DEF RowStands, HasMotion
    <3>3. CASE floor[m] \in MotionRows
      <4>1. /\ floor[m].yes \in Nat /\ floor[m].no \in Nat /\ floor[m].text \subseteq Amendments
        BY <3>3 DEF MotionRows
      <4>2. \A a \in Amendments : Applied(m, a) => Applied(m, a)'
        BY <2>0, <2>3, AppliedStays
      <4>3. Backed(m)' = Backed(m) /\ HasMotion(m)' = HasMotion(m)
        BY <1>6 DEF Backed, HasMotion
      <4>4. /\ floor[m].yes <= Count(m, Main, "yes") => floor[m].yes <= Count(m, Main, "yes")'
            /\ floor[m].no <= Count(m, Main, "no") => floor[m].no <= Count(m, Main, "no")'
        BY <2>2, <4>1
      <4> QED BY <1>6, <3>1, <4>1, <4>2, <4>3, <4>4 DEF RowStands
    <3> QED BY <3>1, <3>2, <3>3
  <2>5. (\A a \in Amendments : amends[a] # NoText => HasMotion(amends[a].motion))'
    BY <1>6 DEF FloorInv, HasMotion
  <2>6. OneVoteEach'
    <3>1. \A i \in DOMAIN votes : ~(votes[i].motion = b.motion /\ votes[i].on = b.on /\ votes[i].voter = b.voter)
      BY <1>8 DEF Voted, Cast
    <3>2. /\ DOMAIN votes' = DOMAIN votes \cup {Len(votes) + 1} /\ votes'[Len(votes) + 1] = b
          /\ \A i \in DOMAIN votes : votes'[i] = votes[i]
      BY <2>0
    <3> QED BY <3>1, <3>2 DEF FloorInv, OneVoteEach
  <2>7. (\A v \in DOMAIN accords : Mandated(v))'
    BY <1>6 DEF FloorInv, Mandated, HasMotion
  <2>8. PICK k : k = Idle
    OBVIOUS
  <2>9. hand' = [hand EXCEPT ![h] = k] /\ FloorKnows(k)' /\ k.at # "supersede"
    BY <1>6, <2>8 DEF Answer, FloorKnows, Idle, OnMotions
  <2>10. FewInForce'
    BY <1>6, <2>0, <2>9, SameAdoptions DEF FloorInv
  <2>11. \A g \in Hands : FloorKnows(hand[g])'
    BY <2>3, <2>9, EverybodyKnows
  <2> QED BY <2>1, <2>4, <2>5, <2>6, <2>7, <2>10, <2>11 DEF FloorInv
<1> QED BY <1>7, <1>8

-----------------------------------------------------------------------------
(* Amendments.                                                             *)

\* Nobody moves, and everybody knows what they knew.
LEMMA NobodyMoves ==
  ASSUME FloorInv, FloorGrows, UNCHANGED hand PROVE \A g \in Hands : FloorKnows(hand[g])'
<1> SUFFICES ASSUME NEW g \in Hands PROVE FloorKnows(hand[g])'
  OBVIOUS
<1>1. PICK j : j = hand[g]
  OBVIOUS
<1>2. hand'[g] = j
  BY <1>1
<1>3. FloorKnows(j)
  BY <1>1 DEF FloorInv, FloorKnows
<1>4. FloorKnows(j)'
  BY <1>3, FloorKnowsStays DEF FloorInv
<1> QED BY <1>2, <1>4 DEF FloorKnows

\* An amendment's row is written: a new one, or its status.
LEMMA AmendWrite ==
  ASSUME FloorInv, NEW a \in Amendments, NEW row \in AmendRows, amends' = [amends EXCEPT ![a] = row],
         HasMotion(row.motion),
         amends[a] # NoText =>
           /\ row.kind = amends[a].kind
           /\ amends[a].kind = "friendly" /\ amends[a].status = "accepted" => row.status = "accepted",
         UNCHANGED <<floor, votes, accords, carried, unretired>>, hand' = [g \in Hands |-> hand'[g]]
  PROVE  /\ FloorTyped' /\ FloorGrows /\ (\A m \in Motions : RowStands(m)')
         /\ (\A b \in Amendments : amends[b] # NoText => HasMotion(amends[b].motion))'
         /\ OneVoteEach' /\ (\A v \in DOMAIN accords : Mandated(v))'
<1>1. /\ amends'[a] = row /\ row # NoText /\ FloorTyped
      /\ \A o \in Amendments : o # a => amends'[o] = amends[o]
  BY DEF FloorInv, FloorTyped, AmendRows, NoText
<1>2. FloorTyped'
  BY <1>1 DEF FloorTyped
<1>3. \A o, on, c : Count(o, on, c)' = Count(o, on, c) /\ Count(o, on, c) \in Nat
  <2>1. \A o, on, c : Count(o, on, c)' = Count(o, on, c)
    BY DEF Count, Cast
  <2> QED BY <1>1, <2>1, CountsAreNumbers
<1>4. FloorGrows
  BY <1>1, <1>3 DEF FloorGrows, HasMotion, Backed
<1>5. ASSUME NEW m \in Motions PROVE RowStands(m)'
  <2>1. RowStands(m) /\ floor[m] \in MotionRows \cup {NoRow}
    BY <1>1 DEF FloorInv, FloorTyped
  <2>2. CASE floor[m] = NoRow
    BY <2>2 DEF RowStands, HasMotion
  <2>3. CASE floor[m] \in MotionRows
    <3>1. floor[m].text \subseteq Amendments
      BY <2>3 DEF MotionRows
    <3>2. \A b \in Amendments : Applied(m, b) => Applied(m, b)'
      BY <1>1, <1>4, AppliedStays
    <3>3. Backed(m)' = Backed(m) /\ HasMotion(m)' = HasMotion(m)
      BY DEF Backed, HasMotion
    <3> QED BY <1>3, <2>1, <3>1, <3>2, <3>3 DEF RowStands
  <2> QED BY <2>1, <2>2, <2>3
<1>6. (\A b \in Amendments : amends[b] # NoText => HasMotion(amends[b].motion))'
  BY <1>1 DEF FloorInv, HasMotion
<1>7. OneVoteEach'
  BY DEF FloorInv, OneVoteEach
<1>8. (\A v \in DOMAIN accords : Mandated(v))'
  BY DEF FloorInv, Mandated, HasMotion
<1> QED BY <1>2, <1>4, <1>5, <1>6, <1>7, <1>8

\* The row of an amendment, inserted after its motion was read.
LEMMA AmendInserts ==
  ASSUME FloorInv, NEW h \in Hands, NEW a \in Amendments, InsertAmendment(h, a) PROVE FloorInv'
<1>1. PICK j : j = hand[h]
  OBVIOUS
<1>2. FloorKnows(j) /\ j.at = "propose_amendment" /\ FloorTyped /\ FewInForce
  BY <1>1 DEF InsertAmendment, Doing, FloorInv
<1>3. /\ j.motion \in Motions /\ HasMotion(j.motion)
      /\ j.kind \in {"friendly", "formal"}
  BY <1>2 DEF FloorKnows, OnMotions
<1>4. PICK row : row = [status |-> "proposed", kind |-> j.kind, motion |-> j.motion]
  OBVIOUS
<1>5. row \in AmendRows /\ row.motion = j.motion
  BY <1>3, <1>4 DEF AmendRows
<1>6. /\ amends' = [amends EXCEPT ![a] = row] /\ amends[a] = NoText
      /\ hand' = [hand EXCEPT ![h] = Idle] /\ UNCHANGED <<floor, votes, accords, carried, unretired>>
  BY <1>1, <1>4 DEF InsertAmendment, Answer
<1>7. hand' = [g \in Hands |-> hand'[g]]
  BY <1>2, <1>6 DEF FloorTyped
<1>8. /\ FloorTyped' /\ FloorGrows /\ (\A o \in Motions : RowStands(o)')
      /\ (\A b \in Amendments : amends[b] # NoText => HasMotion(amends[b].motion))'
      /\ OneVoteEach' /\ (\A v \in DOMAIN accords : Mandated(v))'
  BY <1>3, <1>5, <1>6, <1>7, AmendWrite
<1>9. PICK k : k = Idle
  OBVIOUS
<1>10. FloorKnows(k)' /\ k.at # "supersede"
  BY <1>9 DEF FloorKnows, Idle, OnMotions
<1>11. \A g \in Hands : FloorKnows(hand[g])'
  BY <1>6, <1>8, <1>9, <1>10, EverybodyKnows
<1>12. FewInForce'
  BY <1>1, <1>2, <1>6, <1>9, <1>10, SameAdoptions
<1> QED BY <1>8, <1>11, <1>12 DEF FloorInv

\* Rejecting an amendment: one statement.
LEMMA RejectStep == ASSUME FloorInv, NEW a \in Amendments, RejectAmendment(a) PROVE FloorInv'
<1>0. FloorTyped /\ UNCHANGED <<floor, votes, accords, carried, unretired, hand>> /\ FewInForce
  BY DEF RejectAmendment, AskOnce, FloorInv
<1>1. amends[a] # NoText /\ amends[a].status = "proposed"
  BY DEF RejectAmendment, NoText
<1>2. amends[a] \in AmendRows /\ HasMotion(amends[a].motion)
  BY <1>0, <1>1 DEF FloorTyped, FloorInv
<1>3. PICK row : row = [amends[a] EXCEPT !.status = "rejected"]
  OBVIOUS
<1>4. row \in AmendRows /\ row.kind = amends[a].kind /\ row.motion = amends[a].motion
  BY <1>2, <1>3 DEF AmendRows
<1>5. amends' = [amends EXCEPT ![a] = row]
  BY <1>0, <1>3 DEF RejectAmendment, FloorTyped
<1>6. hand' = [g \in Hands |-> hand'[g]]
  BY <1>0 DEF FloorTyped
<1>7. /\ FloorTyped' /\ FloorGrows /\ (\A o \in Motions : RowStands(o)')
      /\ (\A b \in Amendments : amends[b] # NoText => HasMotion(amends[b].motion))'
      /\ OneVoteEach' /\ (\A v \in DOMAIN accords : Mandated(v))'
  BY <1>0, <1>1, <1>2, <1>4, <1>5, <1>6, AmendWrite
<1>8. \A g \in Hands : FloorKnows(hand[g])'
  BY <1>0, <1>7, NobodyMoves
<1>9. FewInForce'
  BY <1>0 DEF FewInForce, Doing
<1> QED BY <1>7, <1>8, <1>9 DEF FloorInv

\* The status of an amendment that was ruled on.
LEMMA RulingStep == ASSUME FloorInv, NEW h \in Hands, Rule(h) PROVE FloorInv'
<1>1. PICK j, a : j = hand[h] /\ a = j.amendment
  OBVIOUS
<1>2. FloorKnows(j) /\ j.at \in {"accept", "decline"} /\ FloorTyped
  BY <1>1 DEF Rule, FloorInv
<1>3. /\ {"at", "motion"} \subseteq DOMAIN j /\ j.motion \in Motions /\ HasMotion(j.motion)
  BY <1>2 DEF FloorKnows, OnMotions
<1>4. /\ {"amendment", "text"} \subseteq DOMAIN j
      /\ a \in Amendments /\ amends[a] # NoText
      /\ j.text \subseteq Amendments /\ \A b \in j.text : Applied(j.motion, b)
      /\ j.at = "decline" => amends[a].kind = "formal"
      /\ j.at = "accept" => (amends[a].kind = "formal" => Count(j.motion, a, "yes") > 0)
  BY <1>1, <1>2 DEF FloorKnows
<1>5. amends[a] \in AmendRows /\ HasMotion(amends[a].motion)
  BY <1>2, <1>4 DEF FloorTyped, FloorInv
<1>6. PICK status : status = IF j.at = "accept" THEN "accepted" ELSE "rejected"
  OBVIOUS
<1>7. PICK row : row = [amends[a] EXCEPT !.status = status]
  OBVIOUS
<1>8. row \in AmendRows /\ row.kind = amends[a].kind /\ row.motion = amends[a].motion /\ row.status = status
  BY <1>5, <1>6, <1>7 DEF AmendRows
<1>9. /\ amends' = [amends EXCEPT ![a] = row] /\ UNCHANGED <<floor, votes, accords, carried, unretired>>
      /\ IF j.at = "accept" THEN Go(h, [at |-> "apply"]) ELSE Answer(h)
  BY <1>1, <1>2, <1>4, <1>6, <1>7 DEF Rule, Doing, FloorTyped
<1>10. amends[a] # NoText =>
         /\ row.kind = amends[a].kind
         /\ amends[a].kind = "friendly" /\ amends[a].status = "accepted" => row.status = "accepted"
  BY <1>2, <1>4, <1>6, <1>8
<1>11. PICK k : /\ hand' = [hand EXCEPT ![h] = k]
                /\ j.at = "decline" => k = Idle
                /\ j.at = "accept" =>
                     /\ {"at", "motion", "amendment", "text"} \subseteq DOMAIN k /\ k.at = "apply"
                     /\ k.motion = j.motion /\ k.amendment = a /\ k.text = j.text
  <2>1. CASE j.at = "decline"
    BY <1>9, <2>1 DEF Answer
  <2>2. CASE j.at = "accept"
    <3>1. PICK more : more = [at |-> "apply"]
      OBVIOUS
    <3>2. Go(h, more) /\ DOMAIN more = {"at"} /\ more.at = "apply"
      BY <1>9, <2>2, <3>1
    <3>3. PICK k : hand' = [hand EXCEPT ![h] = k] /\ Learnt(k, hand[h], more)
      BY <3>2, GoesOn
    <3>4. /\ {"at", "motion", "amendment", "text"} \subseteq DOMAIN k /\ k.at = "apply"
          /\ k.motion = j.motion /\ k.amendment = a /\ k.text = j.text
      BY <1>1, <1>3, <1>4, <3>2, <3>3 DEF Learnt
    <3> QED BY <2>2, <3>3, <3>4
  <2> QED BY <1>2, <2>1, <2>2
<1>12. hand' = [g \in Hands |-> hand'[g]]
  BY <1>2, <1>11 DEF FloorTyped
<1>13. /\ FloorTyped' /\ FloorGrows /\ (\A o \in Motions : RowStands(o)')
       /\ (\A b \in Amendments : amends[b] # NoText => HasMotion(amends[b].motion))'
       /\ OneVoteEach' /\ (\A v \in DOMAIN accords : Mandated(v))'
  BY <1>4, <1>5, <1>8, <1>9, <1>10, <1>12, AmendWrite
<1>14. FloorKnows(k)' /\ k.at # "supersede"
  <2>1. CASE j.at = "decline"
    BY <1>11, <2>1 DEF FloorKnows, Idle, OnMotions
  <2>2. CASE j.at = "accept"
    <3>1. /\ {"at", "motion", "amendment", "text"} \subseteq DOMAIN k /\ k.at = "apply"
          /\ k.motion = j.motion /\ k.amendment = a /\ k.text = j.text
      BY <1>11, <2>2
    <3>2. amends'[a] = row /\ row.status = "accepted" /\ row # NoText
      BY <1>2, <1>4, <1>6, <1>8, <1>9, <2>2 DEF FloorTyped, AmendRows, NoText
    <3>3. HasMotion(j.motion)' /\ Count(j.motion, a, "yes")' = Count(j.motion, a, "yes")
      BY <1>3, <1>9 DEF HasMotion, Count, Cast
    <3>4. Applied(j.motion, a)'
      BY <1>4, <1>8, <2>2, <3>2, <3>3 DEF Applied
    <3>5. \A b \in j.text : Applied(j.motion, b)'
      BY <1>2, <1>4, <1>13, AppliedStays
    <3> QED BY <1>3, <1>4, <3>1, <3>2, <3>3, <3>4, <3>5 DEF FloorKnows
  <2> QED BY <1>2, <2>1, <2>2
<1>15. \A g \in Hands : FloorKnows(hand[g])'
  BY <1>11, <1>13, <1>14, EverybodyKnows
<1>16. hand[h].at # "supersede"
  BY <1>1, <1>2
<1>17. FewInForce'
  BY <1>2, <1>9, <1>11, <1>14, <1>16, SameAdoptions DEF FloorInv
<1> QED BY <1>13, <1>15, <1>17 DEF FloorInv

-----------------------------------------------------------------------------
(* The Accords.                                                            *)

\* What FewInForce counts is finite.
InForce  == {v \in DOMAIN accords : accords[v].status = "adopted"}
Adopting == {h \in Hands : Doing(h, "supersede")}

\* It counts these.
LEMMA InForceCounts ==
  ASSUME FloorTyped
  PROVE  /\ IsFiniteSet(InForce) /\ IsFiniteSet(Adopting)
         /\ Cardinality(InForce) \in Nat /\ Cardinality(Adopting) \in Nat
         /\ FewInForce <=> Cardinality(InForce) <= 1 + unretired + Cardinality(Adopting)
<1>1. IsFiniteSet(1..Len(accords)) /\ DOMAIN accords = 1..Len(accords)
  <2>1. Len(accords) \in Nat /\ DOMAIN accords = 1..Len(accords)
    BY DEF FloorTyped
  <2>2. Len(accords) \in Int /\ 1 \in Int
    BY <2>1
  <2> QED BY <2>1, <2>2, FS_Interval
<1>2. InForce \in SUBSET (1..Len(accords)) /\ Adopting \in SUBSET Hands
  BY <1>1 DEF InForce, Adopting
<1>3. IsFiniteSet(InForce) /\ IsFiniteSet(Adopting)
  BY <1>1, <1>2, FS_Subset, HostAssumption
<1> QED BY <1>3, FS_CardinalityType DEF FewInForce, InForce, Adopting

\* The version is there, adopted, and its handler goes on to retire the others.
LEMMA InsertStep == ASSUME FloorInv, NEW h \in Hands, InsertVersion(h) PROVE FloorInv'
<1>1. PICK j, n, v : /\ j = hand[h] /\ n = Len(accords) + 1
                     /\ v = [motion |-> j.motion, status |-> "adopted"]
  OBVIOUS
<1>2. FloorTyped /\ FloorKnows(j) /\ j.at = "insert"
  BY <1>1 DEF InsertVersion, Doing, FloorInv
<1>3. /\ j.motion \in Motions /\ HasMotion(j.motion) /\ j.motion \in carried
      /\ floor[j.motion].body = "congress"
  BY <1>2 DEF FloorKnows, OnMotions
<1>4. v \in Versions /\ v.motion = j.motion /\ v.status = "adopted"
  BY <1>1, <1>3 DEF Versions
<1>5. PICK more : more = [at |-> "supersede", version |-> n]
  OBVIOUS
<1>6. /\ Go(h, more) /\ DOMAIN more = {"at", "version"} /\ more.at = "supersede" /\ more.version = n
      /\ accords' = Append(accords, v) /\ UNCHANGED <<floor, amends, votes, carried, unretired>>
  BY <1>1, <1>5 DEF InsertVersion
<1>7. PICK k : hand' = [hand EXCEPT ![h] = k] /\ Learnt(k, hand[h], more)
  BY <1>6, GoesOn
<1>8. "version" \in DOMAIN k /\ k.at = "supersede" /\ k.version = n
  BY <1>6, <1>7 DEF Learnt
<1>9. /\ accords' \in Seq(Versions) /\ DOMAIN accords' = DOMAIN accords \cup {n} /\ n \notin DOMAIN accords
      /\ accords'[n] = v /\ \A i \in DOMAIN accords : accords'[i] = accords[i]
  BY <1>1, <1>2, <1>4, <1>6 DEF FloorTyped
<1>10. FloorTyped'
  BY <1>2, <1>6, <1>7, <1>9 DEF FloorTyped
<1>11. \A o, on, c : Count(o, on, c)' = Count(o, on, c) /\ Count(o, on, c) \in Nat
  <2>1. \A o, on, c : Count(o, on, c)' = Count(o, on, c)
    BY <1>6 DEF Count, Cast
  <2> QED BY <1>2, <2>1, CountsAreNumbers
<1>12. FloorGrows
  BY <1>6, <1>9, <1>11 DEF FloorGrows, HasMotion, Backed
<1>13. \A m \in Motions : RowStands(m)'
  BY <1>6, <1>11 DEF FloorInv, RowStands, HasMotion, Backed, Applied
<1>14. (\A b \in Amendments : amends[b] # NoText => HasMotion(amends[b].motion))'
  BY <1>6 DEF FloorInv, HasMotion
<1>15. OneVoteEach'
  BY <1>6 DEF FloorInv, OneVoteEach
<1>16. (\A i \in DOMAIN accords : Mandated(i))'
  BY <1>3, <1>4, <1>6, <1>9 DEF FloorInv, Mandated, HasMotion
<1>17. FloorKnows(k)'
  BY <1>8, <1>9 DEF FloorKnows, OnMotions
<1>18. \A g \in Hands : FloorKnows(hand[g])'
  BY <1>7, <1>12, <1>17, EverybodyKnows
<1>19. FewInForce'
  <2>1. PICK S, T : S = InForce /\ T = Adopting
    OBVIOUS
  <2>2. IsFiniteSet(S) /\ IsFiniteSet(T) /\ Cardinality(S) <= 1 + unretired + Cardinality(T)
        /\ Cardinality(S) \in Nat /\ Cardinality(T) \in Nat /\ unretired \in Nat
    BY <1>2, <2>1, InForceCounts DEF FloorInv, FloorTyped
  <2>3. InForce' = S \cup {n} /\ n \notin S
    BY <1>4, <1>9, <2>1 DEF InForce
  <2>4. Adopting' = T \cup {h} /\ h \notin T
    BY <1>1, <1>2, <1>7, <1>8, <2>1 DEF Adopting, Doing, FloorTyped
  <2>5. Cardinality(S \cup {n}) = Cardinality(S) + 1 /\ Cardinality(T \cup {h}) = Cardinality(T) + 1
    BY <2>2, <2>3, <2>4, FS_AddElement
  <2>6. Cardinality(InForce') <= 1 + unretired' + Cardinality(Adopting')
    BY <1>6, <2>2, <2>3, <2>4, <2>5
  <2> QED BY <2>6 DEF FewInForce, InForce, Adopting
<1> QED BY <1>10, <1>13, <1>14, <1>15, <1>16, <1>18, <1>19 DEF FloorInv

\* The others are retired, and one is left.
LEMMA SupersedeStep == ASSUME FloorInv, NEW h \in Hands, Supersede(h) PROVE FloorInv'
<1>1. PICK j, n : j = hand[h] /\ n = j.version
  OBVIOUS
<1>2. FloorTyped /\ FloorKnows(j) /\ j.at = "supersede"
  BY <1>1 DEF Supersede, Doing, FloorInv
<1>3. "version" \in DOMAIN j /\ n \in DOMAIN accords
  BY <1>1, <1>2 DEF FloorKnows
<1>4. PICK more : more = [at |-> "adopted"]
  OBVIOUS
<1>5. /\ Go(h, more) /\ DOMAIN more = {"at"} /\ more.at = "adopted"
      /\ accords' = [v \in DOMAIN accords |->
           IF v = n THEN accords[v] ELSE [accords[v] EXCEPT !.status = "superseded"]]
      /\ UNCHANGED <<floor, amends, votes, carried, unretired>>
  BY <1>1, <1>4 DEF Supersede
<1>6. PICK k : hand' = [hand EXCEPT ![h] = k] /\ Learnt(k, hand[h], more)
  BY <1>5, GoesOn
<1>7. "version" \in DOMAIN k /\ k.at = "adopted" /\ k.version = n
  BY <1>1, <1>3, <1>5, <1>6 DEF Learnt
<1>8. /\ accords' \in Seq(Versions) /\ DOMAIN accords' = DOMAIN accords
      /\ \A v \in DOMAIN accords : accords'[v].motion = accords[v].motion
      /\ \A v \in DOMAIN accords : v # n => accords'[v].status = "superseded"
  <2>1. \A v \in DOMAIN accords : accords[v] \in Versions
    BY <1>2 DEF FloorTyped
  <2>2. \A v \in DOMAIN accords : /\ accords'[v] \in Versions /\ accords'[v].motion = accords[v].motion
                                  /\ v # n => accords'[v].status = "superseded"
    BY <1>5, <2>1 DEF Versions
  <2>3. DOMAIN accords = 1..Len(accords) /\ Len(accords) \in Nat
    BY <1>2 DEF FloorTyped
  <2>4. PICK top : top = Len(accords)
    OBVIOUS
  <2>5. top \in Nat /\ DOMAIN accords = 1..top
    BY <2>3, <2>4
  <2>6. accords' \in [1..top -> Versions]
    BY <1>5, <2>2, <2>5
  <2>7. accords' \in Seq(Versions)
    BY <2>5, <2>6
  <2>8. DOMAIN accords' = DOMAIN accords
    BY <1>5
  <2> QED BY <2>2, <2>7, <2>8
<1>9. FloorTyped'
  BY <1>2, <1>5, <1>6, <1>8 DEF FloorTyped
<1>10. \A o, on, c : Count(o, on, c)' = Count(o, on, c) /\ Count(o, on, c) \in Nat
  <2>1. \A o, on, c : Count(o, on, c)' = Count(o, on, c)
    BY <1>5 DEF Count, Cast
  <2> QED BY <1>2, <2>1, CountsAreNumbers
<1>11. FloorGrows
  BY <1>5, <1>8, <1>10 DEF FloorGrows, HasMotion, Backed
<1>12. \A m \in Motions : RowStands(m)'
  BY <1>5, <1>10 DEF FloorInv, RowStands, HasMotion, Backed, Applied
<1>13. (\A b \in Amendments : amends[b] # NoText => HasMotion(amends[b].motion))'
  BY <1>5 DEF FloorInv, HasMotion
<1>14. OneVoteEach'
  BY <1>5 DEF FloorInv, OneVoteEach
<1>15. (\A i \in DOMAIN accords : Mandated(i))'
  BY <1>5, <1>8 DEF FloorInv, Mandated, HasMotion
<1>16. FloorKnows(k)'
  BY <1>3, <1>7, <1>8 DEF FloorKnows, OnMotions
<1>17. \A g \in Hands : FloorKnows(hand[g])'
  BY <1>6, <1>11, <1>16, EverybodyKnows
<1>18. FewInForce'
  <2>1. PICK S, T : S = InForce' /\ T = Adopting'
    OBVIOUS
  <2>2. S \in SUBSET {n}
    BY <1>8, <2>1 DEF InForce
  <2>3. T \in SUBSET Hands
    BY <2>1 DEF Adopting
  <2>4. Cardinality(S) <= 1 /\ Cardinality(S) \in Nat
    <3>1. IsFiniteSet({n}) /\ Cardinality({n}) = 1
      BY FS_Singleton
    <3>2. IsFiniteSet(S) /\ Cardinality(S) <= Cardinality({n})
      BY <2>2, <3>1, FS_Subset
    <3>3. Cardinality(S) \in Nat
      BY <3>2, FS_CardinalityType
    <3> QED BY <3>1, <3>2, <3>3
  <2>5. Cardinality(T) \in Nat
    BY <2>3, HostAssumption, FS_Subset, FS_CardinalityType
  <2>6. Cardinality(S) <= 1 + unretired' + Cardinality(T)
    BY <1>9, <2>4, <2>5 DEF FloorTyped
  <2> QED BY <2>1, <2>6 DEF FewInForce, InForce, Adopting
<1> QED BY <1>9, <1>12, <1>13, <1>14, <1>15, <1>17, <1>18 DEF FloorInv

-----------------------------------------------------------------------------
\* An adoption that dies between its statements is counted; any other handler is not.
LEMMA FailStep == ASSUME FloorInv, NEW h \in Hands, GovFail(h) PROVE FloorInv'
<1>0. Answer(h) /\ UNCHANGED <<floor, amends, votes, accords, carried>> /\ FloorTyped
  BY DEF GovFail, govRows, FloorInv
<1>1. CASE hand[h].at # "supersede"
  <2>1. UNCHANGED unretired
    BY <1>1 DEF GovFail, Doing
  <2> QED BY <1>0, <1>1, <2>1, Answering
<1>2. CASE hand[h].at = "supersede"
  <2>1. unretired' = unretired + 1
    BY <1>2 DEF GovFail, Doing
  <2>2. PICK k : k = Idle
    OBVIOUS
  <2>3. hand' = [hand EXCEPT ![h] = k] /\ FloorKnows(k)' /\ k.at # "supersede"
    BY <1>0, <2>2 DEF Answer, FloorKnows, Idle, OnMotions
  <2>4. FloorTyped'
    <3>1. unretired' \in Nat
      BY <1>0, <2>1 DEF FloorTyped
    <3>2. hand' = [g \in Hands |-> hand'[g]]
      BY <1>0, <2>3 DEF FloorTyped
    <3> QED BY <1>0, <3>1, <3>2 DEF FloorTyped
  <2>5. FloorGrows /\ \A m, on, c : Count(m, on, c)' = Count(m, on, c)
    BY <1>0, SameTables
  <2>6. \A m \in Motions : RowStands(m)'
    BY <1>0, <2>5 DEF FloorInv, RowStands, HasMotion, Backed, Applied
  <2>7. (\A b \in Amendments : amends[b] # NoText => HasMotion(amends[b].motion))'
    BY <1>0 DEF FloorInv, HasMotion
  <2>8. OneVoteEach'
    BY <1>0 DEF FloorInv, OneVoteEach
  <2>9. (\A v \in DOMAIN accords : Mandated(v))'
    BY <1>0 DEF FloorInv, Mandated, HasMotion
  <2>10. \A g \in Hands : FloorKnows(hand[g])'
    BY <2>3, <2>5, EverybodyKnows
  <2>11. FewInForce'
    <3>1. PICK S, T : S = InForce /\ T = Adopting
      OBVIOUS
    <3>2. IsFiniteSet(T) /\ Cardinality(S) <= 1 + unretired + Cardinality(T)
          /\ Cardinality(S) \in Nat /\ Cardinality(T) \in Nat /\ unretired \in Nat
      BY <1>0, <3>1, InForceCounts DEF FloorInv, FloorTyped
    <3>3. InForce' = S /\ Adopting' = T \ {h} /\ h \in T
      BY <1>0, <1>2, <2>3, <3>1 DEF InForce, Adopting, Doing, FloorTyped
    <3>4. Cardinality(T \ {h}) = Cardinality(T) - 1
      BY <3>2, <3>3, FS_RemoveElement
    <3>5. Cardinality(InForce') <= 1 + unretired' + Cardinality(Adopting')
      BY <2>1, <3>2, <3>3, <3>4
    <3> QED BY <3>5 DEF FewInForce, InForce, Adopting
  <2> QED BY <2>4, <2>6, <2>7, <2>8, <2>9, <2>10, <2>11 DEF FloorInv
<1> QED BY <1>1, <1>2

\* What changes nothing on the floor, and no handler.
LEMMA FloorRests ==
  ASSUME FloorInv, UNCHANGED <<floor, amends, votes, accords, carried, unretired, hand>>
  PROVE  FloorInv'
<1>0. FloorTyped /\ FloorGrows /\ \A m, on, c : Count(m, on, c)' = Count(m, on, c)
  BY SameTables DEF FloorInv
<1>1. FloorTyped'
  BY <1>0 DEF FloorTyped
<1>2. \A m \in Motions : RowStands(m)'
  BY <1>0 DEF FloorInv, RowStands, HasMotion, Backed, Applied
<1>3. (\A b \in Amendments : amends[b] # NoText => HasMotion(amends[b].motion))'
  BY DEF FloorInv, HasMotion
<1>4. OneVoteEach' /\ FewInForce'
  BY DEF FloorInv, OneVoteEach, FewInForce, Doing
<1>5. (\A v \in DOMAIN accords : Mandated(v))'
  BY DEF FloorInv, Mandated, HasMotion
<1>6. \A g \in Hands : FloorKnows(hand[g])'
  BY <1>0, NobodyMoves
<1> QED BY <1>1, <1>2, <1>3, <1>4, <1>5, <1>6 DEF FloorInv

\* The chamber is empty at first.
LEMMA FloorStarts == GovInit => FloorInv
<1> SUFFICES ASSUME GovInit PROVE FloorInv
  OBVIOUS
<1>1. /\ floor = [m \in Motions |-> NoRow] /\ amends = [a \in Amendments |-> NoText]
      /\ votes = <<>> /\ accords = <<>> /\ carried = {} /\ unretired = 0
      /\ hand = [h \in Hands |-> Idle]
  BY DEF GovInit, HostInit
<1>2. FloorTyped
  BY <1>1 DEF FloorTyped
<1>3. \A m \in Motions : RowStands(m)
  BY <1>1 DEF RowStands, HasMotion
<1>4. \A b \in Amendments : amends[b] = NoText
  BY <1>1
<1>5. OneVoteEach /\ \A v \in DOMAIN accords : Mandated(v)
  BY <1>1 DEF OneVoteEach
<1>6. \A h \in Hands : FloorKnows(hand[h])
  BY <1>1, IdleKnows DEF FloorKnows
<1>7. FewInForce
  <2>1. InForce = {}
    BY <1>1 DEF InForce
  <2>2. Cardinality(InForce) = 0 /\ Cardinality(Adopting) \in Nat
    BY <1>2, <2>1, FS_EmptySet, InForceCounts
  <2> QED BY <1>1, <1>2, <2>2, InForceCounts
<1> QED BY <1>2, <1>3, <1>4, <1>5, <1>6, <1>7 DEF FloorInv

\* Every handler of the chamber keeps the floor in order.
LEMMA ChamberStep == ASSUME FloorInv, NEW h \in Hands, Chamber(h) PROVE FloorInv'
<1>1. ASSUME NEW step \in {"open", "close_meeting", "draft", "adopt_minutes"}, BeginMeeting(h, step)
      PROVE  FloorInv'
  BY <1>1, OtherRequests
<1>2. CASE \/ OpenMeeting(h) \/ CloseMeeting(h) \/ DraftMinutes(h) \/ AdoptMinutes(h)
           \/ AnnounceProposal(h) \/ Announce(h) \/ PublishAdopted(h)
  BY <1>2, QuietSteps
<1>3. ASSUME NEW m \in Motions, NEW who \in Members, BeginSecond(h, m, who) PROVE FloorInv'
  BY <1>3, SecondRequests
<1>4. ASSUME NEW m \in Motions, NEW who \in Members, NEW choice \in Stances,
             BeginVote(h, m, who, choice)
      PROVE  FloorInv'
  <2>1. PICK on : on = Main
    OBVIOUS
  <2>2. /\ on \in Amendments \cup {Main}
        /\ Begin(h, "vote_room", m, Open, [who |-> who, choice |-> choice, on |-> on])
    BY <1>4, <2>1 DEF BeginVote
  <2> QED BY <2>2, VoteRequests
<1>5. ASSUME NEW a \in Amendments, NEW who \in Members, NEW choice \in Stances,
             BeginAmendmentVote(h, a, who, choice)
      PROVE  FloorInv'
  <2>1. amends[a] # NoText
    BY <1>5 DEF BeginAmendmentVote, NoText
  <2>2. amends[a] \in AmendRows
    BY <2>1 DEF FloorInv, FloorTyped
  <2>3. PICK m \in Motions : m = amends[a].motion
    BY <2>2 DEF AmendRows
  <2>4. /\ a \in Amendments \cup {Main}
        /\ Begin(h, "vote_room", m, Open, [who |-> who, choice |-> choice, on |-> a])
    BY <1>5, <2>3 DEF BeginAmendmentVote
  <2> QED BY <2>4, VoteRequests
<1>6. ASSUME NEW m \in Motions,
             \/ \E step \in {"debate_opens", "debate_closes"} : BeginDebate(h, m, step)
             \/ BeginWithdraw(h, m) \/ BeginImplement(h, m) \/ BeginClose(h, m)
      PROVE  FloorInv'
  BY <1>6, MotionRequests
<1>7. ASSUME NEW m \in Motions, NEW who \in Members, NEW body \in Bodies, NEW met \in BOOLEAN,
             NEW t \in Thresholds, ProposeMotion(h, m, who, body, met, t)
      PROVE  FloorInv'
  BY <1>7, ProposeStep
<1>8. ASSUME NEW m \in Motions, BeginAdopt(h, m) PROVE FloorInv'
  BY <1>8, OtherRequests
<1>9. ASSUME NEW a \in Amendments, BeginRuling(h, a) PROVE FloorInv'
  BY <1>9, OtherRequests
<1>10. CASE \/ Admit(h, "second_room", "second") \/ Admit(h, "vote_room", "cast")
            \/ CountRoom(h) \/ CheckSource(h)
  BY <1>10, LookSteps
<1>11. CASE Second(h) \/ OpenDebate(h) \/ CloseDebate(h) \/ Withdraw(h) \/ Implement(h)
  BY <1>11, StageSteps
<1>12. CASE CastVote(h)
  BY <1>12, CastStep
<1>13. CASE ReadRule(h) \/ TallyMotion(h) \/ TallyAmendment(h)
  BY <1>13, RuleStep, TallyStep, AmendmentTallyStep
<1>14. CASE Decide(h) \/ Rule(h) \/ ApplyAmendment(h)
  BY <1>14, DecideStep, RulingStep, ApplyStep
<1>15. CASE InsertVersion(h) \/ Supersede(h) \/ GovFail(h)
  BY <1>15, InsertStep, SupersedeStep, FailStep
<1>16. ASSUME NEW m \in Motions, NEW kind \in {"friendly", "formal"}, BeginAmendment(h, m, kind)
       PROVE  FloorInv'
  BY <1>16, AmendRequests
<1>17. ASSUME NEW a \in Amendments, InsertAmendment(h, a) PROVE FloorInv'
  BY <1>17, AmendInserts
<1> QED
  BY <1>1, <1>2, <1>3, <1>4, <1>5, <1>6, <1>7, <1>8, <1>9, <1>10, <1>11, <1>12, <1>13, <1>14, <1>15,
     <1>16, <1>17
  DEF Chamber

\* Every step of the chamber does.
LEMMA GovStep == FloorInv /\ GovNext => FloorInv'
<1> SUFFICES ASSUME FloorInv, GovNext PROVE FloorInv'
  OBVIOUS
<1>1. ASSUME NEW h \in Hands, Chamber(h) PROVE FloorInv'
  BY <1>1, ChamberStep
<1>2. ASSUME NEW rule \in Rules, EditMeeting(rule) PROVE FloorInv'
  BY <1>2, FloorRests DEF EditMeeting, AskOnce
<1>3. ASSUME NEW who \in Members, NEW here \in BOOLEAN, MarkAttendance(who, here) PROVE FloorInv'
  BY <1>3, FloorRests DEF MarkAttendance, AskOnce
<1>4. ASSUME NEW a \in Amendments, RejectAmendment(a) PROVE FloorInv'
  BY <1>4, RejectStep
<1> QED BY <1>1, <1>2, <1>3, <1>4 DEF GovNext

\* Everything that is asked of the floor follows.
LEMMA FloorOrders == FloorInv => FloorIsInOrder
<1> SUFFICES ASSUME FloorInv PROVE FloorIsInOrder
  OBVIOUS
<1>0. /\ FloorTyped /\ OneVoteEach /\ FewInForce
      /\ \A m \in Motions : RowStands(m) /\ floor[m] \in MotionRows \cup {NoRow}
  BY DEF FloorInv, FloorTyped
<1>1. \A m \in Motions : floor[m].stage # "none" <=> HasMotion(m)
  BY <1>0 DEF HasMotion, NoRow, MotionRows, Stages, Alive, Open
<1>2. SecondedByAnother
  <2> SUFFICES ASSUME NEW m \in Motions, floor[m].stage \in Open \cup {"decided", "implemented"}
               PROVE  floor[m].second \in Members \ {floor[m].by}
    BY DEF SecondedByAnother
  <2>1. HasMotion(m)
    BY <1>1 DEF Open
  <2> QED BY <1>0, <2>1 DEF RowStands, Backed
<1>3. OutcomeFollowsVotes
  <2> SUFFICES ASSUME NEW m \in Motions, floor[m].stage # "none", floor[m].result # "pending"
               PROVE  /\ (floor[m].result = "passed") = Carries(floor[m].threshold, floor[m].yes, floor[m].no)
                      /\ floor[m].yes <= Count(m, Main, "yes") /\ floor[m].no <= Count(m, Main, "no")
    BY DEF OutcomeFollowsVotes
  <2>1. HasMotion(m) /\ floor[m] \in MotionRows
    BY <1>0, <1>1 DEF HasMotion
  <2>2. PICK t, yes, no : t = floor[m].threshold /\ yes = floor[m].yes /\ no = floor[m].no
    OBVIOUS
  <2>3. Carries(t, yes, no) \in BOOLEAN
    BY <2>1, <2>2, CarriesIsBoolean DEF MotionRows
  <2>4. (floor[m].result = "passed") <=> Carries(t, yes, no)
    BY <1>0, <2>1, <2>2 DEF RowStands
  <2>5. (floor[m].result = "passed") = Carries(t, yes, no)
    BY <2>3, <2>4
  <2> QED BY <1>0, <2>1, <2>2, <2>5 DEF RowStands
<1>4. AppliedWasCarried
  BY <1>0, <1>1 DEF AppliedWasCarried, RowStands, Applied
<1>5. AccordsHaveMandate
  BY DEF FloorInv, AccordsHaveMandate, Mandated
<1> QED BY <1>0, <1>2, <1>3, <1>4, <1>5 DEF FloorIsInOrder

\* The floor's invariant, for any number of members, motions and requests.
THEOREM FloorInvariant == GovSpec => []FloorInv
<1>1. FloorInv /\ [GovNext]_govVars => FloorInv'
  <2>1. FloorInv /\ UNCHANGED govVars => FloorInv'
    BY FloorRests DEF govVars, govRows, hostVars
  <2> QED BY <2>1, GovStep
<1> QED BY <1>1, FloorStarts, PTL DEF GovSpec

\* FloorIsInOrder: seconds, single votes, outcomes, texts and Accords.
THEOREM FloorStaysInOrder == GovSpec => []FloorIsInOrder
  BY FloorInvariant, FloorOrders, PTL
-----------------------------------------------------------------------------
(* Missions.                                                               *)

\* The rows of its tables.
MissionStages == {"request", "review", "approval", "execution", "debrief", "report"}
MissionRows ==
  [stage : MissionStages, state : {"open", "rejected", "completed"}, edited : BOOLEAN,
   criteria : BOOLEAN, approver : {"nobody", "lodge", "council"}, hours : BOOLEAN,
   debriefed : BOOLEAN, summary : BOOLEAN, mentor : Mentors \cup {"none"}]
Matches  == [mission : Missions, mentor : Mentors, status : {"active", "completed", "ended"}]
Appealed == [mission : Missions, status : {"pending", "overturned", "upheld"}]

MissionsTyped ==
  /\ missions \in [Missions -> MissionRows \cup {NoMission}]
  /\ appeals \in Seq(Appealed) /\ matches \in Seq(Matches)
  /\ hand = [h \in Hands |-> hand[h]]

\* The paperwork a row's stage asks for; a rejected mission was reviewed too.
Papered(row) ==
  /\ row.stage \in {"approval", "execution", "debrief", "report"} => row.criteria = TRUE
  /\ row.stage \in {"execution", "debrief", "report"} => row.approver # "nobody"
  /\ row.stage \in {"debrief", "report"} => row.debriefed = TRUE
  /\ row.stage = "report" => row.summary = TRUE
  /\ row.state = "rejected" => row.criteria = TRUE

\* No paper is ever taken away.
NoLess(old, row) ==
  /\ old.criteria = TRUE => row.criteria = TRUE
  /\ old.approver # "nobody" => row.approver # "nobody"
  /\ old.debriefed = TRUE => row.debriefed = TRUE
  /\ old.summary = TRUE => row.summary = TRUE

Matched(m, who) == \E i \in DOMAIN matches : matches[i].mission = m /\ matches[i].mentor = who

\* What a handler of a mission knows, by its step.
OfMissions  == Steps \ {"unmatch", "milestone"}
AfterReview ==
  {"mentor", "reviewed", "decision", "debrief", "debriefed", "report", "reported", "complete",
   "publish", "appeal", "rule_appeal", "overturn"}
Briefed(k) ==
  /\ k.at \in OfMissions =>
       {"at", "mission"} \subseteq DOMAIN k /\ k.mission \in Missions /\ Proposed(k.mission)
  /\ k.at \in AfterReview => missions[k.mission].criteria = TRUE
  /\ k.at \in {"debrief", "debriefed", "report", "reported", "complete", "publish"} =>
       missions[k.mission].approver # "nobody"
  /\ k.at \in {"debriefed", "report", "reported", "complete", "publish"} =>
       missions[k.mission].debriefed = TRUE
  /\ k.at \in {"reported", "complete", "publish"} => missions[k.mission].summary = TRUE
  /\ k.at \in {"complete", "publish"} => "summary" \in DOMAIN k /\ k.summary = TRUE
  /\ k.at \in {"review", "mentor", "reviewed"} =>
       /\ {"mentor", "next"} \subseteq DOMAIN k
       /\ k.mentor \in Mentors \cup {"none"} /\ k.next \in {"approval", "request"}
  /\ k.at = "mentor" => k.mentor # "none"
  /\ k.at = "reviewed" => (k.mentor # "none" => Matched(k.mission, k.mentor))
  /\ k.at = "decision" => "approved" \in DOMAIN k /\ k.approved \in BOOLEAN
  /\ k.at = "match" => "mentor" \in DOMAIN k /\ k.mentor \in Mentors
  /\ k.at = "unmatch" => "status" \in DOMAIN k /\ k.status \in {"completed", "ended"}
  /\ k.at = "rule_appeal" => "outcome" \in DOMAIN k /\ k.outcome \in {"overturned", "upheld"}

MissionStands(m) ==
  Proposed(m) =>
    /\ Papered(missions[m])
    /\ missions[m].mentor # "none" => Matched(m, missions[m].mentor)

AppealStands(i) == Proposed(appeals[i].mission) /\ missions[appeals[i].mission].criteria = TRUE

MissionInv ==
  /\ MissionsTyped
  /\ \A m \in Missions : MissionStands(m)
  /\ \A i \in DOMAIN appeals : AppealStands(i)
  /\ \A h \in Hands : Briefed(hand[h])

-----------------------------------------------------------------------------
(* What one step leaves to everybody else.                                 *)

MissionsGrow ==
  /\ \A m \in Missions : Proposed(m) => Proposed(m)' /\ NoLess(missions[m], missions'[m])
  /\ \A m, who : Matched(m, who) => Matched(m, who)'

\* What a handler knows of its mission stays so.
LEMMA BriefedStays == ASSUME MissionsGrow, NEW k, Briefed(k) PROVE Briefed(k)'
<1>1. k.at \in OfMissions =>
        /\ {"at", "mission"} \subseteq DOMAIN k /\ k.mission \in Missions /\ Proposed(k.mission)'
        /\ NoLess(missions[k.mission], missions'[k.mission])
  BY DEF Briefed, MissionsGrow
<1>2. AfterReview \subseteq OfMissions
  BY DEF AfterReview, OfMissions, Steps
<1>3. /\ k.at \in AfterReview => missions'[k.mission].criteria = TRUE
      /\ k.at \in {"debrief", "debriefed", "report", "reported", "complete", "publish"} =>
           missions'[k.mission].approver # "nobody"
      /\ k.at \in {"debriefed", "report", "reported", "complete", "publish"} =>
           missions'[k.mission].debriefed = TRUE
      /\ k.at \in {"reported", "complete", "publish"} => missions'[k.mission].summary = TRUE
  BY <1>1, <1>2 DEF Briefed, NoLess, AfterReview
<1>4. k.at = "reviewed" => (k.mentor # "none" => Matched(k.mission, k.mentor)')
  BY DEF Briefed, MissionsGrow
<1> QED BY <1>1, <1>3, <1>4 DEF Briefed

\* Whoever moves, the others know what they knew.
LEMMA EverybodyIsBriefed ==
  ASSUME MissionInv, MissionsGrow, NEW h \in Hands, NEW k, hand' = [hand EXCEPT ![h] = k],
         Briefed(k)'
  PROVE  \A g \in Hands : Briefed(hand[g])'
<1> SUFFICES ASSUME NEW g \in Hands PROVE Briefed(hand[g])'
  OBVIOUS
<1>1. CASE g = h
  <2>1. hand'[g] = k
    BY <1>1 DEF MissionInv, MissionsTyped
  <2> QED BY <2>1 DEF Briefed
<1>2. CASE g # h
  <2>1. PICK j : j = hand[g]
    OBVIOUS
  <2>2. hand'[g] = j
    BY <1>2, <2>1 DEF MissionInv, MissionsTyped
  <2>3. Briefed(j)
    BY <2>1 DEF MissionInv, Briefed
  <2>4. Briefed(j)'
    BY <2>3, BriefedStays
  <2> QED BY <2>2, <2>4 DEF Briefed
<1> QED BY <1>1, <1>2

\* Nobody knows less where nothing is written.
LEMMA SameMissions == ASSUME UNCHANGED <<missions, matches>> PROVE MissionsGrow
  BY DEF MissionsGrow, NoLess, Proposed, Matched

\* A handler that only reads, or answers, or is of another plugin.
LEMMA LodgeHandMoves ==
  ASSUME MissionInv, NEW h \in Hands, NEW k, hand' = [hand EXCEPT ![h] = k], Briefed(k),
         UNCHANGED <<missions, appeals, matches>>
  PROVE  MissionInv'
<1>0. MissionsTyped /\ MissionsGrow
  BY SameMissions DEF MissionInv
<1>1. MissionsTyped'
  BY <1>0 DEF MissionsTyped
<1>2. \A m \in Missions : MissionStands(m)'
  BY DEF MissionInv, MissionStands, Proposed, Papered, Matched
<1>3. (\A i \in DOMAIN appeals : AppealStands(i))'
  BY DEF MissionInv, AppealStands, Proposed
<1>4. Briefed(k)'
  BY <1>0, BriefedStays
<1>5. \A g \in Hands : Briefed(hand[g])'
  BY <1>0, <1>4, EverybodyIsBriefed
<1> QED BY <1>1, <1>2, <1>3, <1>5 DEF MissionInv

\* An appeal is on a mission.
LEMMA AppealsAreOnMissions ==
  ASSUME MissionsTyped, NEW i \in DOMAIN appeals PROVE appeals[i].mission \in Missions
<1>1. appeals[i] \in Appealed
  BY DEF MissionsTyped
<1> QED BY <1>1 DEF Appealed

\* Who has answered knows nothing of missions.
LEMMA IdleIsBriefed == Briefed(Idle)
  BY DEF Briefed, Idle, OfMissions, AfterReview, Steps

-----------------------------------------------------------------------------
(* Requests.                                                               *)

\* A request on a mission that is at one of some stages.
LEMMA StartedOn ==
  ASSUME MissionInv, NEW h \in Hands, NEW step, NEW m \in Missions,
         NEW stages \in SUBSET MissionStages, NEW read, Start(h, step, m, stages, read)
  PROVE  /\ Proposed(m) /\ missions[m] \in MissionRows /\ missions[m].stage \in stages
         /\ Papered(missions[m]) /\ hand[h] = Idle /\ UNCHANGED <<missions, appeals, matches>>
<1>1. /\ missions[m].stage \in stages /\ hand[h] = Idle /\ UNCHANGED <<missions, appeals, matches>>
  BY DEF Start, Ask, Rests, missionRows, plansVars
<1>2. missions[m] # NoMission
  BY <1>1 DEF NoMission, MissionStages
<1>3. missions[m] \in MissionRows
  BY <1>2 DEF MissionInv, MissionsTyped
<1> QED BY <1>1, <1>2, <1>3 DEF MissionInv, MissionStands, Proposed

\* It has what it read, and the mission.
LEMMA StartedKnows ==
  ASSUME NEW h, NEW step, NEW m, NEW stages, NEW read, Start(h, step, m, stages, read)
  PROVE  \E k : /\ hand' = [hand EXCEPT ![h] = k]
                /\ {"at", "mission"} \subseteq DOMAIN k /\ k.at = step /\ k.mission = m
                /\ \A x \in DOMAIN read :
                     x \in DOMAIN k /\ (x \notin {"at", "mission"} => k[x] = read[x])
<1>1. hand' = [hand EXCEPT ![h] = Knowing(read, [at |-> step, mission |-> m])]
  BY DEF Start, Ask
<1>2. PICK more : more = [at |-> step, mission |-> m]
  OBVIOUS
<1>3. DOMAIN more = {"at", "mission"} /\ more.at = step /\ more.mission = m
  BY <1>2
<1>4. PICK k : k = Knowing(read, more)
  OBVIOUS
<1>5. /\ DOMAIN k = {"at", "mission"} \cup DOMAIN read /\ k.at = step /\ k.mission = m
      /\ \A x \in DOMAIN read \ {"at", "mission"} : k[x] = read[x]
  BY <1>3, <1>4 DEF Knowing
<1>6. hand' = [hand EXCEPT ![h] = k]
  BY <1>1, <1>2, <1>4
<1> QED BY <1>5, <1>6

\* The requests that read the stage and no more.
LEMMA PlainRequests ==
  ASSUME MissionInv, NEW h \in Hands, NEW m \in Missions, NEW at, NEW stages, NEW read,
         Start(h, at, m, stages, read),
         \/ at = "edit_mission" /\ stages = {"request", "review"}
         \/ at = "submit" /\ stages = {"request"}
         \/ at \in {"progress", "debrief"} /\ stages = {"execution"}
         \/ at = "report" /\ stages = {"debrief"}
         \/ at = "plan" /\ stages = PlanStages
  PROVE  MissionInv'
<1>1. stages \in SUBSET MissionStages
  BY DEF MissionStages, PlanStages
<1>2. /\ Proposed(m) /\ missions[m].stage \in stages /\ Papered(missions[m])
      /\ UNCHANGED <<missions, appeals, matches>>
  BY <1>1, StartedOn
<1>3. PICK k : /\ hand' = [hand EXCEPT ![h] = k]
               /\ {"at", "mission"} \subseteq DOMAIN k /\ k.at = at /\ k.mission = m
  BY StartedKnows
<1>4. /\ at \in {"debrief", "report"} => missions[m].criteria = TRUE /\ missions[m].approver # "nobody"
      /\ at = "report" => missions[m].debriefed = TRUE
  BY <1>2 DEF Papered
<1>5. Briefed(k)
  BY <1>2, <1>3, <1>4 DEF Briefed, AfterReview
<1> QED BY <1>2, <1>3, <1>5, LodgeHandMoves

\* A review, a decision and a completion read more.
LEMMA ReadingRequests ==
  ASSUME MissionInv, NEW h \in Hands, NEW m \in Missions
  PROVE  /\ \A next \in {"approval", "request"}, who \in Mentors \cup {"none"} :
              Start(h, "review", m, {"review"}, [next |-> next, mentor |-> who]) => MissionInv'
         /\ \A yes \in BOOLEAN : Start(h, "decision", m, {"approval"}, [approved |-> yes]) => MissionInv'
         /\ Start(h, "complete", m, {"report"}, [summary |-> missions[m].summary]) => MissionInv'
<1>1. ASSUME NEW next \in {"approval", "request"}, NEW who \in Mentors \cup {"none"},
             Start(h, "review", m, {"review"}, [next |-> next, mentor |-> who])
      PROVE  MissionInv'
  <2>1. PICK read, stages : read = [next |-> next, mentor |-> who] /\ stages = {"review"}
    OBVIOUS
  <2>2. /\ DOMAIN read = {"next", "mentor"} /\ read.next = next /\ read.mentor = who
        /\ stages \in SUBSET MissionStages /\ Start(h, "review", m, stages, read)
    BY <1>1, <2>1 DEF MissionStages
  <2>3. Proposed(m) /\ UNCHANGED <<missions, appeals, matches>>
    BY <2>2, StartedOn
  <2>4. PICK k : /\ hand' = [hand EXCEPT ![h] = k]
                 /\ {"at", "mission"} \subseteq DOMAIN k /\ k.at = "review" /\ k.mission = m
                 /\ \A x \in DOMAIN read :
                      x \in DOMAIN k /\ (x \notin {"at", "mission"} => k[x] = read[x])
    BY <2>2, StartedKnows
  <2>5. {"mentor", "next"} \subseteq DOMAIN k /\ k.mentor = who /\ k.next = next
    BY <2>2, <2>4
  <2>6. Briefed(k)
    BY <2>3, <2>4, <2>5 DEF Briefed, AfterReview
  <2> QED BY <2>3, <2>4, <2>6, LodgeHandMoves
<1>2. ASSUME NEW yes \in BOOLEAN, Start(h, "decision", m, {"approval"}, [approved |-> yes])
      PROVE  MissionInv'
  <2>1. PICK read, stages : read = [approved |-> yes] /\ stages = {"approval"}
    OBVIOUS
  <2>2. /\ DOMAIN read = {"approved"} /\ read.approved = yes
        /\ stages \in SUBSET MissionStages /\ Start(h, "decision", m, stages, read)
    BY <1>2, <2>1 DEF MissionStages
  <2>3. /\ Proposed(m) /\ missions[m].stage \in stages /\ Papered(missions[m])
        /\ UNCHANGED <<missions, appeals, matches>>
    BY <2>2, StartedOn
  <2>4. missions[m].criteria = TRUE
    BY <2>1, <2>3 DEF Papered
  <2>5. PICK k : /\ hand' = [hand EXCEPT ![h] = k]
                 /\ {"at", "mission"} \subseteq DOMAIN k /\ k.at = "decision" /\ k.mission = m
                 /\ \A x \in DOMAIN read :
                      x \in DOMAIN k /\ (x \notin {"at", "mission"} => k[x] = read[x])
    BY <2>2, StartedKnows
  <2>6. "approved" \in DOMAIN k /\ k.approved = yes
    BY <2>2, <2>5
  <2>7. Briefed(k)
    BY <2>3, <2>4, <2>5, <2>6 DEF Briefed, AfterReview
  <2> QED BY <2>3, <2>5, <2>7, LodgeHandMoves
<1>3. ASSUME Start(h, "complete", m, {"report"}, [summary |-> missions[m].summary]) PROVE MissionInv'
  <2>1. PICK read, stages, sum :
          read = [summary |-> sum] /\ stages = {"report"} /\ sum = missions[m].summary
    OBVIOUS
  <2>2. /\ DOMAIN read = {"summary"} /\ read.summary = sum
        /\ stages \in SUBSET MissionStages /\ Start(h, "complete", m, stages, read)
    BY <1>3, <2>1 DEF MissionStages
  <2>3. /\ Proposed(m) /\ missions[m].stage \in stages /\ Papered(missions[m])
        /\ UNCHANGED <<missions, appeals, matches>>
    BY <2>2, StartedOn
  <2>4. /\ missions[m].criteria = TRUE /\ missions[m].approver # "nobody"
        /\ missions[m].debriefed = TRUE /\ missions[m].summary = TRUE /\ sum = TRUE
    BY <2>1, <2>3 DEF Papered
  <2>5. PICK k : /\ hand' = [hand EXCEPT ![h] = k]
                 /\ {"at", "mission"} \subseteq DOMAIN k /\ k.at = "complete" /\ k.mission = m
                 /\ \A x \in DOMAIN read :
                      x \in DOMAIN k /\ (x \notin {"at", "mission"} => k[x] = read[x])
    BY <2>2, StartedKnows
  <2>6. "summary" \in DOMAIN k /\ k.summary = sum
    BY <2>2, <2>5
  <2>7. Briefed(k)
    BY <2>3, <2>4, <2>5, <2>6 DEF Briefed, AfterReview
  <2> QED BY <2>3, <2>5, <2>7, LodgeHandMoves
<1> QED BY <1>1, <1>2, <1>3

\* Appeals, mentors and milestones, and what was being written before.
LEMMA OtherLodgeRequests ==
  ASSUME MissionInv, NEW h \in Hands,
         \/ \E m \in Missions : BeginAppeal(h, m) \/ \E who \in Mentors : BeginMatch(h, m, who)
         \/ \E i \in DOMAIN appeals, o \in {"overturned", "upheld"} : BeginAppealDecision(h, i, o)
         \/ \E i \in DOMAIN matches, status \in {"completed", "ended"} : BeginEndMatch(h, i, status)
         \/ \E i \in DOMAIN plans, status \in {"same", "pending", "done"}, pct \in {Keep, 40} :
              BeginMilestone(h, i, status, pct)
  PROVE  MissionInv'
<1>1. ASSUME NEW k, hand' = [hand EXCEPT ![h] = k], Briefed(k),
             UNCHANGED <<missions, appeals, matches>>
      PROVE  MissionInv'
  BY <1>1, LodgeHandMoves
<1>2. ASSUME NEW m \in Missions, BeginAppeal(h, m) PROVE MissionInv'
  <2>1. PICK k : k = [at |-> "appeal", mission |-> m]
    OBVIOUS
  <2>2. /\ Proposed(m) /\ missions[m].state = "rejected" /\ hand' = [hand EXCEPT ![h] = k]
        /\ UNCHANGED <<missions, appeals, matches>>
    BY <1>2, <2>1 DEF BeginAppeal, Ask, missionRows, plansVars
  <2>3. missions[m].criteria = TRUE
    BY <2>2 DEF MissionInv, MissionStands, Papered
  <2>4. {"at", "mission"} \subseteq DOMAIN k /\ k.at = "appeal" /\ k.mission = m
    BY <2>1
  <2>5. Briefed(k)
    BY <2>2, <2>3, <2>4 DEF Briefed, AfterReview
  <2> QED BY <1>1, <2>2, <2>5
<1>3. ASSUME NEW m \in Missions, NEW who \in Mentors, BeginMatch(h, m, who) PROVE MissionInv'
  <2>1. PICK k : k = [at |-> "match", mission |-> m, mentor |-> who]
    OBVIOUS
  <2>2. /\ Proposed(m) /\ hand' = [hand EXCEPT ![h] = k] /\ UNCHANGED <<missions, appeals, matches>>
    BY <1>3, <2>1 DEF BeginMatch, Ask, missionRows, plansVars
  <2>3. {"at", "mission", "mentor"} \subseteq DOMAIN k /\ k.at = "match" /\ k.mission = m /\ k.mentor = who
    BY <2>1
  <2>4. Briefed(k)
    BY <2>2, <2>3 DEF Briefed, AfterReview
  <2> QED BY <1>1, <2>2, <2>4
<1>4. ASSUME NEW i \in DOMAIN appeals, NEW o \in {"overturned", "upheld"}, BeginAppealDecision(h, i, o)
      PROVE  MissionInv'
  <2>0. PICK m : m = appeals[i].mission
    OBVIOUS
  <2>1. PICK k : k = [at |-> "rule_appeal", mission |-> m, appeal |-> i, outcome |-> o]
    OBVIOUS
  <2>2. hand' = [hand EXCEPT ![h] = k] /\ UNCHANGED <<missions, appeals, matches>>
    BY <1>4, <2>0, <2>1 DEF BeginAppealDecision, Ask, missionRows, plansVars
  <2>3. m \in Missions /\ Proposed(m) /\ missions[m].criteria = TRUE
    BY <1>4, <2>0, AppealsAreOnMissions DEF MissionInv, AppealStands
  <2>4. /\ {"at", "mission", "outcome"} \subseteq DOMAIN k
        /\ k.at = "rule_appeal" /\ k.mission = m /\ k.outcome = o
    BY <2>1
  <2>5. Briefed(k)
    BY <2>3, <2>4 DEF Briefed, AfterReview
  <2> QED BY <1>1, <2>2, <2>5
<1>5. ASSUME NEW i \in DOMAIN matches, NEW status \in {"completed", "ended"}, BeginEndMatch(h, i, status)
      PROVE  MissionInv'
  <2>1. PICK k : k = [at |-> "unmatch", match |-> i, status |-> status]
    OBVIOUS
  <2>2. hand' = [hand EXCEPT ![h] = k] /\ UNCHANGED <<missions, appeals, matches>>
    BY <1>5, <2>1 DEF BeginEndMatch, Ask, missionRows, plansVars
  <2>3. "status" \in DOMAIN k /\ k.at = "unmatch" /\ k.status = status
    BY <2>1
  <2>4. Briefed(k)
    BY <2>3 DEF Briefed, AfterReview, OfMissions
  <2> QED BY <1>1, <2>2, <2>4
<1>6. ASSUME NEW i \in DOMAIN plans, NEW status \in {"same", "pending", "done"}, NEW pct \in {Keep, 40},
             BeginMilestone(h, i, status, pct)
      PROVE  MissionInv'
  <2>1. PICK k : k = [at |-> "milestone", plan |-> i, status |-> status, pct |-> pct]
    OBVIOUS
  <2>2. hand' = [hand EXCEPT ![h] = k] /\ UNCHANGED <<missions, appeals, matches>>
    BY <1>6, <2>1 DEF BeginMilestone, Ask, missionRows, plansVars
  <2>3. k.at = "milestone"
    BY <2>1
  <2>4. Briefed(k)
    BY <2>3 DEF Briefed, AfterReview, OfMissions
  <2> QED BY <1>1, <2>2, <2>4
<1> QED BY <1>2, <1>3, <1>4, <1>5, <1>6

-----------------------------------------------------------------------------
(* The statements that write a mission.                                    *)

\* A row is written, whatever its handler then does.
LEMMA MissionWrite ==
  ASSUME MissionInv, NEW h \in Hands, NEW k, hand' = [hand EXCEPT ![h] = k],
         NEW m \in Missions, Proposed(m), NEW row \in MissionRows,
         missions' = [missions EXCEPT ![m] = row], NoLess(missions[m], row), Papered(row),
         row.mentor # "none" => Matched(m, row.mentor),
         UNCHANGED <<appeals, matches>>, Briefed(k)'
  PROVE  MissionInv'
<1>1. /\ MissionsTyped /\ missions'[m] = row /\ missions'[m] # NoMission
      /\ \A o \in Missions : o # m => missions'[o] = missions[o]
  BY DEF MissionInv, MissionsTyped, MissionRows, NoMission, MissionStages
<1>2. MissionsTyped'
  BY DEF MissionInv, MissionsTyped
<1>3. \A o, who : Matched(o, who)' <=> Matched(o, who)
  BY DEF Matched
<1>4. MissionsGrow
  BY <1>1, <1>3 DEF MissionsGrow, Proposed, NoLess
<1>5. ASSUME NEW o \in Missions PROVE MissionStands(o)'
  <2>1. CASE o = m
    BY <1>1, <1>3, <2>1 DEF MissionStands
  <2>2. CASE o # m
    <3>1. MissionStands(o) /\ missions'[o] = missions[o]
      BY <1>1, <2>2 DEF MissionInv
    <3> QED BY <1>3, <3>1 DEF MissionStands, Proposed, Papered
  <2> QED BY <2>1, <2>2
<1>6. ASSUME NEW i \in DOMAIN appeals' PROVE AppealStands(i)'
  <2>1. AppealStands(i) /\ appeals'[i] = appeals[i] /\ appeals[i].mission \in Missions
    BY <1>6, AppealsAreOnMissions DEF MissionInv
  <2> QED BY <1>4, <2>1 DEF AppealStands, MissionsGrow, NoLess
<1>7. \A g \in Hands : Briefed(hand[g])'
  BY <1>4, EverybodyIsBriefed
<1> QED BY <1>2, <1>5, <1>6, <1>7 DEF MissionInv

\* What a statement on a mission finds.
LEMMA Writing ==
  ASSUME MissionInv, NEW h \in Hands, NEW step \in OfMissions, NEW row, Writes(h, step, row)
  PROVE  /\ hand[h].at = step /\ {"at", "mission"} \subseteq DOMAIN hand[h]
         /\ hand[h].mission \in Missions /\ Proposed(hand[h].mission)
         /\ Mission(h) \in MissionRows /\ MissionStands(hand[h].mission) /\ Briefed(hand[h])
         /\ missions' = [missions EXCEPT ![hand[h].mission] = row] /\ UNCHANGED <<appeals, matches>>
<1>1. hand[h].at = step /\ Briefed(hand[h])
  BY DEF Writes, Doing, MissionInv
<1>2. /\ {"at", "mission"} \subseteq DOMAIN hand[h]
      /\ hand[h].mission \in Missions /\ Proposed(hand[h].mission)
  BY <1>1 DEF Briefed
<1>3. Mission(h) \in MissionRows /\ MissionStands(hand[h].mission)
  BY <1>2 DEF MissionInv, MissionsTyped, Mission, Proposed
<1> QED BY <1>1, <1>2, <1>3 DEF Writes, plansVars

\* The statements whose handler then answers.
LEMMA LastWrites ==
  ASSUME MissionInv, NEW h \in Hands,
         \/ Edit(h) \/ Submit(h) \/ Reviewed(h) \/ Decision(h) \/ Progress(h) \/ Debriefed(h)
         \/ Reported(h) \/ Overturn(h)
  PROVE  MissionInv'
<1>1. PICK m, old, known : m = hand[h].mission /\ old = missions[m] /\ known = hand[h]
  OBVIOUS
<1>2. PICK step, row :
        /\ Writes(h, step, row) /\ Answer(h)
        /\ \/ step = "edit_mission" /\ row = [old EXCEPT !.edited = TRUE]
           \/ step = "submit" /\ row = [old EXCEPT !.stage = "review", !.state = "open"]
           \/ /\ step = "reviewed"
              /\ row = [old EXCEPT !.stage = known.next, !.state = "open", !.mentor = known.mentor]
           \/ /\ step = "decision"
              /\ row = [old EXCEPT !.stage = IF known.approved THEN "execution" ELSE "approval",
                                   !.state = IF known.approved THEN "open" ELSE "rejected",
                                   !.approver = "lodge"]
           \/ step = "progress" /\ row = [old EXCEPT !.hours = TRUE]
           \/ step = "debriefed" /\ row = [old EXCEPT !.stage = "debrief", !.state = "open"]
           \/ step = "reported" /\ row = [old EXCEPT !.stage = "report", !.state = "open"]
           \/ /\ step = "overturn"
              /\ row = [old EXCEPT !.stage = "execution", !.state = "open", !.approver = "council"]
  BY <1>1 DEF Edit, Submit, Reviewed, Decision, Progress, Debriefed, Reported, Overturn, Transition, Mission
<1>3. step \in OfMissions
  BY <1>2 DEF OfMissions, Steps
<1>4. /\ known.at = step /\ m \in Missions /\ Proposed(m) /\ old \in MissionRows /\ Briefed(known)
      /\ Papered(old) /\ (old.mentor # "none" => Matched(m, old.mentor))
      /\ missions' = [missions EXCEPT ![m] = row] /\ hand' = [hand EXCEPT ![h] = Idle]
      /\ UNCHANGED <<appeals, matches>>
  BY <1>1, <1>2, <1>3, Writing DEF Answer, Mission, MissionStands
<1>5. /\ step \in {"reviewed", "decision", "debriefed", "reported", "overturn"} => old.criteria = TRUE
      /\ step \in {"debriefed", "reported"} => old.approver # "nobody" /\ old.debriefed = TRUE
      /\ step = "reported" => old.summary = TRUE
      /\ step = "reviewed" => /\ known.mentor \in Mentors \cup {"none"}
                              /\ known.next \in {"approval", "request"}
                              /\ known.mentor # "none" => Matched(m, known.mentor)
      /\ step = "decision" => known.approved \in BOOLEAN
  BY <1>1, <1>4 DEF Briefed, AfterReview
<1>6. /\ row \in MissionRows /\ NoLess(old, row) /\ Papered(row)
      /\ row.mentor # "none" => Matched(m, row.mentor)
  <2>1. CASE step = "edit_mission"
    BY <1>2, <1>4, <2>1 DEF MissionRows, NoLess, Papered
  <2>2. CASE step = "submit"
    BY <1>2, <1>4, <2>2, ZenonT(60) DEF MissionRows, NoLess, Papered, MissionStages
  <2>3. CASE step = "reviewed"
    <3>0. PICK stage, mentor : stage = known.next /\ mentor = known.mentor
      OBVIOUS
    <3>1. /\ row = [old EXCEPT !.stage = stage, !.state = "open", !.mentor = mentor]
          /\ stage \in {"approval", "request"} /\ mentor \in Mentors \cup {"none"}
      BY <1>2, <1>5, <2>3, <3>0
    <3>2. row \in MissionRows
      BY <1>4, <3>1 DEF MissionRows, MissionStages
    <3>3. /\ row.stage = stage /\ row.state = "open" /\ row.mentor = mentor
          /\ row.criteria = old.criteria /\ row.debriefed = old.debriefed
          /\ row.summary = old.summary /\ row.approver = old.approver
      BY <1>4, <3>1 DEF MissionRows
    <3> QED BY <1>4, <1>5, <2>3, <3>0, <3>1, <3>2, <3>3 DEF NoLess, Papered
  <2>4. CASE step = "decision"
    <3>0. PICK stage, state, approver :
            /\ stage = (IF known.approved THEN "execution" ELSE "approval")
            /\ state = (IF known.approved THEN "open" ELSE "rejected") /\ approver = "lodge"
      OBVIOUS
    <3>1. /\ row = [old EXCEPT !.stage = stage, !.state = state, !.approver = approver]
          /\ approver = "lodge" /\ stage \in {"execution", "approval"} /\ state \in {"open", "rejected"}
      BY <1>2, <2>4, <3>0
    <3>2. row \in MissionRows
      BY <1>4, <3>1 DEF MissionRows, MissionStages
    <3>3. /\ row.stage = stage /\ row.state = state /\ row.approver = "lodge"
          /\ row.criteria = old.criteria /\ row.debriefed = old.debriefed
          /\ row.summary = old.summary /\ row.mentor = old.mentor
      BY <1>4, <3>1 DEF MissionRows
    <3> QED BY <1>4, <1>5, <2>4, <3>1, <3>2, <3>3 DEF NoLess, Papered
  <2>5. CASE step = "progress"
    BY <1>2, <1>4, <2>5 DEF MissionRows, NoLess, Papered
  <2>6. CASE step = "debriefed"
    BY <1>2, <1>4, <1>5, <2>6, ZenonT(60) DEF MissionRows, NoLess, Papered, MissionStages
  <2>7. CASE step = "reported"
    BY <1>2, <1>4, <1>5, <2>7 DEF MissionRows, NoLess, Papered, MissionStages
  <2>8. CASE step = "overturn"
    BY <1>2, <1>4, <1>5, <2>8, ZenonT(60) DEF MissionRows, NoLess, Papered, MissionStages
  <2> QED BY <1>2, <2>1, <2>2, <2>3, <2>4, <2>5, <2>6, <2>7, <2>8
<1>7. Briefed(Idle)'
  BY IdleIsBriefed DEF Briefed, Idle, OfMissions, AfterReview, Steps
<1> QED BY <1>1, <1>4, <1>6, <1>7, MissionWrite

\* A review settles the criteria, and goes on to its mentor or its end.
LEMMA ReviewStep == ASSUME MissionInv, NEW h \in Hands, Review(h) PROVE MissionInv'
<1>1. PICK m, old, known, row :
        m = hand[h].mission /\ old = missions[m] /\ known = hand[h] /\ row = [old EXCEPT !.criteria = TRUE]
  OBVIOUS
<1>2. PICK next : next = IF known.mentor = "none" THEN "reviewed" ELSE "mentor"
  OBVIOUS
<1>3. Writes(h, "review", row) /\ Go(h, [at |-> next]) /\ "review" \in OfMissions
  BY <1>1, <1>2 DEF Review, Then, Mission, OfMissions, Steps
<1>4. /\ known.at = "review" /\ m \in Missions /\ Proposed(m) /\ old \in MissionRows /\ Briefed(known)
      /\ {"at", "mission"} \subseteq DOMAIN known
      /\ Papered(old) /\ (old.mentor # "none" => Matched(m, old.mentor))
      /\ missions' = [missions EXCEPT ![m] = row] /\ UNCHANGED <<appeals, matches>>
  BY <1>1, <1>3, Writing DEF Mission, MissionStands
<1>5. /\ {"mentor", "next"} \subseteq DOMAIN known
      /\ known.mentor \in Mentors \cup {"none"} /\ known.next \in {"approval", "request"}
  BY <1>4 DEF Briefed
<1>6. /\ row \in MissionRows /\ NoLess(old, row) /\ Papered(row) /\ row.mentor = old.mentor
      /\ row.criteria = TRUE
  BY <1>1, <1>4 DEF MissionRows, NoLess, Papered
<1>7. PICK k : hand' = [hand EXCEPT ![h] = k] /\ Keeps(k, hand[h], next)
  BY <1>3, GoesAlong
<1>8. /\ {"at", "mission", "mentor", "next"} \subseteq DOMAIN k /\ k.at = next
      /\ k.mission = m /\ k.mentor = known.mentor /\ k.next = known.next
  BY <1>1, <1>4, <1>5, <1>7 DEF Keeps
<1>9. missions'[m] = row /\ Proposed(m)'
  BY <1>4, <1>6 DEF MissionInv, MissionsTyped, Proposed, MissionRows, NoMission, MissionStages
<1>10. Briefed(k)'
  <2>1. CASE next = "reviewed"
    BY <1>2, <1>4, <1>5, <1>6, <1>8, <1>9, <2>1 DEF Briefed, AfterReview
  <2>2. CASE next = "mentor"
    BY <1>2, <1>4, <1>5, <1>6, <1>8, <1>9, <2>2 DEF Briefed, AfterReview
  <2> QED BY <1>2, <2>1, <2>2
<1> QED BY <1>1, <1>4, <1>6, <1>7, <1>10, MissionWrite

\* Paperwork, and then the stage.
LEMMA PaperSteps ==
  ASSUME MissionInv, NEW h \in Hands, Debrief(h) \/ Report(h) \/ Complete(h) PROVE MissionInv'
<1>1. PICK m, old, known : m = hand[h].mission /\ old = missions[m] /\ known = hand[h]
  OBVIOUS
<1>2. PICK step, next, row :
        /\ Writes(h, step, row) /\ Go(h, [at |-> next])
        /\ \/ step = "debrief" /\ next = "debriefed" /\ row = [old EXCEPT !.debriefed = TRUE]
           \/ step = "report" /\ next = "reported" /\ row = [old EXCEPT !.summary = TRUE]
           \/ /\ step = "complete" /\ next = "publish"
              /\ row = [old EXCEPT !.stage = "report", !.state = "completed"]
  BY <1>1 DEF Debrief, Report, Complete, Then, Transition, Mission
<1>3. step \in OfMissions
  BY <1>2 DEF OfMissions, Steps
<1>4. /\ known.at = step /\ m \in Missions /\ Proposed(m) /\ old \in MissionRows /\ Briefed(known)
      /\ {"at", "mission"} \subseteq DOMAIN known
      /\ Papered(old) /\ (old.mentor # "none" => Matched(m, old.mentor))
      /\ missions' = [missions EXCEPT ![m] = row] /\ UNCHANGED <<appeals, matches>>
  BY <1>1, <1>2, <1>3, Writing DEF Mission, MissionStands
<1>5. /\ old.criteria = TRUE /\ old.approver # "nobody"
      /\ step \in {"report", "complete"} => old.debriefed = TRUE
      /\ step = "complete" => old.summary = TRUE /\ "summary" \in DOMAIN known /\ known.summary = TRUE
  BY <1>1, <1>2, <1>4 DEF Briefed, AfterReview
<1>6. /\ row \in MissionRows /\ NoLess(old, row) /\ Papered(row) /\ row.mentor = old.mentor
  <2>1. CASE step = "debrief"
    BY <1>2, <1>4, <2>1 DEF MissionRows, NoLess, Papered
  <2>2. CASE step = "report"
    BY <1>2, <1>4, <2>2 DEF MissionRows, NoLess, Papered
  <2>3. CASE step = "complete"
    BY <1>2, <1>4, <1>5, <2>3 DEF MissionRows, NoLess, Papered, MissionStages
  <2> QED BY <1>2, <2>1, <2>2, <2>3
<1>7. step = "debrief" => row.debriefed = TRUE
  BY <1>2, <1>4 DEF MissionRows
<1>8. step = "report" => row.summary = TRUE
  BY <1>2, <1>4 DEF MissionRows
<1>9. PICK k : hand' = [hand EXCEPT ![h] = k] /\ Keeps(k, hand[h], next)
  BY <1>2, GoesAlong
<1>10. /\ {"at", "mission"} \subseteq DOMAIN k /\ k.at = next /\ k.mission = m
       /\ step = "complete" => "summary" \in DOMAIN k /\ k.summary = TRUE
  BY <1>1, <1>4, <1>5, <1>9 DEF Keeps
<1>11. missions'[m] = row /\ Proposed(m)'
  BY <1>4, <1>6 DEF MissionInv, MissionsTyped, Proposed, MissionRows, NoMission, MissionStages
<1>12. Briefed(k)'
  <2>1. CASE step = "debrief"
    BY <1>2, <1>4, <1>5, <1>6, <1>7, <1>9, <1>10, <1>11, <2>1 DEF Briefed, AfterReview, NoLess
  <2>2. CASE step = "report"
    BY <1>2, <1>4, <1>5, <1>6, <1>8, <1>9, <1>10, <1>11, <2>2 DEF Briefed, AfterReview, NoLess
  <2>3. CASE step = "complete"
    BY <1>2, <1>4, <1>5, <1>6, <1>9, <1>10, <1>11, <2>3 DEF Briefed, AfterReview, NoLess
  <2> QED BY <1>2, <2>1, <2>2, <2>3
<1> QED BY <1>1, <1>4, <1>6, <1>9, <1>12, MissionWrite

\* A mission that was not proposed before.
LEMMA ProposeMissionStep == ASSUME MissionInv, NEW m \in Missions, ProposeMission(m) PROVE MissionInv'
<1>1. PICK row :
        row = [stage |-> "request", state |-> "open", edited |-> FALSE, criteria |-> FALSE,
               approver |-> "nobody", hours |-> FALSE, debriefed |-> FALSE, summary |-> FALSE,
               mentor |-> "none"]
  OBVIOUS
<1>2. /\ ~Proposed(m) /\ missions' = [missions EXCEPT ![m] = row] /\ UNCHANGED <<appeals, matches, hand>>
  BY <1>1 DEF ProposeMission, AskOnce, plansVars
<1>3. row \in MissionRows /\ Papered(row) /\ row.mentor = "none"
  BY <1>1 DEF MissionRows, MissionStages, Papered
<1>4. /\ MissionsTyped /\ missions'[m] = row
      /\ \A o \in Missions : o # m => missions'[o] = missions[o]
  BY <1>2 DEF MissionInv, MissionsTyped
<1>5. MissionsTyped'
  BY <1>2, <1>3, <1>4 DEF MissionsTyped
<1>6. \A o, who : Matched(o, who)' <=> Matched(o, who)
  BY <1>2 DEF Matched
<1>7. MissionsGrow
  BY <1>2, <1>4, <1>6 DEF MissionsGrow, Proposed, NoLess
<1>8. ASSUME NEW o \in Missions PROVE MissionStands(o)'
  <2>1. CASE o = m
    BY <1>3, <1>4, <2>1 DEF MissionStands
  <2>2. CASE o # m
    <3>1. MissionStands(o) /\ missions'[o] = missions[o]
      BY <1>4, <2>2 DEF MissionInv
    <3> QED BY <1>6, <3>1 DEF MissionStands, Proposed, Papered
  <2> QED BY <2>1, <2>2
<1>9. ASSUME NEW i \in DOMAIN appeals' PROVE AppealStands(i)'
  <2>1. AppealStands(i) /\ appeals'[i] = appeals[i] /\ appeals[i].mission \in Missions
    BY <1>2, <1>4, <1>9, AppealsAreOnMissions DEF MissionInv
  <2> QED BY <1>7, <2>1 DEF AppealStands, MissionsGrow, NoLess
<1>10. ASSUME NEW g \in Hands PROVE Briefed(hand[g])'
  <2>1. PICK j : j = hand[g]
    OBVIOUS
  <2>2. Briefed(j)'
    BY <1>7, <2>1, BriefedStays DEF MissionInv, Briefed
  <2> QED BY <1>2, <2>1, <2>2 DEF Briefed
<1> QED BY <1>5, <1>8, <1>9, <1>10 DEF MissionInv

-----------------------------------------------------------------------------
(* Appeals, mentors and milestones.                                        *)

\* What leaves every mission as it is, and no match behind.
LEMMA BesideMissions ==
  ASSUME MissionInv, NEW h \in Hands, NEW k, hand' = [hand EXCEPT ![h] = k], Briefed(k)',
         UNCHANGED missions, appeals' \in Seq(Appealed), matches' \in Seq(Matches),
         \A i \in DOMAIN appeals' : AppealStands(i)',
         \A m, who : Matched(m, who) => Matched(m, who)'
  PROVE  MissionInv'
<1>1. MissionsTyped'
  BY DEF MissionInv, MissionsTyped
<1>2. MissionsGrow
  BY DEF MissionsGrow, Proposed, NoLess
<1>3. ASSUME NEW m \in Missions PROVE MissionStands(m)'
  <2>1. MissionStands(m) /\ missions'[m] = missions[m]
    BY DEF MissionInv
  <2> QED BY <2>1 DEF MissionStands, Proposed, Papered
<1>4. \A g \in Hands : Briefed(hand[g])'
  BY <1>2, EverybodyIsBriefed
<1> QED BY <1>1, <1>3, <1>4 DEF MissionInv

\* One more match, and none less.
LEMMA OneMoreMatch ==
  ASSUME NEW m \in Missions, NEW who \in Mentors, matches \in Seq(Matches),
         matches' = Append(matches, [mission |-> m, mentor |-> who, status |-> "active"])
  PROVE  /\ matches' \in Seq(Matches) /\ Matched(m, who)'
         /\ \A o, w : Matched(o, w) => Matched(o, w)'
<1>1. PICK row : row = [mission |-> m, mentor |-> who, status |-> "active"]
  OBVIOUS
<1>2. row \in Matches /\ row.mission = m /\ row.mentor = who
  BY <1>1 DEF Matches
<1>3. PICK last : last = Len(matches) + 1
  OBVIOUS
<1>4. /\ matches' = Append(matches, row) /\ matches' \in Seq(Matches)
      /\ last \in DOMAIN matches' /\ matches'[last] = row
      /\ \A i \in DOMAIN matches : i \in DOMAIN matches' /\ matches'[i] = matches[i]
  BY <1>1, <1>2, <1>3
<1> QED BY <1>2, <1>4 DEF Matched

\* The mentor a review names, and one that is named by itself.
LEMMA MatchSteps ==
  ASSUME MissionInv, NEW h \in Hands, MatchReviewed(h) \/ Match(h) PROVE MissionInv'
<1>1. PICK m, known, who : m = hand[h].mission /\ known = hand[h] /\ who = hand[h].mentor
  OBVIOUS
<1>2. /\ known.at \in {"mentor", "match"} /\ UNCHANGED <<missions, appeals>>
      /\ matches' = Append(matches, [mission |-> m, mentor |-> who, status |-> "active"])
  BY <1>1 DEF MatchReviewed, Match, Doing
<1>3. Briefed(known) /\ MissionsTyped /\ \A i \in DOMAIN appeals : AppealStands(i)
  BY <1>1 DEF MissionInv
<1>4. /\ {"at", "mission", "mentor"} \subseteq DOMAIN known /\ m \in Missions /\ Proposed(m)
      /\ known.at = "mentor" => known.mentor # "none" /\ "next" \in DOMAIN known
  BY <1>1, <1>2, <1>3 DEF Briefed, OfMissions, Steps
<1>5. who \in Mentors
  BY <1>1, <1>2, <1>3 DEF Briefed
<1>6. /\ matches' \in Seq(Matches) /\ Matched(m, who)'
      /\ \A o, w : Matched(o, w) => Matched(o, w)'
  BY <1>2, <1>3, <1>4, <1>5, OneMoreMatch DEF MissionsTyped
<1>7. appeals' \in Seq(Appealed) /\ \A i \in DOMAIN appeals' : AppealStands(i)'
  BY <1>2, <1>3 DEF MissionsTyped, AppealStands, Proposed
<1>8. \E k : hand' = [hand EXCEPT ![h] = k] /\ Briefed(k)'
  <2>1. CASE Match(h)
    <3>1. hand' = [hand EXCEPT ![h] = Idle]
      BY <2>1 DEF Match, Answer
    <3>2. Briefed(Idle)'
      BY IdleIsBriefed DEF Briefed, Idle, OfMissions, AfterReview, Steps
    <3> QED BY <3>1, <3>2
  <2>2. CASE MatchReviewed(h)
    <3>1. Go(h, [at |-> "reviewed"]) /\ known.at = "mentor"
      BY <1>1, <2>2 DEF MatchReviewed, Then, Doing
    <3>2. PICK k : hand' = [hand EXCEPT ![h] = k] /\ Keeps(k, hand[h], "reviewed")
      BY <3>1, GoesAlong
    <3>3. /\ {"at", "mission", "mentor", "next"} \subseteq DOMAIN k /\ k.at = "reviewed"
          /\ k.mission = m /\ k.mentor = who /\ k.next = known.next
      BY <1>1, <1>4, <3>1, <3>2 DEF Keeps
    <3>4. missions[m].criteria = TRUE /\ known.next \in {"approval", "request"}
      BY <1>1, <1>3, <3>1 DEF Briefed, AfterReview
    <3>5. missions'[m].criteria = TRUE /\ Proposed(m)'
      BY <1>2, <1>4, <3>4 DEF Proposed
    <3>6. Briefed(k)'
      BY <1>4, <1>5, <1>6, <3>2, <3>3, <3>4, <3>5 DEF Briefed, AfterReview
    <3> QED BY <3>2, <3>6
  <2> QED BY <2>1, <2>2
<1>9. PICK k : hand' = [hand EXCEPT ![h] = k] /\ Briefed(k)'
  BY <1>8
<1> QED BY <1>2, <1>6, <1>7, <1>9, BesideMissions

\* A match that ends is a match still.
LEMMA EndMatchStep == ASSUME MissionInv, NEW h \in Hands, EndMatch(h) PROVE MissionInv'
<1>1. PICK i, status, known : known = hand[h] /\ i = known.match /\ status = known.status
  OBVIOUS
<1>2. /\ known.at = "unmatch" /\ hand' = [hand EXCEPT ![h] = Idle] /\ UNCHANGED <<missions, appeals>>
      /\ matches' = [matches EXCEPT ![i].status = status]
  BY <1>1 DEF EndMatch, Doing, Answer
<1>3. Briefed(known) /\ MissionsTyped /\ \A j \in DOMAIN appeals : AppealStands(j)
  BY <1>1 DEF MissionInv
<1>4. status \in {"completed", "ended"}
  BY <1>1, <1>2, <1>3 DEF Briefed
<1>5. PICK top : top = Len(matches)
  OBVIOUS
<1>6. top \in Nat /\ DOMAIN matches = 1..top
  BY <1>3, <1>5 DEF MissionsTyped
<1>7. DOMAIN matches' = DOMAIN matches
  BY <1>2
<1>8. ASSUME NEW j \in DOMAIN matches
      PROVE  /\ matches'[j] \in Matches /\ matches'[j].mission = matches[j].mission
             /\ matches'[j].mentor = matches[j].mentor
  <2>1. PICK old : old = matches[j]
    OBVIOUS
  <2>2. old \in Matches
    BY <1>3, <1>8, <2>1 DEF MissionsTyped
  <2>3. matches'[j] = old \/ matches'[j] = [old EXCEPT !.status = status]
    BY <1>2, <1>8, <2>1
  <2> QED BY <1>4, <2>1, <2>2, <2>3 DEF Matches
<1>9. matches' \in [1..top -> Matches]
  BY <1>2, <1>6, <1>7, <1>8
<1>10. matches' \in Seq(Matches)
  BY <1>6, <1>9
<1>11. \A m, who : Matched(m, who) => Matched(m, who)'
  BY <1>7, <1>8 DEF Matched
<1>12. appeals' \in Seq(Appealed) /\ \A j \in DOMAIN appeals' : AppealStands(j)'
  BY <1>2, <1>3 DEF MissionsTyped, AppealStands, Proposed
<1>13. Briefed(Idle)'
  BY IdleIsBriefed DEF Briefed, Idle, OfMissions, AfterReview, Steps
<1> QED BY <1>2, <1>10, <1>11, <1>12, <1>13, BesideMissions

\* An appeal of a mission that was reviewed.
LEMMA AppealStep == ASSUME MissionInv, NEW h \in Hands, Appeal(h) PROVE MissionInv'
<1>1. PICK m, known, row : /\ known = hand[h] /\ m = known.mission
                           /\ row = [mission |-> m, status |-> "pending"]
  OBVIOUS
<1>2. /\ known.at = "appeal" /\ hand' = [hand EXCEPT ![h] = Idle] /\ UNCHANGED <<missions, matches>>
      /\ appeals' = Append(appeals, row)
  BY <1>1 DEF Appeal, Doing, Answer, plansVars
<1>3. Briefed(known) /\ MissionsTyped /\ \A j \in DOMAIN appeals : AppealStands(j)
  BY <1>1 DEF MissionInv
<1>4. m \in Missions /\ Proposed(m) /\ missions[m].criteria = TRUE
  BY <1>1, <1>2, <1>3 DEF Briefed, AfterReview, OfMissions, Steps
<1>5. row \in Appealed /\ row.mission = m
  BY <1>1, <1>4 DEF Appealed
<1>6. PICK last : last = Len(appeals) + 1
  OBVIOUS
<1>7. /\ appeals' \in Seq(Appealed) /\ DOMAIN appeals' = DOMAIN appeals \cup {last}
      /\ appeals'[last] = row /\ \A j \in DOMAIN appeals : appeals'[j] = appeals[j]
  BY <1>2, <1>3, <1>5, <1>6 DEF MissionsTyped
<1>8. ASSUME NEW j \in DOMAIN appeals' PROVE AppealStands(j)'
  <2>1. CASE j \in DOMAIN appeals
    BY <1>2, <1>3, <1>7, <2>1 DEF AppealStands, Proposed
  <2>2. CASE j = last
    BY <1>2, <1>4, <1>5, <1>7, <2>2 DEF AppealStands, Proposed
  <2> QED BY <1>7, <1>8, <2>1, <2>2
<1>9. matches' \in Seq(Matches) /\ \A o, who : Matched(o, who) => Matched(o, who)'
  BY <1>2, <1>3 DEF MissionsTyped, Matched
<1>10. Briefed(Idle)'
  BY IdleIsBriefed DEF Briefed, Idle, OfMissions, AfterReview, Steps
<1> QED BY <1>2, <1>7, <1>8, <1>9, <1>10, BesideMissions

\* A ruling on an appeal, and on to the mission when it is overturned.
LEMMA DecideAppealStep == ASSUME MissionInv, NEW h \in Hands, DecideAppeal(h) PROVE MissionInv'
<1>1. PICK i, outcome, known, m :
        known = hand[h] /\ i = known.appeal /\ outcome = known.outcome /\ m = known.mission
  OBVIOUS
<1>2. /\ known.at = "rule_appeal" /\ UNCHANGED <<missions, matches>>
      /\ appeals' = [appeals EXCEPT ![i].status = outcome]
      /\ IF outcome = "overturned" THEN Go(h, [at |-> "overturn"]) ELSE hand' = [hand EXCEPT ![h] = Idle]
  BY <1>1 DEF DecideAppeal, Doing, Answer, Then, plansVars
<1>3. Briefed(known) /\ MissionsTyped /\ \A j \in DOMAIN appeals : AppealStands(j)
  BY <1>1 DEF MissionInv
<1>4. /\ {"at", "mission"} \subseteq DOMAIN known
      /\ m \in Missions /\ Proposed(m) /\ missions[m].criteria = TRUE
  BY <1>1, <1>2, <1>3 DEF Briefed, AfterReview, OfMissions, Steps
<1>5. outcome \in {"overturned", "upheld"}
  BY <1>1, <1>2, <1>3 DEF Briefed
<1>6. PICK top : top = Len(appeals)
  OBVIOUS
<1>7. top \in Nat /\ DOMAIN appeals = 1..top
  BY <1>3, <1>6 DEF MissionsTyped
<1>8. DOMAIN appeals' = DOMAIN appeals
  BY <1>2
<1>9. ASSUME NEW j \in DOMAIN appeals
      PROVE  appeals'[j] \in Appealed /\ appeals'[j].mission = appeals[j].mission
  <2>1. PICK old : old = appeals[j]
    OBVIOUS
  <2>2. old \in Appealed
    BY <1>3, <1>9, <2>1 DEF MissionsTyped
  <2>3. appeals'[j] = old \/ appeals'[j] = [old EXCEPT !.status = outcome]
    BY <1>2, <1>9, <2>1
  <2> QED BY <1>5, <2>1, <2>2, <2>3 DEF Appealed
<1>10. appeals' \in [1..top -> Appealed]
  BY <1>2, <1>7, <1>8, <1>9
<1>11. appeals' \in Seq(Appealed)
  BY <1>7, <1>10
<1>12. \A j \in DOMAIN appeals' : AppealStands(j)'
  BY <1>2, <1>3, <1>8, <1>9 DEF AppealStands, Proposed
<1>13. matches' \in Seq(Matches) /\ \A o, who : Matched(o, who) => Matched(o, who)'
  BY <1>2, <1>3 DEF MissionsTyped, Matched
<1>14. CASE outcome = "overturned"
  <2>1. PICK k : hand' = [hand EXCEPT ![h] = k] /\ Keeps(k, hand[h], "overturn")
    BY <1>2, <1>14, GoesAlong
  <2>2. {"at", "mission"} \subseteq DOMAIN k /\ k.at = "overturn" /\ k.mission = m
    BY <1>1, <1>4, <2>1 DEF Keeps
  <2>3. Proposed(m)' /\ missions'[m].criteria = TRUE
    BY <1>2, <1>4 DEF Proposed
  <2>4. Briefed(k)'
    BY <1>4, <2>2, <2>3 DEF Briefed, AfterReview
  <2> QED BY <1>2, <1>11, <1>12, <1>13, <2>1, <2>4, BesideMissions
<1>15. CASE outcome # "overturned"
  <2>1. Briefed(Idle)'
    BY IdleIsBriefed DEF Briefed, Idle, OfMissions, AfterReview, Steps
  <2> QED BY <1>2, <1>11, <1>12, <1>13, <1>15, <2>1, BesideMissions
<1> QED BY <1>14, <1>15

\* What writes milestones, or tells the troop, or fails.
LEMMA LodgeAnswers ==
  ASSUME MissionInv, NEW h \in Hands,
         AddMilestone(h) \/ UpdateMilestone(h) \/ PublishCompleted(h) \/ MissionFails(h)
  PROVE  MissionInv'
<1>1. hand' = [hand EXCEPT ![h] = Idle] /\ UNCHANGED <<missions, appeals, matches>>
  BY DEF AddMilestone, UpdateMilestone, PublishCompleted, MissionFails, Answer, missionRows, plansVars
<1> QED BY <1>1, IdleIsBriefed, LodgeHandMoves

\* What changes no mission, and no handler.
LEMMA MissionsRest ==
  ASSUME MissionInv, UNCHANGED <<missions, appeals, matches, hand>> PROVE MissionInv'
<1>1. MissionsGrow
  BY SameMissions
<1>2. MissionsTyped'
  BY DEF MissionInv, MissionsTyped
<1>3. \A m \in Missions : MissionStands(m)'
  BY DEF MissionInv, MissionStands, Proposed, Papered, Matched
<1>4. (\A i \in DOMAIN appeals : AppealStands(i))'
  BY DEF MissionInv, AppealStands, Proposed
<1>5. ASSUME NEW g \in Hands PROVE Briefed(hand[g])'
  <2>1. PICK j : j = hand[g]
    OBVIOUS
  <2>2. Briefed(j)'
    BY <1>1, <2>1, BriefedStays DEF MissionInv, Briefed
  <2> QED BY <2>1, <2>2 DEF Briefed
<1> QED BY <1>2, <1>3, <1>4, <1>5 DEF MissionInv

\* Every step of the missions keeps them documented.
LEMMA MissionStep == MissionInv /\ MissionNext => MissionInv'
<1> SUFFICES ASSUME MissionInv, MissionNext PROVE MissionInv'
  OBVIOUS
<1>1. ASSUME NEW m \in Missions, ProposeMission(m) PROVE MissionInv'
  BY <1>1, ProposeMissionStep
<1>2. ASSUME NEW i \in DOMAIN plans, DeleteMilestone(i) PROVE MissionInv'
  BY <1>2, MissionsRest DEF DeleteMilestone, AskOnce
<1>3. ASSUME NEW h \in Hands, Lodge(h) PROVE MissionInv'
  <2>1. ASSUME NEW m \in Missions,
               \/ Start(h, "edit_mission", m, {"request", "review"}, <<>>)
               \/ Start(h, "submit", m, {"request"}, <<>>)
               \/ Start(h, "progress", m, {"execution"}, <<>>)
               \/ Start(h, "debrief", m, {"execution"}, <<>>)
               \/ Start(h, "report", m, {"debrief"}, <<>>)
        PROVE  MissionInv'
    BY <2>1, PlainRequests
  <2>2. ASSUME NEW m \in Missions,
               \/ \E next \in {"approval", "request"} : \E who \in Mentors \cup {"none"} :
                    Start(h, "review", m, {"review"}, [next |-> next, mentor |-> who])
               \/ \E yes \in BOOLEAN : Start(h, "decision", m, {"approval"}, [approved |-> yes])
               \/ Start(h, "complete", m, {"report"}, [summary |-> missions[m].summary])
        PROVE  MissionInv'
    BY <2>2, ReadingRequests
  <2>3. ASSUME NEW m \in Missions, BeginAppeal(h, m) PROVE MissionInv'
    BY <2>3, OtherLodgeRequests
  <2>4. ASSUME NEW k \in DOMAIN appeals, NEW o \in {"overturned", "upheld"}, BeginAppealDecision(h, k, o)
        PROVE  MissionInv'
    BY <2>4, OtherLodgeRequests
  <2>5. CASE \/ Edit(h) \/ Submit(h) \/ Reviewed(h) \/ Decision(h) \/ Progress(h) \/ Debriefed(h)
             \/ Reported(h) \/ Overturn(h)
    BY <2>5, LastWrites
  <2>6. CASE Review(h) \/ MatchReviewed(h) \/ Debrief(h) \/ Report(h) \/ Complete(h)
    BY <2>6, ReviewStep, MatchSteps, PaperSteps
  <2>7. CASE Appeal(h) \/ DecideAppeal(h) \/ PublishCompleted(h) \/ MissionFails(h)
    BY <2>7, AppealStep, DecideAppealStep, LodgeAnswers
  <2> QED BY <1>3, <2>1, <2>2, <2>3, <2>4, <2>5, <2>6, <2>7 DEF Lodge
<1>4. ASSUME NEW h \in Hands, Planner(h) PROVE MissionInv'
  <2>1. ASSUME NEW m \in Missions, Start(h, "plan", m, PlanStages, <<>>) PROVE MissionInv'
    BY <2>1, PlainRequests
  <2>2. ASSUME NEW m \in Missions, NEW who \in Mentors, BeginMatch(h, m, who) PROVE MissionInv'
    BY <2>2, OtherLodgeRequests
  <2>3. ASSUME NEW k \in DOMAIN matches, NEW status \in {"completed", "ended"}, BeginEndMatch(h, k, status)
        PROVE  MissionInv'
    BY <2>3, OtherLodgeRequests
  <2>4. ASSUME NEW k \in DOMAIN plans, NEW status \in {"same", "pending", "done"}, NEW pct \in {Keep, 40},
               BeginMilestone(h, k, status, pct)
        PROVE  MissionInv'
    BY <2>4, OtherLodgeRequests
  <2>5. CASE Match(h) \/ EndMatch(h) \/ AddMilestone(h) \/ UpdateMilestone(h)
    BY <2>5, MatchSteps, EndMatchStep, LodgeAnswers
  <2> QED BY <1>4, <2>1, <2>2, <2>3, <2>4, <2>5 DEF Planner
<1> QED BY <1>1, <1>2, <1>3, <1>4 DEF MissionNext

\* Missions begin with nothing.
LEMMA MissionsStart == MissionInit => MissionInv
<1> SUFFICES ASSUME MissionInit PROVE MissionInv
  OBVIOUS
<1>1. /\ missions = [m \in Missions |-> NoMission] /\ appeals = <<>> /\ matches = <<>>
      /\ hand = [h \in Hands |-> Idle]
  BY DEF MissionInit, HostInit
<1>2. MissionsTyped
  BY <1>1 DEF MissionsTyped
<1>3. \A m \in Missions : ~Proposed(m)
  BY <1>1 DEF Proposed
<1>4. \A h \in Hands : Briefed(hand[h])
  BY <1>1, IdleIsBriefed DEF Briefed
<1> QED BY <1>1, <1>2, <1>3, <1>4 DEF MissionInv, MissionStands
-----------------------------------------------------------------------------
(* Which handlers a step of each plugin moves.                             *)

MovesTo(h, steps) == \E k : hand' = [hand EXCEPT ![h] = k] /\ k.at \in steps

FloorDesk == OnMotions \cup {"supersede", "adopted"}
GovSteps  == FloorDesk \cup {"idle", "open", "close_meeting", "draft", "adopt_minutes"}
LodgeSteps == Steps \cup {"idle"}
RecordSteps == {"correct", "idle"}
DateSteps   == {"edit", "cancel", "delete", "exclude", "rsvp", "idle"}

\* A handler that is asked, goes on or answers is at the step it is given.
LEMMA MovesBy ==
  ASSUME NEW h, NEW steps, "idle" \in steps
  PROVE  /\ \A more : Go(h, more) /\ "at" \in DOMAIN more /\ more.at \in steps => MovesTo(h, steps)
         /\ \A k : Ask(h, k) /\ k.at \in steps => MovesTo(h, steps)
         /\ Answer(h) => MovesTo(h, steps)
<1>1. ASSUME NEW more, Go(h, more), "at" \in DOMAIN more, more.at \in steps PROVE MovesTo(h, steps)
  <2>1. PICK k : hand' = [hand EXCEPT ![h] = k] /\ Learnt(k, hand[h], more)
    BY <1>1, GoesOn
  <2>2. k.at \in steps
    BY <1>1, <2>1 DEF Learnt
  <2> QED BY <2>1, <2>2 DEF MovesTo
<1>2. ASSUME NEW k, Ask(h, k), k.at \in steps PROVE MovesTo(h, steps)
  BY <1>2 DEF Ask, MovesTo
<1>3. ASSUME Answer(h) PROVE MovesTo(h, steps)
  <2>1. Idle.at = "idle"
    BY DEF Idle
  <2> QED BY <1>3, <2>1 DEF Answer, MovesTo
<1> QED BY <1>1, <1>2, <1>3

\* A step that asks about a motion, or of a mission.
LEMMA BegunAt ==
  ASSUME NEW h, NEW step, NEW m, NEW stages, NEW read, NEW steps, "idle" \in steps, step \in steps,
         Begin(h, step, m, stages, read) \/ Start(h, step, m, stages, read)
  PROVE  MovesTo(h, steps)
<1>1. CASE Begin(h, step, m, stages, read)
  <2>1. PICK more : more = [at |-> step, motion |-> m]
    OBVIOUS
  <2>2. "at" \in DOMAIN more /\ more.at = step
    BY <2>1
  <2>3. PICK k : k = Knowing(read, more)
    OBVIOUS
  <2>4. k.at = step
    BY <2>2, <2>3 DEF Knowing
  <2>5. Ask(h, k)
    BY <1>1, <2>1, <2>3 DEF Begin
  <2> QED BY <2>4, <2>5, MovesBy
<1>2. CASE Start(h, step, m, stages, read)
  <2>1. PICK more : more = [at |-> step, mission |-> m]
    OBVIOUS
  <2>2. "at" \in DOMAIN more /\ more.at = step
    BY <2>1
  <2>3. PICK k : k = Knowing(read, more)
    OBVIOUS
  <2>4. k.at = step
    BY <2>2, <2>3 DEF Knowing
  <2>5. Ask(h, k)
    BY <1>2, <2>1, <2>3 DEF Start
  <2> QED BY <2>4, <2>5, MovesBy
<1> QED BY <1>1, <1>2

\* A request to the chamber is at a step of the chamber.
LEMMA ChamberAsks ==
  ASSUME NEW h \in Hands,
         \/ \E step \in {"open", "close_meeting", "draft", "adopt_minutes"} : BeginMeeting(h, step)
         \/ \E m \in Motions :
              \/ \E who \in Members : BeginSecond(h, m, who)
              \/ \E who \in Members, choice \in Stances : BeginVote(h, m, who, choice)
              \/ \E step \in {"debate_opens", "debate_closes"} : BeginDebate(h, m, step)
              \/ \E who \in Members, body \in Bodies, met \in BOOLEAN, t \in Thresholds :
                   ProposeMotion(h, m, who, body, met, t)
              \/ BeginWithdraw(h, m) \/ BeginImplement(h, m) \/ BeginClose(h, m) \/ BeginAdopt(h, m)
              \/ \E kind \in {"friendly", "formal"} : BeginAmendment(h, m, kind)
         \/ \E a \in Amendments :
              \/ BeginRuling(h, a)
              \/ \E who \in Members, choice \in Stances : BeginAmendmentVote(h, a, who, choice)
  PROVE  MovesTo(h, GovSteps)
<1>0. "idle" \in GovSteps
  BY DEF GovSteps
<1>1. ASSUME NEW step \in {"open", "close_meeting", "draft", "adopt_minutes"}, BeginMeeting(h, step)
      PROVE  MovesTo(h, GovSteps)
  <2>1. PICK k : k = [at |-> step]
    OBVIOUS
  <2>2. k.at \in GovSteps /\ Ask(h, k)
    BY <1>1, <2>1 DEF BeginMeeting, GovSteps
  <2> QED BY <1>0, <2>2, MovesBy
<1>2. ASSUME NEW m, NEW at \in {"second_room", "vote_room", "debate_opens", "debate_closes", "withdraw",
                                "implement", "rule", "tally", "propose_amendment"},
             NEW stages, NEW read, Begin(h, at, m, stages, read)
      PROVE  MovesTo(h, GovSteps)
  <2>1. at \in GovSteps
    BY DEF GovSteps, FloorDesk, OnMotions
  <2> QED BY <1>0, <1>2, <2>1, BegunAt
<1>3. ASSUME NEW m \in Motions,
             \/ \E who \in Members : BeginSecond(h, m, who)
             \/ \E who \in Members, choice \in Stances : BeginVote(h, m, who, choice)
             \/ \E step \in {"debate_opens", "debate_closes"} : BeginDebate(h, m, step)
             \/ BeginWithdraw(h, m) \/ BeginImplement(h, m) \/ BeginClose(h, m)
             \/ \E kind \in {"friendly", "formal"} : BeginAmendment(h, m, kind)
      PROVE  MovesTo(h, GovSteps)
  <2>1. ASSUME NEW who, BeginSecond(h, m, who) PROVE MovesTo(h, GovSteps)
    BY <1>2, <2>1 DEF BeginSecond
  <2>2. ASSUME NEW who, NEW choice, BeginVote(h, m, who, choice) PROVE MovesTo(h, GovSteps)
    BY <1>2, <2>2 DEF BeginVote
  <2>3. ASSUME NEW step \in {"debate_opens", "debate_closes"}, BeginDebate(h, m, step)
        PROVE  MovesTo(h, GovSteps)
    BY <1>2, <2>3 DEF BeginDebate
  <2>4. CASE BeginWithdraw(h, m)
    BY <1>2, <2>4 DEF BeginWithdraw
  <2>5. CASE BeginImplement(h, m)
    BY <1>2, <2>5 DEF BeginImplement
  <2>6. CASE BeginClose(h, m)
    BY <1>2, <2>6 DEF BeginClose
  <2>7. ASSUME NEW kind, BeginAmendment(h, m, kind) PROVE MovesTo(h, GovSteps)
    BY <1>2, <2>7 DEF BeginAmendment
  <2> QED BY <1>3, <2>1, <2>2, <2>3, <2>4, <2>5, <2>6, <2>7
<1>4. ASSUME NEW m \in Motions, NEW who, NEW body, NEW met, NEW t, ProposeMotion(h, m, who, body, met, t)
      PROVE  MovesTo(h, GovSteps)
  <2>1. PICK k : k = [at |-> "proposed", motion |-> m]
    OBVIOUS
  <2>2. k.at \in GovSteps /\ Ask(h, k)
    BY <1>4, <2>1 DEF ProposeMotion, GovSteps, FloorDesk, OnMotions
  <2> QED BY <1>0, <2>2, MovesBy
<1>5. ASSUME NEW m \in Motions, BeginAdopt(h, m) PROVE MovesTo(h, GovSteps)
  <2>1. PICK k : k = [at |-> "exists", motion |-> m]
    OBVIOUS
  <2>2. k.at \in GovSteps /\ Ask(h, k)
    BY <1>5, <2>1 DEF BeginAdopt, GovSteps, FloorDesk, OnMotions
  <2> QED BY <1>0, <2>2, MovesBy
<1>6. ASSUME NEW a \in Amendments, BeginRuling(h, a) PROVE MovesTo(h, GovSteps)
  <2>1. PICK at \in {"accept", "amendment_tally"} :
          Ask(h, [motion |-> amends[a].motion, amendment |-> a, text |-> floor[amends[a].motion].text,
                  at |-> at])
    BY <1>6 DEF BeginRuling
  <2>2. PICK k : k = [motion |-> amends[a].motion, amendment |-> a, text |-> floor[amends[a].motion].text,
                      at |-> at]
    OBVIOUS
  <2>3. k.at \in GovSteps /\ Ask(h, k)
    BY <2>1, <2>2 DEF GovSteps, FloorDesk, OnMotions
  <2> QED BY <1>0, <2>3, MovesBy
<1>7. ASSUME NEW a \in Amendments, NEW who, NEW choice, BeginAmendmentVote(h, a, who, choice)
      PROVE  MovesTo(h, GovSteps)
  BY <1>2, <1>7 DEF BeginAmendmentVote
<1> QED BY <1>1, <1>3, <1>4, <1>5, <1>6, <1>7

\* So is whoever goes on there, or answers.
LEMMA ChamberHands == ASSUME NEW h \in Hands, Chamber(h) PROVE MovesTo(h, GovSteps)
<1>0. "idle" \in GovSteps
  BY DEF GovSteps
<1>1. CASE Answer(h)
  BY <1>0, <1>1, MovesBy
<1>2. ASSUME NEW next \in GovSteps, Go(h, [at |-> next]) PROVE MovesTo(h, GovSteps)
  <2>1. PICK more : more = [at |-> next]
    OBVIOUS
  <2>2. "at" \in DOMAIN more /\ more.at \in GovSteps /\ Go(h, more)
    BY <1>2, <2>1
  <2> QED BY <1>0, <2>2, MovesBy
<1>3. CASE Admit(h, "second_room", "second") \/ Admit(h, "vote_room", "cast") \/ CountRoom(h) \/ CheckSource(h)
  <2>1. {"second", "cast", "tally", "insert"} \subseteq GovSteps
    BY DEF GovSteps, FloorDesk, OnMotions
  <2> QED BY <1>1, <1>2, <1>3, <2>1 DEF Admit, CountRoom, CheckSource, Proceed
<1>4. CASE ReadRule(h)
  <2>1. PICK more : more = [at |-> "room", required |-> Required(meeting.rule)]
    OBVIOUS
  <2>2. "at" \in DOMAIN more /\ more.at \in GovSteps /\ Go(h, more)
    BY <1>4, <2>1 DEF ReadRule, GovSteps, FloorDesk, OnMotions
  <2> QED BY <1>0, <2>2, MovesBy
<1>5. CASE TallyMotion(h)
  <2>1. PICK yes, no, more : /\ yes = Count(hand[h].motion, Main, "yes")
                             /\ no = Count(hand[h].motion, Main, "no")
                             /\ more = [at |-> "decide", yes |-> yes, no |-> no]
    OBVIOUS
  <2>2. "at" \in DOMAIN more /\ more.at \in GovSteps /\ Go(h, more)
    BY <1>5, <2>1 DEF TallyMotion, GovSteps, FloorDesk, OnMotions
  <2> QED BY <1>0, <2>2, MovesBy
<1>6. CASE Decide(h)
  <2>1. PICK more : more = [at |-> "announce", verdict |-> Verdict(h)]
    OBVIOUS
  <2>2. "at" \in DOMAIN more /\ more.at \in GovSteps /\ Go(h, more)
    BY <1>6, <2>1 DEF Decide, GovSteps, FloorDesk, OnMotions
  <2> QED BY <1>0, <2>2, MovesBy
<1>7. CASE TallyAmendment(h)
  <2>1. PICK next \in {"accept", "decline"} : Go(h, [at |-> next])
    BY <1>7 DEF TallyAmendment
  <2>2. next \in GovSteps
    BY DEF GovSteps, FloorDesk, OnMotions
  <2> QED BY <1>2, <2>1, <2>2
<1>8. CASE Rule(h)
  <2>1. "apply" \in GovSteps
    BY DEF GovSteps, FloorDesk, OnMotions
  <2> QED BY <1>1, <1>2, <1>8, <2>1 DEF Rule
<1>9. CASE InsertVersion(h)
  <2>1. PICK more : more = [at |-> "supersede", version |-> Len(accords) + 1]
    OBVIOUS
  <2>2. "at" \in DOMAIN more /\ more.at \in GovSteps /\ Go(h, more)
    BY <1>9, <2>1 DEF InsertVersion, GovSteps, FloorDesk, OnMotions
  <2> QED BY <1>0, <2>2, MovesBy
<1>10. CASE Supersede(h)
  <2>1. "adopted" \in GovSteps
    BY DEF GovSteps, FloorDesk
  <2> QED BY <1>2, <1>10, <2>1 DEF Supersede
<1>11. CASE \/ OpenMeeting(h) \/ CloseMeeting(h) \/ DraftMinutes(h) \/ AdoptMinutes(h)
            \/ AnnounceProposal(h) \/ Announce(h) \/ PublishAdopted(h)
            \/ Second(h) \/ OpenDebate(h) \/ CloseDebate(h) \/ Withdraw(h) \/ Implement(h)
            \/ CastVote(h) \/ ApplyAmendment(h) \/ GovFail(h)
            \/ \E a \in Amendments : InsertAmendment(h, a)
  BY <1>1, <1>11 DEF InsertAmendment, OpenMeeting, CloseMeeting, DraftMinutes, AdoptMinutes, MeetingBecomes,
     AnnounceProposal, Announce, PublishAdopted, Second, OpenDebate, CloseDebate, Withdraw, Implement,
     CastVote, ApplyAmendment, GovFail, MotionBecomes
<1> QED BY <1>3, <1>4, <1>5, <1>6, <1>7, <1>8, <1>9, <1>10, <1>11, ChamberAsks DEF Chamber

\* A step of the missions takes a handler of theirs to a step of theirs.
LEMMA LodgeHands ==
  ASSUME NEW h \in Hands, Lodge(h) \/ Planner(h)
  PROVE  MovesTo(h, LodgeSteps) /\ hand[h].at \in LodgeSteps
<1>0. "idle" \in LodgeSteps /\ Steps \subseteq LodgeSteps /\ Idle.at = "idle"
  BY DEF LodgeSteps, Idle
<1>1. ASSUME NEW m, NEW at \in Steps, NEW stages, NEW read, Start(h, at, m, stages, read)
      PROVE  MovesTo(h, LodgeSteps) /\ hand[h].at \in LodgeSteps
  <2>1. hand[h].at \in LodgeSteps
    BY <1>0, <1>1 DEF Start, Ask, Rests
  <2> QED BY <1>0, <1>1, <2>1, BegunAt
<1>2. ASSUME NEW k, Ask(h, k), k.at \in Steps
      PROVE  MovesTo(h, LodgeSteps) /\ hand[h].at \in LodgeSteps
  <2>1. hand[h].at \in LodgeSteps
    BY <1>0, <1>2 DEF Ask, Rests
  <2> QED BY <1>0, <1>2, <2>1, MovesBy
<1>3. ASSUME NEW next \in Steps, Go(h, [at |-> next]) PROVE MovesTo(h, LodgeSteps)
  <2>1. PICK more : more = [at |-> next]
    OBVIOUS
  <2>2. "at" \in DOMAIN more /\ more.at \in LodgeSteps /\ Go(h, more)
    BY <1>0, <1>3, <2>1
  <2> QED BY <1>0, <2>2, MovesBy
<1>4. Answer(h) => MovesTo(h, LodgeSteps)
  BY <1>0, MovesBy
<1>5. ASSUME NEW m \in Missions,
             \/ Start(h, "edit_mission", m, {"request", "review"}, <<>>)
             \/ Start(h, "submit", m, {"request"}, <<>>)
             \/ \E next \in {"approval", "request"} : \E who \in Mentors \cup {"none"} :
                  Start(h, "review", m, {"review"}, [next |-> next, mentor |-> who])
             \/ \E yes \in BOOLEAN : Start(h, "decision", m, {"approval"}, [approved |-> yes])
             \/ Start(h, "progress", m, {"execution"}, <<>>)
             \/ Start(h, "debrief", m, {"execution"}, <<>>)
             \/ Start(h, "report", m, {"debrief"}, <<>>)
             \/ Start(h, "complete", m, {"report"}, [summary |-> missions[m].summary])
             \/ Start(h, "plan", m, PlanStages, <<>>)
      PROVE  MovesTo(h, LodgeSteps) /\ hand[h].at \in LodgeSteps
  <2>1. {"edit_mission", "submit", "review", "decision", "progress", "debrief", "report", "complete",
         "plan"} \subseteq Steps
    BY DEF Steps
  <2> QED BY <1>1, <1>5, <2>1
<1>6. ASSUME NEW m \in Missions, BeginAppeal(h, m)
      PROVE  MovesTo(h, LodgeSteps) /\ hand[h].at \in LodgeSteps
  <2>1. PICK k : k = [at |-> "appeal", mission |-> m]
    OBVIOUS
  <2>2. Ask(h, k) /\ k.at \in Steps
    BY <1>6, <2>1 DEF BeginAppeal, Steps
  <2> QED BY <1>2, <2>2
<1>7. ASSUME NEW m \in Missions, NEW who \in Mentors, BeginMatch(h, m, who)
      PROVE  MovesTo(h, LodgeSteps) /\ hand[h].at \in LodgeSteps
  <2>1. PICK k : k = [at |-> "match", mission |-> m, mentor |-> who]
    OBVIOUS
  <2>2. Ask(h, k) /\ k.at \in Steps
    BY <1>7, <2>1 DEF BeginMatch, Steps
  <2> QED BY <1>2, <2>2
<1>8. ASSUME NEW i \in DOMAIN appeals, NEW o \in {"overturned", "upheld"}, BeginAppealDecision(h, i, o)
      PROVE  MovesTo(h, LodgeSteps) /\ hand[h].at \in LodgeSteps
  <2>1. PICK k : k = [at |-> "rule_appeal", mission |-> appeals[i].mission, appeal |-> i, outcome |-> o]
    OBVIOUS
  <2>2. Ask(h, k) /\ k.at \in Steps
    BY <1>8, <2>1 DEF BeginAppealDecision, Steps
  <2> QED BY <1>2, <2>2
<1>9. ASSUME NEW i \in DOMAIN matches, NEW status \in {"completed", "ended"}, BeginEndMatch(h, i, status)
      PROVE  MovesTo(h, LodgeSteps) /\ hand[h].at \in LodgeSteps
  <2>1. PICK k : k = [at |-> "unmatch", match |-> i, status |-> status]
    OBVIOUS
  <2>2. Ask(h, k) /\ k.at \in Steps
    BY <1>9, <2>1 DEF BeginEndMatch, Steps
  <2> QED BY <1>2, <2>2
<1>10. ASSUME NEW i \in DOMAIN plans, NEW status \in {"same", "pending", "done"}, NEW pct \in {Keep, 40},
              BeginMilestone(h, i, status, pct)
       PROVE  MovesTo(h, LodgeSteps) /\ hand[h].at \in LodgeSteps
  <2>1. PICK k : k = [at |-> "milestone", plan |-> i, status |-> status, pct |-> pct]
    OBVIOUS
  <2>2. Ask(h, k) /\ k.at \in Steps
    BY <1>10, <2>1 DEF BeginMilestone, Steps
  <2> QED BY <1>2, <2>2
<1>11. CASE \/ Edit(h) \/ Submit(h) \/ Reviewed(h) \/ Decision(h) \/ Progress(h) \/ Debriefed(h)
            \/ Reported(h) \/ Overturn(h) \/ PublishCompleted(h) \/ Appeal(h) \/ MissionFails(h)
            \/ Match(h) \/ EndMatch(h) \/ AddMilestone(h) \/ UpdateMilestone(h)
  <2>1. Answer(h) /\ hand[h].at \in Steps
    BY <1>11 DEF Edit, Submit, Reviewed, Decision, Progress, Debriefed, Reported, Overturn, Transition,
       Writes, PublishCompleted, Appeal, MissionFails, Match, EndMatch, AddMilestone, UpdateMilestone,
       Doing, Steps
  <2> QED BY <1>0, <1>4, <2>1
<1>12. CASE Review(h) \/ MatchReviewed(h) \/ Debrief(h) \/ Report(h) \/ Complete(h)
  <2>1. PICK next \in Steps : Go(h, [at |-> next])
    BY <1>12 DEF Review, MatchReviewed, Debrief, Report, Complete, Then, Steps
  <2>2. hand[h].at \in Steps
    BY <1>12 DEF Review, MatchReviewed, Debrief, Report, Complete, Transition, Writes, Doing, Steps
  <2> QED BY <1>0, <1>3, <2>1, <2>2
<1>13. CASE DecideAppeal(h)
  <2>1. "overturn" \in Steps /\ hand[h].at \in Steps
    BY <1>13 DEF DecideAppeal, Doing, Steps
  <2> QED BY <1>0, <1>3, <1>4, <1>13, <2>1 DEF DecideAppeal, Then
<1>14. CASE Lodge(h)
  BY <1>5, <1>6, <1>8, <1>11, <1>12, <1>13, <1>14 DEF Lodge
<1>15. CASE Planner(h)
  BY <1>5, <1>7, <1>9, <1>10, <1>11, <1>15 DEF Planner
<1> QED BY <1>14, <1>15

\* A step of the archive's people takes a handler of theirs to a step of theirs.
LEMMA LibrarianHands ==
  ASSUME NEW h \in Hands, Librarian(h)
  PROVE  MovesTo(h, RecordSteps) /\ hand[h].at \in RecordSteps
<1>0. "idle" \in RecordSteps /\ "correct" \in RecordSteps /\ Idle.at = "idle"
  BY DEF RecordSteps, Idle
<1>1. ASSUME NEW i \in DOMAIN records, BeginCorrection(h, i)
      PROVE  MovesTo(h, RecordSteps) /\ hand[h].at \in RecordSteps
  <2>1. PICK k : k = [at |-> "correct", of |-> i]
    OBVIOUS
  <2>2. Ask(h, k) /\ k.at \in RecordSteps
    BY <1>0, <1>1, <2>1 DEF BeginCorrection
  <2> QED BY <1>0, <2>2, MovesBy DEF Ask, Rests
<1>2. CASE Correct(h) \/ (Doing(h, "correct") /\ Answer(h))
  <2>1. Answer(h) /\ hand[h].at = "correct"
    BY <1>2 DEF Correct, Doing
  <2> QED BY <1>0, <2>1, MovesBy
<1> QED BY <1>1, <1>2 DEF Librarian

\* So does one of the calendar's.
LEMMA OrganiserHands ==
  ASSUME NEW h \in Hands, Organiser(h)
  PROVE  MovesTo(h, DateSteps) /\ hand[h].at \in DateSteps
<1>0. "idle" \in DateSteps /\ Idle.at = "idle"
  BY DEF DateSteps, Idle
<1>1. ASSUME NEW step \in DateSteps, NEW e, NEW guard, NEW read, BeginEvent(h, step, e, guard, read)
      PROVE  MovesTo(h, DateSteps) /\ hand[h].at \in DateSteps
  <2>1. PICK more : more = [at |-> step, event |-> e]
    OBVIOUS
  <2>2. "at" \in DOMAIN more /\ more.at = step
    BY <2>1
  <2>3. PICK k : k = Knowing(read, more)
    OBVIOUS
  <2>4. k.at = step
    BY <2>2, <2>3 DEF Knowing
  <2>5. Ask(h, k)
    BY <1>1, <2>1, <2>3 DEF BeginEvent
  <2> QED BY <1>0, <2>4, <2>5, MovesBy DEF Ask, Rests
<1>2. {"edit", "cancel", "delete", "exclude", "rsvp"} \subseteq DateSteps
  BY DEF DateSteps
<1>3. ASSUME NEW e \in DOMAIN events,
             \/ \E to \in Moves : BeginEvent(h, "edit", e, TRUE, [start |-> to])
             \/ BeginEvent(h, "cancel", e, events[e].status # "cancelled", <<>>)
             \/ BeginEvent(h, "delete", e, TRUE, <<>>)
             \/ \E at \in Probed(events[e]) :
                  \/ BeginEvent(h, "exclude", e, TRUE, [exdates |-> events[e].exdates \cup {at}])
                  \/ \E p \in People, yes \in {"going", "maybe"} :
                       BeginEvent(h, "rsvp", e, TRUE,
                         [row |-> [event |-> e, member |-> p, at |-> at, response |-> yes]])
             \/ \E p \in People, yes \in {"going", "maybe"} :
                  BeginEvent(h, "rsvp", e, TRUE,
                    [row |-> [event |-> e, member |-> p, at |-> Standing, response |-> yes]])
      PROVE  MovesTo(h, DateSteps) /\ hand[h].at \in DateSteps
  BY <1>1, <1>2, <1>3
<1>4. CASE \/ EditEvent(h) \/ CancelEvent(h) \/ CancelOccurrence(h) \/ DeleteEvent(h) \/ RecordRsvp(h)
           \/ (hand[h].at \in {"edit", "cancel", "delete", "exclude", "rsvp"} /\ Answer(h))
  <2>1. Answer(h) /\ hand[h].at \in {"edit", "cancel", "delete", "exclude", "rsvp"}
    BY <1>4 DEF EditEvent, CancelEvent, CancelOccurrence, DeleteEvent, RecordRsvp, Rewrites, Doing
  <2> QED BY <1>0, <1>2, <2>1, MovesBy
<1> QED BY <1>3, <1>4 DEF Organiser

-----------------------------------------------------------------------------
(* What the events say.                                                    *)

Tells(e) ==
  /\ e.type = "motion.outcome" =>
       /\ e.motion \in Motions /\ HasMotion(e.motion) /\ floor[e.motion].result # "pending"
       /\ e.result = "passed" => e.motion \in carried
  /\ e.type = "accords.adopted" => e.version \in DOMAIN accords
  /\ e.type = "mission.completed" =>
       /\ e.mission \in Missions /\ Proposed(e.mission) /\ missions[e.mission].summary = TRUE
       /\ e.summary = TRUE /\ e.impact = TRUE

\* What they are about is never taken back.
FloorRemains ==
  /\ \A m \in Motions : HasMotion(m) /\ floor[m].result # "pending" =>
       HasMotion(m)' /\ floor'[m].result # "pending"
  /\ carried \subseteq carried' /\ DOMAIN accords \subseteq DOMAIN accords'
MissionsRemain ==
  \A m \in Missions : Proposed(m) /\ missions[m].summary = TRUE =>
    Proposed(m)' /\ missions'[m].summary = TRUE

\* So what they say stays true.
LEMMA TellsStays == ASSUME FloorRemains, MissionsRemain, NEW e, Tells(e) PROVE Tells(e)'
<1>1. e.type = "motion.outcome" =>
        /\ e.motion \in Motions /\ HasMotion(e.motion)' /\ floor'[e.motion].result # "pending"
        /\ e.result = "passed" => e.motion \in carried'
  BY DEF Tells, FloorRemains
<1>2. e.type = "accords.adopted" => e.version \in DOMAIN accords'
  BY DEF Tells, FloorRemains
<1>3. e.type = "mission.completed" =>
       /\ e.mission \in Missions /\ Proposed(e.mission)' /\ missions'[e.mission].summary = TRUE
       /\ e.summary = TRUE /\ e.impact = TRUE
  BY DEF Tells, MissionsRemain
<1> QED BY <1>1, <1>2, <1>3 DEF Tells

\* A decision stays made, whatever the chamber's handlers write.
LEMMA ChamberRemains == ASSUME FloorInv, NEW h \in Hands, Chamber(h) PROVE FloorRemains
<1>1. ASSUME UNCHANGED <<floor, accords, carried>> PROVE FloorRemains
  BY <1>1 DEF FloorRemains, HasMotion
<1>2. ASSUME NEW row, floor' = [floor EXCEPT ![hand[h].motion] = row],
             hand[h].motion \in Motions, floor[hand[h].motion] \in MotionRows,
             row \in MotionRows, floor[hand[h].motion].result # "pending" => row.result # "pending",
             UNCHANGED accords, carried \subseteq carried'
      PROVE  FloorRemains
  <2>1. PICK m : m = hand[h].motion
    OBVIOUS
  <2>2. /\ floor'[m] = row /\ row # NoRow
        /\ \A o \in Motions : o # m => floor'[o] = floor[o]
    BY <1>2, <2>1 DEF FloorInv, FloorTyped, MotionRows, NoRow, Stages, Alive, Open
  <2>3. ASSUME NEW o \in Motions, HasMotion(o), floor[o].result # "pending"
        PROVE  HasMotion(o)' /\ floor'[o].result # "pending"
    <3>1. CASE o = m
      BY <1>2, <2>1, <2>2, <2>3, <3>1 DEF HasMotion
    <3>2. CASE o # m
      BY <2>2, <2>3, <3>2 DEF HasMotion
    <3> QED BY <3>1, <3>2
  <2> QED BY <1>2, <2>3 DEF FloorRemains
<1>3. ASSUME NEW step \in OnMotions, Doing(h, step)
      PROVE  hand[h].motion \in Motions /\ floor[hand[h].motion] \in MotionRows
  <2>1. FloorKnows(hand[h])
    BY DEF FloorInv
  <2>2. hand[h].motion \in Motions /\ HasMotion(hand[h].motion)
    BY <1>3, <2>1 DEF FloorKnows, Doing
  <2> QED BY <2>2 DEF FloorInv, FloorTyped, HasMotion
<1>4. CASE Second(h) \/ OpenDebate(h) \/ CloseDebate(h) \/ Withdraw(h) \/ Implement(h) \/ ApplyAmendment(h)
  <2>1. FloorInv'
    BY <1>4, StageSteps, ApplyStep
  <2>2. PICK m, old : m = hand[h].motion /\ old = floor[m]
    OBVIOUS
  <2>3. PICK row :
          /\ floor' = [floor EXCEPT ![m] = row] /\ UNCHANGED <<accords, carried>>
          /\ \/ row = [old EXCEPT !.stage = "seconded", !.second = hand[h].who]
             \/ \E st \in {"debate", "voting", "withdrawn", "implemented"} : row = [old EXCEPT !.stage = st]
             \/ row = [old EXCEPT !.text = hand[h].text \cup {hand[h].amendment}]
    BY <1>4, <2>2 DEF Second, OpenDebate, CloseDebate, Withdraw, Implement, ApplyAmendment, MotionBecomes, Motion
  <2>4. PICK step \in OnMotions : Doing(h, step)
    BY <1>4 DEF Second, OpenDebate, CloseDebate, Withdraw, Implement, ApplyAmendment, MotionBecomes, OnMotions
  <2>5. m \in Motions /\ old \in MotionRows
    BY <1>3, <2>2, <2>4
  <2>6. row.result = old.result
    BY <2>3, <2>5 DEF MotionRows
  <2>7. "by" \in DOMAIN row
    BY <2>3, <2>5 DEF MotionRows
  <2>8. floor'[m] = row
    BY <2>3, <2>5 DEF FloorInv, FloorTyped
  <2>9. row \in MotionRows
    BY <2>1, <2>5, <2>7, <2>8 DEF FloorInv, FloorTyped, NoRow
  <2> QED BY <1>2, <2>2, <2>3, <2>5, <2>6, <2>9
<1>5. CASE Decide(h)
  <2>1. FloorInv'
    BY <1>5, DecideStep
  <2>2. PICK m, old, verdict : m = hand[h].motion /\ old = floor[m] /\ verdict = Verdict(h)
    OBVIOUS
  <2>3. PICK row : row = [old EXCEPT !.stage = "decided", !.result = verdict, !.yes = hand[h].yes,
                                     !.no = hand[h].no]
    OBVIOUS
  <2>4. Doing(h, "decide") /\ "decide" \in OnMotions
    BY <1>5 DEF Decide, OnMotions
  <2>5. m \in Motions /\ old \in MotionRows
    BY <1>3, <2>2, <2>4
  <2>6. /\ floor' = [floor EXCEPT ![m].stage = "decided", ![m].result = verdict,
                                  ![m].yes = hand[h].yes, ![m].no = hand[h].no]
        /\ UNCHANGED accords /\ carried \subseteq carried'
    BY <1>5, <2>2 DEF Decide
  <2>7. floor' = [floor EXCEPT ![m] = row]
    BY <2>2, <2>3, <2>5, <2>6 DEF FloorInv, FloorTyped
  <2>8. verdict # "pending"
    BY <2>2 DEF Verdict
  <2>9. row.result = verdict /\ "by" \in DOMAIN row
    BY <2>3, <2>5 DEF MotionRows
  <2>10. floor'[m] = row
    BY <2>5, <2>7 DEF FloorInv, FloorTyped
  <2>11. row \in MotionRows
    BY <2>1, <2>5, <2>9, <2>10 DEF FloorInv, FloorTyped, NoRow
  <2> QED BY <1>2, <2>2, <2>5, <2>6, <2>7, <2>8, <2>9, <2>11
<1>6. ASSUME NEW m \in Motions, NEW who \in Members, NEW body \in Bodies, NEW met \in BOOLEAN,
             NEW t \in Thresholds, ProposeMotion(h, m, who, body, met, t)
      PROVE  FloorRemains
  <2>1. PICK row : floor' = [floor EXCEPT ![m] = row]
    BY <1>6 DEF ProposeMotion
  <2>2. /\ ~HasMotion(m) /\ UNCHANGED <<accords, carried>>
        /\ \A o \in Motions : o # m => floor'[o] = floor[o]
    BY <1>6, <2>1 DEF ProposeMotion, HasMotion, FloorInv, FloorTyped
  <2> QED BY <2>2 DEF FloorRemains, HasMotion
<1>7. CASE InsertVersion(h)
  <2>1. PICK row : accords' = Append(accords, row) /\ UNCHANGED <<floor, carried>>
    BY <1>7 DEF InsertVersion
  <2>2. accords \in Seq(Versions)
    BY DEF FloorInv, FloorTyped
  <2>3. DOMAIN accords \subseteq DOMAIN accords'
    BY <2>1, <2>2
  <2> QED BY <2>1, <2>3 DEF FloorRemains, HasMotion
<1>8. CASE Supersede(h)
  <2>1. DOMAIN accords' = DOMAIN accords /\ UNCHANGED <<floor, carried>>
    BY <1>8 DEF Supersede
  <2> QED BY <2>1 DEF FloorRemains, HasMotion
<1>9. ASSUME \/ \E step \in {"open", "close_meeting", "draft", "adopt_minutes"} : BeginMeeting(h, step)
             \/ OpenMeeting(h) \/ CloseMeeting(h) \/ DraftMinutes(h) \/ AdoptMinutes(h)
             \/ \E m \in Motions :
                  \/ \E who \in Members : BeginSecond(h, m, who)
                  \/ \E who \in Members, choice \in Stances : BeginVote(h, m, who, choice)
                  \/ \E step \in {"debate_opens", "debate_closes"} : BeginDebate(h, m, step)
                  \/ BeginWithdraw(h, m) \/ BeginImplement(h, m) \/ BeginClose(h, m) \/ BeginAdopt(h, m)
                  \/ \E kind \in {"friendly", "formal"} : BeginAmendment(h, m, kind)
             \/ \E a \in Amendments :
                  \/ BeginRuling(h, a) \/ InsertAmendment(h, a)
                  \/ \E who \in Members, choice \in Stances : BeginAmendmentVote(h, a, who, choice)
      PROVE  FloorRemains
  <2>1. UNCHANGED <<floor, accords, carried>>
    BY <1>9 DEF BeginMeeting, OpenMeeting, CloseMeeting, DraftMinutes, AdoptMinutes, MeetingBecomes,
       BeginSecond, BeginVote, BeginDebate, BeginWithdraw, BeginImplement, BeginClose, BeginAdopt,
       BeginRuling, BeginAmendment, InsertAmendment, BeginAmendmentVote, Begin, govRows
  <2> QED BY <1>1, <2>1
<1>10. CASE \/ AnnounceProposal(h) \/ Admit(h, "second_room", "second")
            \/ Admit(h, "vote_room", "cast") \/ CastVote(h)
            \/ ReadRule(h) \/ CountRoom(h) \/ TallyMotion(h) \/ Announce(h)
            \/ TallyAmendment(h) \/ Rule(h) \/ CheckSource(h) \/ PublishAdopted(h) \/ GovFail(h)
  <2>1. UNCHANGED <<floor, accords, carried>>
    BY <1>10 DEF AnnounceProposal, Admit, CastVote, ReadRule, CountRoom, TallyMotion, Announce,
       TallyAmendment, Rule, CheckSource, PublishAdopted, GovFail, govRows
  <2> QED BY <1>1, <2>1
<1> QED BY <1>4, <1>5, <1>6, <1>7, <1>8, <1>9, <1>10 DEF Chamber

\* Nothing of the floor or of the missions is written.
TablesRest == UNCHANGED <<floor, carried, accords, missions>>
LEMMA RestingRemains == ASSUME TablesRest PROVE FloorRemains /\ MissionsRemain
  BY DEF TablesRest, FloorRemains, MissionsRemain, HasMotion, Proposed

\* What the chamber says, it has done.
LEMMA ChamberNews ==
  ASSUME FloorInv, NEW h \in Hands, Chamber(h)
  PROVE  bus' = bus \/ \E e : Tells(e) /\ bus' = Append(bus, e)
<1>0. FloorKnows(hand[h])
  BY DEF FloorInv
<1>1. CASE AnnounceProposal(h)
  <2>1. PICK e : e = [type |-> "motion.proposed", motion |-> hand[h].motion]
    OBVIOUS
  <2>2. bus' = Append(bus, e) /\ e.type = "motion.proposed"
    BY <1>1, <2>1 DEF AnnounceProposal, Publish
  <2>3. Tells(e)
    BY <2>2 DEF Tells
  <2> QED BY <2>2, <2>3
<1>2. CASE Announce(h)
  <2>1. PICK m, verdict, e : /\ m = hand[h].motion /\ verdict = hand[h].verdict
                             /\ e = [type |-> "motion.outcome", motion |-> m, result |-> verdict]
    OBVIOUS
  <2>2. /\ bus' = Append(bus, e) /\ e.type = "motion.outcome" /\ e.motion = m /\ e.result = verdict
        /\ hand[h].at = "announce"
    BY <1>2, <2>1 DEF Announce, Publish, Doing
  <2>3. /\ m \in Motions /\ HasMotion(m) /\ floor[m].result # "pending"
        /\ verdict = "passed" => m \in carried
    BY <1>0, <2>1, <2>2 DEF FloorKnows, OnMotions
  <2>4. Tells(e)
    BY <2>2, <2>3 DEF Tells
  <2> QED BY <2>2, <2>4
<1>3. CASE PublishAdopted(h)
  <2>1. PICK v, e : v = hand[h].version /\ e = [type |-> "accords.adopted", version |-> v]
    OBVIOUS
  <2>2. bus' = Append(bus, e) /\ e.type = "accords.adopted" /\ e.version = v /\ hand[h].at = "adopted"
    BY <1>3, <2>1 DEF PublishAdopted, Publish, Doing
  <2>3. v \in DOMAIN accords
    BY <1>0, <2>1, <2>2 DEF FloorKnows
  <2>4. Tells(e)
    BY <2>2, <2>3 DEF Tells
  <2> QED BY <2>2, <2>4
<1>4. ASSUME ~AnnounceProposal(h), ~Announce(h), ~PublishAdopted(h) PROVE bus' = bus
  <2>1. ASSUME \/ \E step \in {"open", "close_meeting", "draft", "adopt_minutes"} : BeginMeeting(h, step)
               \/ \E m \in Motions :
                    \/ \E who \in Members : BeginSecond(h, m, who)
                    \/ \E who \in Members, choice \in Stances : BeginVote(h, m, who, choice)
                    \/ \E step \in {"debate_opens", "debate_closes"} : BeginDebate(h, m, step)
                    \/ \E who \in Members, body \in Bodies, met \in BOOLEAN, t \in Thresholds :
                         ProposeMotion(h, m, who, body, met, t)
                    \/ BeginWithdraw(h, m) \/ BeginImplement(h, m) \/ BeginClose(h, m) \/ BeginAdopt(h, m)
                    \/ \E kind \in {"friendly", "formal"} : BeginAmendment(h, m, kind)
               \/ \E a \in Amendments :
                    \/ BeginRuling(h, a) \/ InsertAmendment(h, a)
                    \/ \E who \in Members, choice \in Stances : BeginAmendmentVote(h, a, who, choice)
        PROVE  bus' = bus
    BY <2>1 DEF BeginMeeting, BeginSecond, BeginVote, BeginDebate, ProposeMotion, BeginWithdraw,
       BeginImplement, BeginClose, BeginAdopt, BeginRuling, BeginAmendment,
       InsertAmendment, BeginAmendmentVote, Begin, Silent
  <2>2. CASE \/ OpenMeeting(h) \/ CloseMeeting(h) \/ DraftMinutes(h) \/ AdoptMinutes(h)
             \/ Admit(h, "second_room", "second") \/ Second(h)
             \/ OpenDebate(h) \/ CloseDebate(h) \/ Withdraw(h) \/ Implement(h)
             \/ Admit(h, "vote_room", "cast") \/ CastVote(h)
             \/ ReadRule(h) \/ CountRoom(h) \/ TallyMotion(h) \/ Decide(h)
             \/ TallyAmendment(h) \/ Rule(h) \/ ApplyAmendment(h)
             \/ CheckSource(h) \/ InsertVersion(h) \/ Supersede(h) \/ GovFail(h)
    BY <2>2 DEF OpenMeeting, CloseMeeting, DraftMinutes, AdoptMinutes, MeetingBecomes, Admit, Second,
       OpenDebate, CloseDebate, Withdraw, Implement, MotionBecomes, CastVote, ReadRule, CountRoom,
       TallyMotion, Decide, TallyAmendment, Rule, ApplyAmendment, CheckSource, InsertVersion, Supersede,
       GovFail, Silent
  <2> QED BY <1>4, <2>1, <2>2 DEF Chamber
<1> QED BY <1>1, <1>2, <1>3, <1>4

\* What the lodge says of a mission, it has on paper.
LEMMA LodgeNews ==
  ASSUME MissionInv, NEW h \in Hands, Lodge(h) \/ Planner(h)
  PROVE  bus' = bus \/ \E e : Tells(e) /\ bus' = Append(bus, e)
<1>1. CASE PublishCompleted(h)
  <2>1. PICK m, sum, e : /\ m = hand[h].mission /\ sum = hand[h].summary
                         /\ e = [type |-> "mission.completed", mission |-> m, impact |-> TRUE, summary |-> sum]
    OBVIOUS
  <2>2. /\ bus' = Append(bus, e) /\ e.type = "mission.completed" /\ e.mission = m /\ e.summary = sum
        /\ e.impact = TRUE /\ hand[h].at = "publish"
    BY <1>1, <2>1 DEF PublishCompleted, Publish, Doing
  <2>3. Briefed(hand[h])
    BY DEF MissionInv
  <2>4. m \in Missions /\ Proposed(m) /\ missions[m].summary = TRUE /\ sum = TRUE
    BY <2>1, <2>2, <2>3 DEF Briefed, OfMissions, Steps
  <2>5. Tells(e)
    BY <2>2, <2>4 DEF Tells
  <2> QED BY <2>2, <2>5
<1>2. ASSUME ~PublishCompleted(h) PROVE bus' = bus
  <2>1. ASSUME \/ \E m \in Missions :
                    \/ Start(h, "edit_mission", m, {"request", "review"}, <<>>)
                    \/ Start(h, "submit", m, {"request"}, <<>>)
                    \/ \E next \in {"approval", "request"} : \E who \in Mentors \cup {"none"} :
                         Start(h, "review", m, {"review"}, [next |-> next, mentor |-> who])
                    \/ \E yes \in BOOLEAN : Start(h, "decision", m, {"approval"}, [approved |-> yes])
                    \/ Start(h, "progress", m, {"execution"}, <<>>)
                    \/ Start(h, "debrief", m, {"execution"}, <<>>)
                    \/ Start(h, "report", m, {"debrief"}, <<>>)
                    \/ Start(h, "complete", m, {"report"}, [summary |-> missions[m].summary])
                    \/ BeginAppeal(h, m)
                    \/ Start(h, "plan", m, PlanStages, <<>>)
                    \/ \E who \in Mentors : BeginMatch(h, m, who)
               \/ \E k \in DOMAIN appeals, o \in {"overturned", "upheld"} : BeginAppealDecision(h, k, o)
               \/ \E k \in DOMAIN matches, status \in {"completed", "ended"} : BeginEndMatch(h, k, status)
               \/ \E k \in DOMAIN plans, status \in {"same", "pending", "done"}, pct \in {Keep, 40} :
                    BeginMilestone(h, k, status, pct)
        PROVE  bus' = bus
    BY <2>1 DEF Start, BeginAppeal, BeginMatch, BeginAppealDecision, BeginEndMatch, BeginMilestone, Silent
  <2>2. CASE \/ Edit(h) \/ Submit(h) \/ Review(h) \/ MatchReviewed(h) \/ Reviewed(h) \/ Decision(h)
             \/ Progress(h) \/ Debrief(h) \/ Debriefed(h) \/ Report(h) \/ Reported(h) \/ Complete(h)
             \/ Appeal(h) \/ DecideAppeal(h) \/ Overturn(h) \/ MissionFails(h)
             \/ Match(h) \/ EndMatch(h) \/ AddMilestone(h) \/ UpdateMilestone(h)
    BY <2>2 DEF Edit, Submit, Review, MatchReviewed, Reviewed, Decision, Progress, Debrief, Debriefed,
       Report, Reported, Complete, Appeal, DecideAppeal, Overturn, MissionFails, Match, EndMatch,
       AddMilestone, UpdateMilestone, Transition, Writes, Silent
  <2> QED BY <1>2, <2>1, <2>2 DEF Lodge, Planner
<1> QED BY <1>1, <1>2

\* Summaries are never unwritten.
LEMMA LodgeRemains ==
  ASSUME MissionInv, MissionNext PROVE MissionsRemain
<1>1. ASSUME UNCHANGED missions PROVE MissionsRemain
  BY <1>1 DEF MissionsRemain, Proposed
<1>2. ASSUME NEW m \in Missions, ProposeMission(m) PROVE MissionsRemain
  <2>1. PICK row : missions' = [missions EXCEPT ![m] = row]
    BY <1>2 DEF ProposeMission
  <2>2. ~Proposed(m) /\ \A o \in Missions : o # m => missions'[o] = missions[o]
    BY <1>2, <2>1 DEF ProposeMission, MissionInv, MissionsTyped
  <2> QED BY <2>2 DEF MissionsRemain, Proposed
<1>3. ASSUME NEW h \in Hands,
             \/ Edit(h) \/ Submit(h) \/ Review(h) \/ Reviewed(h) \/ Decision(h) \/ Progress(h)
             \/ Debrief(h) \/ Debriefed(h) \/ Report(h) \/ Reported(h) \/ Complete(h) \/ Overturn(h)
      PROVE  MissionsRemain
  <2>1. PICK m, old : m = hand[h].mission /\ old = Mission(h)
    OBVIOUS
  <2>2. {"edit_mission", "submit", "review", "reviewed", "decision", "progress", "debrief", "debriefed",
         "report", "reported", "complete", "overturn"} \subseteq OfMissions
    BY DEF Steps, OfMissions
  <2>3. ASSUME NEW step \in OfMissions, NEW row, Writes(h, step, row),
               old \in MissionRows =>
                 "mentor" \in DOMAIN row /\ (old.summary = TRUE => row.summary = TRUE)
        PROVE  MissionsRemain
    <3>1. m \in Missions /\ old \in MissionRows /\ missions' = [missions EXCEPT ![m] = row]
      BY <2>1, <2>3, Writing
    <3>2. old = missions[m] /\ row # NoMission
      BY <2>1, <2>3, <3>1 DEF Mission, NoMission
    <3>3. missions'[m] = row /\ \A o \in Missions : o # m => missions'[o] = missions[o]
      BY <3>1 DEF MissionInv, MissionsTyped
    <3> QED BY <2>3, <3>1, <3>2, <3>3 DEF MissionsRemain, Proposed
  <2>4. CASE Edit(h) \/ Progress(h) \/ Review(h) \/ Debrief(h) \/ Report(h)
    <3>1. PICK step, row :
            /\ step \in OfMissions /\ Writes(h, step, row)
            /\ \/ row = [old EXCEPT !.edited = TRUE] \/ row = [old EXCEPT !.hours = TRUE]
               \/ row = [old EXCEPT !.criteria = TRUE] \/ row = [old EXCEPT !.debriefed = TRUE]
               \/ row = [old EXCEPT !.summary = TRUE]
      BY <2>1, <2>2, <2>4 DEF Edit, Progress, Review, Debrief, Report
    <3>2. old \in MissionRows => "mentor" \in DOMAIN row /\ (old.summary = TRUE => row.summary = TRUE)
      BY <3>1 DEF MissionRows
    <3> QED BY <2>3, <3>1, <3>2
  <2>5. ASSUME NEW step \in OfMissions, NEW to, NEW state, Transition(h, step, to, state)
        PROVE  MissionsRemain
    <3>1. PICK row : row = [old EXCEPT !.stage = to, !.state = state]
      OBVIOUS
    <3>2. Writes(h, step, row)
      BY <2>1, <2>5, <3>1 DEF Transition
    <3>3. old \in MissionRows => "mentor" \in DOMAIN row /\ (old.summary = TRUE => row.summary = TRUE)
      BY <3>1 DEF MissionRows
    <3> QED BY <2>3, <3>2, <3>3
  <2>6. CASE Submit(h) \/ Debriefed(h) \/ Reported(h) \/ Complete(h)
    BY <2>2, <2>5, <2>6 DEF Submit, Debriefed, Reported, Complete
  <2>7. CASE Reviewed(h)
    <3>1. PICK next, who, row : /\ next = hand[h].next /\ who = hand[h].mentor
                                /\ row = [old EXCEPT !.stage = next, !.state = "open", !.mentor = who]
      OBVIOUS
    <3>2. Writes(h, "reviewed", row)
      BY <2>1, <2>7, <3>1 DEF Reviewed
    <3>3. old \in MissionRows => "mentor" \in DOMAIN row /\ (old.summary = TRUE => row.summary = TRUE)
      BY <3>1 DEF MissionRows
    <3> QED BY <2>2, <2>3, <3>2, <3>3
  <2>8. CASE Decision(h)
    <3>1. PICK to, state, row :
            /\ to = IF hand[h].approved THEN "execution" ELSE "approval"
            /\ state = IF hand[h].approved THEN "open" ELSE "rejected"
            /\ row = [old EXCEPT !.stage = to, !.state = state, !.approver = "lodge"]
      OBVIOUS
    <3>2. Writes(h, "decision", row)
      BY <2>1, <2>8, <3>1 DEF Decision
    <3>3. old \in MissionRows => "mentor" \in DOMAIN row /\ (old.summary = TRUE => row.summary = TRUE)
      BY <3>1 DEF MissionRows
    <3> QED BY <2>2, <2>3, <3>2, <3>3
  <2>9. CASE Overturn(h)
    <3>1. PICK row : row = [old EXCEPT !.stage = "execution", !.state = "open", !.approver = "council"]
      OBVIOUS
    <3>2. Writes(h, "overturn", row)
      BY <2>1, <2>9, <3>1 DEF Overturn
    <3>3. old \in MissionRows => "mentor" \in DOMAIN row /\ (old.summary = TRUE => row.summary = TRUE)
      BY <3>1 DEF MissionRows
    <3> QED BY <2>2, <2>3, <3>2, <3>3
  <2> QED BY <1>3, <2>4, <2>6, <2>7, <2>8, <2>9
<1>4. ASSUME NEW h \in Hands, Lodge(h) \/ Planner(h),
             ~(\/ Edit(h) \/ Submit(h) \/ Review(h) \/ Reviewed(h) \/ Decision(h) \/ Progress(h)
               \/ Debrief(h) \/ Debriefed(h) \/ Report(h) \/ Reported(h) \/ Complete(h) \/ Overturn(h))
      PROVE  UNCHANGED missions
  BY <1>4 DEF Lodge, Planner, Start, BeginAppeal, BeginMatch, BeginAppealDecision, BeginEndMatch,
     BeginMilestone, MatchReviewed, PublishCompleted, Appeal, DecideAppeal, MissionFails, Match, EndMatch,
     AddMilestone, UpdateMilestone, missionRows, plansVars
<1>5. ASSUME NEW k \in DOMAIN plans, DeleteMilestone(k) PROVE MissionsRemain
  BY <1>1, <1>5 DEF DeleteMilestone
<1> QED BY <1>1, <1>2, <1>3, <1>4, <1>5 DEF MissionNext

-----------------------------------------------------------------------------
(* Whoever listens.                                                        *)

\* A subscription's task has an event that was told, of the kind its step is for.
TaskSteps == {"file", "impact", "tie", "debrief_exists", "debrief_insert"}
Told == {"motion.proposed", "motion.outcome", "accords.adopted", "mission.completed"}
Minds(t) ==
  t = Idle \/
    /\ t.at \in TaskSteps /\ DOMAIN t = {"at", "event"} /\ Tells(t.event) /\ t.event.type \in Told
    /\ t.at \in {"impact", "debrief_exists", "debrief_insert"} => t.event.type = "mission.completed"

ReadersInv ==
  /\ \E S : bus \in Seq(S)
  /\ \A i \in DOMAIN bus : Tells(bus[i])
  /\ cursor \in [Subscriptions -> Nat \ {0}] /\ \A s \in Subscriptions : cursor[s] <= Len(bus) + 1
  /\ task = [s \in Subscriptions |-> task[s]]
  /\ \A s \in Subscriptions : Minds(task[s])

\* It goes on minding it.
LEMMA MindsStays == ASSUME FloorRemains, MissionsRemain, NEW t, Minds(t) PROVE Minds(t)'
<1>1. CASE t = Idle
  BY <1>1 DEF Minds
<1>2. CASE t # Idle
  <2>1. Tells(t.event)'
    BY <1>2, TellsStays DEF Minds
  <2> QED BY <1>2, <2>1 DEF Minds
<1> QED BY <1>1, <1>2

\* One more event.
LEMMA BusGrows ==
  ASSUME NEW e, \E S : bus \in Seq(S), bus' = Append(bus, e)
  PROVE  /\ \E S : bus' \in Seq(S)
         /\ Len(bus) \in Nat /\ Len(bus') = Len(bus) + 1 /\ DOMAIN bus = 1..Len(bus)
         /\ DOMAIN bus' = DOMAIN bus \cup {Len(bus) + 1} /\ bus'[Len(bus) + 1] = e
         /\ \A i \in DOMAIN bus : bus'[i] = bus[i]
<1>1. PICK S : bus \in Seq(S)
  OBVIOUS
<1>2. PICK T : T = S \cup {e}
  OBVIOUS
<1>3. bus \in Seq(T) /\ e \in T
  BY <1>1, <1>2
<1>4. bus' \in Seq(T)
  BY <1>3
<1> QED BY <1>3, <1>4

\* What the plugins write, and say, leaves the listeners what they mind.
LEMMA ListenersStay ==
  ASSUME ReadersInv, FloorRemains, MissionsRemain, UNCHANGED <<cursor, task>>,
         bus' = bus \/ \E e : Tells(e) /\ bus' = Append(bus, e)
  PROVE  ReadersInv'
<1>1. /\ \E S : bus' \in Seq(S)
      /\ \A i \in DOMAIN bus' : Tells(bus[i])'
      /\ Len(bus) \in Nat /\ Len(bus') \in Nat /\ Len(bus) <= Len(bus')
  <2>1. CASE bus' = bus
    <3>1. ASSUME NEW i \in DOMAIN bus PROVE Tells(bus[i])'
      <4>1. PICK e : e = bus[i]
        OBVIOUS
      <4>2. Tells(e)'
        BY <4>1, TellsStays DEF ReadersInv, Tells, HasMotion, Proposed
      <4> QED BY <2>1, <4>1, <4>2 DEF Tells, HasMotion, Proposed
    <3>2. /\ \E S : bus' \in Seq(S)
          /\ Len(bus) \in Nat /\ Len(bus') \in Nat /\ Len(bus) <= Len(bus')
      BY <2>1 DEF ReadersInv
    <3>3. \A i \in DOMAIN bus' : Tells(bus[i])'
      BY <2>1, <3>1
    <3> QED BY <3>2, <3>3
  <2>2. ASSUME NEW e, Tells(e), bus' = Append(bus, e)
        PROVE  /\ \E S : bus' \in Seq(S)
               /\ \A i \in DOMAIN bus' : Tells(bus[i])'
               /\ Len(bus) \in Nat /\ Len(bus') \in Nat /\ Len(bus) <= Len(bus')
    <3>1. /\ \E S : bus' \in Seq(S)
          /\ Len(bus) \in Nat /\ Len(bus') = Len(bus) + 1
          /\ DOMAIN bus' = DOMAIN bus \cup {Len(bus) + 1} /\ bus'[Len(bus) + 1] = e
          /\ \A i \in DOMAIN bus : bus'[i] = bus[i]
      BY <2>2, BusGrows DEF ReadersInv
    <3>2. ASSUME NEW i \in DOMAIN bus' PROVE Tells(bus[i])'
      <4>1. PICK f : f = bus'[i]
        OBVIOUS
      <4>2. Tells(f)
        BY <2>2, <3>1, <3>2, <4>1 DEF ReadersInv, Tells, HasMotion, Proposed
      <4>3. Tells(f)'
        BY <4>2, TellsStays
      <4> QED BY <4>1, <4>3 DEF Tells, HasMotion, Proposed
    <3> QED BY <3>1, <3>2
  <2> QED BY <2>1, <2>2
<1>2. ASSUME NEW s \in Subscriptions PROVE Minds(task[s])'
  <2>1. PICK t : t = task[s]
    OBVIOUS
  <2>2. Minds(t)'
    BY <2>1, MindsStays DEF ReadersInv
  <2> QED BY <2>1, <2>2 DEF Minds, Tells, HasMotion, Proposed
<1> QED BY <1>1, <1>2 DEF ReadersInv

\* A task moves on with an event that was told, or rests.
LEMMA TaskMoves ==
  ASSUME ReadersInv, NEW s \in Subscriptions, NEW t, task' = [task EXCEPT ![s] = t], Minds(t),
         NEW c \in Nat \ {0}, c <= Len(bus) + 1, cursor' = [cursor EXCEPT ![s] = c],
         TablesRest, UNCHANGED bus
  PROVE  ReadersInv'
<1>0. FloorRemains /\ MissionsRemain
  BY RestingRemains
<1>1. ASSUME NEW i \in DOMAIN bus' PROVE Tells(bus[i])'
  <2>1. PICK e : e = bus[i]
    OBVIOUS
  <2>2. Tells(e)'
    BY <1>0, <1>1, <2>1, TellsStays DEF ReadersInv, Tells, HasMotion, Proposed
  <2> QED BY <2>1, <2>2 DEF Tells, HasMotion, Proposed
<1>2. /\ cursor' \in [Subscriptions -> Nat \ {0}]
      /\ \A o \in Subscriptions : cursor'[o] <= Len(bus') + 1
      /\ task' = [o \in Subscriptions |-> task'[o]]
  BY DEF ReadersInv
<1>3. ASSUME NEW o \in Subscriptions PROVE Minds(task[o])'
  <2>1. PICK k : k = task'[o]
    OBVIOUS
  <2>2. Minds(k)
    <3>1. CASE o = s
      BY <2>1, <3>1 DEF ReadersInv
    <3>2. CASE o # s
      BY <2>1, <3>2 DEF ReadersInv
    <3> QED BY <3>1, <3>2
  <2>3. Minds(k)'
    BY <1>0, <2>2, MindsStays
  <2> QED BY <2>1, <2>3 DEF Minds, Tells, HasMotion, Proposed
<1> QED BY <1>1, <1>2, <1>3 DEF ReadersInv

\* How a subscription's task moves, and its place in the broadcast.
LEMMA ReadersMove ==
  ASSUME ReadersInv, NEW s \in Subscriptions, TablesRest, UNCHANGED bus
  PROVE  /\ \A wanted, step : Receive(s, wanted, step) /\ wanted \subseteq Told /\ step \in TaskSteps
                /\ (step # "file" => wanted = {"mission.completed"}) => ReadersInv'
         /\ \A step : task[s] # Idle /\ Onward(s, step) /\ step \in TaskSteps
                /\ (step # "tie" => task[s].event.type = "mission.completed") => ReadersInv'
         /\ Handled(s) => ReadersInv'
         /\ Miss(s) => ReadersInv'
         /\ Rebound(s) => ReadersInv'
<1>0. /\ cursor[s] \in Nat \ {0} /\ cursor[s] <= Len(bus) + 1 /\ Len(bus) \in Nat
      /\ cursor = [cursor EXCEPT ![s] = cursor[s]] /\ Minds(task[s])
      /\ task = [task EXCEPT ![s] = task[s]] /\ Minds(Idle)
  <2>1. Minds(Idle)
    BY DEF Minds
  <2> QED BY <2>1 DEF ReadersInv
<1>1. ASSUME NEW wanted \in SUBSET Told, NEW step \in TaskSteps, Receive(s, wanted, step),
             step # "file" => wanted = {"mission.completed"}
      PROVE  ReadersInv'
  <2>1. PICK e, t, c : /\ e = bus[cursor[s]] /\ t = [at |-> step, event |-> e] /\ c = cursor[s] + 1
    OBVIOUS
  <2>2. cursor[s] \in DOMAIN bus
    BY <1>0, <1>1 DEF Receive, ReadersInv
  <2>3. Tells(e)
    BY <2>1, <2>2 DEF ReadersInv
  <2>4. c \in Nat \ {0} /\ c <= Len(bus) + 1 /\ cursor' = [cursor EXCEPT ![s] = c]
    BY <1>0, <1>1, <2>1 DEF Receive
  <2>5. CASE e.type \in wanted
    <3>1. task' = [task EXCEPT ![s] = t]
      BY <1>1, <2>1, <2>5 DEF Receive
    <3>2. /\ t.at = step /\ DOMAIN t = {"at", "event"} /\ t.event = e
      BY <2>1
    <3>3. Minds(t)
      BY <1>1, <2>3, <2>5, <3>2 DEF Minds
    <3> QED BY <2>4, <3>1, <3>3, TaskMoves
  <2>6. CASE e.type \notin wanted
    <3>1. task' = [task EXCEPT ![s] = task[s]]
      BY <1>0, <1>1, <2>1, <2>6 DEF Receive
    <3> QED BY <1>0, <2>4, <3>1, TaskMoves
  <2> QED BY <2>5, <2>6
<1>2. ASSUME NEW step \in TaskSteps, task[s] # Idle, Onward(s, step),
             step # "tie" => task[s].event.type = "mission.completed"
      PROVE  ReadersInv'
  <2>1. PICK old, t : old = task[s] /\ t = [old EXCEPT !.at = step]
    OBVIOUS
  <2>2. /\ DOMAIN old = {"at", "event"} /\ Tells(old.event) /\ old.event.type \in Told
    BY <1>0, <1>2, <2>1 DEF Minds
  <2>3. DOMAIN t = {"at", "event"} /\ t.at = step /\ t.event = old.event
    BY <2>1, <2>2
  <2>4. Minds(t)
    BY <1>2, <2>1, <2>2, <2>3 DEF Minds
  <2>5. task' = [task EXCEPT ![s] = t] /\ cursor' = [cursor EXCEPT ![s] = cursor[s]]
    BY <1>0, <1>2, <2>1 DEF Onward
  <2> QED BY <1>0, <2>4, <2>5, TaskMoves
<1>3. ASSUME Handled(s) PROVE ReadersInv'
  BY <1>0, <1>3, TaskMoves DEF Handled
<1>4. ASSUME Miss(s) PROVE ReadersInv'
  <2>1. PICK c : c = cursor[s] + 1
    OBVIOUS
  <2>2. /\ c \in Nat \ {0} /\ c <= Len(bus) + 1 /\ cursor' = [cursor EXCEPT ![s] = c]
        /\ task' = [task EXCEPT ![s] = task[s]]
    BY <1>0, <1>4, <2>1 DEF Miss
  <2> QED BY <1>0, <2>2, TaskMoves
<1>5. ASSUME Rebound(s) PROVE ReadersInv'
  <2>1. PICK c : c = Len(bus) + 1
    OBVIOUS
  <2>2. /\ c \in Nat \ {0} /\ c <= Len(bus) + 1 /\ cursor' = [cursor EXCEPT ![s] = c]
        /\ task' = [task EXCEPT ![s] = Idle]
    BY <1>0, <1>5, <2>1 DEF Rebound
  <2> QED BY <1>0, <2>2, TaskMoves
<1> QED BY <1>1, <1>2, <1>3, <1>4, <1>5

-----------------------------------------------------------------------------
(* The archive.                                                            *)

\* An ingested record says no more than its event did.
Honest(r) ==
  r.kind = "ingested" =>
    /\ r.ref[1] = "outcome" =>
         /\ r.ref[2] \in Motions /\ HasMotion(r.ref[2]) /\ floor[r.ref[2]].result # "pending"
         /\ r.outcome = "passed" => r.ref[2] \in carried
    /\ r.ref[1] = "accords" => r.ref[2] \in DOMAIN accords
    /\ r.ref[1] = "report" =>
         r.ref[2] \in Missions /\ Proposed(r.ref[2]) /\ missions[r.ref[2]].summary = TRUE

RecordsInv == (\E S : records \in Seq(S)) /\ \A i \in DOMAIN records : Honest(records[i])

\* So it stays.
LEMMA HonestStays == ASSUME FloorRemains, MissionsRemain, NEW r, Honest(r) PROVE Honest(r)'
<1>1. PICK what, of : what = r.ref[1] /\ of = r.ref[2]
  OBVIOUS
<1>2. r.kind = "ingested" /\ what = "outcome" =>
        /\ of \in Motions /\ HasMotion(of)' /\ floor'[of].result # "pending"
        /\ r.outcome = "passed" => of \in carried'
  BY <1>1 DEF Honest, FloorRemains
<1>3. r.kind = "ingested" /\ what = "accords" => of \in DOMAIN accords'
  BY <1>1 DEF Honest, FloorRemains
<1>4. r.kind = "ingested" /\ what = "report" =>
        of \in Missions /\ Proposed(of)' /\ missions'[of].summary = TRUE
  BY <1>1 DEF Honest, MissionsRemain
<1> QED BY <1>1, <1>2, <1>3, <1>4 DEF Honest, HasMotion, Proposed

\* The record as it is, whatever the others write.
LEMMA RecordsStay ==
  ASSUME RecordsInv, FloorRemains, MissionsRemain, UNCHANGED records PROVE RecordsInv'
<1>1. ASSUME NEW i \in DOMAIN records PROVE Honest(records[i])'
  <2>1. PICK r : r = records[i]
    OBVIOUS
  <2>2. Honest(r)'
    BY <2>1, HonestStays DEF RecordsInv
  <2> QED BY <2>1, <2>2 DEF Honest, HasMotion, Proposed
<1> QED BY <1>1 DEF RecordsInv

\* One more record.
LEMMA OneMoreRecord ==
  ASSUME RecordsInv, TablesRest, NEW kind, NEW ref, NEW outcome, NEW of,
         records' = Filing(kind, ref, outcome, of),
         Honest([kind |-> kind, ref |-> ref, outcome |-> outcome, supersedes |-> of])
  PROVE  RecordsInv'
<1>0. FloorRemains /\ MissionsRemain
  BY RestingRemains
<1>1. PICK row : row = [kind |-> kind, ref |-> ref, outcome |-> outcome, supersedes |-> of]
  OBVIOUS
<1>2. PICK S : records \in Seq(S)
  BY DEF RecordsInv
<1>3. PICK T : T = S \cup {row}
  OBVIOUS
<1>4. records \in Seq(T) /\ row \in T
  BY <1>2, <1>3
<1>5. PICK last : last = Len(records) + 1
  OBVIOUS
<1>6. records' = Append(records, row)
  BY <1>1 DEF Filing
<1>7. /\ records' \in Seq(T) /\ DOMAIN records' = DOMAIN records \cup {last} /\ records'[last] = row
      /\ \A i \in DOMAIN records : records'[i] = records[i]
  BY <1>4, <1>5, <1>6
<1>8. ASSUME NEW i \in DOMAIN records' PROVE Honest(records[i])'
  <2>1. PICK r : r = records'[i]
    OBVIOUS
  <2>2. Honest(r)
    BY <1>1, <1>7, <1>8, <2>1 DEF RecordsInv
  <2>3. Honest(r)'
    BY <1>0, <2>2, HonestStays
  <2> QED BY <2>1, <2>3 DEF Honest, HasMotion, Proposed
<1> QED BY <1>7, <1>8 DEF RecordsInv

\* What an event files is honest when the event is.
LEMMA FiledHonestly ==
  ASSUME NEW e, Tells(e), e.type \in Told
  PROVE  Honest([kind |-> "ingested", ref |-> Filed(e), outcome |-> Outcome(e), supersedes |-> 0])
<1>1. PICK r, ref, out : /\ ref = Filed(e) /\ out = Outcome(e)
                         /\ r = [kind |-> "ingested", ref |-> ref, outcome |-> out, supersedes |-> 0]
  OBVIOUS
<1>2. r.ref = ref /\ r.outcome = out /\ r.kind = "ingested"
  BY <1>1
<1>3. CASE e.type = "motion.proposed"
  <2>1. ref[1] = "motion"
    BY <1>1, <1>3 DEF Filed
  <2> QED BY <1>1, <1>2, <2>1 DEF Honest
<1>4. CASE e.type = "motion.outcome"
  <2>1. ref[1] = "outcome" /\ ref[2] = e.motion /\ out = e.result
    BY <1>1, <1>4 DEF Filed, Outcome
  <2> QED BY <1>1, <1>2, <1>4, <2>1 DEF Honest, Tells
<1>5. CASE e.type = "accords.adopted"
  <2>1. ref[1] = "accords" /\ ref[2] = e.version
    BY <1>1, <1>5 DEF Filed
  <2> QED BY <1>1, <1>2, <1>5, <2>1 DEF Honest, Tells
<1>6. CASE e.type = "mission.completed"
  <2>1. ref[1] = "report" /\ ref[2] = e.mission
    BY <1>1, <1>6 DEF Filed
  <2> QED BY <1>1, <1>2, <1>6, <2>1 DEF Honest, Tells
<1> QED BY <1>3, <1>4, <1>5, <1>6 DEF Told

\* A clerk files what it was told, and ties what is filed.
LEMMA ClerkStep ==
  ASSUME ReadersInv, RecordsInv, NEW s \in Clerks, s \in Subscriptions, Clerk(s), TablesRest
  PROVE  ReadersInv' /\ RecordsInv'
<1>0. FloorRemains /\ MissionsRemain /\ Minds(task[s])
  BY RestingRemains DEF ReadersInv
<1>1. ASSUME UNCHANGED records PROVE RecordsInv'
  BY <1>0, <1>1, RecordsStay
<1>2. CASE Ingest(s)
  <2>1. PICK wanted : wanted = Topic(s)
    OBVIOUS
  <2>2. wanted \subseteq Told /\ Receive(s, wanted, "file") /\ UNCHANGED <<bus, records>>
    BY <1>2, <2>1 DEF Topic, Told, Clerks, Ingest, hostVars, archRows
  <2>3. ReadersInv'
    BY <2>2, ReadersMove DEF TaskSteps
  <2> QED BY <1>1, <2>2, <2>3
<1>3. CASE FileEvent(s)
  <2>1. PICK e : e = task[s].event
    OBVIOUS
  <2>2. UNCHANGED bus /\ task[s].at = "file" /\ task[s] # Idle
    BY <1>3 DEF FileEvent, Handling, hostVars, Idle
  <2>3. Tells(e) /\ e.type \in Told
    BY <1>0, <2>1, <2>2 DEF Minds
  <2>4. CASE UNCHANGED records
    <3>1. Handled(s) \/ (After(e) # "done" /\ Onward(s, After(e)))
      BY <1>3, <2>1 DEF FileEvent
    <3>2. After(e) \in {"impact", "tie", "done"} /\ (After(e) = "impact" => e.type = "mission.completed")
      BY <2>3 DEF After, Told
    <3>3. ReadersInv'
      BY <2>1, <2>2, <3>1, <3>2, ReadersMove DEF TaskSteps
    <3> QED BY <1>1, <2>4, <3>3
  <2>5. CASE records' = Filing("ingested", Filed(e), Outcome(e), 0)
    <3>1. Handled(s) \/ (After(e) # "done" /\ Onward(s, After(e)))
      BY <1>3, <2>1 DEF FileEvent
    <3>2. After(e) \in {"impact", "tie", "done"} /\ (After(e) = "impact" => e.type = "mission.completed")
      BY <2>3 DEF After, Told
    <3>3. ReadersInv'
      BY <2>1, <2>2, <3>1, <3>2, ReadersMove DEF TaskSteps
    <3>4. RecordsInv'
      BY <2>3, <2>5, FiledHonestly, OneMoreRecord
    <3> QED BY <3>3, <3>4
  <2> QED BY <1>3, <2>1, <2>4, <2>5 DEF FileEvent
<1>4. CASE FileImpact(s)
  <2>1. PICK e, ref : e = task[s].event /\ ref = Edge(e).to
    OBVIOUS
  <2>2. UNCHANGED bus /\ task[s].at = "impact" /\ task[s] # Idle
    <3>1. Handling(s, "impact") /\ UNCHANGED hostVars
      BY <1>4 DEF FileImpact
    <3>2. task[s].at = "impact"
      BY <3>1 DEF Handling
    <3>3. UNCHANGED bus
      BY <3>1 DEF hostVars
    <3>4. task[s] # Idle
      BY <3>2 DEF Idle
    <3> QED BY <3>2, <3>3, <3>4
  <2>3. e.type = "mission.completed"
    BY <1>0, <2>1, <2>2 DEF Minds
  <2>4. ref[1] = "impact"
    <3>1. PICK edge : edge = [from |-> Filed(e), to |-> <<"impact", e.mission>>, relation |-> "produces"]
      OBVIOUS
    <3>2. Edge(e) = edge
      BY <2>3, <3>1 DEF Edge
    <3>3. edge.to = <<"impact", e.mission>>
      BY <3>1
    <3> QED BY <2>1, <3>2, <3>3
  <2>5. Onward(s, "tie")
    BY <1>4 DEF FileImpact
  <2>6. ReadersInv'
    BY <2>2, <2>5, ReadersMove DEF TaskSteps
  <2>7. CASE records' = Filing("ingested", ref, "", 0)
    <3>1. PICK r : r = [kind |-> "ingested", ref |-> ref, outcome |-> "", supersedes |-> 0]
      OBVIOUS
    <3>2. r.ref = ref
      BY <3>1
    <3>3. Honest(r)
      BY <2>4, <3>2 DEF Honest
    <3>4. RecordsInv'
      BY <2>7, <3>1, <3>3, OneMoreRecord
    <3> QED BY <2>6, <3>4
  <2>8. CASE UNCHANGED records
    BY <1>1, <2>6, <2>8
  <2> QED BY <1>4, <2>1, <2>7, <2>8 DEF FileImpact
<1>5. CASE Tie(s)
  <2>1. Handled(s) /\ UNCHANGED <<bus, records>>
    BY <1>5 DEF Tie, hostVars
  <2> QED BY <1>1, <2>1, ReadersMove
<1>6. CASE IngestEnds(s)
  <2>1. (Handled(s) \/ Rebound(s)) /\ UNCHANGED <<bus, records>>
    BY <1>6 DEF IngestEnds, hostVars, archRows
  <2> QED BY <1>1, <2>1, ReadersMove
<1>7. CASE LoseIngest(s)
  <2>1. Miss(s) /\ UNCHANGED <<bus, records>>
    BY <1>7 DEF LoseIngest, hostVars, archRows
  <2> QED BY <1>1, <2>1, ReadersMove
<1> QED BY <1>2, <1>3, <1>4, <1>5, <1>6, <1>7 DEF Clerk

\* What people file is no event's.
LEMMA ShelvesStep ==
  ASSUME RecordsInv, Shelves, TablesRest PROVE RecordsInv'
<1>0. FloorRemains /\ MissionsRemain
  BY RestingRemains
<1>1. ASSUME UNCHANGED records PROVE RecordsInv'
  BY <1>0, <1>1, RecordsStay
<1>2. ASSUME NEW kind \in {"minutes", "correction"}, NEW ref, NEW out, NEW of,
             records' = Filing(kind, ref, out, of)
      PROVE  RecordsInv'
  <2>1. PICK r : r = [kind |-> kind, ref |-> ref, outcome |-> out, supersedes |-> of]
    OBVIOUS
  <2>2. r.kind # "ingested"
    BY <2>1
  <2>3. Honest(r)
    BY <2>2 DEF Honest
  <2> QED BY <1>2, <2>1, <2>3, OneMoreRecord
<1>3. ASSUME NEW ref \in FiledRefs, FileRecord(ref) PROVE RecordsInv'
  BY <1>1, <1>2, <1>3 DEF FileRecord
<1>4. ASSUME NEW h \in Hands, Librarian(h) PROVE RecordsInv'
  <2>1. CASE Correct(h)
    BY <1>2, <2>1 DEF Correct
  <2>2. CASE ~Correct(h)
    <3>1. UNCHANGED records
      BY <1>4, <2>2 DEF Librarian, BeginCorrection, archRows
    <3> QED BY <1>1, <3>1
  <2> QED BY <2>1, <2>2
<1>5. ASSUME NEW i \in DOMAIN records, NEW j \in DOMAIN records, NEW r, CreateLink(i, j, r) PROVE RecordsInv'
  BY <1>1, <1>5 DEF CreateLink
<1>6. ASSUME NEW edge \in edges, DeleteLink(edge) PROVE RecordsInv'
  BY <1>1, <1>6 DEF DeleteLink
<1> QED BY <1>3, <1>4, <1>5, <1>6 DEF Shelves
-----------------------------------------------------------------------------
(* The calendar.                                                           *)

\* A row keeps its mission; and no two rows have the same, but for none.
EventsInv ==
  /\ \E S : events \in Seq(S)
  /\ \A e \in DOMAIN events : Listed(e) => "mission" \in DOMAIN events[e]
  /\ \A e, f \in DOMAIN events :
       /\ Listed(e) /\ Listed(f)
       /\ events[e].mission = events[f].mission /\ events[e].mission # OfNone
       => e = f

\* The desk has a completion in hand.
Attends(m) == task[DebriefDesk] # Idle /\ task[DebriefDesk].event.mission = m

\* A completion it took is on the calendar, in hand, or counted as missed.
Settled(m) == m \in missed \/ Debriefs(m) # {} \/ Attends(m)
Scheduled ==
  \A i \in DOMAIN bus :
    i < cursor[DebriefDesk] /\ bus[i].type = "mission.completed" => Settled(bus[i].mission)

DebriefInv == EventsInv /\ Scheduled

\* A row that is written over by one of the same mission, or deleted.
Succeeds(row, x) ==
  x \in DOMAIN events => \/ row = Gone
                         \/ /\ Listed(x) /\ "mission" \in DOMAIN row /\ row # Gone
                            /\ row.mission = events[x].mission
LEMMA EventWritten ==
  ASSUME EventsInv, NEW x, NEW row, events' = [events EXCEPT ![x] = row], Succeeds(row, x)
  PROVE  /\ EventsInv'
         /\ \A m : Debriefs(m) # {} => \/ Debriefs(m)' # {}
                                       \/ row = Gone /\ Listed(x) /\ m = events[x].mission
<1>1. PICK S : events \in Seq(S)
  BY DEF EventsInv
<1>2. PICK T : T = S \cup {row}
  OBVIOUS
<1>3. events \in Seq(T) /\ row \in T
  BY <1>1, <1>2
<1>4. events' \in Seq(T) /\ DOMAIN events' = DOMAIN events
  <2>1. PICK n \in Nat : events \in [1..n -> T]
    BY <1>3
  <2>2. events' \in [1..n -> T]
    BY <1>3, <2>1
  <2> QED BY <2>1, <2>2
<1>5. \A e \in DOMAIN events : events'[e] = IF e = x THEN row ELSE events[e]
  BY <1>4
<1>6. \A e \in DOMAIN events : Listed(e)' => Listed(e) /\ events'[e].mission = events[e].mission
                                             /\ "mission" \in DOMAIN events'[e]
  BY <1>5 DEF Listed, EventsInv, Succeeds
<1>7. EventsInv'
  <2>1. \A e \in DOMAIN events' : Listed(e)' => "mission" \in DOMAIN events'[e]
    BY <1>4, <1>6
  <2>2. ASSUME NEW e \in DOMAIN events', NEW f \in DOMAIN events', Listed(e)', Listed(f)',
               events'[e].mission = events'[f].mission, events'[e].mission # OfNone
        PROVE  e = f
    BY <1>4, <1>6, <2>2 DEF EventsInv
  <2> QED BY <1>4, <2>1, <2>2 DEF EventsInv, OfNone
<1>8. ASSUME NEW m, Debriefs(m) # {}
      PROVE  Debriefs(m)' # {} \/ (row = Gone /\ Listed(x) /\ m = events[x].mission)
  <2>1. PICK e \in DOMAIN events : Listed(e) /\ events[e].mission = m
    BY <1>8 DEF Debriefs
  <2>2. CASE e = x /\ row = Gone
    BY <2>1, <2>2
  <2>3. CASE ~(e = x /\ row = Gone)
    <3>1. events'[e] # Gone /\ events'[e].mission = m
      BY <1>5, <2>1, <2>3 DEF Listed, Succeeds
    <3>2. e \in Debriefs(m)'
      BY <1>4, <3>1 DEF Debriefs, Listed
    <3> QED BY <3>2
  <2> QED BY <2>2, <2>3
<1> QED BY <1>7, <1>8

\* A row more, for no mission or for one that had none.
LEMMA EventAdded ==
  ASSUME EventsInv, NEW rule, NEW start, NEW m, m = OfNone \/ Debriefs(m) = {},
         events' = Append(events, Event(rule, start, m))
  PROVE  /\ EventsInv' /\ Debriefs(m)' # {}
         /\ \A n : Debriefs(n) # {} => Debriefs(n)' # {}
<1>1. PICK S : events \in Seq(S)
  BY DEF EventsInv
<1>2. PICK row : row = Event(rule, start, m)
  OBVIOUS
<1>3. row # Gone /\ "mission" \in DOMAIN row /\ row.mission = m
  <2>1. row.status = "scheduled" /\ Gone.status = "deleted"
    BY <1>2 DEF Event, Gone
  <2> QED BY <1>2, <2>1 DEF Event
<1>4. PICK T, last : T = S \cup {row} /\ last = Len(events) + 1
  OBVIOUS
<1>5. events \in Seq(T) /\ row \in T
  BY <1>1, <1>4
<1>6. /\ events' \in Seq(T) /\ DOMAIN events' = DOMAIN events \cup {last} /\ events'[last] = row
      /\ last \notin DOMAIN events /\ \A e \in DOMAIN events : events'[e] = events[e]
  BY <1>2, <1>4, <1>5
<1>7. \A e \in DOMAIN events : Listed(e)' <=> Listed(e)
  BY <1>6 DEF Listed
<1>8. \A e \in DOMAIN events : Listed(e) /\ events[e].mission = m => m = OfNone
  BY DEF Debriefs
<1>9. EventsInv'
  <2>1. \A e \in DOMAIN events' : Listed(e)' => "mission" \in DOMAIN events'[e]
    BY <1>3, <1>6, <1>7 DEF EventsInv
  <2>2. ASSUME NEW e \in DOMAIN events', NEW f \in DOMAIN events', Listed(e)', Listed(f)',
               events'[e].mission = events'[f].mission, events'[e].mission # OfNone
        PROVE  e = f
    <3>1. CASE e \in DOMAIN events /\ f \in DOMAIN events
      BY <1>6, <1>7, <2>2, <3>1 DEF EventsInv
    <3>2. CASE e = last \/ f = last
      BY <1>3, <1>6, <1>7, <1>8, <2>2, <3>2
    <3> QED BY <1>6, <3>1, <3>2
  <2> QED BY <1>6, <2>1, <2>2 DEF EventsInv, OfNone
<1>10. last \in Debriefs(m)'
  BY <1>3, <1>6 DEF Debriefs, Listed
<1>11. ASSUME NEW n, Debriefs(n) # {} PROVE Debriefs(n)' # {}
  <2>1. PICK e \in DOMAIN events : Listed(e) /\ events[e].mission = n
    BY <1>11 DEF Debriefs
  <2>2. e \in Debriefs(n)'
    BY <1>6, <1>7, <2>1 DEF Debriefs
  <2> QED BY <2>2
<1> QED BY <1>9, <1>10, <1>11

\* The desk does not move: what it took stays settled.
LEMMA ScheduledStays ==
  ASSUME ReadersInv, Scheduled, UNCHANGED <<cursor, task>>, DebriefDesk \in Subscriptions,
         bus' = bus \/ \E e : Tells(e) /\ bus' = Append(bus, e),
         missed \subseteq missed',
         \A m : Debriefs(m) # {} => Debriefs(m)' # {} \/ m \in missed'
  PROVE  Scheduled'
<1>1. ASSUME NEW m, Settled(m) PROVE Settled(m)'
  BY <1>1 DEF Settled, Attends, Idle
<1>2. ASSUME NEW i \in DOMAIN bus', i < cursor'[DebriefDesk], bus'[i].type = "mission.completed"
      PROVE  Settled(bus[i].mission)'
  <2>1. i \in DOMAIN bus /\ bus'[i] = bus[i]
    <3>1. CASE bus' = bus
      BY <3>1
    <3>2. CASE \E e : Tells(e) /\ bus' = Append(bus, e)
      <4>1. PICK e : bus' = Append(bus, e)
        BY <3>2
      <4>2. /\ DOMAIN bus = 1..Len(bus) /\ Len(bus) \in Nat /\ DOMAIN bus' = DOMAIN bus \cup {Len(bus) + 1}
            /\ \A j \in DOMAIN bus : bus'[j] = bus[j]
        BY <4>1, BusGrows DEF ReadersInv
      <4>3. cursor[DebriefDesk] \in Nat /\ cursor[DebriefDesk] <= Len(bus) + 1 /\ i < cursor[DebriefDesk]
        BY <1>2 DEF ReadersInv
      <4>4. i # Len(bus) + 1
        BY <4>2, <4>3
      <4> QED BY <1>2, <4>2, <4>4
    <3> QED BY <3>1, <3>2
  <2>2. PICK m : m = bus[i].mission
    OBVIOUS
  <2>3. Settled(m)
    BY <1>2, <2>1, <2>2 DEF Scheduled
  <2>4. Settled(m)'
    BY <1>1, <2>3
  <2>5. m = bus'[i].mission
    BY <2>1, <2>2
  <2> QED BY <2>4, <2>5 DEF Settled, Attends, Debriefs, Listed
<1> QED BY <1>2 DEF Scheduled
\* What was settled stays so, and what the desk takes is.
LEMMA DeskMoves ==
  ASSUME ReadersInv, Scheduled, DebriefDesk \in Subscriptions, UNCHANGED bus,
         \A m : Settled(m) => Settled(m)',
         \A i \in DOMAIN bus : \A m :
           /\ cursor[DebriefDesk] <= i /\ i < cursor'[DebriefDesk]
           /\ bus[i].type = "mission.completed" /\ m = bus[i].mission
           => Settled(m)'
  PROVE  Scheduled'
<1>1. ASSUME NEW i \in DOMAIN bus', i < cursor'[DebriefDesk], bus'[i].type = "mission.completed"
      PROVE  Settled(bus[i].mission)'
  <2>1. i \in DOMAIN bus /\ bus'[i] = bus[i]
    OBVIOUS
  <2>2. PICK m : m = bus[i].mission
    OBVIOUS
  <2>3. i \in Nat /\ cursor[DebriefDesk] \in Nat
    BY <2>1 DEF ReadersInv
  <2>4. CASE i < cursor[DebriefDesk]
    <3>1. Settled(m)
      BY <1>1, <2>1, <2>2, <2>4 DEF Scheduled
    <3>2. Settled(m)'
      BY <3>1
    <3> QED BY <2>1, <2>2, <3>2 DEF Settled, Attends, Debriefs, Listed
  <2>5. CASE cursor[DebriefDesk] <= i
    <3>1. Settled(m)'
      BY <1>1, <2>1, <2>2, <2>5
    <3> QED BY <2>1, <2>2, <3>1 DEF Settled, Attends, Debriefs, Listed
  <2> QED BY <2>3, <2>4, <2>5
<1> QED BY <1>1 DEF Scheduled

\* The desk schedules, once, what it was told of.
LEMMA DeskStep ==
  ASSUME ReadersInv, DebriefInv, DebriefDesk \in Subscriptions, DebriefClerk(DebriefDesk), TablesRest
  PROVE  ReadersInv' /\ DebriefInv'
<1>1. PICK s \in Subscriptions : s = DebriefDesk
  OBVIOUS
<1>2. /\ cursor[s] \in Nat \ {0} /\ cursor[s] <= Len(bus) + 1 /\ Len(bus) \in Nat
      /\ DOMAIN bus = 1..Len(bus)
      /\ task = [task EXCEPT ![s] = task[s]] /\ Minds(task[s])
      /\ DOMAIN cursor = Subscriptions /\ DOMAIN task = Subscriptions
  BY DEF ReadersInv
<1>3. PICK e : e = task[s].event
  OBVIOUS
<1>4. ASSUME UNCHANGED events PROVE EventsInv' /\ \A m : Debriefs(m)' = Debriefs(m)
  BY <1>4 DEF DebriefInv, EventsInv, Debriefs, Listed
<1>5. CASE HearCompletion(s)
  <2>1. PICK wanted : wanted = {"mission.completed"}
    OBVIOUS
  <2>2. Receive(s, wanted, "debrief_exists") /\ UNCHANGED <<bus, events, missed>>
    BY <1>5, <2>1 DEF HearCompletion, hostVars, calRows
  <2>3. ReadersInv'
    BY <2>1, <2>2, ReadersMove DEF TaskSteps, Told
  <2>4. task[s] = Idle /\ cursor[s] \in DOMAIN bus /\ cursor'[s] = cursor[s] + 1
    BY <1>2, <2>2 DEF Receive
  <2>5. ASSUME NEW m, Settled(m) PROVE Settled(m)'
    <3>1. m \in missed \/ Debriefs(m) # {}
      BY <1>1, <2>4, <2>5 DEF Settled, Attends
    <3> QED BY <1>4, <2>2, <3>1 DEF Settled
  <2>6. ASSUME NEW i \in DOMAIN bus, NEW m, cursor[s] <= i, i < cursor'[s],
               bus[i].type = "mission.completed", m = bus[i].mission
        PROVE  Settled(m)'
    <3>1. i = cursor[s]
      BY <1>2, <2>4, <2>6
    <3>2. PICK t : t = [at |-> "debrief_exists", event |-> bus[i]]
      OBVIOUS
    <3>3. task' = [task EXCEPT ![s] = t]
      BY <2>1, <2>2, <2>6, <3>1, <3>2 DEF Receive
    <3>4. task'[s] = t /\ t.event.mission = m /\ t.at = "debrief_exists"
      BY <1>2, <2>6, <3>2, <3>3
    <3> QED BY <1>1, <3>4 DEF Settled, Attends, Idle
  <2>7. Scheduled'
    BY <1>1, <2>2, <2>5, <2>6, DeskMoves DEF DebriefInv
  <2> QED BY <1>4, <2>2, <2>3, <2>7 DEF DebriefInv
<1>6. ASSUME task[s] # Idle, UNCHANGED <<bus, cursor, missed>>, EventsInv',
             \A m : Debriefs(m) # {} => Debriefs(m)' # {},
             Attends(e.mission)' \/ Debriefs(e.mission)' # {}
      PROVE  DebriefInv'
  <2>1. ASSUME NEW m, Settled(m) PROVE Settled(m)'
    <3>1. CASE m \in missed \/ Debriefs(m) # {}
      BY <1>6, <3>1 DEF Settled
    <3>2. CASE Attends(m)
      <4>1. m = e.mission
        BY <1>1, <1>3, <3>2 DEF Attends
      <4> QED BY <1>6, <4>1 DEF Settled
    <3> QED BY <2>1, <3>1, <3>2 DEF Settled
  <2>2. cursor[s] \in Nat /\ cursor'[s] = cursor[s] /\ \A i \in DOMAIN bus : i \in Nat
    BY <1>2, <1>6
  <2>3. Scheduled'
    BY <1>1, <1>6, <2>1, <2>2, DeskMoves DEF DebriefInv
  <2> QED BY <1>6, <2>3 DEF DebriefInv
<1>7. CASE DebriefExists(s)
  <2>1. task[s].at = "debrief_exists" /\ task[s] # Idle /\ UNCHANGED <<bus, events, missed>>
    BY <1>7 DEF DebriefExists, Handling, Idle, hostVars, calRows
  <2>2. e.type = "mission.completed" /\ DOMAIN task[s] = {"at", "event"}
    BY <1>2, <1>3, <2>1 DEF Minds
  <2>3. CASE Debriefs(e.mission) # {} /\ Handled(s)
    <3>1. ReadersInv'
      BY <2>1, <2>3, ReadersMove
    <3>2. UNCHANGED cursor
      BY <2>3 DEF Handled
    <3> QED BY <1>4, <1>6, <2>1, <2>3, <3>1, <3>2
  <2>4. CASE Onward(s, "debrief_insert")
    <3>1. ReadersInv'
      BY <1>3, <2>1, <2>2, <2>4, ReadersMove DEF TaskSteps
    <3>2. UNCHANGED cursor /\ task'[s] = [task[s] EXCEPT !.at = "debrief_insert"]
      BY <1>2, <2>4 DEF Onward
    <3>3. PICK t : t = task'[s]
      OBVIOUS
    <3>4. t.at = "debrief_insert" /\ t.event = e
      BY <1>3, <2>2, <3>2, <3>3
    <3>5. Attends(e.mission)'
      BY <1>1, <3>3, <3>4 DEF Attends, Idle
    <3> QED BY <1>4, <1>6, <2>1, <3>1, <3>2, <3>5
  <2> QED BY <1>3, <1>7, <2>3, <2>4 DEF DebriefExists
<1>8. CASE InsertDebrief(s)
  <2>1. PICK m : m = e.mission
    OBVIOUS
  <2>2. task[s].at = "debrief_insert" /\ task[s] # Idle /\ UNCHANGED <<bus, missed>> /\ Handled(s)
    BY <1>8 DEF InsertDebrief, Handling, Idle, hostVars
  <2>3. ReadersInv' /\ UNCHANGED cursor
    BY <2>2, ReadersMove DEF Handled
  <2>4. CASE Debriefs(m) # {} /\ UNCHANGED events
    BY <1>4, <1>6, <2>1, <2>2, <2>3, <2>4
  <2>5. CASE Debriefs(m) = {} /\ events' = Append(events, Event(Once, 0, m))
    <3>1. EventsInv' /\ Debriefs(m)' # {} /\ \A n : Debriefs(n) # {} => Debriefs(n)' # {}
      BY <2>5, EventAdded DEF DebriefInv
    <3>2. Debriefs(e.mission)' # {}
      BY <2>1, <2>2, <3>1, <1>3 DEF Debriefs, Listed
    <3> QED BY <1>6, <2>2, <2>3, <3>1, <3>2
  <2> QED BY <1>3, <1>8, <2>1, <2>4, <2>5 DEF InsertDebrief
<1>9. ASSUME UNCHANGED <<bus, events>>,
             \A m : m \in missed \/ Attends(m) => m \in missed' \/ Attends(m)',
             \A i \in DOMAIN bus : /\ cursor[s] <= i /\ i < cursor'[s]
                                   /\ bus[i].type = "mission.completed"
                                   => bus[i].mission \in missed'
      PROVE  DebriefInv'
  <2>1. \A m : Settled(m) => Settled(m)'
    BY <1>4, <1>9 DEF Settled
  <2>2. \A i \in DOMAIN bus : \A m :
           /\ cursor[s] <= i /\ i < cursor'[s]
           /\ bus[i].type = "mission.completed" /\ m = bus[i].mission
           => Settled(m)'
    BY <1>9 DEF Settled
  <2>3. Scheduled'
    BY <1>1, <1>9, <2>1, <2>2, DeskMoves DEF DebriefInv
  <2> QED BY <1>4, <1>9, <2>3 DEF DebriefInv
<1>10. CASE DebriefEnds(s)
  <2>1. task[s] # Idle /\ (Handled(s) \/ Rebound(s)) /\ UNCHANGED <<bus, events>>
    BY <1>10 DEF DebriefEnds, hostVars, calRows
  <2>2. ReadersInv'
    BY <2>1, ReadersMove
  <2>3. missed' = missed \cup {e.mission} \cup CompletedIn(cursor[s]..cursor'[s] - 1)
    BY <1>3, <1>10 DEF DebriefEnds
  <2>4. \A m : m \in missed \/ Attends(m) => m \in missed'
    BY <1>1, <1>3, <2>3 DEF Attends
  <2>5. cursor'[s] \in Nat
    BY <2>2 DEF ReadersInv
  <2>6. ASSUME NEW i \in DOMAIN bus, cursor[s] <= i, i < cursor'[s], bus[i].type = "mission.completed"
        PROVE  bus[i].mission \in missed'
    <3>1. i \in cursor[s]..cursor'[s] - 1
      BY <1>2, <2>5, <2>6
    <3> QED BY <2>3, <2>6, <3>1 DEF CompletedIn
  <2> QED BY <1>9, <2>1, <2>2, <2>4, <2>6
<1>11. CASE MissCompletion(s)
  <2>1. Miss(s) /\ UNCHANGED <<bus, events, task>> /\ missed' = missed \cup CompletedIn({cursor[s]})
    BY <1>11 DEF MissCompletion, Miss, hostVars, calRows
  <2>2. ReadersInv' /\ cursor'[s] = cursor[s] + 1
    BY <1>2, <2>1, ReadersMove DEF Miss
  <2>3. \A m : m \in missed \/ Attends(m) => m \in missed' \/ Attends(m)'
    BY <2>1 DEF Attends, Idle
  <2>4. ASSUME NEW i \in DOMAIN bus, cursor[s] <= i, i < cursor'[s], bus[i].type = "mission.completed"
        PROVE  bus[i].mission \in missed'
    <3>1. i = cursor[s]
      BY <1>2, <2>2, <2>4
    <3> QED BY <2>1, <2>4, <3>1 DEF CompletedIn
  <2> QED BY <1>9, <2>1, <2>2, <2>3, <2>4
<1> QED BY <1>1, <1>5, <1>7, <1>8, <1>10, <1>11 DEF DebriefClerk

\* The office moves events about, and leaves them their missions.
LEMMA OfficeStep ==
  ASSUME ReadersInv, DebriefInv, DebriefDesk \in Subscriptions, Office
  PROVE  DebriefInv' /\ UNCHANGED <<bus, cursor, task>>
<1>1. ASSUME UNCHANGED <<bus, cursor, task>>, missed \subseteq missed', EventsInv',
             \A m : Debriefs(m) # {} => Debriefs(m)' # {} \/ m \in missed'
      PROVE  DebriefInv' /\ UNCHANGED <<bus, cursor, task>>
  BY <1>1, ScheduledStays DEF DebriefInv
<1>2. ASSUME UNCHANGED <<bus, cursor, task, events, missed>>
      PROVE  DebriefInv' /\ UNCHANGED <<bus, cursor, task>>
  <2>1. EventsInv' /\ \A m : Debriefs(m)' = Debriefs(m)
    BY <1>2 DEF DebriefInv, EventsInv, Debriefs, Listed
  <2> QED BY <1>1, <1>2, <2>1
<1>3. ASSUME NEW x \in Schedules, CreateEvent(x) PROVE DebriefInv' /\ UNCHANGED <<bus, cursor, task>>
  <2>1. UNCHANGED <<bus, cursor, task, missed>> /\ events' = Append(events, Event(x.rule, x.start, OfNone))
    BY <1>3 DEF CreateEvent, Silent, readerVars
  <2>2. EventsInv' /\ \A m : Debriefs(m) # {} => Debriefs(m)' # {}
    BY <2>1, EventAdded DEF DebriefInv
  <2> QED BY <1>1, <2>1, <2>2
<1>4. ASSUME NEW h \in Hands, NEW step, NEW row, Rewrites(h, step, row),
             \A x : x = hand[h].event /\ x \in DOMAIN events /\ Listed(x) =>
                      "mission" \in DOMAIN row /\ row # Gone /\ row.mission = events[x].mission
      PROVE  DebriefInv' /\ UNCHANGED <<bus, cursor, task>>
  <2>1. PICK x : x = hand[h].event
    OBVIOUS
  <2>2. UNCHANGED <<bus, cursor, task, missed>>
    BY <1>4 DEF Rewrites, Silent, readerVars
  <2>3. CASE Listed(x)
    <3>1. events' = [events EXCEPT ![x] = row]
      BY <1>4, <2>1, <2>3 DEF Rewrites
    <3>0. Succeeds(row, x)
      BY <1>4, <2>1, <2>3 DEF Succeeds
    <3>2. EventsInv' /\ \A m : Debriefs(m) # {} => Debriefs(m)' # {}
                                   \/ (row = Gone /\ Listed(x) /\ m = events[x].mission)
      <4>1. EventsInv
        BY DEF DebriefInv
      <4> QED BY <3>0, <3>1, <4>1, EventWritten
    <3>3. ASSUME NEW m, Debriefs(m) # {} PROVE Debriefs(m)' # {}
      <4>1. CASE x \in DOMAIN events
        BY <1>4, <2>1, <2>3, <3>2, <3>3, <4>1
      <4>2. CASE x \notin DOMAIN events
        <5>1. events' = events
          BY <3>1, <4>2 DEF DebriefInv, EventsInv
        <5> QED BY <3>3, <5>1 DEF Debriefs, Listed
      <4> QED BY <4>1, <4>2
    <3> QED BY <1>1, <2>2, <3>2, <3>3
  <2>4. CASE ~Listed(x)
    BY <1>2, <1>4, <2>1, <2>2, <2>4 DEF Rewrites
  <2> QED BY <2>3, <2>4
<1>5. ASSUME NEW row, NEW x, x \in DOMAIN events, Listed(x),
             \/ \E v : row = [events[x] EXCEPT !.start = v]
             \/ row = [events[x] EXCEPT !.status = "cancelled"]
             \/ \E v : row = [events[x] EXCEPT !.exdates = v]
      PROVE  "mission" \in DOMAIN row /\ row # Gone /\ row.mission = events[x].mission
  <2>1. PICK r : r = events[x]
    OBVIOUS
  <2>2. "mission" \in DOMAIN r /\ "mission" \notin DOMAIN Gone
    BY <1>5, <2>1 DEF DebriefInv, EventsInv, Gone
  <2>3. DOMAIN row = DOMAIN r /\ row.mission = r.mission
    BY <1>5, <2>1, <2>2
  <2> QED BY <2>1, <2>2, <2>3
<1>6. ASSUME NEW h \in Hands, Organiser(h) PROVE DebriefInv' /\ UNCHANGED <<bus, cursor, task>>
  <2>1. PICK x : x = hand[h].event
    OBVIOUS
  <2>2. CASE EditEvent(h)
    <3>1. PICK row, v : v = hand[h].start /\ row = [events[x] EXCEPT !.start = v]
      OBVIOUS
    <3>2. Rewrites(h, "edit", row)
      BY <2>1, <2>2, <3>1 DEF EditEvent
    <3> QED BY <1>4, <1>5, <2>1, <3>1, <3>2
  <2>3. CASE CancelEvent(h)
    <3>1. PICK row : row = [events[x] EXCEPT !.status = "cancelled"]
      OBVIOUS
    <3>2. Rewrites(h, "cancel", row)
      BY <2>1, <2>3, <3>1 DEF CancelEvent
    <3> QED BY <1>4, <1>5, <2>1, <3>1, <3>2
  <2>4. CASE CancelOccurrence(h)
    <3>1. PICK row, v : v = hand[h].exdates /\ row = [events[x] EXCEPT !.exdates = v]
      OBVIOUS
    <3>2. Rewrites(h, "exclude", row)
      BY <2>1, <2>4, <3>1 DEF CancelOccurrence
    <3> QED BY <1>4, <1>5, <2>1, <3>1, <3>2
  <2>5. CASE DeleteEvent(h)
    <3>1. /\ UNCHANGED <<bus, cursor, task>> /\ events' = [events EXCEPT ![x] = Gone]
          /\ missed' = IF Listed(x) THEN missed \cup {events[x].mission} ELSE missed
      BY <2>1, <2>5 DEF DeleteEvent, Silent, readerVars
    <3>2. EventsInv' /\ \A m : Debriefs(m) # {} => Debriefs(m)' # {}
                                   \/ (Listed(x) /\ m = events[x].mission)
      BY <3>1, EventWritten DEF DebriefInv, Succeeds
    <3>3. missed \subseteq missed' /\ \A m : Debriefs(m) # {} => Debriefs(m)' # {} \/ m \in missed'
      BY <3>1, <3>2
    <3> QED BY <1>1, <3>1, <3>2, <3>3
  <2>6. CASE ~(EditEvent(h) \/ CancelEvent(h) \/ CancelOccurrence(h) \/ DeleteEvent(h))
    <3>1. UNCHANGED <<bus, cursor, task, events, missed>>
      BY <1>6, <2>6 DEF Organiser, BeginEvent, RecordRsvp, Silent, calRows, readerVars
    <3> QED BY <1>2, <3>1
  <2> QED BY <2>2, <2>3, <2>4, <2>5, <2>6
<1> QED BY <1>3, <1>6 DEF Office
-----------------------------------------------------------------------------
(* All of it.                                                              *)

MemoryInv == FloorInv /\ MissionInv /\ ReadersInv /\ RecordsInv /\ DebriefInv

\* The floor does not mind who moves elsewhere.
LEMMA FloorAside ==
  ASSUME FloorInv, NEW h \in Hands, NEW steps, MovesTo(h, steps), hand[h].at \in steps,
         steps \cap FloorDesk = {}, UNCHANGED <<floor, amends, votes, accords, carried, unretired>>
  PROVE  FloorInv'
<1>1. PICK k : hand' = [hand EXCEPT ![h] = k] /\ k.at \in steps
  BY DEF MovesTo
<1>2. k.at \notin FloorDesk /\ hand[h].at \notin FloorDesk
  BY <1>1
<1>3. FloorKnows(k)
  BY <1>2 DEF FloorKnows, FloorDesk, OnMotions
<1> QED BY <1>1, <1>2, <1>3, HandMoves DEF FloorDesk

\* Nor do missions.
LEMMA MissionsAside ==
  ASSUME MissionInv, NEW h \in Hands, NEW steps, MovesTo(h, steps), steps \cap Steps = {},
         UNCHANGED <<missions, appeals, matches>>
  PROVE  MissionInv'
<1>1. PICK k : hand' = [hand EXCEPT ![h] = k] /\ k.at \in steps
  BY DEF MovesTo
<1>2. k.at \notin Steps
  BY <1>1
<1>3. Briefed(k)
  BY <1>2 DEF Briefed, OfMissions, AfterReview, Steps
<1> QED BY <1>1, <1>3, LodgeHandMoves

\* The steps of one desk are no other's.
LEMMA DesksApart ==
  /\ GovSteps \cap Steps = {} /\ RecordSteps \cap Steps = {} /\ DateSteps \cap Steps = {}
  /\ LodgeSteps \cap FloorDesk = {} /\ RecordSteps \cap FloorDesk = {} /\ DateSteps \cap FloorDesk = {}
<1>1. /\ GovSteps \cap Steps = {} /\ RecordSteps \cap Steps = {} /\ DateSteps \cap Steps = {}
  BY DEF GovSteps, FloorDesk, OnMotions, Steps, RecordSteps, DateSteps
<1>2. LodgeSteps \cap FloorDesk = {}
  BY DEF LodgeSteps, Steps, FloorDesk, OnMotions
<1>3. RecordSteps \cap FloorDesk = {} /\ DateSteps \cap FloorDesk = {}
  BY DEF RecordSteps, DateSteps, FloorDesk, OnMotions
<1> QED BY <1>1, <1>2, <1>3

\* Those who only hear of it keep what they have, and what is said is so.
LEMMA HearersStay ==
  ASSUME ReadersInv, RecordsInv, DebriefInv, FloorRemains, MissionsRemain,
         UNCHANGED <<cursor, task, records, events, missed>>,
         bus' = bus \/ \E e : Tells(e) /\ bus' = Append(bus, e)
  PROVE  ReadersInv' /\ RecordsInv' /\ DebriefInv'
<1>1. ReadersInv' /\ RecordsInv'
  BY ListenersStay, RecordsStay
<1>2. EventsInv' /\ \A m : Debriefs(m)' = Debriefs(m)
  BY DEF DebriefInv, EventsInv, Debriefs, Listed
<1>3. DebriefDesk \in Subscriptions
  BY MemoryAssumption
<1>4. missed \subseteq missed' /\ \A m : Debriefs(m) # {} => Debriefs(m)' # {} \/ m \in missed'
  BY <1>2
<1>5. Scheduled'
  BY <1>3, <1>4, ScheduledStays DEF DebriefInv
<1> QED BY <1>1, <1>2, <1>5 DEF DebriefInv

\* The chamber deliberates.
LEMMA DeliberateStep == MemoryInv /\ Deliberate => MemoryInv'
<1> SUFFICES ASSUME MemoryInv, Deliberate PROVE MemoryInv'
  OBVIOUS
<1>0. /\ GovNext /\ FloorInv /\ MissionInv
      /\ UNCHANGED <<missions, appeals, matches, cursor, task, records, events, missed>>
  BY DEF MemoryInv, Deliberate, missionRows, plansVars, archRows, calRows, readerVars
<1>1. FloorInv'
  BY <1>0, GovStep
<1>2. MissionsRemain
  BY <1>0 DEF MissionsRemain, Proposed
<1>3. MissionInv' /\ FloorRemains /\ (bus' = bus \/ \E e : Tells(e) /\ bus' = Append(bus, e))
  <2>1. CASE \E h \in Hands : Chamber(h)
    <3>1. PICK h \in Hands : Chamber(h)
      BY <2>1
    <3>2. PICK steps : steps = GovSteps
      OBVIOUS
    <3>3. MovesTo(h, steps) /\ steps \cap Steps = {}
      BY <3>1, <3>2, ChamberHands, DesksApart
    <3>4. MissionInv'
      BY <1>0, <3>3, MissionsAside
    <3> QED BY <1>0, <3>1, <3>4, ChamberRemains, ChamberNews
  <2>2. CASE UNCHANGED <<hand, bus, floor, carried, accords>>
    <3>1. MissionInv'
      BY <1>0, <2>2, MissionsRest
    <3> QED BY <2>2, <3>1 DEF FloorRemains, HasMotion
  <2>3. CASE ~\E h \in Hands : Chamber(h)
    <3>1. UNCHANGED <<hand, bus, floor, carried, accords>>
      BY <1>0, <2>3 DEF GovNext, EditMeeting, MarkAttendance, RejectAmendment, AskOnce, Silent
    <3> QED BY <2>2, <3>1
  <2> QED BY <2>1, <2>3
<1>4. ReadersInv' /\ RecordsInv' /\ DebriefInv'
  BY <1>0, <1>2, <1>3, HearersStay DEF MemoryInv
<1> QED BY <1>1, <1>3, <1>4 DEF MemoryInv

\* Missions are undertaken.
LEMMA UndertakeStep == MemoryInv /\ Undertake => MemoryInv'
<1> SUFFICES ASSUME MemoryInv, Undertake PROVE MemoryInv'
  OBVIOUS
<1>0. /\ MissionNext /\ FloorInv /\ MissionInv
      /\ UNCHANGED <<floor, amends, votes, accords, carried, unretired>>
      /\ UNCHANGED <<cursor, task, records, events, missed>>
  BY DEF MemoryInv, Undertake, govRows, archRows, calRows, readerVars
<1>1. MissionInv' /\ MissionsRemain
  BY <1>0, MissionStep, LodgeRemains
<1>2. FloorRemains
  BY <1>0 DEF FloorRemains, HasMotion
<1>3. FloorInv' /\ (bus' = bus \/ \E e : Tells(e) /\ bus' = Append(bus, e))
  <2>1. CASE \E h \in Hands : Lodge(h) \/ Planner(h)
    <3>1. PICK h \in Hands : Lodge(h) \/ Planner(h)
      BY <2>1
    <3>2. PICK steps : steps = LodgeSteps
      OBVIOUS
    <3>3. MovesTo(h, steps) /\ hand[h].at \in steps /\ steps \cap FloorDesk = {}
      BY <3>1, <3>2, LodgeHands, DesksApart
    <3>4. FloorInv'
      BY <1>0, <3>3, FloorAside
    <3> QED BY <1>0, <3>1, <3>4, LodgeNews
  <2>2. CASE ~\E h \in Hands : Lodge(h) \/ Planner(h)
    <3>1. UNCHANGED <<hand, bus>>
      BY <1>0, <2>2 DEF MissionNext, ProposeMission, DeleteMilestone, AskOnce, Silent
    <3> QED BY <1>0, <3>1, FloorRests
  <2> QED BY <2>1, <2>2
<1>4. ReadersInv' /\ RecordsInv' /\ DebriefInv'
  BY <1>0, <1>1, <1>2, <1>3, HearersStay DEF MemoryInv
<1> QED BY <1>1, <1>3, <1>4 DEF MemoryInv

\* Whoever keeps the records or the calendar leaves the floor and the lodge alone.
LEMMA AsideBoth ==
  ASSUME FloorInv, MissionInv,
         UNCHANGED <<floor, amends, votes, accords, carried, unretired>>,
         UNCHANGED <<missions, appeals, matches>>,
         \/ UNCHANGED hand
         \/ \E h \in Hands, steps \in {RecordSteps, DateSteps} : MovesTo(h, steps) /\ hand[h].at \in steps
  PROVE  FloorInv' /\ MissionInv' /\ TablesRest
<1>1. CASE UNCHANGED hand
  BY <1>1, FloorRests, MissionsRest DEF TablesRest
<1>2. CASE \E h \in Hands, steps \in {RecordSteps, DateSteps} : MovesTo(h, steps) /\ hand[h].at \in steps
  <2>1. PICK h \in Hands, steps \in {RecordSteps, DateSteps} : MovesTo(h, steps) /\ hand[h].at \in steps
    BY <1>2
  <2>2. steps \cap FloorDesk = {} /\ steps \cap Steps = {}
    BY <2>1, DesksApart
  <2> QED BY <2>1, <2>2, FloorAside, MissionsAside DEF TablesRest
<1> QED BY <1>1, <1>2

\* Records are kept.
LEMMA RecordsStep == MemoryInv /\ KeepRecords => MemoryInv'
<1> SUFFICES ASSUME MemoryInv, KeepRecords PROVE MemoryInv'
  OBVIOUS
<1>0. /\ FloorInv /\ MissionInv /\ ReadersInv /\ RecordsInv /\ DebriefInv
      /\ UNCHANGED <<floor, amends, votes, accords, carried, unretired>>
      /\ UNCHANGED <<missions, appeals, matches>> /\ UNCHANGED <<events, missed>>
  BY DEF MemoryInv, KeepRecords, govRows, missionRows, plansVars, calRows
<1>1. /\ EventsInv' /\ \A m : Debriefs(m)' = Debriefs(m)
      /\ DebriefDesk \in Subscriptions /\ Clerks \subseteq Subscriptions /\ DebriefDesk \notin Clerks
  BY <1>0, MemoryAssumption DEF DebriefInv, EventsInv, Debriefs, Listed, Clerks, DebriefDesk
<1>2. CASE Shelves
  <2>1. UNCHANGED <<bus, cursor, task>>
    BY <1>2 DEF Shelves, FileRecord, Librarian, BeginCorrection, Correct, CreateLink, DeleteLink,
       Silent, readerVars
  <2>2. \/ UNCHANGED hand
        \/ \E h \in Hands, steps \in {RecordSteps, DateSteps} : MovesTo(h, steps) /\ hand[h].at \in steps
    <3>1. ASSUME NEW h \in Hands, Librarian(h)
          PROVE  \E g \in Hands, steps \in {RecordSteps, DateSteps} : MovesTo(g, steps) /\ hand[g].at \in steps
      BY <3>1, LibrarianHands
    <3> QED BY <1>2, <3>1 DEF Shelves, FileRecord, CreateLink, DeleteLink, AskOnce
  <2>3. FloorInv' /\ MissionInv' /\ TablesRest
    BY <1>0, <2>2, AsideBoth
  <2>4. ReadersInv' /\ RecordsInv'
    BY <1>0, <1>2, <2>1, <2>3, ShelvesStep, ListenersStay, RestingRemains
  <2>5. missed \subseteq missed' /\ \A m : Debriefs(m) # {} => Debriefs(m)' # {} \/ m \in missed'
    BY <1>0, <1>1
  <2>6. Scheduled'
    BY <1>0, <1>1, <2>1, <2>5, ScheduledStays DEF DebriefInv
  <2> QED BY <1>1, <2>3, <2>4, <2>6 DEF MemoryInv, DebriefInv
<1>3. ASSUME NEW s \in Clerks, Clerk(s) PROVE MemoryInv'
  <2>1. UNCHANGED hand /\ UNCHANGED bus
    <3>1. UNCHANGED hostVars
      BY <1>3 DEF Clerk, Ingest, FileEvent, FileImpact, Tie, IngestEnds, LoseIngest
    <3> QED BY <3>1 DEF hostVars
  <2>2. FloorInv' /\ MissionInv' /\ TablesRest
    BY <1>0, <2>1, AsideBoth
  <2>3. ReadersInv' /\ RecordsInv'
    BY <1>0, <1>1, <1>3, <2>2, ClerkStep
  <2>4. cursor'[DebriefDesk] = cursor[DebriefDesk] /\ task'[DebriefDesk] = task[DebriefDesk]
    <3>1. /\ cursor' = [cursor EXCEPT ![s] = cursor'[s]] /\ task' = [task EXCEPT ![s] = task'[s]]
      <4>0. DOMAIN cursor = Subscriptions /\ DOMAIN task = Subscriptions /\ s \in Subscriptions
            /\ cursor = [cursor EXCEPT ![s] = cursor[s]] /\ task = [task EXCEPT ![s] = task[s]]
        BY <1>0, <1>1, <1>3 DEF ReadersInv
      <4>1. \E t : task' = [task EXCEPT ![s] = t]
        <5>1. (\E wanted, step : Receive(s, wanted, step)) \/ (\E step : Onward(s, step)) \/ Handled(s)
              \/ Miss(s) \/ Rebound(s)
          BY <1>3 DEF Clerk, Ingest, FileEvent, FileImpact, Tie, IngestEnds, LoseIngest
        <5> QED BY <4>0, <5>1 DEF Receive, Onward, Handled, Miss, Rebound
      <4>2. \E c : cursor' = [cursor EXCEPT ![s] = c]
        <5>1. (\E wanted, step : Receive(s, wanted, step)) \/ (\E step : Onward(s, step)) \/ Handled(s)
              \/ Miss(s) \/ Rebound(s)
          BY <1>3 DEF Clerk, Ingest, FileEvent, FileImpact, Tie, IngestEnds, LoseIngest
        <5> QED BY <4>0, <5>1 DEF Receive, Onward, Handled, Miss, Rebound
      <4> QED BY <4>0, <4>1, <4>2
    <3> QED BY <1>0, <1>1, <1>3, <3>1 DEF ReadersInv
  <2>5. \A m : Settled(m) => Settled(m)'
    BY <1>0, <1>1, <2>4 DEF Settled, Attends, Idle
  <2>6. cursor[DebriefDesk] \in Nat /\ \A i \in DOMAIN bus : i \in Nat
    BY <1>0, <1>1 DEF ReadersInv
  <2>7. Scheduled'
    BY <1>0, <1>1, <2>1, <2>4, <2>5, <2>6, DeskMoves DEF DebriefInv
  <2> QED BY <1>1, <2>2, <2>3, <2>7 DEF MemoryInv, DebriefInv
<1> QED BY <1>2, <1>3 DEF KeepRecords

\* The calendar is kept.
LEMMA CalendarStep == MemoryInv /\ KeepCalendar => MemoryInv'
<1> SUFFICES ASSUME MemoryInv, KeepCalendar PROVE MemoryInv'
  OBVIOUS
<1>0. /\ FloorInv /\ MissionInv /\ ReadersInv /\ RecordsInv /\ DebriefInv
      /\ UNCHANGED <<floor, amends, votes, accords, carried, unretired>>
      /\ UNCHANGED <<missions, appeals, matches>> /\ UNCHANGED records
  BY DEF MemoryInv, KeepCalendar, govRows, missionRows, plansVars, archRows
<1>1. DebriefDesk \in Subscriptions
  BY MemoryAssumption
<1>2. CASE Office
  <2>1. DebriefInv' /\ UNCHANGED <<bus, cursor, task>>
    BY <1>0, <1>1, <1>2, OfficeStep
  <2>2. \/ UNCHANGED hand
        \/ \E h \in Hands, steps \in {RecordSteps, DateSteps} : MovesTo(h, steps) /\ hand[h].at \in steps
    <3>1. ASSUME NEW h \in Hands, Organiser(h)
          PROVE  \E g \in Hands, steps \in {RecordSteps, DateSteps} : MovesTo(g, steps) /\ hand[g].at \in steps
      BY <3>1, OrganiserHands
    <3> QED BY <1>2, <3>1 DEF Office, CreateEvent, AskOnce
  <2>3. FloorInv' /\ MissionInv' /\ TablesRest
    BY <1>0, <2>2, AsideBoth
  <2>4. ReadersInv' /\ RecordsInv'
    BY <1>0, <2>1, <2>3, RecordsStay, ListenersStay, RestingRemains
  <2> QED BY <2>1, <2>3, <2>4 DEF MemoryInv
<1>3. CASE DebriefClerk(DebriefDesk)
  <2>1. UNCHANGED hand
    <3>1. UNCHANGED hostVars
      BY <1>3 DEF DebriefClerk, HearCompletion, DebriefExists, InsertDebrief, DebriefEnds, MissCompletion
    <3> QED BY <3>1 DEF hostVars
  <2>2. FloorInv' /\ MissionInv' /\ TablesRest
    BY <1>0, <2>1, AsideBoth
  <2>3. ReadersInv' /\ DebriefInv' /\ RecordsInv'
    BY <1>0, <1>1, <1>3, <2>2, DeskStep, RecordsStay, RestingRemains
  <2> QED BY <2>2, <2>3 DEF MemoryInv
<1> QED BY <1>2, <1>3 DEF KeepCalendar

\* It starts with nothing said.
LEMMA MemoryStarts == MemoryInit => MemoryInv
<1> SUFFICES ASSUME MemoryInit PROVE MemoryInv
  OBVIOUS
<1>1. FloorInv /\ MissionInv
  BY FloorStarts, MissionsStart DEF MemoryInit
<1>2. bus = <<>> /\ records = <<>> /\ events = <<>>
  BY DEF MemoryInit, MissionInit, HostInit, ArchInit, CalInit
<1>3. ReadersInv
  <2>1. /\ cursor = [s \in Subscriptions |-> 1] /\ task = [s \in Subscriptions |-> Idle]
    BY DEF MemoryInit, ArchInit, ReadersInit
  <2>2. Len(bus) = 0 /\ DOMAIN bus = {} /\ \E S : bus \in Seq(S)
    <3>1. PICK S : S = {0}
      OBVIOUS
    <3>2. bus \in Seq(S)
      BY <1>2
    <3> QED BY <1>2, <3>2
  <2> QED BY <2>1, <2>2 DEF ReadersInv, Minds
<1>4. RecordsInv /\ DebriefInv
  <2>1. PICK S : S = {0}
    OBVIOUS
  <2>2. records \in Seq(S) /\ events \in Seq(S)
    BY <1>2
  <2>3. DOMAIN records = {} /\ DOMAIN events = {} /\ DOMAIN bus = {}
    BY <1>2
  <2> QED BY <2>2, <2>3 DEF RecordsInv, DebriefInv, EventsInv, Scheduled
<1> QED BY <1>1, <1>3, <1>4 DEF MemoryInv

\* What the floor, the missions, the bus, the records and the calendar say of
\* one another holds however the four plugins' handlers and tasks interleave.
THEOREM MemoryInvariant == MemorySpec => []MemoryInv
<1>1. MemoryInv /\ [MemoryNext]_memoryVars => MemoryInv'
  <2>1. MemoryInv /\ UNCHANGED memoryVars => MemoryInv'
    <3> SUFFICES ASSUME MemoryInv, UNCHANGED memoryVars PROVE MemoryInv'
      OBVIOUS
    <3>1. /\ UNCHANGED <<floor, amends, votes, accords, carried, unretired, hand, bus>>
          /\ UNCHANGED <<missions, appeals, matches>>
          /\ UNCHANGED <<cursor, task, records, events, missed>>
      BY DEF memoryVars, memoryRows, govRows, missionRows, plansVars, archRows, calRows, readerVars, hostVars
    <3>2. FloorInv' /\ MissionInv' /\ TablesRest
      BY <3>1, AsideBoth DEF MemoryInv
    <3>3. ReadersInv' /\ RecordsInv' /\ DebriefInv'
      BY <3>1, <3>2, RestingRemains, HearersStay DEF MemoryInv
    <3> QED BY <3>2, <3>3 DEF MemoryInv
  <2> QED BY <2>1, DeliberateStep, UndertakeStep, RecordsStep, CalendarStep DEF MemoryNext
<1> QED BY <1>1, MemoryStarts, PTL DEF MemorySpec

\* MissionsAreDocumented: no mission is at a stage whose paperwork is missing,
\* what the troop was told of a completed one has its summary, and a mentor a
\* review named is on record.
THEOREM MissionsStayDocumented == MemorySpec => []MissionsAreDocumented
<1>1. MemoryInv => MissionsAreDocumented
  <2> SUFFICES ASSUME MemoryInv PROVE MissionsAreDocumented
    OBVIOUS
  <2>1. ASSUME NEW m \in Missions
        PROVE  /\ missions[m].stage \in {"approval", "execution", "debrief", "report"} => missions[m].criteria
               /\ missions[m].stage \in {"execution", "debrief", "report"} => missions[m].approver # "nobody"
               /\ missions[m].stage \in {"debrief", "report"} => missions[m].debriefed
               /\ missions[m].stage = "report" => missions[m].summary
    <3>1. CASE Proposed(m)
      BY <3>1 DEF MemoryInv, MissionInv, MissionStands, Papered
    <3>2. CASE ~Proposed(m)
      BY <3>2 DEF Proposed, NoMission
    <3> QED BY <3>1, <3>2
  <2>2. ASSUME NEW k \in DOMAIN bus, bus[k].type = "mission.completed" PROVE bus[k].summary
    <3>1. bus[k].summary = TRUE
      BY <2>2 DEF MemoryInv, ReadersInv, Tells
    <3> QED BY <3>1
  <2>3. PaperworkPrecedesStage
    BY <2>1, <2>2 DEF PaperworkPrecedesStage
  <2>4. NamedMentorsAreMatched
    BY DEF NamedMentorsAreMatched, MemoryInv, MissionInv, MissionStands, Matched
  <2> QED BY <2>3, <2>4 DEF MissionsAreDocumented
<1> QED BY <1>1, MemoryInvariant, PTL

\* ArchiveTellsTheTruth: an ingested record never says more than the floor or
\* the mission did.
THEOREM ArchiveStaysTrue == MemorySpec => []ArchiveTellsTheTruth
<1>1. MemoryInv => ArchiveTellsTheTruth
  <2> SUFFICES ASSUME MemoryInv, NEW i \in DOMAIN records, Ingested(i)
               PROVE  /\ records[i].ref[1] = "outcome" =>
                           /\ floor[records[i].ref[2]].stage # "none"
                           /\ floor[records[i].ref[2]].result # "pending"
                           /\ records[i].outcome = "passed" => records[i].ref[2] \in carried
                      /\ records[i].ref[1] = "accords" => records[i].ref[2] \in DOMAIN accords
                      /\ records[i].ref[1] = "report" =>
                           Proposed(records[i].ref[2]) /\ missions[records[i].ref[2]].summary
    BY DEF ArchiveTellsTheTruth
  <2>1. PICK r, of : r = records[i] /\ of = r.ref[2]
    OBVIOUS
  <2>2. Honest(r) /\ r.kind = "ingested"
    BY <2>1 DEF MemoryInv, RecordsInv, Ingested
  <2>3. ASSUME NEW m \in Motions, HasMotion(m) PROVE floor[m].stage # "none"
    <3>1. floor[m] \in MotionRows
      BY <2>3 DEF MemoryInv, FloorInv, FloorTyped, HasMotion
    <3> QED BY <3>1 DEF MotionRows, Stages, Alive, Open
  <2>4. r.ref[1] = "outcome" => /\ floor[of].stage # "none" /\ floor[of].result # "pending"
                                /\ r.outcome = "passed" => of \in carried
    BY <2>1, <2>2, <2>3 DEF Honest
  <2>5. r.ref[1] = "accords" => of \in DOMAIN accords
    BY <2>1, <2>2 DEF Honest
  <2>6. r.ref[1] = "report" => Proposed(of) /\ missions[of].summary
    BY <2>1, <2>2 DEF Honest
  <2> QED BY <2>1, <2>4, <2>5, <2>6
<1> QED BY <1>1, MemoryInvariant, PTL

\* ClosedMissionsAreDebriefed: one debrief for each completion the desk was
\* through with, but for those that were missed or deleted.
THEOREM DebriefsAreScheduled == MemorySpec => []ClosedMissionsAreDebriefed
<1>1. MemoryInv => ClosedMissionsAreDebriefed
  <2> SUFFICES ASSUME MemoryInv, NEW m \in CompletedIn(1..cursor[DebriefDesk] - 1) \ missed,
                      task[DebriefDesk] = Idle \/ task[DebriefDesk].event.mission # m
               PROVE  Cardinality(Debriefs(m)) = 1
    BY DEF ClosedMissionsAreDebriefed
  <2>0. DebriefDesk \in Subscriptions /\ OfNone \notin Missions
    BY MemoryAssumption
  <2>1. PICK k \in 1..cursor[DebriefDesk] - 1 : bus[k].type = "mission.completed" /\ m = bus[k].mission
    BY DEF CompletedIn
  <2>2. k \in DOMAIN bus /\ k < cursor[DebriefDesk]
    <3>1. cursor[DebriefDesk] \in Nat /\ cursor[DebriefDesk] <= Len(bus) + 1 /\ DOMAIN bus = 1..Len(bus)
          /\ Len(bus) \in Nat
      BY <2>0 DEF MemoryInv, ReadersInv
    <3> QED BY <2>1, <3>1
  <2>3. Settled(m) /\ m \in Missions
    <3>1. Settled(m)
      BY <2>1, <2>2 DEF MemoryInv, DebriefInv, Scheduled
    <3>2. Tells(bus[k])
      BY <2>2 DEF MemoryInv, ReadersInv
    <3> QED BY <2>1, <3>1, <3>2 DEF Tells
  <2>4. Debriefs(m) # {}
    BY <2>3 DEF Settled, Attends
  <2>5. PICK e : e \in Debriefs(m)
    BY <2>4
  <2>6. ASSUME NEW f \in Debriefs(m) PROVE f = e
    BY <2>0, <2>3, <2>5, <2>6 DEF Debriefs, MemoryInv, DebriefInv, EventsInv
  <2>7. Debriefs(m) = {e}
    BY <2>5, <2>6
  <2> QED BY <2>7, FS_Singleton
<1> QED BY <1>1, MemoryInvariant, PTL
-----------------------------------------------------------------------------
(* Who answered what: one answer for each slot, in whatever order handlers  *)
(* write them.                                                              *)

OneAnswerEach == \A r, t \in rsvps : Slot(r) = Slot(t) => r = t

\* Only an answer or a deletion changes them.
LEMMA AnswersStep == OneAnswerEach /\ [MemoryNext]_memoryVars => OneAnswerEach'
<1> SUFFICES ASSUME OneAnswerEach, [MemoryNext]_memoryVars PROVE OneAnswerEach'
  OBVIOUS
<1>1. ASSUME rsvps' \subseteq rsvps PROVE OneAnswerEach'
  BY <1>1 DEF OneAnswerEach, Slot
<1>2. ASSUME NEW h \in Hands, RecordRsvp(h) PROVE OneAnswerEach'
  <2>1. PICK row : row = hand[h].row
    OBVIOUS
  <2>2. rsvps' = {r \in rsvps : Slot(r) # Slot(row)} \cup {row}
    BY <1>2, <2>1 DEF RecordRsvp
  <2>3. ASSUME NEW r \in rsvps', NEW t \in rsvps', Slot(r) = Slot(t) PROVE r = t
    BY <2>2, <2>3 DEF OneAnswerEach
  <2> QED BY <2>3 DEF OneAnswerEach, Slot
<1>3. ASSUME NEW h \in Hands, Organiser(h) PROVE OneAnswerEach'
  <2>1. CASE RecordRsvp(h)
    BY <1>2, <2>1
  <2>2. CASE DeleteEvent(h)
    BY <1>1, <2>2 DEF DeleteEvent
  <2>3. CASE ~RecordRsvp(h) /\ ~DeleteEvent(h)
    <3>1. UNCHANGED rsvps
      BY <1>3, <2>3 DEF Organiser, BeginEvent, EditEvent, CancelEvent, CancelOccurrence, Rewrites, calRows
    <3> QED BY <1>1, <3>1
  <2> QED BY <2>1, <2>2, <2>3
<1>4. CASE KeepCalendar
  <2>1. ASSUME NEW x \in Schedules, CreateEvent(x) PROVE OneAnswerEach'
    BY <1>1, <2>1 DEF CreateEvent
  <2>2. CASE DebriefClerk(DebriefDesk)
    <3>1. UNCHANGED rsvps
      BY <2>2 DEF DebriefClerk, HearCompletion, DebriefExists, InsertDebrief, DebriefEnds, MissCompletion,
         calRows
    <3> QED BY <1>1, <3>1
  <2> QED BY <1>3, <1>4, <2>1, <2>2 DEF KeepCalendar, Office
<1>5. CASE Deliberate \/ Undertake \/ KeepRecords \/ UNCHANGED memoryVars
  BY <1>1, <1>5 DEF Deliberate, Undertake, KeepRecords, memoryVars, memoryRows, calRows
<1> QED BY <1>4, <1>5 DEF MemoryNext

\* ProjectionCountsPeople: for every date of an event, a member is counted once,
\* by the answer for that date where there is one.
THEOREM PeopleAreCountedOnce == MemorySpec => []ProjectionCountsPeople
<1>1. MemoryInit => OneAnswerEach
  BY DEF MemoryInit, CalInit, OneAnswerEach
<1>2. OneAnswerEach => ProjectionCountsPeople
  <2> SUFFICES ASSUME OneAnswerEach PROVE ProjectionCountsPeople
    OBVIOUS
  <2>0. ASSUME NEW e \in DOMAIN events, Listed(e) /\ events[e].rule # Once,
               NEW at \in Probed(events[e]), NEW p \in People
        PROVE  Cardinality({r \in Answers(e, at) : r.member = p}) <= 1
    <3>1. PICK A : A = {r \in Answers(e, at) : r.member = p}
      OBVIOUS
    <3>2. ASSUME NEW r \in A, NEW t \in A PROVE r = t
      <4>1. /\ r \in rsvps /\ t \in rsvps /\ r.event = e /\ t.event = e /\ r.member = p /\ t.member = p
            /\ r.at = t.at
        BY <3>1 DEF Answers
      <4>2. Slot(r) = Slot(t)
        BY <4>1 DEF Slot
      <4> QED BY <4>1, <4>2 DEF OneAnswerEach
    <3>3. Cardinality(A) <= 1
      <4>1. CASE A = {}
        BY <4>1, FS_EmptySet
      <4>2. CASE A # {}
        <5>1. PICK r : r \in A
          BY <4>2
        <5>2. A = {r}
          BY <3>2, <5>1
        <5>3. Cardinality(A) = 1
          BY <5>2, FS_Singleton
        <5> QED BY <5>3
      <4> QED BY <4>1, <4>2
    <3> QED BY <3>1, <3>3, Zenon
  <2> QED BY <2>0, Zenon DEF ProjectionCountsPeople
<1> QED BY <1>1, <1>2, AnswersStep, PTL DEF MemorySpec
-----------------------------------------------------------------------------
(* The chain: what was ingested is tied to its parent, or its edge was lost *)
(* on the way.                                                             *)

\* A clerk at work on the edge to a record.
Busy(k, ref) == k.at \in {"tie", "impact"} /\ Edge(k.event).to = ref

\* A reference names one record, and a version by its number; a report with an
\* impact has it filed, or its edge is still on the way, or was lost; and a clerk
\* that draws an edge has filed what it draws it to.
OneRecordEach ==
  \A i, j \in DOMAIN records : records[i].ref = records[j].ref /\ records[i].ref # NoRef => i = j
IsKey(ref) == ref = NoRef \/ (ref = <<ref[1], ref[2]>> /\ (ref[1] = "accords" => ref[2] \in Nat))
RefsAreKeys == \A i \in DOMAIN records : IsKey(records[i].ref)
HasImpact(r) == r.kind = "ingested" /\ r.ref[1] = "report" /\ r.outcome = "impact"
ImpactOf(r)  == <<"impact", r.ref[2]>>
ImpactsAreDue ==
  \A i \in DOMAIN records : \A ref :
    HasImpact(records[i]) /\ ref = ImpactOf(records[i]) => Held(ref) \/ ~Whole(ref)
TiesAreFiled ==
  \A s \in Subscriptions :
    /\ task[s].at = "tie" => task[s].event.type # "motion.proposed" /\ Held(Edge(task[s].event).to)
    /\ s = DebriefDesk => task[s].at \notin {"tie", "impact"}

ChainInv == OneRecordEach /\ RefsAreKeys /\ ImpactsAreDue /\ TiesAreFiled /\ ChainIsComplete

\* What one record owes to another, in the order i, j.
Debt(p, c, i, j) ==
  CASE p.ref[1] = "motion" /\ c.ref[1] = "outcome" /\ p.ref[2] = c.ref[2]
         /\ c.kind = "ingested" /\ i < j                        -> "outcome"
    [] p.ref[1] = "accords" /\ c.ref[1] = "accords" /\ p.ref[2] + 1 = c.ref[2]
         /\ c.kind = "ingested" /\ i < j                        -> "amends"
    [] p.ref[1] = "report" /\ c.ref[1] = "impact" /\ p.ref[2] = c.ref[2]
         /\ p.kind = "ingested" /\ p.outcome = "impact"         -> "produces"
    [] OTHER                                                    -> "nothing"

\* The three ways to owe an edge.
LEMMA DebtIs ==
  ASSUME NEW p, NEW c, NEW i, NEW j, IsKey(p.ref), IsKey(c.ref), NEW d, d = Debt(p, c, i, j)
  PROVE  \/ d = "nothing"
         \/ d = "outcome" /\ p.ref = <<"motion", c.ref[2]>> /\ c.ref = <<"outcome", c.ref[2]>>
              /\ c.kind = "ingested" /\ i < j
         \/ d = "amends" /\ p.ref = <<"accords", c.ref[2] - 1>> /\ c.ref = <<"accords", c.ref[2]>>
              /\ c.kind = "ingested" /\ i < j
         \/ d = "produces" /\ HasImpact(p) /\ p.ref = <<"report", c.ref[2]>> /\ c.ref = ImpactOf(p)
<1>1. ASSUME NEW r, IsKey(r.ref), r.ref[1] \in {"motion", "outcome", "accords", "report", "impact"}
      PROVE  r.ref = <<r.ref[1], r.ref[2]>> /\ (r.ref[1] = "accords" => r.ref[2] \in Nat)
  <2>1. CASE r.ref = NoRef
    <3>1. r.ref[1] = "none"
      BY <2>1 DEF NoRef
    <3> QED BY <1>1, <3>1
  <2> QED BY <1>1, <2>1 DEF IsKey
<1>2. PICK a, b, x, y : a = p.ref[1] /\ b = c.ref[1] /\ x = p.ref[2] /\ y = c.ref[2]
  OBVIOUS
<1>3. \/ d = "nothing"
      \/ d = "outcome" /\ a = "motion" /\ b = "outcome" /\ x = y /\ c.kind = "ingested" /\ i < j
      \/ d = "amends" /\ a = "accords" /\ b = "accords" /\ x + 1 = y /\ c.kind = "ingested" /\ i < j
      \/ d = "produces" /\ a = "report" /\ b = "impact" /\ x = y /\ p.kind = "ingested" /\ p.outcome = "impact"
  BY <1>2 DEF Debt
<1>4. CASE d = "outcome"
  <2>1. p.ref = <<a, x>> /\ c.ref = <<b, y>>
    BY <1>1, <1>2, <1>3, <1>4
  <2> QED BY <1>2, <1>3, <1>4, <2>1
<1>5. CASE d = "amends"
  <2>1. p.ref = <<a, x>> /\ c.ref = <<b, y>> /\ x \in Nat /\ y \in Nat
    BY <1>1, <1>2, <1>3, <1>5
  <2>2. x = y - 1
    BY <1>3, <1>5, <2>1
  <2> QED BY <1>2, <1>3, <1>5, <2>1, <2>2
<1>6. CASE d = "produces"
  <2>1. p.ref = <<a, x>> /\ c.ref = <<b, y>>
    BY <1>1, <1>2, <1>3, <1>6
  <2> QED BY <1>2, <1>3, <1>6, <2>1 DEF HasImpact, ImpactOf
<1> QED BY <1>2, <1>3, <1>4, <1>5, <1>6

\* The same, of the archive's rows.
Tied(p, c) ==
  Whole(records[c].ref) /\ Debt(records[p], records[c], p, c) # "nothing" =>
    [from |-> p, to |-> c, relation |-> Debt(records[p], records[c], p, c)] \in edges

\* The chain is complete when its records are tied two by two.
LEMMA ChainIsTied ==
  /\ ChainIsComplete <=> \A p, c \in DOMAIN records : Tied(p, c)
  /\ ChainIsComplete' <=> \A p, c \in DOMAIN records' : Tied(p, c)'
<1>1. \A p, c : Owes(p, c) = Debt(records[p], records[c], p, c)
  BY DEF Owes, Debt, Ingested
<1>2. \A p, c : Owes(p, c)' = Debt(records'[p], records'[c], p, c)
  BY DEF Owes, Debt, Ingested
<1>3. ChainIsComplete <=> \A p, c \in DOMAIN records : Tied(p, c)
  BY <1>1 DEF ChainIsComplete, Tied
<1>4. ChainIsComplete' <=> \A p, c \in DOMAIN records' : Tied(p, c)'
  BY <1>2 DEF ChainIsComplete, Tied
<1> QED BY <1>3, <1>4

\* An edge is on its way while some clerk is busy with it.
LEMMA WholeIs ==
  /\ \A ref : Whole(ref) <=> ref \notin broken /\ \A s \in Subscriptions : ~Busy(task[s], ref)
  /\ \A ref : Whole(ref)' <=> ref \notin broken' /\ \A s \in Subscriptions : ~Busy(task'[s], ref)
<1>1. \A ref : Whole(ref) <=> ref \notin broken /\ \A s \in Subscriptions : ~Busy(task[s], ref)
  BY DEF Whole, Busy
<1>2. \A ref : Whole(ref)' <=> ref \notin broken' /\ \A s \in Subscriptions : ~Busy(task'[s], ref)
  BY DEF Whole, Busy
<1> QED BY <1>1, <1>2

\* What is whole was whole.
NothingMended == \A ref : Whole(ref)' => Whole(ref)

\* A chain that no record joins, and whose whole records keep their edges, stays complete.
LEMMA ChainKept ==
  ASSUME OneRecordEach, RefsAreKeys, ImpactsAreDue, ChainIsComplete, UNCHANGED records, NothingMended,
         \A e \in edges : e.to \in DOMAIN records /\ Whole(records[e.to].ref)' => e \in edges'
  PROVE  OneRecordEach' /\ RefsAreKeys' /\ ImpactsAreDue' /\ ChainIsComplete'
<1>1. OneRecordEach' /\ RefsAreKeys'
  BY DEF OneRecordEach, RefsAreKeys
<1>2. ASSUME NEW i \in DOMAIN records', NEW ref, HasImpact(records'[i]), ref = ImpactOf(records'[i])
      PROVE  Held(ref)' \/ ~Whole(ref)'
  <2>1. Held(ref) \/ ~Whole(ref)
    BY <1>2 DEF ImpactsAreDue
  <2> QED BY <2>1 DEF NothingMended, Held
<1>3. ImpactsAreDue'
  BY <1>2 DEF ImpactsAreDue, HasImpact, ImpactOf
<1>4. ASSUME NEW p \in DOMAIN records', NEW c \in DOMAIN records' PROVE Tied(p, c)'
  <2>1. PICK d, ref : d = Debt(records[p], records[c], p, c) /\ ref = records[c].ref
    OBVIOUS
  <2>2. PICK e : e = [from |-> p, to |-> c, relation |-> d]
    OBVIOUS
  <2>3. Tied(p, c)
    BY <1>4, ChainIsTied
  <2>4. Whole(ref) /\ d # "nothing" => e \in edges
    BY <2>1, <2>2, <2>3 DEF Tied
  <2>5. Whole(ref)' /\ d # "nothing" => e \in edges'
    BY <1>4, <2>1, <2>2, <2>4 DEF NothingMended
  <2>6. d = Debt(records'[p], records'[c], p, c) /\ ref = records'[c].ref
    BY <2>1
  <2> QED BY <2>2, <2>5, <2>6 DEF Tied
<1>5. ChainIsComplete'
  BY <1>4, ChainIsTied
<1> QED BY <1>1, <1>3, <1>5

\* One more record, under a reference of its own, whose edges are on their way.
LEMMA ChainFiles ==
  ASSUME OneRecordEach, RefsAreKeys, ImpactsAreDue, ChainIsComplete, NothingMended, UNCHANGED edges,
         \E S : records \in Seq(S), NEW row, records' = Append(records, row), IsKey(row.ref),
         row.ref = NoRef \/ ~Held(row.ref),
         \A ref : ref = row.ref /\ row.kind = "ingested" /\ ref[1] \in {"outcome", "accords"} => ~Whole(ref)',
         \A ref : HasImpact(row) /\ ref = ImpactOf(row) => ~Whole(ref)'
  PROVE  OneRecordEach' /\ RefsAreKeys' /\ ImpactsAreDue' /\ ChainIsComplete'
<1>1. PICK n : n = Len(records) + 1
  OBVIOUS
<1>2. /\ DOMAIN records' = DOMAIN records \cup {n} /\ n \notin DOMAIN records /\ records'[n] = row
      /\ \A i \in DOMAIN records : records'[i] = records[i] /\ i < n
  <2>1. PICK S : records \in Seq(S)
    OBVIOUS
  <2>2. PICK T : T = S \cup {row}
    OBVIOUS
  <2>3. records \in Seq(T) /\ row \in T
    BY <2>1, <2>2
  <2> QED BY <1>1, <2>3
<1>3. OneRecordEach'
  BY <1>2 DEF OneRecordEach, Held
<1>4. RefsAreKeys'
  BY <1>2 DEF RefsAreKeys
<1>5. \A ref : Held(ref) => Held(ref)'
  BY <1>2 DEF Held
<1>6. ASSUME NEW i \in DOMAIN records', NEW ref, HasImpact(records'[i]), ref = ImpactOf(records'[i])
      PROVE  Held(ref)' \/ ~Whole(ref)'
  <2>1. CASE i = n
    BY <1>2, <1>6, <2>1
  <2>2. CASE i # n
    <3>1. Held(ref) \/ ~Whole(ref)
      BY <1>2, <1>6, <2>2 DEF ImpactsAreDue
    <3> QED BY <1>5, <3>1 DEF NothingMended
  <2> QED BY <2>1, <2>2
<1>7. ImpactsAreDue'
  BY <1>6 DEF ImpactsAreDue, HasImpact, ImpactOf
<1>8. ASSUME NEW p \in DOMAIN records', NEW c \in DOMAIN records' PROVE Tied(p, c)'
  <2>1. PICK a, b, d, ref : /\ a = records'[p] /\ b = records'[c] /\ d = Debt(a, b, p, c) /\ ref = b.ref
    OBVIOUS
  <2>2. SUFFICES ASSUME Whole(ref)', d # "nothing" PROVE [from |-> p, to |-> c, relation |-> d] \in edges'
    BY <2>1 DEF Tied
  <2>3. IsKey(a.ref) /\ IsKey(b.ref)
    BY <1>4, <1>8, <2>1 DEF RefsAreKeys
  <2>4. \/ d = "outcome" /\ ref = <<"outcome", ref[2]>> /\ b.kind = "ingested" /\ p < c
        \/ d = "amends" /\ ref = <<"accords", ref[2]>> /\ b.kind = "ingested" /\ p < c
        \/ d = "produces" /\ HasImpact(a) /\ ref = ImpactOf(a)
    <3>1. \/ d = "nothing"
          \/ d = "outcome" /\ a.ref = <<"motion", b.ref[2]>> /\ b.ref = <<"outcome", b.ref[2]>>
               /\ b.kind = "ingested" /\ p < c
          \/ d = "amends" /\ a.ref = <<"accords", b.ref[2] - 1>> /\ b.ref = <<"accords", b.ref[2]>>
               /\ b.kind = "ingested" /\ p < c
          \/ d = "produces" /\ HasImpact(a) /\ a.ref = <<"report", b.ref[2]>> /\ b.ref = ImpactOf(a)
      BY <2>1, <2>3, DebtIs
    <3> QED BY <2>1, <2>2, <3>1
  <2>5. CASE p \in DOMAIN records /\ c \in DOMAIN records
    <3>1. Tied(p, c) /\ a = records[p] /\ b = records[c]
      BY <1>2, <2>1, <2>5, ChainIsTied
    <3> QED BY <2>1, <2>2, <3>1 DEF Tied, NothingMended
  <2>6. CASE p = n
    <3>1. a = row /\ ~(p < c)
      BY <1>1, <1>2, <1>8, <2>1, <2>6
    <3> QED BY <2>2, <2>4, <3>1
  <2>7. CASE p # n /\ c = n
    <3>1. b = row /\ ref = row.ref /\ p \in DOMAIN records /\ a = records[p]
      BY <1>2, <1>8, <2>1, <2>7
    <3>2. CASE d \in {"outcome", "amends"}
      <4>1. ref[1] \in {"outcome", "accords"} /\ b.kind = "ingested"
        BY <2>4, <3>2
      <4> QED BY <2>2, <3>1, <4>1
    <3>3. CASE d = "produces"
      <4>1. HasImpact(a) /\ ref = ImpactOf(a)
        BY <2>4, <3>3
      <4>2. ref # NoRef
        BY <4>1 DEF ImpactOf, NoRef
      <4>3. ~Whole(ref)
        BY <3>1, <4>1, <4>2 DEF ImpactsAreDue
      <4> QED BY <2>2, <4>3 DEF NothingMended
    <3> QED BY <2>4, <3>2, <3>3
  <2> QED BY <1>2, <1>8, <2>5, <2>6, <2>7
<1>9. ChainIsComplete'
  BY <1>8, ChainIsTied
<1> QED BY <1>3, <1>4, <1>7, <1>9

\* No edge is mended while nobody draws one: a task that was busy is so still, or
\* its edge is lost.
LEMMA NobodyMends ==
  ASSUME NEW s \in Subscriptions, DOMAIN task = Subscriptions, NEW t, task' = [task EXCEPT ![s] = t],
         broken \subseteq broken',
         \A ref : Busy(task[s], ref) => Busy(t, ref) \/ ref \in broken'
  PROVE  NothingMended
<1> SUFFICES ASSUME NEW ref, Whole(ref)' PROVE Whole(ref)
  BY DEF NothingMended
<1>1. ref \notin broken' /\ \A o \in Subscriptions : ~Busy(task'[o], ref)
  BY WholeIs
<1>2. ASSUME NEW o \in Subscriptions PROVE ~Busy(task[o], ref)
  <2>1. CASE o = s
    <3>1. task'[s] = t
      OBVIOUS
    <3> QED BY <1>1, <2>1, <3>1
  <2>2. CASE o # s
    <3>1. task'[o] = task[o]
      BY <2>2
    <3> QED BY <1>1, <3>1
  <2> QED BY <2>1, <2>2
<1> QED BY <1>1, <1>2, WholeIs

\* What is filed stays filed, and so do the ends of the ties.
LEMMA TiesStay ==
  ASSUME TiesAreFiled, NEW s \in Subscriptions, DOMAIN task = Subscriptions, NEW t,
         task' = [task EXCEPT ![s] = t], \A ref : Held(ref) => Held(ref)',
         \A ref : t.at = "tie" /\ ref = Edge(t.event).to => t.event.type # "motion.proposed" /\ Held(ref)',
         s = DebriefDesk => t.at \notin {"tie", "impact"}
  PROVE  TiesAreFiled'
<1>1. ASSUME NEW o \in Subscriptions, NEW k, k = task'[o]
      PROVE  /\ \A ref : k.at = "tie" /\ ref = Edge(k.event).to => k.event.type # "motion.proposed" /\ Held(ref)'
             /\ o = DebriefDesk => k.at \notin {"tie", "impact"}
  <2>1. CASE o = s
    BY <1>1, <2>1
  <2>2. CASE o # s
    <3>1. k = task[o]
      BY <1>1, <2>2
    <3> QED BY <3>1 DEF TiesAreFiled
  <2> QED BY <2>1, <2>2
<1> QED BY <1>1 DEF TiesAreFiled

\* What an edge is drawn to.
LEMMA EdgeIs ==
  ASSUME NEW e, e.type \in {"motion.outcome", "accords.adopted", "mission.completed"}
  PROVE  /\ e.type = "motion.outcome" =>
              Edge(e) = [from |-> <<"motion", e.motion>>, to |-> <<"outcome", e.motion>>, relation |-> "outcome"]
         /\ e.type = "accords.adopted" =>
              Edge(e) = [from |-> <<"accords", e.version - 1>>, to |-> <<"accords", e.version>>,
                         relation |-> "amends"]
         /\ e.type = "mission.completed" =>
              Edge(e) = [from |-> <<"report", e.mission>>, to |-> <<"impact", e.mission>>,
                         relation |-> "produces"]
<1>1. CASE e.type = "motion.outcome"
  BY <1>1 DEF Edge, Filed
<1>2. CASE e.type = "accords.adopted"
  BY <1>2 DEF Edge, Filed
<1>3. CASE e.type = "mission.completed"
  BY <1>3 DEF Edge, Filed
<1> QED BY <1>1, <1>2, <1>3

\* A clerk draws its edge, between the records it means.
LEMMA TieStep ==
  ASSUME ChainInv, NEW s \in Subscriptions, DOMAIN task = Subscriptions, Tie(s),
         task[s].event.type \in Told
  PROVE  ChainInv'
<1>1. PICK event, e : event = task[s].event /\ e = Edge(event)
  OBVIOUS
<1>2. /\ task[s].at = "tie" /\ task' = [task EXCEPT ![s] = Idle] /\ UNCHANGED <<records, broken>>
      /\ edges' = IF Held(e.from)
           THEN edges \cup {[from |-> RecordOf(e.from), to |-> RecordOf(e.to), relation |-> e.relation]}
           ELSE edges
  BY <1>1 DEF Tie, Handling, Handled
<1>3. event.type \in {"motion.outcome", "accords.adopted", "mission.completed"} /\ Held(e.to)
  BY <1>1, <1>2 DEF ChainInv, TiesAreFiled, Told
<1>4. \/ e = [from |-> <<"motion", event.motion>>, to |-> <<"outcome", event.motion>>, relation |-> "outcome"]
      \/ e = [from |-> <<"accords", event.version - 1>>, to |-> <<"accords", event.version>>,
              relation |-> "amends"]
      \/ e = [from |-> <<"report", event.mission>>, to |-> <<"impact", event.mission>>,
              relation |-> "produces"]
  BY <1>1, <1>3, EdgeIs
<1>5. \A ref : Whole(ref)' => Whole(ref) \/ ref = e.to
  <2> SUFFICES ASSUME NEW ref, Whole(ref)', ref # e.to PROVE Whole(ref)
    OBVIOUS
  <2>1. ref \notin broken /\ \A o \in Subscriptions : ~Busy(task'[o], ref)
    BY <1>2, WholeIs
  <2>2. ASSUME NEW o \in Subscriptions PROVE ~Busy(task[o], ref)
    <3>1. CASE o = s
      BY <1>1, <3>1 DEF Busy
    <3>2. CASE o # s
      <4>1. task'[o] = task[o]
        BY <1>2, <3>2
      <4> QED BY <2>1, <4>1
    <3> QED BY <3>1, <3>2
  <2> QED BY <2>1, <2>2, WholeIs
<1>6. OneRecordEach' /\ RefsAreKeys'
  BY <1>2 DEF ChainInv, OneRecordEach, RefsAreKeys
<1>7. ImpactsAreDue'
  <2>1. ASSUME NEW i \in DOMAIN records', NEW ref, HasImpact(records'[i]), ref = ImpactOf(records'[i])
        PROVE  Held(ref)' \/ ~Whole(ref)'
    <3>1. Held(ref) \/ ~Whole(ref)
      BY <1>2, <2>1 DEF ChainInv, ImpactsAreDue
    <3>2. Held(ref)' = Held(ref)
      BY <1>2 DEF Held
    <3> QED BY <1>3, <1>5, <3>1, <3>2
  <2> QED BY <2>1 DEF ImpactsAreDue, HasImpact, ImpactOf
<1>8. TiesAreFiled'
  <2>1. \A ref : Held(ref) => Held(ref)'
    BY <1>2 DEF Held
  <2> QED BY <1>2, <2>1, TiesStay DEF ChainInv, Idle
<1>9. ASSUME NEW p \in DOMAIN records', NEW c \in DOMAIN records' PROVE Tied(p, c)'
  <2>1. PICK a, b, d, ref : /\ a = records[p] /\ b = records[c] /\ d = Debt(a, b, p, c) /\ ref = b.ref
    OBVIOUS
  <2>2. PICK edge : edge = [from |-> p, to |-> c, relation |-> d]
    OBVIOUS
  <2>3. a = records'[p] /\ b = records'[c] /\ p \in DOMAIN records /\ c \in DOMAIN records
    BY <1>2, <1>9, <2>1
  <2>4. Whole(ref) /\ d # "nothing" => edge \in edges
    BY <1>9, <2>1, <2>2, <2>3, ChainIsTied DEF ChainInv, Tied
  <2>5. ASSUME ref = e.to, d # "nothing" PROVE edge \in edges'
    <3>1. IsKey(a.ref) /\ IsKey(b.ref)
      BY <2>1, <2>3 DEF ChainInv, RefsAreKeys
    <3>2. \/ d = "outcome" /\ a.ref = <<"motion", ref[2]>> /\ ref = <<"outcome", ref[2]>>
          \/ d = "amends" /\ a.ref = <<"accords", ref[2] - 1>> /\ ref = <<"accords", ref[2]>>
          \/ d = "produces" /\ a.ref = <<"report", ref[2]>> /\ ref = <<"impact", ref[2]>>
      <4>1. \/ d = "outcome" /\ a.ref = <<"motion", b.ref[2]>> /\ b.ref = <<"outcome", b.ref[2]>>
            \/ d = "amends" /\ a.ref = <<"accords", b.ref[2] - 1>> /\ b.ref = <<"accords", b.ref[2]>>
            \/ d = "produces" /\ HasImpact(a) /\ a.ref = <<"report", b.ref[2]>> /\ b.ref = ImpactOf(a)
        <5>1. d = Debt(a, b, p, c)
          BY <2>1
        <5> QED BY <2>5, <3>1, <5>1, DebtIs
      <4>2. a.ref = <<"report", b.ref[2]>> => ImpactOf(a) = <<"impact", b.ref[2]>>
        BY DEF ImpactOf
      <4> QED BY <2>1, <4>1, <4>2
    <3>3. a.ref = e.from /\ d = e.relation
      BY <1>4, <2>5, <3>2
    <3>4. e.from # NoRef /\ e.to # NoRef
      BY <1>4 DEF NoRef
    <3>5. RecordOf(e.from) = p /\ RecordOf(e.to) = c /\ Held(e.from)
      BY <2>1, <2>3, <2>5, <3>3, <3>4 DEF ChainInv, OneRecordEach, RecordOf, Held
    <3> QED BY <1>2, <2>2, <3>3, <3>5
  <2>6. Whole(ref)' /\ d # "nothing" => edge \in edges'
    BY <1>2, <1>5, <2>4, <2>5
  <2> QED BY <2>1, <2>2, <2>3, <2>6 DEF Tied
<1>10. ChainIsComplete'
  BY <1>9, ChainIsTied
<1> QED BY <1>6, <1>7, <1>8, <1>10 DEF ChainInv

\* What an event files is under a key, and so is its impact.
LEMMA FiledUnderKeys ==
  ASSUME NEW e, Tells(e), e.type \in Told, DOMAIN accords \subseteq Nat
  PROVE  /\ IsKey(Filed(e)) /\ Filed(e) # NoRef
         /\ e.type = "motion.proposed" => Filed(e) = <<"motion", e.motion>> /\ After(e) = "done"
         /\ e.type = "motion.outcome" => Filed(e) = Edge(e).to /\ After(e) = "tie"
         /\ e.type = "accords.adopted" => Filed(e) = Edge(e).to /\ After(e) = "tie"
         /\ e.type = "mission.completed" =>
              /\ Filed(e) = <<"report", e.mission>> /\ Edge(e).to = <<"impact", e.mission>>
              /\ After(e) = "impact"
<1>1. CASE e.type = "motion.proposed"
  <2>1. Filed(e) = <<"motion", e.motion>> /\ After(e) = "done"
    BY <1>1 DEF Filed, After
  <2> QED BY <1>1, <2>1 DEF IsKey, NoRef
<1>2. CASE e.type = "motion.outcome"
  <2>1. Filed(e) = <<"outcome", e.motion>> /\ After(e) = "tie"
    BY <1>2 DEF Filed, After
  <2>2. Edge(e).to = <<"outcome", e.motion>>
    BY <1>2, EdgeIs
  <2> QED BY <1>2, <2>1, <2>2 DEF IsKey, NoRef
<1>3. CASE e.type = "accords.adopted"
  <2>1. Filed(e) = <<"accords", e.version>> /\ After(e) = "tie"
    BY <1>3 DEF Filed, After
  <2>2. Edge(e).to = <<"accords", e.version>>
    BY <1>3, EdgeIs
  <2>3. e.version \in Nat
    BY <1>3 DEF Tells
  <2> QED BY <1>3, <2>1, <2>2, <2>3 DEF IsKey, NoRef
<1>4. CASE e.type = "mission.completed"
  <2>1. Filed(e) = <<"report", e.mission>> /\ After(e) = "impact"
    <3>1. e.impact = TRUE
      BY <1>4 DEF Tells
    <3> QED BY <1>4, <3>1 DEF Filed, After
  <2>2. Edge(e).to = <<"impact", e.mission>>
    BY <1>4, EdgeIs
  <2> QED BY <1>4, <2>1, <2>2 DEF IsKey, NoRef
<1> QED BY <1>1, <1>2, <1>3, <1>4 DEF Told

\* A task that moves while the records and the links stay as they are.
LEMMA ClerkMoves ==
  ASSUME ChainInv, NEW s \in Subscriptions, DOMAIN task = Subscriptions, NEW t,
         task' = [task EXCEPT ![s] = t], UNCHANGED <<records, edges>>, broken \subseteq broken',
         \A ref : Busy(task[s], ref) => Busy(t, ref) \/ ref \in broken',
         t.at = "tie" => task[s] = t, s = DebriefDesk => t.at \notin {"tie", "impact"}
  PROVE  ChainInv'
<1>1. NothingMended
  BY NobodyMends
<1>2. OneRecordEach' /\ RefsAreKeys' /\ ImpactsAreDue' /\ ChainIsComplete'
  BY <1>1, ChainKept DEF ChainInv
<1>3. \A ref : Held(ref) => Held(ref)'
  BY DEF Held
<1>4. \A ref : t.at = "tie" /\ ref = Edge(t.event).to => t.event.type # "motion.proposed" /\ Held(ref)'
  BY <1>3 DEF ChainInv, TiesAreFiled
<1>5. TiesAreFiled'
  BY <1>3, <1>4, TiesStay DEF ChainInv
<1> QED BY <1>2, <1>5 DEF ChainInv

\* A clerk files, and goes on to what that owes.
LEMMA FileStep ==
  ASSUME ChainInv, ReadersInv, RecordsInv, DOMAIN accords \subseteq Nat,
         NEW s \in Subscriptions, s # DebriefDesk, FileEvent(s)
  PROVE  ChainInv'
<1>1. PICK e, k : k = task[s] /\ e = k.event
  OBVIOUS
<1>2. /\ k.at = "file" /\ DOMAIN task = Subscriptions /\ Tells(e) /\ e.type \in Told
      /\ UNCHANGED <<edges, broken>> /\ DOMAIN k = {"at", "event"}
  <2>1. Minds(k) /\ k.at = "file" /\ DOMAIN task = Subscriptions /\ UNCHANGED <<edges, broken>>
    BY <1>1 DEF FileEvent, Handling, ReadersInv
  <2>2. k # Idle
    BY <2>1 DEF Idle
  <2> QED BY <1>1, <2>1, <2>2 DEF Minds
<1>3. \A ref : ~Busy(k, ref)
  BY <1>2 DEF Busy
<1>4. CASE Held(Filed(e))
  <2>1. task' = [task EXCEPT ![s] = Idle] /\ UNCHANGED records
    BY <1>1, <1>4 DEF FileEvent, Handled
  <2>2. Idle.at # "tie"
    BY DEF Idle
  <2> QED BY <1>1, <1>2, <1>3, <2>1, <2>2, ClerkMoves
<1>5. CASE ~Held(Filed(e))
  <2>1. PICK row : row = [kind |-> "ingested", ref |-> Filed(e), outcome |-> Outcome(e), supersedes |-> 0]
    OBVIOUS
  <2>2. records' = Append(records, row) /\ row.kind = "ingested" /\ row.ref = Filed(e)
    BY <1>1, <1>5, <2>1 DEF FileEvent, Filing
  <2>3. PICK t : t = IF After(e) = "done" THEN Idle ELSE [k EXCEPT !.at = After(e)]
    OBVIOUS
  <2>4. task' = [task EXCEPT ![s] = t]
    BY <1>1, <1>2, <1>5, <2>3 DEF FileEvent, Handled, Onward
  <2>5. After(e) # "done" => t.at = After(e) /\ t.event = e
    BY <1>1, <1>2, <2>3
  <2>6. task'[s] = t
    BY <1>2, <2>4
  <2>7. \A ref : Busy(t, ref) => ~Whole(ref)'
    BY <2>6, WholeIs
  <2>8. NothingMended
    BY <1>1, <1>2, <1>3, <2>4, NobodyMends
  <2>9. IsKey(row.ref)
    BY <1>2, <2>2, FiledUnderKeys
  <2>10. row.ref = NoRef \/ ~Held(row.ref)
    BY <1>5, <2>2
  <2>11. \A ref : ref = row.ref /\ row.kind = "ingested" /\ ref[1] \in {"outcome", "accords"} => ~Whole(ref)'
    <3>1. ASSUME row.ref[1] \in {"outcome", "accords"} PROVE Busy(t, row.ref)
      <4>1. e.type \in {"motion.outcome", "accords.adopted"}
        BY <1>2, <2>2, <3>1, FiledUnderKeys DEF Told
      <4>2. After(e) = "tie" /\ Edge(e).to = row.ref
        BY <1>2, <2>2, <4>1, FiledUnderKeys
      <4> QED BY <2>5, <4>2 DEF Busy
    <3> QED BY <2>7, <3>1
  <2>12. \A ref : HasImpact(row) /\ ref = ImpactOf(row) => ~Whole(ref)'
    <3>1. ASSUME HasImpact(row) PROVE Busy(t, ImpactOf(row))
      <4>1. row.ref[1] = "report"
        BY <3>1 DEF HasImpact
      <4>2. e.type = "mission.completed"
        <5>1. CASE e.type \in {"motion.outcome", "accords.adopted"}
          <6>1. row.ref[1] \in {"outcome", "accords"}
            BY <1>2, <2>2, <5>1, FiledUnderKeys, EdgeIs
          <6> QED BY <4>1, <6>1
        <5>2. CASE e.type = "motion.proposed"
          BY <1>2, <2>2, <4>1, <5>2, FiledUnderKeys
        <5> QED BY <1>2, <5>1, <5>2 DEF Told
      <4>3. After(e) = "impact" /\ Edge(e).to = <<"impact", e.mission>> /\ row.ref = <<"report", e.mission>>
        BY <1>2, <2>2, <4>2, FiledUnderKeys
      <4>4. ImpactOf(row) = <<"impact", e.mission>>
        BY <4>3 DEF ImpactOf
      <4> QED BY <2>5, <4>3, <4>4 DEF Busy
    <3> QED BY <2>7, <3>1
  <2>13. OneRecordEach' /\ RefsAreKeys' /\ ImpactsAreDue' /\ ChainIsComplete'
    <3>1. \E S : records \in Seq(S)
      BY DEF RecordsInv
    <3> QED BY <1>2, <2>2, <2>8, <2>9, <2>10, <2>11, <2>12, <3>1, ChainFiles DEF ChainInv
  <2>14. \A ref : Held(ref) => Held(ref)'
    BY <2>2 DEF Held, RecordsInv
  <2>15. Held(row.ref)'
    BY <2>2 DEF Held, RecordsInv
  <2>16. \A ref : t.at = "tie" /\ ref = Edge(t.event).to => t.event.type # "motion.proposed" /\ Held(ref)'
    <3>1. ASSUME t.at = "tie" PROVE e.type # "motion.proposed" /\ Edge(e).to = row.ref /\ t.event = e
      <4>1. After(e) = "tie" /\ t.event = e
        BY <2>3, <2>5, <3>1 DEF Idle
      <4>2. e.type \in {"motion.outcome", "accords.adopted"}
        BY <1>2, <4>1, FiledUnderKeys DEF Told
      <4> QED BY <1>2, <2>2, <4>1, <4>2, FiledUnderKeys
    <3> QED BY <2>15, <3>1
  <2>17. TiesAreFiled'
    BY <1>2, <2>4, <2>14, <2>16, TiesStay DEF ChainInv
  <2> QED BY <2>13, <2>17 DEF ChainInv
<1> QED BY <1>4, <1>5

\* A clerk files the impact of a report, or finds it filed.
LEMMA ImpactStep ==
  ASSUME ChainInv, ReadersInv, RecordsInv, NEW s \in Subscriptions, s # DebriefDesk, FileImpact(s)
  PROVE  ChainInv'
<1>1. PICK e, k, ref : k = task[s] /\ e = k.event /\ ref = Edge(e).to
  OBVIOUS
<1>2. /\ k.at = "impact" /\ DOMAIN task = Subscriptions /\ e.type = "mission.completed"
      /\ UNCHANGED <<edges, broken>> /\ DOMAIN k = {"at", "event"}
  <2>1. Minds(k) /\ k.at = "impact" /\ DOMAIN task = Subscriptions /\ UNCHANGED <<edges, broken>>
    BY <1>1 DEF FileImpact, Handling, ReadersInv
  <2>2. k # Idle
    BY <2>1 DEF Idle
  <2> QED BY <1>1, <2>1, <2>2 DEF Minds
<1>3. PICK t : t = [k EXCEPT !.at = "tie"]
  OBVIOUS
<1>4. task' = [task EXCEPT ![s] = t] /\ t.at = "tie" /\ t.event = e
  BY <1>1, <1>2, <1>3 DEF FileImpact, Onward
<1>5. NothingMended
  <2>1. \A r : Busy(k, r) => Busy(t, r)
    BY <1>1, <1>2, <1>4 DEF Busy
  <2> QED BY <1>1, <1>2, <1>4, <2>1, NobodyMends
<1>6. ref = <<"impact", e.mission>>
  BY <1>1, <1>2, EdgeIs
<1>7. /\ OneRecordEach' /\ RefsAreKeys' /\ ImpactsAreDue' /\ ChainIsComplete'
      /\ (\A r : Held(r) => Held(r)') /\ Held(ref)'
  <2>1. CASE Held(ref)
    <3>1. UNCHANGED records
      BY <1>1, <2>1 DEF FileImpact
    <3>2. OneRecordEach' /\ RefsAreKeys' /\ ImpactsAreDue' /\ ChainIsComplete'
      BY <1>2, <1>5, <3>1, ChainKept DEF ChainInv
    <3>3. \A r : Held(r) => Held(r)'
      BY <3>1 DEF Held
    <3> QED BY <2>1, <3>2, <3>3
  <2>2. CASE ~Held(ref)
    <3>1. PICK row : row = [kind |-> "ingested", ref |-> ref, outcome |-> "", supersedes |-> 0]
      OBVIOUS
    <3>2. records' = Append(records, row) /\ row.ref = ref
      BY <1>1, <2>2, <3>1 DEF FileImpact, Filing
    <3>3. IsKey(row.ref) /\ row.ref[1] = "impact"
      BY <1>6, <3>2 DEF IsKey
    <3>4. ~HasImpact(row) /\ row.ref[1] \notin {"outcome", "accords"}
      BY <3>3 DEF HasImpact
    <3>5. \E S : records \in Seq(S)
      BY DEF RecordsInv
    <3>6. OneRecordEach' /\ RefsAreKeys' /\ ImpactsAreDue' /\ ChainIsComplete'
      BY <1>2, <1>5, <2>2, <3>2, <3>3, <3>4, <3>5, ChainFiles DEF ChainInv
    <3>7. (\A r : Held(r) => Held(r)') /\ Held(ref)'
      BY <3>2, <3>5 DEF Held
    <3> QED BY <3>6, <3>7
  <2> QED BY <2>1, <2>2
<1>8. \A r : t.at = "tie" /\ r = Edge(t.event).to => t.event.type # "motion.proposed" /\ Held(r)'
  BY <1>1, <1>2, <1>4, <1>7
<1>9. TiesAreFiled'
  BY <1>2, <1>4, <1>7, <1>8, TiesStay DEF ChainInv
<1> QED BY <1>7, <1>9 DEF ChainInv

\* Whatever a clerk does.
LEMMA ClerkChain ==
  ASSUME ChainInv, ReadersInv, RecordsInv, DOMAIN accords \subseteq Nat,
         NEW s \in Subscriptions, s # DebriefDesk, Clerk(s)
  PROVE  ChainInv'
<1>1. PICK k : k = task[s]
  OBVIOUS
<1>2. DOMAIN task = Subscriptions /\ Minds(k) /\ task = [task EXCEPT ![s] = k]
  BY <1>1 DEF ReadersInv
<1>3. \A ref : ~Busy(Idle, ref)
  BY DEF Busy, Idle
<1>4. Idle.at = "idle"
  BY DEF Idle
<1>5. CASE Ingest(s)
  <2>1. /\ UNCHANGED <<records, edges, broken>> /\ k = Idle
        /\ \/ task' = [task EXCEPT ![s] = [at |-> "file", event |-> bus[cursor[s]]]]
           \/ task' = [task EXCEPT ![s] = k]
    BY <1>1, <1>2, <1>5 DEF Ingest, Receive, archRows
  <2>2. CASE task' = [task EXCEPT ![s] = k]
    BY <1>1, <1>2, <1>4, <2>1, <2>2, ClerkMoves
  <2>3. CASE task' = [task EXCEPT ![s] = [at |-> "file", event |-> bus[cursor[s]]]]
    <3>1. PICK t : t = [at |-> "file", event |-> bus[cursor[s]]]
      OBVIOUS
    <3>2. t.at = "file" /\ task' = [task EXCEPT ![s] = t]
      BY <2>3, <3>1
    <3>3. \A ref : ~Busy(task[s], ref)
      BY <1>1, <1>3, <2>1
    <3> QED BY <1>2, <2>1, <3>2, <3>3, ClerkMoves
  <2> QED BY <2>1, <2>2, <2>3
<1>6. CASE Tie(s)
  <2>1. k.at = "tie"
    BY <1>1, <1>6 DEF Tie, Handling
  <2>2. k.event.type \in Told
    BY <1>2, <1>4, <2>1 DEF Minds
  <2> QED BY <1>1, <1>2, <1>6, <2>2, TieStep
<1>7. CASE IngestEnds(s)
  <2>1. UNCHANGED <<records, edges>> /\ task' = [task EXCEPT ![s] = Idle]
    BY <1>7 DEF IngestEnds, Handled, Rebound, archRows
  <2>2. broken \subseteq broken' /\ \A ref : Busy(k, ref) => ref \in broken'
    BY <1>1, <1>7 DEF IngestEnds, Busy, Handling
  <2> QED BY <1>1, <1>2, <1>4, <2>1, <2>2, ClerkMoves
<1>8. CASE LoseIngest(s)
  <2>1. UNCHANGED <<records, edges, broken>> /\ task' = [task EXCEPT ![s] = k]
    BY <1>2, <1>8 DEF LoseIngest, Miss, archRows
  <2> QED BY <1>1, <1>2, <2>1, ClerkMoves
<1> QED BY <1>5, <1>6, <1>7, <1>8, FileStep, ImpactStep DEF Clerk

\* A record that people file: under a key that is free, or under none.
LEMMA PeopleFile ==
  ASSUME ChainInv, RecordsInv, UNCHANGED <<edges, broken, task>>,
         NEW row, records' = Append(records, row), row.kind # "ingested", IsKey(row.ref),
         row.ref = NoRef \/ ~Held(row.ref)
  PROVE  ChainInv'
<1>1. NothingMended
  BY WholeIs DEF NothingMended
<1>2. ~HasImpact(row)
  BY DEF HasImpact
<1>3. \E S : records \in Seq(S)
  BY DEF RecordsInv
<1>4. OneRecordEach' /\ RefsAreKeys' /\ ImpactsAreDue' /\ ChainIsComplete'
  BY <1>1, <1>2, <1>3, ChainFiles DEF ChainInv
<1>5. \A ref : Held(ref) => Held(ref)'
  BY <1>3 DEF Held
<1>6. TiesAreFiled'
  <2>1. ASSUME NEW s \in Subscriptions, NEW k, k = task[s]
        PROVE  /\ \A ref : k.at = "tie" /\ ref = Edge(k.event).to =>
                              k.event.type # "motion.proposed" /\ Held(ref)'
               /\ s = DebriefDesk => k.at \notin {"tie", "impact"}
    BY <1>5, <2>1 DEF ChainInv, TiesAreFiled
  <2> QED BY <2>1 DEF TiesAreFiled
<1> QED BY <1>4, <1>6 DEF ChainInv

\* Nobody files, and only edges that are lost go.
LEMMA PeopleLink ==
  ASSUME ChainInv, UNCHANGED <<records, task>>, broken \subseteq broken',
         \A e \in edges : e.to \in DOMAIN records /\ Whole(records[e.to].ref)' => e \in edges'
  PROVE  ChainInv'
<1>1. NothingMended
  BY WholeIs DEF NothingMended
<1>2. OneRecordEach' /\ RefsAreKeys' /\ ImpactsAreDue' /\ ChainIsComplete'
  BY <1>1, ChainKept DEF ChainInv
<1>3. \A ref : Held(ref)' = Held(ref)
  BY DEF Held
<1>4. TiesAreFiled'
  <2>1. ASSUME NEW s \in Subscriptions, NEW k, k = task[s]
        PROVE  /\ \A ref : k.at = "tie" /\ ref = Edge(k.event).to =>
                              k.event.type # "motion.proposed" /\ Held(ref)'
               /\ s = DebriefDesk => k.at \notin {"tie", "impact"}
    BY <1>3, <2>1 DEF ChainInv, TiesAreFiled
  <2> QED BY <2>1 DEF TiesAreFiled
<1> QED BY <1>2, <1>4 DEF ChainInv

\* What people file, correct and link.
LEMMA ShelvesChain == ASSUME ChainInv, RecordsInv, Shelves PROVE ChainInv'
<1>0. UNCHANGED task
  BY DEF Shelves, FileRecord, CreateLink, DeleteLink, Librarian, BeginCorrection, Correct, readerVars
<1>1. ASSUME NEW ref \in FiledRefs, FileRecord(ref) PROVE ChainInv'
  <2>1. UNCHANGED <<edges, broken>>
    BY <1>1 DEF FileRecord
  <2>2. CASE ref # NoRef /\ Held(ref)
    <3>1. UNCHANGED records
      BY <1>1, <2>2 DEF FileRecord
    <3> QED BY <1>0, <2>1, <3>1, PeopleLink
  <2>3. CASE ref = NoRef \/ ~Held(ref)
    <3>1. PICK row : row = [kind |-> "minutes", ref |-> ref, outcome |-> "", supersedes |-> 0]
      OBVIOUS
    <3>2. records' = Append(records, row) /\ row.kind # "ingested" /\ row.ref = ref
      BY <1>1, <2>3, <3>1 DEF FileRecord, Filing
    <3>3. IsKey(ref)
      BY ArchiveAssumption DEF IsKey
    <3> QED BY <1>0, <2>1, <2>3, <3>2, <3>3, PeopleFile
  <2> QED BY <2>2, <2>3
<1>2. ASSUME NEW h \in Hands, Correct(h) PROVE ChainInv'
  <2>1. PICK row : row = [kind |-> "correction", ref |-> NoRef, outcome |-> records[hand[h].of].outcome,
                          supersedes |-> hand[h].of]
    OBVIOUS
  <2>2. /\ records' = Append(records, row) /\ row.kind # "ingested" /\ row.ref = NoRef
        /\ UNCHANGED <<edges, broken>>
    BY <1>2, <2>1 DEF Correct, Filing
  <2>3. IsKey(row.ref)
    BY <2>2 DEF IsKey
  <2> QED BY <1>0, <2>2, <2>3, PeopleFile
<1>3. ASSUME NEW h \in Hands, Librarian(h), ~Correct(h) PROVE ChainInv'
  <2>1. UNCHANGED <<records, edges, broken>>
    BY <1>3 DEF Librarian, BeginCorrection, archRows
  <2> QED BY <1>0, <2>1, PeopleLink
<1>4. ASSUME NEW i, NEW j, NEW r, CreateLink(i, j, r) PROVE ChainInv'
  <2>1. UNCHANGED <<records, broken>> /\ edges \subseteq edges'
    BY <1>4 DEF CreateLink
  <2> QED BY <1>0, <2>1, PeopleLink
<1>5. ASSUME NEW edge \in edges, DeleteLink(edge) PROVE ChainInv'
  <2>1. PICK lost : lost = records[edge.to].ref
    OBVIOUS
  <2>2. UNCHANGED records /\ edges' = edges \ {edge} /\ broken' = broken \cup {lost}
    BY <1>5, <2>1 DEF DeleteLink
  <2>3. \A ref : Whole(ref)' => ref # lost
    BY <2>2, WholeIs
  <2>4. \A e \in edges : e.to \in DOMAIN records /\ Whole(records[e.to].ref)' => e \in edges'
    <3>1. ASSUME NEW e \in edges, NEW ref, ref = records[e.to].ref, Whole(ref)' PROVE e \in edges'
      BY <2>1, <2>2, <2>3, <3>1
    <3> QED BY <2>2, <3>1 DEF Whole
  <2> QED BY <1>0, <2>2, <2>4, PeopleLink
<1> QED BY <1>1, <1>2, <1>3, <1>4, <1>5 DEF Shelves

\* The debrief desk draws no edge.
LEMMA DeskChain ==
  ASSUME ChainInv, ReadersInv, DebriefDesk \in Subscriptions, DebriefClerk(DebriefDesk),
         UNCHANGED <<records, edges, broken>>
  PROVE  ChainInv'
<1>1. PICK s, k : s = DebriefDesk /\ k = task[s]
  OBVIOUS
<1>2. /\ DOMAIN task = Subscriptions /\ Minds(k) /\ task = [task EXCEPT ![s] = k]
      /\ k.at \notin {"tie", "impact"} /\ Idle.at = "idle" /\ (\A ref : ~Busy(k, ref))
  BY <1>1 DEF ReadersInv, ChainInv, TiesAreFiled, Idle, Busy
<1>3. ASSUME NEW t, task' = [task EXCEPT ![s] = t], t.at \notin {"tie", "impact"} PROVE ChainInv'
  BY <1>1, <1>2, <1>3, ClerkMoves
<1>4. CASE HearCompletion(s)
  <2>1. \/ task' = [task EXCEPT ![s] = [at |-> "debrief_exists", event |-> bus[cursor[s]]]]
        \/ task' = [task EXCEPT ![s] = k]
    BY <1>1, <1>2, <1>4 DEF HearCompletion, Receive
  <2>2. CASE task' = [task EXCEPT ![s] = [at |-> "debrief_exists", event |-> bus[cursor[s]]]]
    <3>1. PICK t : t = [at |-> "debrief_exists", event |-> bus[cursor[s]]]
      OBVIOUS
    <3>2. t.at = "debrief_exists"
      BY <3>1
    <3> QED BY <1>3, <2>2, <3>1, <3>2
  <2> QED BY <1>2, <1>3, <2>1, <2>2
<1>5. CASE DebriefExists(s)
  <2>1. k.at = "debrief_exists"
    BY <1>1, <1>5 DEF DebriefExists, Handling
  <2>2. DOMAIN k = {"at", "event"}
    BY <1>2, <2>1 DEF Minds
  <2>3. PICK t : t = [k EXCEPT !.at = "debrief_insert"]
    OBVIOUS
  <2>4. t.at = "debrief_insert"
    BY <2>2, <2>3
  <2>5. task' = [task EXCEPT ![s] = t] \/ task' = [task EXCEPT ![s] = Idle]
    BY <1>1, <1>2, <1>5, <2>3 DEF DebriefExists, Onward, Handled
  <2> QED BY <1>2, <1>3, <2>4, <2>5
<1>6. CASE InsertDebrief(s) \/ DebriefEnds(s)
  <2>1. task' = [task EXCEPT ![s] = Idle]
    BY <1>6 DEF InsertDebrief, DebriefEnds, Handled, Rebound
  <2> QED BY <1>2, <1>3, <2>1
<1>7. CASE MissCompletion(s)
  <2>1. task' = [task EXCEPT ![s] = k]
    BY <1>2, <1>7 DEF MissCompletion, Miss
  <2> QED BY <1>2, <1>3, <2>1
<1> QED BY <1>1, <1>4, <1>5, <1>6, <1>7 DEF DebriefClerk

\* Nothing else touches the record, its links or who reads the bus.
LEMMA ChainStep == MemoryInv /\ ChainInv /\ [MemoryNext]_memoryVars => ChainInv'
<1> SUFFICES ASSUME MemoryInv, ChainInv, [MemoryNext]_memoryVars PROVE ChainInv'
  OBVIOUS
<1>1. /\ ReadersInv /\ RecordsInv /\ DOMAIN accords \subseteq Nat
      /\ DebriefDesk \in Subscriptions /\ Clerks \subseteq Subscriptions /\ DebriefDesk \notin Clerks
  BY MemoryAssumption DEF MemoryInv, FloorInv, FloorTyped, Clerks, DebriefDesk
<1>2. ASSUME UNCHANGED <<records, edges, broken, task>> PROVE ChainInv'
  BY <1>2, PeopleLink
<1>3. CASE Deliberate \/ Undertake \/ UNCHANGED memoryVars
  <2>1. UNCHANGED <<records, edges, broken, task>>
    BY <1>3 DEF Deliberate, Undertake, memoryVars, memoryRows, archRows, readerVars
  <2> QED BY <1>2, <2>1
<1>4. CASE KeepRecords
  <2>1. ASSUME NEW s \in Clerks, Clerk(s) PROVE ChainInv'
    BY <1>1, <2>1, ClerkChain
  <2> QED BY <1>1, <1>4, <2>1, ShelvesChain DEF KeepRecords
<1>5. CASE KeepCalendar
  <2>1. UNCHANGED <<records, edges, broken>>
    BY <1>5 DEF KeepCalendar, archRows
  <2>2. CASE Office
    BY <1>1, <1>2, <2>1, <2>2, OfficeStep DEF MemoryInv
  <2>3. CASE DebriefClerk(DebriefDesk)
    BY <1>1, <2>1, <2>3, DeskChain
  <2> QED BY <1>5, <2>2, <2>3 DEF KeepCalendar
<1> QED BY <1>3, <1>4, <1>5 DEF MemoryNext

\* An empty record owes nothing.
LEMMA ChainStarts == MemoryInit => ChainInv
<1> SUFFICES ASSUME MemoryInit PROVE ChainInv
  OBVIOUS
<1>1. records = <<>> /\ DOMAIN records = {} /\ \A s \in Subscriptions : task[s] = Idle
  BY DEF MemoryInit, ArchInit, ReadersInit
<1>2. Idle.at = "idle"
  BY DEF Idle
<1> QED BY <1>1, <1>2 DEF ChainInv, OneRecordEach, RefsAreKeys, ImpactsAreDue, TiesAreFiled, ChainIsComplete

\* ChainIsComplete, of ArchiveAnswers: a decision is tied to its motion, a version
\* to the one it amends and a report to its impact, but for an edge whose handler
\* ended under it or that somebody deleted.
THEOREM ChainStaysComplete == MemorySpec => []ChainIsComplete
<1>1. MemoryInit => ChainInv
  BY ChainStarts
<1>2. MemoryInv /\ ChainInv /\ [MemoryNext]_memoryVars => ChainInv'
  BY ChainStep
<1>3. ChainInv => ChainIsComplete
  BY DEF ChainInv
<1> QED BY <1>1, <1>2, <1>3, MemoryInvariant, PTL DEF MemorySpec
-----------------------------------------------------------------------------
(* The lineage: walks that visit no record twice reach what links lead to.   *)

\* Any set of steps that is not empty has a first one: every induction below
\* is a use of it.
LEMMA FirstStep ==
  ASSUME NEW n \in Nat, NEW B, B \subseteq 1..n, B # {}
  PROVE  \E b \in B : \A c \in B : b <= c
<1>1. IsFiniteSet(1..n)
  BY FS_Interval
<1>2. FiniteSubsetsOf(1..n) = SUBSET (1..n)
  BY <1>1, FS_FiniteSubsetsOfFinite
<1>3. PICK T : T = {1..b : b \in B}
  OBVIOUS
<1>4. T \subseteq SUBSET (1..n) /\ T # {}
  <2>1. \A b \in B : 1..b \subseteq 1..n
    OBVIOUS
  <2> QED BY <1>3, <2>1
<1>5. PICK t \in T : \A u \in T : ~ (<<u, t>> \in StrictSubsetOrdering(1..n))
  <2>1. IsWellFoundedOn(StrictSubsetOrdering(1..n), SUBSET (1..n))
    BY <1>2, FS_StrictSubsetOrderingWellFounded
  <2> QED BY <1>4, <2>1, WFMin
<1>6. PICK b \in B : t = 1..b
  BY <1>3, <1>5
<1>7. ASSUME NEW c \in B, ~(b <= c) PROVE FALSE
  <2>1. PICK u : u = 1..c
    OBVIOUS
  <2>2. u \in T /\ u \subseteq t /\ b \in t /\ b \notin u
    BY <1>3, <1>6, <1>7, <2>1
  <2>3. <<u, t>> \in (SUBSET (1..n)) \X (SUBSET (1..n)) /\ u # t
    BY <1>4, <1>5, <2>2
  <2>4. <<u, t>> \in StrictSubsetOrdering(1..n)
    BY <2>2, <2>3 DEF StrictSubsetOrdering
  <2> QED BY <1>5, <2>2, <2>4
<1> QED BY <1>7

\* The first steps of the walks from a record, and what the walks have at one
\* more step.
OneStepWalks(i, links)   == {<<i, e.to>> : e \in {e \in links : e.from = i}}
Further(ws, links) ==
  {Append(x[1], x[2].to) : x \in {x \in ws \X links : x[2].from = x[1][Len(x[1])] /\ Fresh(x[1], x[2])}}

WalksTo(W, n, i, links) ==
  W = [d \in 1..n |-> IF d = 1 THEN OneStepWalks(i, links) ELSE W[d-1] \cup Further(W[d-1], links)]
Walks(i, links) == CHOOSE W : WalksTo(W, Depth, i, links)

\* Lineage is made of them.
LEMMA LineageWalks ==
  ASSUME NEW i, NEW links
  PROVE  Lineage(i, links) = {walk[Len(walk)] : walk \in Walks(i, links)[Depth]}
BY DEF Lineage, Walks, WalksTo, OneStepWalks, Further

\* They exist.
LEMMA WalksExist ==
  ASSUME Depth \in Nat \ {0}, NEW i, NEW links PROVE WalksTo(Walks(i, links), Depth, i, links)
<1>1. PICK B : B = {n \in 1..Depth : ~ \E W : WalksTo(W, n, i, links)}
  OBVIOUS
<1>2. B = {}
  <2>1. SUFFICES ASSUME B # {} PROVE FALSE
    OBVIOUS
  <2>2. PICK b \in B : \A c \in B : b <= c
    BY <1>1, <2>1, FirstStep
  <2>3. b \in 1..Depth /\ ~ \E W : WalksTo(W, b, i, links)
    BY <1>1, <2>2
  <2>4. CASE b = 1
    <3>1. PICK W : W = [d \in 1..1 |-> OneStepWalks(i, links)]
      OBVIOUS
    <3>2. WalksTo(W, 1, i, links)
      BY <3>1 DEF WalksTo
    <3> QED BY <2>3, <2>4, <3>2
  <2>5. CASE b # 1
    <3>1. PICK a : a = b - 1 /\ a \in 1..Depth /\ a < b
      BY <2>3, <2>5
    <3>2. PICK V : WalksTo(V, a, i, links)
      BY <1>1, <2>2, <3>1
    <3>3. PICK W : W = [d \in 1..b |-> IF d = b THEN V[a] \cup Further(V[a], links) ELSE V[d]]
      OBVIOUS
    <3>4. \A d \in 1..a : V[d] = IF d = 1 THEN OneStepWalks(i, links) ELSE V[d-1] \cup Further(V[d-1], links)
      BY <3>2 DEF WalksTo
    <3>5. ASSUME NEW d \in 1..b
          PROVE  W[d] = IF d = 1 THEN OneStepWalks(i, links) ELSE W[d-1] \cup Further(W[d-1], links)
      <4>1. CASE d = b
        <5>1. W[d] = V[a] \cup Further(V[a], links) /\ W[d-1] = V[a] /\ d # 1
          BY <2>3, <2>5, <3>1, <3>3, <4>1
        <5> QED BY <5>1
      <4>2. CASE d # b
        <5>1. d \in 1..a /\ W[d] = V[d] /\ (d # 1 => W[d-1] = V[d-1])
          BY <2>3, <3>1, <3>3, <4>2
        <5> QED BY <3>4, <5>1
      <4> QED BY <4>1, <4>2
    <3>6. WalksTo(W, b, i, links)
      <4>1. PICK G : G = [d \in 1..b |-> IF d = 1 THEN OneStepWalks(i, links)
                                        ELSE W[d-1] \cup Further(W[d-1], links)]
        OBVIOUS
      <4>2. W = [d \in 1..b |-> W[d]] /\ G = [d \in 1..b |-> G[d]]
        BY <3>3, <4>1
      <4>3. \A d \in 1..b : W[d] = G[d]
        BY <3>5, <4>1
      <4>4. W = G
        BY <4>2, <4>3
      <4> QED BY <4>1, <4>4 DEF WalksTo
    <3> QED BY <2>3, <3>6
  <2> QED BY <2>4, <2>5
<1>3. \E W : WalksTo(W, Depth, i, links)
  BY <1>1, <1>2
<1> QED BY <1>3 DEF Walks

Ends(ws)       == {x[Len(x)] : x \in ws}
Reach(W, d, i) == {i} \cup Ends(W[d])
Closed(S, links) == \A e \in links : e.from \in S => e.to \in S

\* From one step to the next.
LEMMA WalkSteps ==
  ASSUME Depth \in Nat \ {0}, NEW i, NEW links, NEW W, WalksTo(W, Depth, i, links)
  PROVE  /\ W[1] = OneStepWalks(i, links)
         /\ \A d \in 1..Depth : d # 1 => d - 1 \in 1..Depth /\ W[d] = W[d-1] \cup Further(W[d-1], links)
<1>1. \A d \in 1..Depth : W[d] = IF d = 1 THEN OneStepWalks(i, links) ELSE W[d-1] \cup Further(W[d-1], links)
  BY DEF WalksTo
<1>2. 1 \in 1..Depth /\ \A d \in 1..Depth : d # 1 => d - 1 \in 1..Depth
  OBVIOUS
<1> QED BY <1>1, <1>2

\* No walk is lost.
LEMMA WalksGrow ==
  ASSUME Depth \in Nat \ {0}, NEW i, NEW links, NEW W, WalksTo(W, Depth, i, links)
  PROVE  \A n \in 1..Depth : W[1] \subseteq W[n]
<1>1. PICK B : B = {n \in 1..Depth : ~(W[1] \subseteq W[n])}
  OBVIOUS
<1>2. B = {}
  <2>1. SUFFICES ASSUME B # {} PROVE FALSE
    OBVIOUS
  <2>2. PICK b \in B : \A c \in B : b <= c
    BY <1>1, <2>1, FirstStep
  <2>3. b \in 1..Depth /\ b # 1
    BY <1>1, <2>2
  <2>4. b - 1 \in 1..Depth /\ W[b] = W[b-1] \cup Further(W[b-1], links) /\ ~(b <= b - 1)
    BY <2>3, WalkSteps
  <2>5. W[1] \subseteq W[b-1]
    BY <1>1, <2>2, <2>4
  <2> QED BY <1>1, <2>2, <2>4, <2>5
<1> QED BY <1>1, <1>2

\* A walk goes over records, each of which a walk ends in or all begin at.
Walking(W, d, i, D) ==
  \A x \in W[d] : x \in Seq(D) /\ Len(x) # 0 /\ \A k \in DOMAIN x : x[k] \in Reach(W, d, i)

\* So every walk does.
LEMMA WalksGoOverRecords ==
  ASSUME Depth \in Nat \ {0}, NEW D, NEW i \in D, NEW links, \A e \in links : e.from \in D /\ e.to \in D,
         NEW W, WalksTo(W, Depth, i, links), NEW d \in 1..Depth
  PROVE  Walking(W, d, i, D)
<1>0. /\ W[1] = OneStepWalks(i, links)
      /\ \A n \in 1..Depth : n # 1 => n - 1 \in 1..Depth /\ W[n] = W[n-1] \cup Further(W[n-1], links)
  BY WalkSteps
<1>1. PICK B : B = {n \in 1..Depth : ~Walking(W, n, i, D)}
  OBVIOUS
<1>2. B = {}
  <2>1. SUFFICES ASSUME B # {} PROVE FALSE
    OBVIOUS
  <2>2. PICK b \in B : \A c \in B : b <= c
    BY <1>1, <2>1, FirstStep
  <2>3. b \in 1..Depth /\ ~Walking(W, b, i, D)
    BY <1>1, <2>2
  <2>4. CASE b = 1
    <3>1. ASSUME NEW x \in W[1] PROVE x \in Seq(D) /\ Len(x) # 0 /\ \A k \in DOMAIN x : x[k] \in Reach(W, 1, i)
      <4>1. PICK e \in links : e.from = i /\ x = <<i, e.to>>
        BY <1>0, <3>1 DEF OneStepWalks
      <4>2. x \in Seq(D) /\ Len(x) = 2 /\ DOMAIN x = 1..2 /\ x[1] = i /\ x[2] = e.to
        BY <4>1
      <4>3. x[2] \in Ends(W[1])
        BY <3>1, <4>2 DEF Ends
      <4> QED BY <4>2, <4>3 DEF Reach
    <3> QED BY <2>3, <2>4, <3>1 DEF Walking
  <2>5. CASE b # 1
    <3>1. PICK a : a = b - 1 /\ a \in 1..Depth /\ a < b
      BY <2>3, <2>5
    <3>2. Walking(W, a, i, D)
      BY <1>1, <2>2, <3>1
    <3>3. W[b] = W[a] \cup Further(W[a], links)
      BY <1>0, <2>3, <2>5, <3>1
    <3>4. Reach(W, a, i) \subseteq Reach(W, b, i)
      BY <3>3 DEF Reach, Ends
    <3>5. ASSUME NEW x \in W[b] PROVE x \in Seq(D) /\ Len(x) # 0 /\ \A k \in DOMAIN x : x[k] \in Reach(W, b, i)
      <4>1. CASE x \in W[a]
        BY <3>2, <3>4, <4>1 DEF Walking
      <4>2. CASE x \notin W[a]
        <5>1. PICK w \in W[a], e \in links : x = Append(w, e.to)
          <6>1. x \in Further(W[a], links)
            BY <3>3, <3>5, <4>2
          <6> QED BY <6>1 DEF Further
        <5>2. w \in Seq(D) /\ e.to \in D /\ \A k \in DOMAIN w : w[k] \in Reach(W, a, i)
          BY <3>2 DEF Walking
        <5>3. /\ x \in Seq(D) /\ Len(x) = Len(w) + 1 /\ Len(w) \in Nat /\ DOMAIN x = DOMAIN w \cup {Len(x)}
              /\ x[Len(x)] = e.to /\ \A k \in DOMAIN w : x[k] = w[k]
          BY <5>1, <5>2
        <5>4. x[Len(x)] \in Reach(W, b, i)
          BY <3>5 DEF Reach, Ends
        <5> QED BY <3>4, <5>2, <5>3, <5>4
      <4> QED BY <4>1, <4>2
    <3> QED BY <2>3, <3>5 DEF Walking
  <2> QED BY <2>4, <2>5
<1> QED BY <1>1, <1>2

\* What the links never leave from the first record on, no walk leaves.
LEMMA WalksStayInside ==
  ASSUME Depth \in Nat \ {0}, NEW D, NEW i \in D, NEW links, \A e \in links : e.from \in D /\ e.to \in D,
         NEW W, WalksTo(W, Depth, i, links), NEW S,
         \A e \in links : e.from \in S \cup {i} => e.to \in S, NEW d \in 1..Depth
  PROVE  Ends(W[d]) \subseteq S
<1>0. /\ W[1] = OneStepWalks(i, links)
      /\ \A n \in 1..Depth : n # 1 => n - 1 \in 1..Depth /\ W[n] = W[n-1] \cup Further(W[n-1], links)
  BY WalkSteps
<1>1. PICK B : B = {n \in 1..Depth : ~(\A x \in W[n] : x[Len(x)] \in S)}
  OBVIOUS
<1>2. B = {}
  <2>1. SUFFICES ASSUME B # {} PROVE FALSE
    OBVIOUS
  <2>2. PICK b \in B : \A c \in B : b <= c
    BY <1>1, <2>1, FirstStep
  <2>3. PICK x \in W[b] : x[Len(x)] \notin S
    BY <1>1, <2>2
  <2>4. CASE b = 1
    <3>1. PICK e \in links : e.from = i /\ x = <<i, e.to>>
      BY <1>0, <2>3, <2>4 DEF OneStepWalks
    <3>2. x[Len(x)] = e.to
      BY <3>1
    <3> QED BY <2>3, <3>1, <3>2
  <2>5. CASE b # 1
    <3>1. PICK a : a = b - 1 /\ a \in 1..Depth /\ a < b
      BY <1>1, <2>2, <2>5
    <3>2. \A w \in W[a] : w[Len(w)] \in S
      BY <1>1, <2>2, <3>1
    <3>3. W[b] = W[a] \cup Further(W[a], links)
      BY <1>0, <1>1, <2>2, <2>5, <3>1
    <3>4. PICK w \in W[a], e \in links : x = Append(w, e.to) /\ e.from = w[Len(w)]
      <4>1. x \in Further(W[a], links)
        BY <2>3, <3>2, <3>3
      <4> QED BY <4>1 DEF Further
    <3>5. e.to \in S
      BY <3>2, <3>4
    <3>6. w \in Seq(D)
      BY <3>1, <3>4, WalksGoOverRecords DEF Walking
    <3>7. x[Len(x)] = e.to
      BY <3>4, <3>6
    <3> QED BY <2>3, <3>5, <3>7
  <2> QED BY <2>4, <2>5
<1> QED BY <1>1, <1>2 DEF Ends

\* Each step that has not reached all there is reaches one record more.
LEMMA WalksReachMore ==
  ASSUME Depth \in Nat \ {0}, NEW D, NEW i \in D, NEW links, \A e \in links : e.from \in D /\ e.to \in D,
         IsFiniteSet(D), NEW W, WalksTo(W, Depth, i, links), NEW d \in 1..Depth
  PROVE  /\ Reach(W, d, i) \subseteq D
         /\ Closed(Reach(W, d, i), links) \/ Cardinality(Reach(W, d, i)) >= d + 1
<1>0. /\ W[1] = OneStepWalks(i, links)
      /\ \A n \in 1..Depth : n # 1 => n - 1 \in 1..Depth /\ W[n] = W[n-1] \cup Further(W[n-1], links)
  BY WalkSteps
<1>1. \A n \in 1..Depth : Walking(W, n, i, D)
  BY WalksGoOverRecords
<1>2. ASSUME NEW n \in 1..Depth
      PROVE  Reach(W, n, i) \subseteq D /\ IsFiniteSet(Reach(W, n, i)) /\ Cardinality(Reach(W, n, i)) \in Nat
  <2>1. Ends(W[n]) \subseteq D
    <3>1. ASSUME NEW x \in W[n] PROVE x[Len(x)] \in D
      <4>1. x \in Seq(D) /\ Len(x) # 0
        BY <1>1 DEF Walking
      <4> QED BY <4>1
    <3> QED BY <3>1 DEF Ends
  <2>2. Reach(W, n, i) \subseteq D
    BY <2>1 DEF Reach
  <2> QED BY <2>2, FS_Subset, FS_CardinalityType
<1>3. PICK B : B = {n \in 1..Depth : ~(Closed(Reach(W, n, i), links) \/ Cardinality(Reach(W, n, i)) >= n + 1)}
  OBVIOUS
<1>4. B = {}
  <2>1. SUFFICES ASSUME B # {} PROVE FALSE
    OBVIOUS
  <2>2. PICK b \in B : \A c \in B : b <= c
    BY <1>3, <2>1, FirstStep
  <2>3. PICK R : R = Reach(W, b, i)
    OBVIOUS
  <2>4. /\ b \in 1..Depth /\ ~Closed(R, links) /\ ~(Cardinality(R) >= b + 1)
        /\ IsFiniteSet(R) /\ Cardinality(R) \in Nat
    BY <1>2, <1>3, <2>2, <2>3
  <2>5. PICK e \in links : e.from \in R /\ e.to \notin R
    BY <2>4 DEF Closed
  <2>6. CASE b = 1
    <3>1. \A f \in links : f.from = i => f.to \in R
      <4>1. ASSUME NEW f \in links, f.from = i PROVE f.to \in R
        <5>1. PICK x : x = <<i, f.to>>
          OBVIOUS
        <5>2. x \in W[1] /\ x[Len(x)] = f.to
          BY <1>0, <4>1, <5>1 DEF OneStepWalks
        <5> QED BY <2>3, <2>6, <5>2 DEF Reach, Ends
      <4> QED BY <4>1
    <3>2. e.from # i
      BY <2>5, <3>1
    <3>3. PICK x : x = e.from /\ x \in R /\ i \in R /\ x # i
      BY <2>3, <2>5, <3>2 DEF Reach
    <3>4. {i, x} \subseteq R /\ Cardinality({i, x}) = 2 /\ IsFiniteSet({i, x})
      <4>1. IsFiniteSet({i}) /\ Cardinality({i}) = 1
        BY FS_Singleton
      <4>2. {i, x} = {i} \cup {x} /\ x \notin {i}
        BY <3>3
      <4>3. IsFiniteSet({i} \cup {x}) /\ Cardinality({i} \cup {x}) = 2
        <5>1. PICK T : T = {i}
          OBVIOUS
        <5>2. IsFiniteSet(T) /\ Cardinality(T) = 1 /\ x \notin T
          BY <4>1, <4>2, <5>1
        <5>3. IsFiniteSet(T \cup {x}) /\ Cardinality(T \cup {x}) = Cardinality(T) + 1
          BY <5>2, FS_AddElement
        <5> QED BY <5>1, <5>2, <5>3
      <4> QED BY <3>3, <4>2, <4>3
    <3>5. Cardinality(R) >= 2
      BY <2>4, <3>4, FS_Subset
    <3> QED BY <2>4, <2>6, <3>5
  <2>7. CASE b # 1
    <3>1. PICK a : a = b - 1 /\ a \in 1..Depth /\ a < b
      BY <2>4, <2>7
    <3>2. PICK Q : Q = Reach(W, a, i)
      OBVIOUS
    <3>3. W[b] = W[a] \cup Further(W[a], links)
      BY <1>0, <2>4, <2>7, <3>1
    <3>4. Q \subseteq R
      BY <2>3, <3>2, <3>3 DEF Reach, Ends
    <3>5. CASE Closed(Q, links)
      <4>1. \A f \in links : f.from \in Q \cup {i} => f.to \in Q
        BY <3>2, <3>5 DEF Closed, Reach
      <4>2. Ends(W[b]) \subseteq Q
        BY <2>4, <4>1, WalksStayInside
      <4>3. R = Q
        BY <2>3, <3>2, <3>4, <4>2 DEF Reach
      <4> QED BY <2>4, <3>5, <4>3
    <3>6. CASE ~Closed(Q, links)
      <4>1. PICK f \in links : f.from \in Q /\ f.to \notin Q
        BY <3>6 DEF Closed
      <4>2. Cardinality(Q) >= a + 1 /\ Cardinality(Q) \in Nat /\ IsFiniteSet(Q)
        BY <1>2, <1>3, <2>2, <3>1, <3>2, <3>6
      <4>3. f.to \in R
        <5>1. CASE f.from = i
          <6>1. <<i, f.to>> \in W[1] /\ 1 \in 1..Depth
            BY <1>0, <5>1 DEF OneStepWalks
          <6>2. i \in Q
            BY <3>2 DEF Reach
          <6>3. \A n \in 1..Depth : W[1] \subseteq W[n]
            BY WalksGrow
          <6>4. PICK x : x = <<i, f.to>>
            OBVIOUS
          <6>5. x \in W[b] /\ x[Len(x)] = f.to
            BY <2>4, <6>1, <6>3, <6>4
          <6> QED BY <2>3, <6>5 DEF Reach, Ends
        <5>2. CASE f.from # i
          <6>1. PICK w \in W[a] : f.from = w[Len(w)]
            BY <3>2, <4>1, <5>2 DEF Reach, Ends
          <6>2. w \in Seq(D) /\ \A k \in DOMAIN w : w[k] \in Q
            BY <1>1, <3>1, <3>2 DEF Walking
          <6>3. Fresh(w, f)
            BY <4>1, <6>2 DEF Fresh
          <6>4. PICK x : x = Append(w, f.to)
            OBVIOUS
          <6>5. x[Len(x)] = f.to
            BY <6>2, <6>4
          <6>6. x \in Further(W[a], links)
            <7>1. PICK pair : pair = <<w, f>>
              OBVIOUS
            <7>2. pair \in W[a] \X links /\ pair[1] = w /\ pair[2] = f
              BY <6>1, <7>1
            <7> QED BY <6>1, <6>3, <6>4, <7>2 DEF Further
          <6> QED BY <2>3, <3>3, <6>5, <6>6 DEF Reach, Ends
        <5> QED BY <5>1, <5>2
      <4>4. Q \cup {f.to} \subseteq R /\ Cardinality(Q \cup {f.to}) = Cardinality(Q) + 1
        BY <3>4, <4>1, <4>2, <4>3, FS_AddElement
      <4>5. Cardinality(R) >= Cardinality(Q) + 1
        BY <2>4, <4>4, FS_Subset
      <4> QED BY <2>4, <3>1, <4>2, <4>5
    <3> QED BY <3>5, <3>6
  <2> QED BY <2>6, <2>7
<1> QED BY <1>2, <1>3, <1>4

\* Walks that visit no record twice reach what the links lead to, when they may
\* visit every record there is.
LEMMA WalksReachAll ==
  ASSUME Depth \in Nat \ {0}, NEW D, NEW i \in D, NEW links, \A e \in links : e.from \in D /\ e.to \in D,
         IsFiniteSet(D), Cardinality(D) <= Depth + 1
  PROVE  Lineage(i, links) \ {i} =
           {j \in D : \A S \in SUBSET D : (\A e \in links : e.from \in S \cup {i} => e.to \in S) => j \in S} \ {i}
<1>1. PICK W : W = Walks(i, links)
  OBVIOUS
<1>2. WalksTo(W, Depth, i, links) /\ Depth \in 1..Depth
  BY <1>1, WalksExist
<1>3. PICK R : R = Reach(W, Depth, i)
  OBVIOUS
<1>4. Lineage(i, links) = Ends(W[Depth])
  BY <1>1, LineageWalks DEF Ends
<1>5. R \subseteq D /\ Closed(R, links)
  <2>1. R \subseteq D /\ (Closed(R, links) \/ Cardinality(R) >= Depth + 1)
    BY <1>2, <1>3, WalksReachMore
  <2>2. CASE Cardinality(R) >= Depth + 1
    <3>1. Cardinality(R) <= Cardinality(D) /\ Cardinality(R) \in Nat /\ Cardinality(D) \in Nat
      BY <2>1, FS_Subset, FS_CardinalityType
    <3>2. Cardinality(R) = Cardinality(D)
      BY <2>2, <3>1
    <3>3. R = D
      BY <2>1, <3>2, FS_Subset
    <3> QED BY <2>1, <3>3 DEF Closed
  <2> QED BY <2>1, <2>2
<1>6. ASSUME NEW j \in Lineage(i, links), NEW S \in SUBSET D,
             \A e \in links : e.from \in S \cup {i} => e.to \in S
      PROVE  j \in S
  <2>1. Ends(W[Depth]) \subseteq S
    <3>1. \A e \in links : e.from \in S \cup {i} => e.to \in S
      BY <1>6
    <3>2. PICK n \in 1..Depth : n = Depth
      BY <1>2
    <3>3. Ends(W[n]) \subseteq S
      BY <1>2, <3>1, WalksStayInside
    <3> QED BY <3>2, <3>3
  <2> QED BY <1>4, <1>6, <2>1
<1>7. Lineage(i, links) \subseteq D
  BY <1>3, <1>4, <1>5 DEF Reach
<1>8. ASSUME NEW j \in D, j # i,
             \A S \in SUBSET D : (\A e \in links : e.from \in S \cup {i} => e.to \in S) => j \in S
      PROVE  j \in Lineage(i, links)
  <2>1. i \in R
    BY <1>3 DEF Reach
  <2>2. \A e \in links : e.from \in R \cup {i} => e.to \in R
    BY <1>5, <2>1 DEF Closed
  <2>3. j \in R
    BY <1>5, <1>8, <2>2
  <2> QED BY <1>3, <1>4, <1>8, <2>3 DEF Reach
<1> QED BY <1>6, <1>7, <1>8

\* No more records than there may be, and links between records that are there.
LinksInv ==
  /\ Len(records) <= MaxRecords
  /\ \A e \in edges : e.from \in DOMAIN records /\ e.to \in DOMAIN records

\* One record more.
LEMMA LinksFile ==
  ASSUME RecordsInv, LinksInv, Len(records) < MaxRecords, UNCHANGED edges,
         UNCHANGED records \/ \E row : records' = Append(records, row)
  PROVE  LinksInv'
<1>1. PICK S : records \in Seq(S)
  BY DEF RecordsInv
<1>2. ASSUME NEW row, records' = Append(records, row) PROVE LinksInv'
  <2>1. Len(records') = Len(records) + 1 /\ Len(records) \in Nat /\ DOMAIN records \subseteq DOMAIN records'
    BY <1>1, <1>2
  <2> QED BY <2>1, ArchiveAssumption DEF LinksInv
<1> QED BY <1>2 DEF LinksInv

\* A link more, or fewer.
LEMMA LinksChange ==
  ASSUME LinksInv, UNCHANGED records,
         \A e \in edges' : e \in edges \/ (e.from \in DOMAIN records /\ e.to \in DOMAIN records)
  PROVE  LinksInv'
BY DEF LinksInv

\* Whoever files or links.
LEMMA LinksStep == MemoryInv /\ ChainInv /\ LinksInv /\ [MemoryNext]_memoryVars => LinksInv'
<1> SUFFICES ASSUME MemoryInv, ChainInv, LinksInv, [MemoryNext]_memoryVars PROVE LinksInv'
  OBVIOUS
<1>0. RecordsInv /\ Clerks \subseteq Subscriptions
  BY MemoryAssumption DEF MemoryInv
<1>1. ASSUME UNCHANGED <<records, edges>> PROVE LinksInv'
  BY <1>1, LinksChange
<1>2. ASSUME NEW s \in Clerks, Clerk(s) PROVE LinksInv'
  <2>1. CASE FileEvent(s)
    BY <1>0, <2>1, LinksFile DEF FileEvent, Filing
  <2>2. CASE FileImpact(s)
    BY <1>0, <2>2, LinksFile DEF FileImpact, Filing
  <2>3. CASE Tie(s)
    <3>1. PICK e : e = Edge(task[s].event)
      OBVIOUS
    <3>2. /\ UNCHANGED records
          /\ edges' = IF Held(e.from)
               THEN edges \cup {[from |-> RecordOf(e.from), to |-> RecordOf(e.to), relation |-> e.relation]}
               ELSE edges
      BY <2>3, <3>1 DEF Tie
    <3>3. Held(e.to)
      BY <1>0, <2>3, <3>1 DEF ChainInv, TiesAreFiled, Tie, Handling
    <3>4. \A ref : Held(ref) => RecordOf(ref) \in DOMAIN records
      BY DEF Held, RecordOf
    <3> QED BY <3>2, <3>3, <3>4, LinksChange
  <2>4. CASE Ingest(s) \/ IngestEnds(s) \/ LoseIngest(s)
    BY <1>1, <2>4 DEF Ingest, IngestEnds, LoseIngest, archRows
  <2> QED BY <1>2, <2>1, <2>2, <2>3, <2>4 DEF Clerk
<1>3. CASE Shelves
  <2>1. ASSUME NEW ref \in FiledRefs, FileRecord(ref) PROVE LinksInv'
    BY <1>0, <2>1, LinksFile DEF FileRecord, Filing
  <2>2. ASSUME NEW h \in Hands, Librarian(h) PROVE LinksInv'
    <3>1. CASE Correct(h)
      BY <1>0, <3>1, LinksFile DEF Correct, Filing
    <3>2. CASE ~Correct(h)
      BY <1>1, <2>2, <3>2 DEF Librarian, BeginCorrection, archRows
    <3> QED BY <3>1, <3>2
  <2>3. ASSUME NEW i \in DOMAIN records, NEW j \in DOMAIN records, NEW r, CreateLink(i, j, r) PROVE LinksInv'
    BY <2>3, LinksChange DEF CreateLink
  <2>4. ASSUME NEW edge \in edges, DeleteLink(edge) PROVE LinksInv'
    BY <2>4, LinksChange DEF DeleteLink
  <2> QED BY <1>3, <2>1, <2>2, <2>3, <2>4 DEF Shelves
<1>4. CASE Deliberate \/ Undertake \/ KeepCalendar \/ UNCHANGED memoryVars
  BY <1>1, <1>4 DEF Deliberate, Undertake, KeepCalendar, memoryVars, memoryRows, archRows
<1> QED BY <1>2, <1>3, <1>4 DEF MemoryNext, KeepRecords

\* A lineage may visit every record there is.
WalkedOut == MaxRecords <= Depth + 1

\* ArchiveAnswers: the chain is complete, and a walk of its links, round every
\* cycle that people have drawn, reaches each record they lead to, up and down.
THEOREM ArchiveStaysAnswering == ASSUME WalkedOut PROVE MemorySpec => []ArchiveAnswers
<1>1. MemoryInit => ChainInv /\ LinksInv
  <2>1. MemoryInit => LinksInv
    BY ArchiveAssumption DEF MemoryInit, ArchInit, LinksInv
  <2> QED BY <2>1, ChainStarts
<1>2. MemoryInv /\ ChainInv /\ LinksInv /\ [MemoryNext]_memoryVars => (ChainInv /\ LinksInv)'
  BY ChainStep, LinksStep
<1>3. MemoryInv /\ ChainInv /\ LinksInv => ArchiveAnswers
  <2> SUFFICES ASSUME MemoryInv, ChainInv, LinksInv PROVE ArchiveAnswers
    OBVIOUS
  <2>1. PICK D : D = DOMAIN records
    OBVIOUS
  <2>2. IsFiniteSet(D) /\ Cardinality(D) <= Depth + 1
    <3>1. PICK n : n = Len(records)
      OBVIOUS
    <3>2. D = 1..n /\ n \in Nat /\ n <= MaxRecords
      BY <2>1, <3>1 DEF MemoryInv, RecordsInv, LinksInv
    <3>3. IsFiniteSet(1..n) /\ Cardinality(1..n) = n
      BY <3>2, FS_Interval
    <3> QED BY <3>2, <3>3, ArchiveAssumption DEF WalkedOut
  <2>3. ASSUME NEW i \in D, NEW links, \A e \in links : e.from \in D /\ e.to \in D
        PROVE  Lineage(i, links) \ {i} = Led(i, links) \ {i}
    BY <2>1, <2>2, <2>3, WalksReachAll, ArchiveAssumption DEF Led
  <2>4. \A e \in edges : e.from \in D /\ e.to \in D
    BY <2>1 DEF LinksInv
  <2>5. PICK up : up = {Upstream(e) : e \in edges}
    OBVIOUS
  <2>6. \A e \in up : e.from \in D /\ e.to \in D
    BY <2>4, <2>5 DEF Upstream
  <2>7. LineageReachesAll
    BY <2>1, <2>3, <2>4, <2>5, <2>6 DEF LineageReachesAll
  <2> QED BY <2>7 DEF ChainInv, ArchiveAnswers
<1> QED BY <1>1, <1>2, <1>3, MemoryInvariant, PTL DEF MemorySpec
=============================================================================
