------------------------------ MODULE Archive ------------------------------
(***************************************************************************)
(* The troop's record (plugins/archive/src/lib.rs): append-only records,   *)
(* corrections that supersede without editing, the graph of links, and the *)
(* ingestion of governance's and missions' events into both.               *)
(*                                                                         *)
(* An ingestion files a record, which its source_ref makes idempotent, and *)
(* draws the edge to its parent in a statement of its own, which nothing   *)
(* repeats: a redelivered event finds the record and stops.                *)
(***************************************************************************)
EXTENDS BusReaders

CONSTANTS
  FiledRefs,     \* idempotency keys people file records under
  Depth,         \* how far a lineage is walked
  MaxRecords     \* bound

VARIABLES
  records,   \* archive.records, in id order; nothing deletes or updates a row
  edges,     \* archive.links
  broken     \* history: source_refs whose edge an ended handler or a clerk took

archRows == <<records, edges>>
archVars == <<archRows, broken, readerVars, hostVars>>

NoRef == <<"none">>

\* A reference is a kind of record and what it is of; a version of the Accords has a number.
ASSUME ArchiveAssumption ==
  /\ Depth \in Nat \ {0} /\ MaxRecords \in Nat
  /\ \A ref \in FiledRefs \ {NoRef} :
       ref = <<ref[1], ref[2]>> /\ (ref[1] = "accords" => ref[2] \in Nat)

ArchInit == ReadersInit /\ records = <<>> /\ edges = {} /\ broken = {}

Held(ref)   == \E i \in DOMAIN records : records[i].ref = ref
RecordOf(ref) == CHOOSE i \in DOMAIN records : records[i].ref = ref
Superseders(i) == {j \in DOMAIN records : records[j].supersedes = i}

\* insert_record's row; supersedes 0 is NULL.
Filing(kind, ref, outcome, supersedes) ==
  Append(records, [kind |-> kind, ref |-> ref, outcome |-> outcome, supersedes |-> supersedes])

-----------------------------------------------------------------------------
(* What people file, correct and link.                                     *)

\* file_record: a reference that is held is answered with a conflict.
FileRecord(ref) ==
  /\ Len(records) < MaxRecords /\ AskOnce /\ Silent
  /\ records' = IF ref # NoRef /\ Held(ref) THEN records ELSE Filing("minutes", ref, "", 0)
  /\ UNCHANGED <<edges, broken, readerVars>>

\* supersede_record asks who corrected the record already ...
BeginCorrection(h, i) ==
  /\ Superseders(i) = {} /\ Ask(h, [at |-> "correct", of |-> i]) /\ Silent
  /\ UNCHANGED <<archRows, broken, readerVars>>

\* ... and files the correction, under no reference, whoever did since.
Correct(h) ==
  /\ Doing(h, "correct") /\ Len(records) < MaxRecords /\ Silent
  /\ records' = Filing("correction", NoRef, records[hand[h].of].outcome, hand[h].of)
  /\ Answer(h) /\ UNCHANGED <<edges, broken, readerVars>>

\* An edge between two records that exist, drawn twice or not.
CreateLink(i, j, relation) ==
  /\ i # j /\ AskOnce /\ Silent
  /\ edges' = edges \cup {[from |-> i, to |-> j, relation |-> relation]}
  /\ UNCHANGED <<records, broken, readerVars>>

DeleteLink(edge) ==
  /\ AskOnce /\ Silent
  /\ edges' = edges \ {edge} /\ broken' = broken \cup {records[edge.to].ref}
  /\ UNCHANGED <<records, readerVars>>

-----------------------------------------------------------------------------
(* Ingestion: what each event files, and which edge it then draws.         *)

Filed(event) ==
  CASE event.type = "motion.proposed"   -> <<"motion", event.motion>>
    [] event.type = "motion.outcome"    -> <<"outcome", event.motion>>
    [] event.type = "accords.adopted"   -> <<"accords", event.version>>
    [] event.type = "mission.completed" -> <<"report", event.mission>>

\* Mutant: a decision is filed as its passage.
OutcomeOfDecisions(event) ==
  CASE event.type = "motion.outcome"    -> "passed"
    [] event.type = "mission.completed" -> IF event.impact THEN "impact" ELSE ""
    [] OTHER                            -> ""

\* What the record says of it: the decision's result, whether there was an impact.
Outcome(event) ==
  CASE event.type = "motion.outcome"    -> event.result
    [] event.type = "mission.completed" -> IF event.impact THEN "impact" ELSE ""
    [] OTHER                            -> ""

\* The edge's parent, its child and its relation.
Edge(event) ==
  CASE event.type = "motion.outcome" ->
         [from |-> <<"motion", event.motion>>, to |-> Filed(event), relation |-> "outcome"]
    [] event.type = "accords.adopted" ->
         [from |-> <<"accords", event.version - 1>>, to |-> Filed(event), relation |-> "amends"]
    [] event.type = "mission.completed" ->
         [from |-> Filed(event), to |-> <<"impact", event.mission>>, relation |-> "produces"]

\* After the record: the impact of a mission that has one, an edge, or nothing.
After(event) ==
  CASE event.type = "mission.completed" -> IF event.impact THEN "impact" ELSE "done"
    [] event.type = "motion.proposed"   -> "done"
    [] OTHER                            -> "tie"

Topic(s) ==
  CASE s = "motion."  -> {"motion.proposed", "motion.outcome"}
    [] s = "accords." -> {"accords.adopted"}
    [] s = "mission." -> {"mission.completed"}
    [] OTHER          -> {}

Ingest(s) ==
  Receive(s, Topic(s), "file") /\ UNCHANGED <<archRows, broken, hostVars>>

\* ON CONFLICT (source_ref) DO NOTHING: what is filed already ends the handler.
FileEvent(s) ==
  LET event == task[s].event
  IN /\ Handling(s, "file") /\ Len(records) < MaxRecords
     /\ IF Held(Filed(event)) THEN Handled(s) /\ UNCHANGED records
        ELSE /\ records' = Filing("ingested", Filed(event), Outcome(event), 0)
             /\ IF After(event) = "done" THEN Handled(s) ELSE Onward(s, After(event))
     /\ UNCHANGED <<edges, broken, hostVars>>

\* Mutant: an impact that is filed already ends the handler, as a record does.
FileImpactOnce(s) ==
  LET ref == Edge(task[s].event).to
  IN /\ Handling(s, "impact") /\ Len(records) < MaxRecords
     /\ IF Held(ref) THEN Handled(s) /\ UNCHANGED records
                     ELSE Onward(s, "tie") /\ records' = Filing("ingested", ref, "", 0)
     /\ UNCHANGED <<edges, broken, hostVars>>

\* The impact is a record of its own; one that is there is used.
FileImpact(s) ==
  LET ref == Edge(task[s].event).to
  IN /\ Handling(s, "impact") /\ Len(records) < MaxRecords
     /\ records' = IF Held(ref) THEN records ELSE Filing("ingested", ref, "", 0)
     /\ Onward(s, "tie") /\ UNCHANGED <<edges, broken, hostVars>>

\* link_by_source_ref: a missing parent is a missing edge.
Tie(s) ==
  LET e == Edge(task[s].event)
  IN /\ Handling(s, "tie") /\ Handled(s)
     /\ edges' = IF Held(e.from)
          THEN edges \cup {[from |-> RecordOf(e.from), to |-> RecordOf(e.to),
                            relation |-> e.relation]}
          ELSE edges
     /\ UNCHANGED <<records, broken, hostVars>>

\* A statement fails, or the task is aborted: no later delivery draws the edge.
IngestEnds(s) ==
  /\ task[s] # Idle /\ (Handled(s) \/ Rebound(s))
  /\ broken' = IF Handling(s, "tie") \/ Handling(s, "impact")
                 THEN broken \cup {Edge(task[s].event).to} ELSE broken
  /\ UNCHANGED <<archRows, hostVars>>

LoseIngest(s) == Miss(s) /\ UNCHANGED <<archRows, broken, hostVars>>

-----------------------------------------------------------------------------
(* The lineage of a record: the walks away from it that visit no record     *)
(* twice, as the recursive query builds them.                               *)

Upstream(e)   == [from |-> e.to, to |-> e.from]

Fresh(walk, e) == \A k \in DOMAIN walk : walk[k] # e.to

Lineage(i, links) ==
  LET W[d \in 1..Depth] ==
        IF d = 1 THEN {<<i, e.to>> : e \in {e \in links : e.from = i}}
        ELSE W[d-1] \cup
             {Append(x[1], x[2].to) : x \in {x \in W[d-1] \X links :
                x[2].from = x[1][Len(x[1])] /\ Fresh(x[1], x[2])}}
  IN {walk[Len(walk)] : walk \in W[Depth]}

-----------------------------------------------------------------------------
Librarian(h) ==
  \/ \E i \in DOMAIN records : BeginCorrection(h, i)
  \/ Correct(h)
  \/ Doing(h, "correct") /\ Answer(h) /\ Silent /\ UNCHANGED <<archRows, broken, readerVars>>

Shelves ==
  \/ \E ref \in FiledRefs : FileRecord(ref)
  \/ \E i, j \in DOMAIN records, r \in {"explains", "relates_to"} : CreateLink(i, j, r)
  \/ \E edge \in edges : DeleteLink(edge)
  \/ \E h \in Hands : Librarian(h)

Clerk(s) ==
  Ingest(s) \/ FileEvent(s) \/ FileImpact(s) \/ Tie(s) \/ IngestEnds(s) \/ LoseIngest(s)

-----------------------------------------------------------------------------
(* The question the archive exists for: what did this decide, and what did  *)
(* that produce?  Whatever was ingested after its parent is tied to it, and *)
(* a report with an impact to its impact, but for an edge whose handler     *)
(* ended under it or that somebody deleted.                                 *)
Ingested(i) == records[i].kind = "ingested"

Whole(ref) ==
  /\ ref \notin broken
  /\ \A s \in Subscriptions : (task[s].at \in {"tie", "impact"}) => Edge(task[s].event).to # ref

Owes(p, c) ==
  LET from == records[p].ref
      to   == records[c].ref
  IN CASE from[1] = "motion" /\ to[1] = "outcome" /\ from[2] = to[2]
            /\ Ingested(c) /\ p < c                               -> "outcome"
       [] from[1] = "accords" /\ to[1] = "accords" /\ from[2] + 1 = to[2]
            /\ Ingested(c) /\ p < c                               -> "amends"
       [] from[1] = "report" /\ to[1] = "impact" /\ from[2] = to[2]
            /\ Ingested(p) /\ records[p].outcome = "impact"       -> "produces"
       [] OTHER                                                   -> "nothing"

ChainIsComplete ==
  \A p, c \in DOMAIN records : Whole(records[c].ref) /\ Owes(p, c) # "nothing" =>
    [from |-> p, to |-> c, relation |-> Owes(p, c)] \in edges

(* A lineage walks round every cycle people have drawn and still reaches    *)
(* each record that the links lead to, up or down: every set of records     *)
(* that the links never leave contains what the walk finds, and the least.  *)
Led(i, links) ==
  {j \in DOMAIN records : \A S \in SUBSET DOMAIN records :
     (\A e \in links : e.from \in S \cup {i} => e.to \in S) => j \in S}

LineageReachesAll ==
  \A i \in DOMAIN records :
    /\ Lineage(i, edges) \ {i} = Led(i, edges) \ {i}
    /\ LET up == {Upstream(e) : e \in edges} IN Lineage(i, up) \ {i} = Led(i, up) \ {i}

(* Both at once: what did this decide, and what did that produce?          *)
ArchiveAnswers == ChainIsComplete /\ LineageReachesAll

(* The doc of supersede_record: the chain stays a chain, and which version  *)
(* is current always has one answer.  Two corrections of one record both    *)
(* find that nobody has corrected it.                                       *)
ChainStaysAChain == \A i \in DOMAIN records : Cardinality(Superseders(i)) <= 1
=============================================================================
