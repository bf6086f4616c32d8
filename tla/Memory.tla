------------------------------- MODULE Memory -------------------------------
(***************************************************************************)
(* Governance, missions, the archive and the calendar on one event bus:    *)
(* what the first two publish, the archive's three subscriptions file and  *)
(* tie, and the calendar's one schedules the debrief for.  Each            *)
(* subscription is a task of its own (server/src/events.rs), at its own    *)
(* place in the broadcast, and every one of them may lose an event.        *)
(***************************************************************************)
EXTENDS Governance, Missions, Archive, Calendar

Clerks == {"motion.", "accords.", "mission."}

\* The mission ids count from 1: an event that is of none is of no mission's.
ASSUME MemoryAssumption == Subscriptions = Clerks \cup {DebriefDesk} /\ OfNone \notin Missions

memoryRows == <<govRows, carried, unretired, missionRows, archRows, broken, calRows, missed, readerVars>>
memoryVars == <<memoryRows, hostVars>>

MemoryInit == GovInit /\ MissionInit /\ ArchInit /\ CalInit

Deliberate ==
  GovNext /\ UNCHANGED <<missionRows, archRows, broken, calRows, missed, readerVars>>
Undertake ==
  MissionNext /\ UNCHANGED <<govRows, carried, unretired, archRows, broken, calRows, missed, readerVars>>
KeepRecords ==
  /\ Shelves \/ \E s \in Clerks : Clerk(s)
  /\ UNCHANGED <<govRows, carried, unretired, missionRows, calRows, missed>>
KeepCalendar ==
  /\ Office \/ DebriefClerk(DebriefDesk)
  /\ UNCHANGED <<govRows, carried, unretired, missionRows, archRows, broken>>

MemoryNext == Deliberate \/ Undertake \/ KeepRecords \/ KeepCalendar

MemorySpec == MemoryInit /\ [][MemoryNext]_memoryVars

-----------------------------------------------------------------------------
(* The record never says more than the floor did, however far behind its   *)
(* clerks are and whichever closes and adoptions overlapped: an ingested    *)
(* outcome is one a close announced, passed only of a motion that carried;  *)
(* an ingested version is one the Accords have; an ingested report is of a  *)
(* mission that was summarised.                                            *)
ArchiveTellsTheTruth ==
  \A i \in {i \in DOMAIN records : Ingested(i)} :
    LET what == records[i].ref[1]
        of   == records[i].ref[2]
    IN /\ what = "outcome" =>
            /\ floor[of].stage # "none" /\ floor[of].result # "pending"
            /\ records[i].outcome = "passed" => of \in carried
       /\ what = "accords" => of \in DOMAIN accords
       /\ what = "report" => Proposed(of) /\ missions[of].summary
=============================================================================
