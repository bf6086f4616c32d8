---------------------------- MODULE OfflineQueue ----------------------------
(***************************************************************************)
(* The client's queue of writes made offline (client/lib/state/outbox.dart *)
(* and the calls of session.dart that use it): two lists on the device,    *)
(* the pass that replays one of them, and a person who goes on pressing    *)
(* buttons while the pass waits for the server.                            *)
(***************************************************************************)
EXTENDS Naturals, Sequences, FiniteSets

CONSTANTS
  Acts,          \* replay-safe writes, each named by its key (keyFor)
  MaxTries,      \* 5xx answers an entry is allowed (maxAttempts, 3)
  MaxPresses     \* bound: writes the person makes

VARIABLES
  queue,         \* outbox.queue, on the device
  declined,      \* outbox.refused, on the device
  flush,         \* the pass in progress, in memory
  presses,       \* writes made
  owed           \* history: acts the person was told are queued, until the
                 \* server has them, they are shown as refused, or the session ends

queueVars == <<queue, declined, flush, presses, owed>>

Still     == [at |-> "still"]
Entries(q) == {q[i] : i \in DOMAIN q}
Keys(q)    == {e.act : e \in Entries(q)}

QueueInit ==
  queue = <<>> /\ declined = {} /\ flush = Still /\ presses = 0 /\ owed = {}

-----------------------------------------------------------------------------
(* The person.                                                             *)

Press == presses < MaxPresses /\ presses' = presses + 1

\* _mutate: the server answered.
WriteOnline(a) == Press /\ owed' = owed \ {a} /\ UNCHANGED <<queue, declined, flush>>

\* Idempotent by key.
Enqueue(a) ==
  IF a \in Keys(queue) THEN UNCHANGED queue ELSE queue' = Append(queue, [act |-> a, tries |-> 0])

\* _mutate: no answer (whether or not the server acted), so the write is queued.
WriteOffline(a) ==
  Press /\ Enqueue(a) /\ owed' = owed \cup {a} /\ UNCHANGED <<declined, flush>>

ClearRefused == declined' = {} /\ UNCHANGED <<queue, flush, presses, owed>>

\* signOut clears both lists; a pass that waits for an answer is not told.
SignOut ==
  /\ queue' = <<>> /\ declined' = {} /\ owed' = {}
  /\ flush' = IF flush = Still THEN Still ELSE [flush EXCEPT !.over = TRUE]
  /\ UNCHANGED presses

-----------------------------------------------------------------------------
(* The pass: both lists read once, rewritten after each entry.             *)

Sending == flush.at = "send"
Taken   == flush.at = "taken"

\* syncOutbox lets no second pass start.
BeginPass ==
  /\ flush = Still /\ queue # <<>>
  /\ flush' = [at |-> "send", entry |-> Head(queue), rest |-> Tail(queue), kept |-> <<>>,
               parked |-> declined, stopped |-> FALSE, over |-> FALSE]
  /\ UNCHANGED <<queue, declined, presses, owed>>

ServerTakes ==
  /\ Sending /\ flush' = [flush EXCEPT !.at = "taken"] /\ owed' = owed \ {flush.entry.act}
  /\ UNCHANGED <<queue, declined, presses>>

\* Mutant: what the pass has not reached is written back only at its end.
RewriteKept(kept) == queue' = kept

\* What is kept, then what has not been reached yet.
Rewrite(kept) == queue' = kept \o flush.rest

Resolve(kept, parked, stopped) ==
  /\ Rewrite(kept)
  /\ flush' = [flush EXCEPT !.at = "note", !.kept = kept, !.parked = parked, !.stopped = stopped]
  /\ UNCHANGED <<declined, presses, owed>>

Retried == [flush.entry EXCEPT !.tries = @ + 1]

Accepted     == Taken /\ Resolve(flush.kept, flush.parked, FALSE)
Unreachable  == (Sending \/ Taken) /\ Resolve(Append(flush.kept, flush.entry), flush.parked, TRUE)
Refused      == Sending /\ Resolve(flush.kept, flush.parked \cup {flush.entry.act}, FALSE)
ServerErrs   ==
  /\ Sending
  /\ IF Retried.tries >= MaxTries
       THEN Resolve(flush.kept, flush.parked \cup {flush.entry.act}, FALSE)
       ELSE Resolve(Append(flush.kept, Retried), flush.parked, FALSE)

\* The refused list, and the next entry.
NoteRefused ==
  /\ flush.at = "note"
  /\ declined' = flush.parked /\ owed' = owed \ flush.parked
  /\ flush' = IF flush.stopped \/ flush.rest = <<>> THEN Still
              ELSE [flush EXCEPT !.at = "send", !.entry = Head(flush.rest), !.rest = Tail(flush.rest)]
  /\ UNCHANGED <<queue, presses>>

\* The app is killed: the lists are on the device.
AppKilled == flush # Still /\ flush' = Still /\ UNCHANGED <<queue, declined, presses, owed>>

-----------------------------------------------------------------------------
Person == (\E a \in Acts : WriteOnline(a) \/ WriteOffline(a)) \/ ClearRefused \/ SignOut
Replay == \/ BeginPass \/ ServerTakes \/ Accepted \/ Unreachable \/ Refused \/ ServerErrs
          \/ NoteRefused \/ AppKilled

QueueNext == Person \/ Replay
QueueSpec == QueueInit /\ [][QueueNext]_queueVars

-----------------------------------------------------------------------------
(* "The queue's own record of this one act is never two records": whatever  *)
(* a pass that works from its own copy writes back over the taps made      *)
(* meanwhile.                                                              *)
OneRecordPerAct == Cardinality(Keys(queue)) = Len(queue)

(* An interrupted pass never loses the entries behind the one in flight:    *)
(* while it has not reached them they stay on the device, so that a pass   *)
(* killed at any step leaves them owed.                                    *)
NothingBehindIsLost ==
  flush # Still /\ ~flush.over => Keys(flush.rest) \subseteq Keys(queue)

(* Both: what a pass writes back neither doubles an act nor drops one it    *)
(* has yet to reach.                                                       *)
QueueIsKept == OneRecordPerAct /\ NothingBehindIsLost

(* A write the person was told is queued is on the device until the server  *)
(* has it or they are shown its refusal.  It is lost when it is queued      *)
(* while a pass waits for an answer, whose rewrite knows nothing of it, and *)
(* when the app is killed between a refusal's two rewrites.                *)
NothingOwedIsLost ==
  owed \subseteq Keys(queue) \cup (IF flush = Still THEN {} ELSE flush.parked)
=============================================================================
