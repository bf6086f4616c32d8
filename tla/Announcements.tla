--------------------------- MODULE Announcements ---------------------------
(***************************************************************************)
(* Notices and who has read them (plugins/announcements/src/lib.rs): a     *)
(* handler reads the notice, decides on what it read, writes, and tells    *)
(* the bus.  A clause on the status rides on the writes that must not be   *)
(* repeated; an edit and a receipt are written by id.                      *)
(***************************************************************************)
EXTENDS PluginHost

CONSTANTS Notices, Readers

VARIABLES
  notices,    \* announcements.announcements: each notice's status
  receipts    \* announcements.receipts, unique by notice and reader

noticeVars == <<notices, receipts, hostVars>>

NoticeInit == HostInit /\ notices = [n \in Notices |-> "none"] /\ receipts = {}

Posted(n) == notices[n] \in {"draft", "published", "retracted"}
Told(n)   == [type |-> "announcement.published", notice |-> n]

\* announcement.created and .updated are left off the bus: nothing reads them here.
CreateNotice(h, n, at_once) ==
  /\ notices[n] = "none" /\ Silent /\ UNCHANGED receipts
  /\ notices' = [notices EXCEPT ![n] = IF at_once THEN "published" ELSE "draft"]
  /\ IF at_once THEN Ask(h, [at |-> "tell", event |-> Told(n)]) ELSE AskOnce

\* fetch_announcement and the status the handler asks for.
Look(h, n, step, status) ==
  /\ Posted(n) /\ notices[n] \in status
  /\ Ask(h, [at |-> step, notice |-> n, seen |-> notices[n]])
  /\ Silent /\ UNCHANGED <<notices, receipts>>

\* UPDATE ... WHERE id = $1 AND status = `from`; no row is a conflict.
Moved(h, from, to, event) ==
  /\ notices' = [notices EXCEPT ![hand[h].notice] = to]
  /\ Go(h, [at |-> "tell", event |-> event]) /\ Silent /\ UNCHANGED receipts
TooLate(h) == Answer(h) /\ Silent /\ UNCHANGED <<notices, receipts>>

PublishNotice(h) ==
  /\ Doing(h, "send")
  /\ IF notices[hand[h].notice] = "draft"
       THEN Moved(h, "draft", "published", Told(hand[h].notice)) ELSE TooLate(h)

RetractNotice(h) ==
  /\ Doing(h, "retract")
  /\ IF notices[hand[h].notice] = "published"
       THEN Moved(h, "published", "retracted",
                  [type |-> "announcement.retracted", notice |-> hand[h].notice])
       ELSE TooLate(h)

\* The receipts go with the notice (ON DELETE CASCADE).
DeleteNotice(h) ==
  /\ Doing(h, "erase") /\ Answer(h) /\ Silent
  /\ notices' = [notices EXCEPT ![hand[h].notice] = "deleted"]
  /\ receipts' = {r \in receipts : r.notice # hand[h].notice}

\* set_receipt: what the reader saw must have been published; a second
\* receipt does nothing, and a notice deleted meanwhile refuses it.
Receipt(h) == [notice |-> hand[h].notice, who |-> hand[h].who]

\* Mutant: whoever can see the notice has a receipt, its author's draft included.
BeginReadAnything(h, n, who, step) ==
  /\ Posted(n)
  /\ Ask(h, [at |-> step, notice |-> n, who |-> who]) /\ Silent /\ UNCHANGED <<notices, receipts>>

BeginRead(h, n, who, step) ==
  /\ Posted(n) /\ (step = "read" => notices[n] = "published")
  /\ Ask(h, [at |-> step, notice |-> n, who |-> who]) /\ Silent /\ UNCHANGED <<notices, receipts>>

MarkRead(h) ==
  /\ Doing(h, "read") /\ Answer(h) /\ Silent /\ UNCHANGED notices
  /\ receipts' = IF Posted(hand[h].notice) THEN receipts \cup {Receipt(h)} ELSE receipts
MarkUnread(h) ==
  /\ Doing(h, "unread") /\ Answer(h) /\ Silent /\ UNCHANGED notices
  /\ receipts' = receipts \ {Receipt(h)}

Tell(h) == Doing(h, "tell") /\ Publish(hand[h].event) /\ Answer(h) /\ UNCHANGED <<notices, receipts>>

NoticeFails(h) == ~Rests(h) /\ Answer(h) /\ Silent /\ UNCHANGED <<notices, receipts>>

Crier(h) ==
  \/ \E n \in Notices :
       \/ \E at_once \in BOOLEAN : CreateNotice(h, n, at_once)
       \/ Look(h, n, "send", {"draft"})
       \/ Look(h, n, "retract", {"published"})
       \/ Look(h, n, "erase", {"draft", "published", "retracted"})
       \/ \E who \in Readers, step \in {"read", "unread"} : BeginRead(h, n, who, step)
  \/ PublishNotice(h) \/ RetractNotice(h) \/ DeleteNotice(h)
  \/ MarkRead(h) \/ MarkUnread(h) \/ Tell(h) \/ NoticeFails(h)

NoticeNext == \E h \in Hands : Crier(h)
NoticeSpec == NoticeInit /\ [][NoticeNext]_noticeVars

-----------------------------------------------------------------------------
(* "A double publish is impossible": however publishers, retractions and    *)
(* deletions overlap, the troop is told of a notice at most once.          *)
ToldOnce == \A n \in Notices : Cardinality({i \in DOMAIN bus : bus[i] = Told(n)}) <= 1

(* A receipt is a reader's: its notice is there and went out, whichever     *)
(* retraction or deletion came between the reader's look and the insert.   *)
ReceiptsAreOfReaders == \A r \in receipts : notices[r.notice] \in {"published", "retracted"}

(* Both, of every notice.                                                  *)
NoticesReachOnce == ToldOnce /\ ReceiptsAreOfReaders
=============================================================================
