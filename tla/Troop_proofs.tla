---------------------------- MODULE Troop_proofs ----------------------------
(***************************************************************************)
(* The troop's plugins that share the host and nothing else, and the       *)
(* client's queue, for every number of handlers, rows and requests: the    *)
(* gear, the cases, the notices, the writes made offline, the scope        *)
(* hierarchy that follows the roster of patrols, and the sign-ins that     *)
(* find their account.                                                     *)
(***************************************************************************)
EXTENDS Equipment, Conflicts, Announcements, OfflineQueue, Roster, Accounts, TLAPS,
        FiniteSetTheorems

(***************************************************************************)
(* One holder per item, shelves that are what the desk says of them, and   *)
(* gear that moves legally.  What makes the count of services inductive is *)
(* that a handler between the two statements of a checkin is about the row *)
(* it closed, and that an item that was never in the pool has no history.  *)
(***************************************************************************)

Work == {"out_look", "insert", "close", "carry", "flag_look", "flag", "restore",
         "retire_look", "retire", "delete_look", "delete"}

GearTyped ==
  /\ today \in Nat
  /\ pool \in [Items -> Kit \cup {Unborn, Deleted}]
  /\ log \in Seq(Loan \cup {Deleted})
  /\ lost \in [Items -> Nat]
  /\ hand = [h \in Hands |-> hand[h]]

\* What each handler knows at each of its steps.
Knows(h) ==
  /\ hand[h].at \in Work \cup {"idle"}
  /\ hand[h].at \in Work =>
       {"at", "item"} \subseteq DOMAIN hand[h] /\ hand[h].item \in Items
       /\ pool[hand[h].item] # Unborn
  /\ hand[h].at \in {"out_look", "insert"} =>
       {"grade", "due"} \subseteq DOMAIN hand[h] /\ hand[h].grade \in Nat
       /\ hand[h].due \in Nat \cup {OpenEnded}
  /\ hand[h].at \in {"close", "carry"} => "grade" \in DOMAIN hand[h] /\ hand[h].grade \in Nat
  /\ hand[h].at = "close" =>
       hand[h].row \in DOMAIN log /\ (Row(hand[h].row) => log[hand[h].row].item = hand[h].item)

\* What is not in the pool yet has no past.
Fresh ==
  /\ \A k \in DOMAIN log : Row(k) => pool[log[k].item] # Unborn
  /\ \A i \in Items : lost[i] # 0 => pool[i] # Unborn

\* The index: two open rows of an item are one.
Alone ==
  \A j, k \in DOMAIN log :
    Row(j) /\ Row(k) /\ log[j].in = OpenEnded /\ log[k].in = OpenEnded
    /\ log[j].item = log[k].item => j = k

\* The handlers between the two statements of a checkin of item i.
Going(i) == {h \in Hands : Doing(h, "carry") /\ hand[h].item = i}

Banked(i) == pool[i].services + lost[i] + Cardinality(Going(i)) = Cardinality(Closed(i))

GearInv ==
  /\ GearTyped
  /\ \A h \in Hands : Knows(h)
  /\ Fresh
  /\ Alone
  /\ \A i \in Items : Exists(i) => Banked(i)

\* An empty pool with no checkouts.
LEMMA InitGear == PoolInit => GearInv
<1> SUFFICES ASSUME PoolInit PROVE GearInv
  OBVIOUS
<1>1. \A i \in Items : ~Exists(i)
  BY DEF PoolInit, Exists
<1>2. GearTyped
  BY DEF PoolInit, HostInit, GearTyped, Idle
<1>3. \A h \in Hands : Knows(h)
  BY DEF PoolInit, HostInit, Idle, Knows, Work
<1>4. Fresh /\ Alone
  BY DEF PoolInit, Fresh, Alone
<1> QED BY <1>1, <1>2, <1>3, <1>4 DEF GearInv

-----------------------------------------------------------------------------
(* Sets that are counted.                                                  *)

\* The returns under way and the closed rows of an item can be counted.
LEMMA CountsAreFinite ==
  ASSUME GearTyped, NEW i
  PROVE  /\ IsFiniteSet(Going(i)) /\ Cardinality(Going(i)) \in Nat
         /\ IsFiniteSet(Closed(i)) /\ Cardinality(Closed(i)) \in Nat
<1>1. IsFiniteSet(Hands) /\ Going(i) \in SUBSET Hands
  BY HostAssumption DEF Going
<1>2. Len(log) \in Nat /\ DOMAIN log = 1..Len(log)
  BY DEF GearTyped
<1>3. IsFiniteSet(1..Len(log)) /\ Closed(i) \in SUBSET (1..Len(log))
  BY <1>2, FS_Interval DEF Closed, History
<1> QED BY <1>1, <1>3, FS_Subset, FS_CardinalityType

\* A step after which every handler still knows what it must: pool and log
\* only grow, and rows keep their item.
Grows ==
  /\ \A i \in Items : pool[i] # Unborn => pool'[i] # Unborn
  /\ \A k \in DOMAIN log :
       k \in DOMAIN log' /\ (log'[k] # Deleted => Row(k) /\ log'[k].item = log[k].item)

\* A step of one handler leaves the others what they know.
LEMMA OthersKnow ==
  ASSUME GearInv, Grows, NEW h \in Hands, hand' = [hand EXCEPT ![h] = hand'[h]], Knows(h)'
  PROVE  \A g \in Hands : Knows(g)'
<1> SUFFICES ASSUME NEW g \in Hands, g # h PROVE Knows(g)'
  OBVIOUS
<1>1. hand'[g] = hand[g] /\ Knows(g)
  BY DEF GearInv, GearTyped
<1> QED BY <1>1 DEF Knows, Grows, Row, Work

\* A step of no handler leaves each what it knows.
LEMMA AllKnow ==
  ASSUME GearInv, Grows, UNCHANGED hand
  PROVE  \A g \in Hands : Knows(g)'
<1> SUFFICES ASSUME NEW g \in Hands PROVE Knows(g)'
  OBVIOUS
<1>1. hand'[g] = hand[g] /\ Knows(g)
  BY DEF GearInv
<1> QED BY <1>1 DEF Knows, Grows, Row, Work

\* A step of h that neither takes nor leaves the second half of a checkin.
LEMMA SameGoing ==
  ASSUME GearTyped, NEW h \in Hands, hand' = [hand EXCEPT ![h] = hand'[h]],
         ~Doing(h, "carry"), hand'[h].at # "carry", NEW i
  PROVE  Going(i)' = Going(i)
<1>1. \A g \in Hands : g # h => hand'[g] = hand[g]
  BY DEF GearTyped
<1> QED BY <1>1 DEF Going, Doing

\* The log and the losses stay, and so does what an item has banked.
LEMMA Tame ==
  ASSUME GearInv, GearTyped', UNCHANGED <<log, lost>>, \A g \in Hands : Knows(g)',
         \A i \in Items : Going(i)' = Going(i),
         \A i \in Items : pool[i] # Unborn => pool'[i] # Unborn,
         \A i \in Items : Exists(i)' => Exists(i) /\ pool'[i].services = pool[i].services
  PROVE  GearInv'
<1>1. Fresh' /\ Alone'
  BY DEF GearInv, GearTyped, Fresh, Alone, Row, Loan
<1>2. ASSUME NEW i \in Items, Exists(i)' PROVE Banked(i)'
  <2>1. Closed(i)' = Closed(i) /\ Going(i)' = Going(i)
    BY DEF Closed, History, Row
  <2>2. pool'[i].services = pool[i].services /\ lost'[i] = lost[i] /\ Banked(i)
    BY <1>2 DEF GearInv
  <2> QED BY <2>1, <2>2 DEF Banked
<1> QED BY <1>1, <1>2 DEF GearInv

\* A step of one handler that changes no row.
LEMMA QuietHand ==
  ASSUME GearInv, NEW h \in Hands, hand' = [hand EXCEPT ![h] = hand'[h]],
         UNCHANGED <<today, pool, log, lost>>, Knows(h)', ~Doing(h, "carry"), hand'[h].at # "carry"
  PROVE  GearInv'
<1>1. GearTyped'
  BY DEF GearInv, GearTyped
<1>2. \A g \in Hands : Knows(g)'
  <2>1. Grows
    BY DEF Grows, Row
  <2> QED BY <2>1, OthersKnow
<1>3. \A i \in Items : Going(i)' = Going(i)
  BY SameGoing DEF GearInv
<1>4. \A i \in Items : Exists(i)' => Exists(i) /\ pool'[i].services = pool[i].services
  BY DEF Exists
<1> QED BY <1>1, <1>2, <1>3, <1>4, Tame

\* A handler answers, having changed at most a status or a condition.
LEMMA Settles ==
  ASSUME GearInv, NEW h \in Hands, Answer(h), UNCHANGED <<today, log, lost>>, ~Doing(h, "carry"),
         pool' \in [Items -> Kit \cup {Unborn, Deleted}],
         \A i \in Items : pool[i] # Unborn => pool'[i] # Unborn,
         \A i \in Items : Exists(i)' => Exists(i) /\ pool'[i].services = pool[i].services
  PROVE  GearInv'
<1>1. hand' = [hand EXCEPT ![h] = hand'[h]] /\ hand'[h] = Idle
  BY DEF Answer, GearInv, GearTyped
<1>2. GearTyped'
  BY <1>1 DEF GearInv, GearTyped
<1>3. \A g \in Hands : Knows(g)'
  <2>1. Grows /\ Knows(h)'
    BY <1>1 DEF Grows, Row, Knows, Idle, Work
  <2> QED BY <1>1, <2>1, OthersKnow
<1>4. \A i \in Items : Going(i)' = Going(i)
  BY <1>1, SameGoing DEF GearInv, Idle
<1> QED BY <1>2, <1>3, <1>4, Tame

-----------------------------------------------------------------------------
(* The first statements of every handler.                                  *)

\* A handler that begins knows the item it read.
LEMMA Began ==
  ASSUME GearInv, NEW h \in Hands, NEW step, Ask(h, step), UNCHANGED <<today, pool, log, lost>>,
         step.at \in Work \ {"carry"}, {"at", "item"} \subseteq DOMAIN step,
         step.item \in Items, Exists(step.item),
         step.at \in {"out_look", "insert"} =>
           {"grade", "due"} \subseteq DOMAIN step /\ step.grade \in Nat
           /\ step.due \in Nat \cup {OpenEnded},
         step.at = "close" =>
           "grade" \in DOMAIN step /\ step.grade \in Nat
           /\ step.row \in DOMAIN log /\ log[step.row].item = step.item
  PROVE  GearInv'
<1>1. hand' = [hand EXCEPT ![h] = hand'[h]] /\ hand'[h] = step /\ ~Doing(h, "carry")
  BY DEF Ask, Rests, Idle, Doing, GearInv, GearTyped
<1>2. Knows(h)'
  BY <1>1 DEF Knows, Exists, Work, Row
<1> QED BY <1>1, <1>2, QuietHand

\* Every handler begins so.
LEMMA BeginSteps ==
  ASSUME GearInv, NEW h \in Hands, NEW i \in Items,
         \/ \E grade \in Grades, due \in Days \cup {OpenEnded} : BeginCheckout(h, i, grade, due)
         \/ \E grade \in Grades : BeginCheckin(h, i, grade)
         \/ BeginFlag(h, i) \/ BeginReturn(h, i) \/ BeginRetire(h, i) \/ BeginDelete(h, i)
  PROVE  GearInv'
<1>1. ASSUME NEW grade \in Grades, NEW due \in Days \cup {OpenEnded}, BeginCheckout(h, i, grade, due)
      PROVE  GearInv'
  <2>1. grade \in Nat /\ due \in Nat \cup {OpenEnded}
    BY GearAssumption DEF Days
  <2> DEFINE step == [at |-> "out_look", item |-> i, grade |-> grade, due |-> due]
  <2>2. Ask(h, step) /\ Exists(i) /\ UNCHANGED <<today, pool, log, lost>>
    BY <1>1 DEF BeginCheckout
  <2>3. /\ step.at = "out_look" /\ {"at", "item", "grade", "due"} \subseteq DOMAIN step
        /\ step.item = i /\ step.grade = grade /\ step.due = due
    OBVIOUS
  <2> HIDE DEF step
  <2> QED BY <2>1, <2>2, <2>3, Began DEF Work
<1>2. ASSUME NEW grade \in Grades, BeginCheckin(h, i, grade)
      PROVE  GearInv'
  <2>1. grade \in Nat
    BY GearAssumption
  <2>2. PICK k \in OpenRows(i) : Ask(h, [at |-> "close", item |-> i, row |-> k, grade |-> grade])
    BY <1>2 DEF BeginCheckin
  <2> DEFINE step == [at |-> "close", item |-> i, row |-> k, grade |-> grade]
  <2>3. Ask(h, step) /\ Exists(i) /\ UNCHANGED <<today, pool, log, lost>>
    BY <1>2, <2>2 DEF BeginCheckin
  <2>4. /\ step.at = "close" /\ {"at", "item", "grade"} \subseteq DOMAIN step
        /\ step.item = i /\ step.grade = grade /\ step.row = k
    OBVIOUS
  <2>5. k \in DOMAIN log /\ log[k].item = i
    BY DEF OpenRows
  <2> HIDE DEF step
  <2> QED BY <2>1, <2>3, <2>4, <2>5, Began DEF Work
<1>3. ASSUME NEW at \in {"flag_look", "restore", "retire_look", "delete_look"},
             Ask(h, [at |-> at, item |-> i]), Exists(i), UNCHANGED <<today, pool, log, lost>>
      PROVE  GearInv'
  <2> DEFINE step == [at |-> at, item |-> i]
  <2>1. step.at = at /\ {"at", "item"} \subseteq DOMAIN step /\ step.item = i
    OBVIOUS
  <2>2. Ask(h, step)
    BY <1>3
  <2> HIDE DEF step
  <2> QED BY <1>3, <2>1, <2>2, Began DEF Work
<1> QED BY <1>1, <1>2, <1>3 DEF BeginFlag, BeginReturn, BeginRetire, BeginDelete

\* A handler that looks at the checkouts goes on, or answers.
LEMMA LookSteps ==
  ASSUME GearInv, NEW h \in Hands,
         \/ AskOpen(h, "out_look", "insert") \/ AskOpen(h, "flag_look", "flag")
         \/ AskOpen(h, "retire_look", "retire") \/ LookHistory(h)
  PROVE  GearInv'
<1>1. hand' = [hand EXCEPT ![h] = hand'[h]] /\ UNCHANGED <<today, pool, log, lost>>
      /\ ~Doing(h, "carry")
  BY DEF AskOpen, LookHistory, Answer, Go, Doing, GearInv, GearTyped
<1>2. PICK next \in {"insert", "flag", "retire", "delete"} :
        /\ hand'[h] = Idle \/ hand'[h] = Knowing(hand[h], [at |-> next])
        /\ next = "insert" => Doing(h, "out_look")
        /\ hand[h].at \in Work
  BY DEF AskOpen, LookHistory, Answer, Go, Doing, GearInv, GearTyped, Work
<1>3. Knows(h)
  BY DEF GearInv
<1>4. CASE hand'[h] = Idle
  <2>1. Knows(h)' /\ hand'[h].at # "carry"
    BY <1>4 DEF Idle, Knows, Work
  <2> QED BY <1>1, <2>1, QuietHand
<1>5. CASE hand'[h] = Knowing(hand[h], [at |-> next])
  <2>1. /\ DOMAIN hand'[h] = DOMAIN hand[h] \cup {"at"} /\ hand'[h].at = next
        /\ \A x \in DOMAIN hand[h] : x # "at" => hand'[h][x] = hand[h][x]
    BY <1>5 DEF Knowing
  <2>2. Knows(h)' /\ hand'[h].at # "carry"
    BY <1>1, <1>2, <1>3, <2>1 DEF Knows, Work, Doing
  <2> QED BY <1>1, <2>2, QuietHand
<1> QED BY <1>2, <1>4, <1>5

-----------------------------------------------------------------------------
(* Updates of an item.                                                     *)

\* A flag, a retirement and a return to service write one item, and no row.
LEMMA ItemSteps ==
  ASSUME GearInv, NEW h \in Hands,
         Flag(h) \/ Retire(h) \/ \E grade \in Grades : Restore(h, grade)
  PROVE  GearInv'
<1> DEFINE i == hand[h].item
<1>1. i \in Items /\ ~Doing(h, "carry")
  BY DEF Flag, Retire, Restore, Doing, GearInv, Knows, Work
<1>2. Answer(h) /\ UNCHANGED <<today, log, lost>>
  BY DEF Flag, Retire, Restore, SetStatus
<1>3. \/ pool' = pool
      \/ Exists(i) /\ \E status \in Statuses : pool' = [pool EXCEPT ![i].status = status]
      \/ Exists(i) /\ \E grade \in Nat :
           pool' = [pool EXCEPT ![i].status = "available", ![i].grade = grade]
  BY GearAssumption DEF Flag, Retire, Restore, SetStatus, Statuses
<1>4. /\ pool' \in [Items -> Kit \cup {Unborn, Deleted}]
      /\ \A j \in Items : pool[j] # Unborn => pool'[j] # Unborn
      /\ \A j \in Items : Exists(j)' => Exists(j) /\ pool'[j].services = pool[j].services
  <2>0. pool \in [Items -> Kit \cup {Unborn, Deleted}]
    BY DEF GearInv, GearTyped
  <2>1. CASE pool' = pool
    BY <2>0, <2>1 DEF Exists
  <2>2. ASSUME Exists(i), NEW kit \in Kit, pool' = [pool EXCEPT ![i] = kit],
               kit.services = pool[i].services
        PROVE  /\ pool' \in [Items -> Kit \cup {Unborn, Deleted}]
               /\ \A j \in Items : pool[j] # Unborn => pool'[j] # Unborn
               /\ \A j \in Items : Exists(j)' => Exists(j) /\ pool'[j].services = pool[j].services
    BY <1>1, <2>0, <2>2, GearAssumption DEF Exists
  <2>3. ASSUME Exists(i), NEW status \in Statuses, pool' = [pool EXCEPT ![i].status = status]
        PROVE  /\ pool' \in [Items -> Kit \cup {Unborn, Deleted}]
               /\ \A j \in Items : pool[j] # Unborn => pool'[j] # Unborn
               /\ \A j \in Items : Exists(j)' => Exists(j) /\ pool'[j].services = pool[j].services
    <3>1. pool[i] \in Kit
      BY <1>1, <2>0, <2>3 DEF Exists
    <3>2. [pool[i] EXCEPT !.status = status] \in Kit
          /\ [pool[i] EXCEPT !.status = status].services = pool[i].services
      BY <3>1 DEF Kit
    <3>3. pool' = [pool EXCEPT ![i] = [pool[i] EXCEPT !.status = status]]
      BY <2>3
    <3> QED BY <2>2, <2>3, <3>2, <3>3
  <2>4. ASSUME Exists(i), NEW grade \in Nat,
               pool' = [pool EXCEPT ![i].status = "available", ![i].grade = grade]
        PROVE  /\ pool' \in [Items -> Kit \cup {Unborn, Deleted}]
               /\ \A j \in Items : pool[j] # Unborn => pool'[j] # Unborn
               /\ \A j \in Items : Exists(j)' => Exists(j) /\ pool'[j].services = pool[j].services
    <3>1. pool[i] \in Kit
      BY <1>1, <2>0, <2>4 DEF Exists
    <3>2. [pool[i] EXCEPT !.status = "available", !.grade = grade] \in Kit
          /\ [pool[i] EXCEPT !.status = "available", !.grade = grade].services = pool[i].services
      BY <3>1 DEF Kit, Statuses
    <3>3. pool' = [pool EXCEPT ![i] = [pool[i] EXCEPT !.status = "available", !.grade = grade]]
      BY <1>1, <2>0, <2>4
    <3> QED BY <2>2, <2>4, <3>2, <3>3
  <2> QED BY <1>3, <2>1, <2>3, <2>4
<1> QED BY <1>1, <1>2, <1>4, Settles

\* The catalogue: a new item has no past, a stated condition changes nothing else.
LEMMA CatalogueSteps ==
  ASSUME GearInv, NEW i \in Items, NEW grade \in Grades,
         CreateItem(i, grade) \/ EditItem(i, grade)
  PROVE  GearInv'
<1>1. UNCHANGED <<today, log, lost, hand>> /\ grade \in Nat
  BY GearAssumption DEF CreateItem, EditItem, AskOnce
<1>2. PICK kit \in Kit :
        /\ pool' = [pool EXCEPT ![i] = kit]
        /\ \/ pool[i] = Unborn /\ kit.services = 0
           \/ Exists(i) /\ kit.services = pool[i].services
  <2>1. CASE CreateItem(i, grade)
    <3>1. [status |-> "available", grade |-> grade, services |-> 0] \in Kit
      BY <1>1 DEF Kit, Statuses
    <3> QED BY <2>1, <3>1 DEF CreateItem
  <2>2. CASE EditItem(i, grade)
    <3>1. pool[i] \in Kit
      BY <2>2 DEF EditItem, Exists, GearInv, GearTyped
    <3>2. [pool[i] EXCEPT !.grade = grade] \in Kit
          /\ [pool[i] EXCEPT !.grade = grade].services = pool[i].services
      BY <1>1, <3>1 DEF Kit
    <3>3. pool' = [pool EXCEPT ![i] = [pool[i] EXCEPT !.grade = grade]]
      BY <2>2 DEF EditItem
    <3> QED BY <2>2, <3>2, <3>3 DEF EditItem
  <2> QED BY <2>1, <2>2
<1>3. GearTyped'
  BY <1>1, <1>2 DEF GearInv, GearTyped
<1>4. \A j \in Items : pool[j] # Unborn => pool'[j] # Unborn
  BY <1>2, GearAssumption DEF GearInv, GearTyped
<1>5. \A g \in Hands : Knows(g)'
  <2>1. Grows
    BY <1>1, <1>4 DEF Grows, Row
  <2> QED BY <1>1, <2>1, AllKnow
<1>6. \A j \in Items : Going(j)' = Going(j) /\ Closed(j)' = Closed(j)
  BY <1>1 DEF Going, Doing, Closed, History, Row
<1>7. Fresh' /\ Alone'
  BY <1>1, <1>4 DEF GearInv, GearTyped, Fresh, Alone, Row, Loan
<1>8. ASSUME NEW j \in Items, Exists(j)' PROVE Banked(j)'
  <2>1. CASE Exists(j)
    <3>1. pool'[j].services = pool[j].services
      BY <1>2, <2>1 DEF Exists, GearInv, GearTyped
    <3> QED BY <1>1, <1>6, <2>1, <3>1 DEF GearInv, Banked
  <2>2. CASE ~Exists(j)
    <3>1. j = i /\ pool[j] = Unborn /\ pool'[j].services = 0
      BY <1>2, <1>8, <2>2 DEF Exists, GearInv, GearTyped
    <3>2. lost[j] = 0 /\ Closed(j) = {}
      BY <3>1 DEF GearInv, GearTyped, Fresh, Closed, History
    <3>3. Going(j) = {}
      BY <3>1 DEF GearInv, Going, Doing, Knows, Work
    <3>4. Cardinality(Going(j)') = 0 /\ Cardinality(Closed(j)') = 0
      BY <1>6, <3>2, <3>3, FS_EmptySet
    <3> QED BY <1>1, <3>1, <3>2, <3>4 DEF Banked
  <2> QED BY <2>1, <2>2
<1> QED BY <1>3, <1>5, <1>7, <1>8 DEF GearInv

-----------------------------------------------------------------------------
(* Rows of the log.                                                        *)

\* A checkout is written only where no open row is: the partial unique index.
LEMMA InsertStep ==
  ASSUME GearInv, NEW h \in Hands, Insert(h)
  PROVE  GearInv'
<1> DEFINE i == hand[h].item
<1>1. Answer(h) /\ UNCHANGED <<today, pool, lost>> /\ i \in Items /\ ~Doing(h, "carry")
  BY DEF Insert, Doing, GearInv, Knows, Work
<1>2. CASE UNCHANGED log
  BY <1>1, <1>2, Settles DEF GearInv, GearTyped, Exists
<1>3. CASE Exists(i) /\ OpenRows(i) = {} /\ log' = Append(log, NewRow(h))
  <2> DEFINE r == NewRow(h)
             n == Len(log) + 1
  <2>0. log' = Append(log, r)
    BY <1>3
  <2>1. r \in Loan /\ r.item = i /\ r.in = OpenEnded
    <3>1. hand[h].grade \in Nat /\ hand[h].due \in Nat \cup {OpenEnded} /\ today \in Nat
      BY DEF Insert, Doing, GearInv, GearTyped, Knows
    <3> QED BY <1>1, <3>1 DEF NewRow, Loan, Unusable
  <2> HIDE DEF r
  <2>2. /\ log' \in Seq(Loan \cup {Deleted}) /\ DOMAIN log' = DOMAIN log \cup {n}
        /\ n \notin DOMAIN log /\ log'[n] = r
        /\ \A k \in DOMAIN log : log'[k] = log[k]
    BY <2>0, <2>1 DEF GearInv, GearTyped
  <2>3. hand' = [hand EXCEPT ![h] = hand'[h]] /\ hand'[h] = Idle
    BY <1>1 DEF Answer, GearInv, GearTyped
  <2>4. GearTyped'
    BY <1>1, <2>2, <2>3 DEF GearInv, GearTyped
  <2>5. \A g \in Hands : Knows(g)'
    <3>1. Grows /\ Knows(h)'
      BY <1>1, <2>2, <2>3 DEF Grows, Row, Knows, Idle, Work
    <3> QED BY <2>3, <3>1, OthersKnow
  <2>6. Fresh'
    <3>1. pool[i] # Unborn
      BY <1>3 DEF Exists
    <3> QED BY <1>1, <2>1, <2>2, <3>1 DEF GearInv, GearTyped, Fresh, Row
  <2>7. Alone'
    <3>1. \A k \in DOMAIN log : Row(k) /\ log[k].in = OpenEnded => log[k].item # i
      BY <1>3 DEF OpenRows
    <3> QED BY <2>1, <2>2, <3>1 DEF GearInv, Alone, Row
  <2>8. ASSUME NEW j \in Items, Exists(j)' PROVE Banked(j)'
    <3>1. Closed(j)' = Closed(j)
      BY <2>1, <2>2 DEF Closed, History, Row
    <3>2. Going(j)' = Going(j)
      BY <1>1, <2>3, SameGoing DEF GearInv, Idle
    <3> QED BY <1>1, <2>8, <3>1, <3>2 DEF GearInv, Banked, Exists
  <2> QED BY <2>4, <2>5, <2>6, <2>7, <2>8 DEF GearInv
<1> QED BY <1>2, <1>3 DEF Insert

\* A row is closed: one more return, which the handler has yet to bank.
LEMMA CloseStep ==
  ASSUME GearInv, NEW h \in Hands, CloseRow(h)
  PROVE  GearInv'
<1> DEFINE k == hand[h].row
           i == hand[h].item
<1>1. Doing(h, "close") /\ UNCHANGED <<today, pool, lost>>
  BY DEF CloseRow
<1>2. i \in Items /\ k \in DOMAIN log /\ (Row(k) => log[k].item = i)
      /\ {"at", "item", "grade"} \subseteq DOMAIN hand[h] /\ hand[h].grade \in Nat
      /\ pool[i] # Unborn /\ ~Doing(h, "carry")
  BY <1>1 DEF GearInv, Knows, Doing, Work
<1>3. CASE UNCHANGED log /\ Answer(h)
  BY <1>1, <1>2, <1>3, Settles DEF GearInv, GearTyped, Exists
<1>4. CASE Row(k) /\ log[k].in = OpenEnded /\ Returned(k, hand[h].grade) /\ Go(h, [at |-> "carry"])
  <2> DEFINE r == log'[k]
  <2>1. /\ log' \in Seq(Loan \cup {Deleted}) /\ DOMAIN log' = DOMAIN log
        /\ r # Deleted /\ r.in # OpenEnded /\ r.item = i
        /\ \A x \in DOMAIN log : x # k => log'[x] = log[x]
    <3>1. log[k] \in Loan /\ log \in Seq(Loan \cup {Deleted}) /\ today \in Nat
      BY <1>2, <1>4 DEF GearInv, GearTyped, Row
    <3> DEFINE s == [log[k] EXCEPT !.in = today, !.back = hand[h].grade,
                                   !.damaged = Downgrade(log[k].left, hand[h].grade)]
    <3>2. Downgrade(log[k].left, hand[h].grade) \in BOOLEAN
      BY DEF Downgrade
    <3>3. s \in Loan /\ s.in = today /\ s.item = i
      BY <1>2, <1>4, <3>1, <3>2 DEF Loan
    <3>4. log' = [log EXCEPT ![k] = s]
      BY <1>2, <1>4, <3>1 DEF Returned
    <3> HIDE DEF s
    <3> QED BY <1>2, <3>1, <3>3, <3>4, GearAssumption
  <2> HIDE DEF r
  <2>2. hand' = [hand EXCEPT ![h] = hand'[h]] /\ hand'[h] = Knowing(hand[h], [at |-> "carry"])
    BY <1>4 DEF Go, GearInv, GearTyped
  <2>3. /\ DOMAIN hand'[h] = DOMAIN hand[h] \cup {"at"} /\ hand'[h].at = "carry"
        /\ hand'[h].item = i /\ hand'[h].grade = hand[h].grade
    BY <1>2, <2>2 DEF Knowing
  <2>4. GearTyped'
    BY <1>1, <2>1, <2>2 DEF GearInv, GearTyped
  <2>5. \A g \in Hands : Knows(g)'
    <3>1. Grows
      BY <1>1, <1>2, <1>4, <2>1 DEF Grows, Row, r
    <3>2. Knows(h)'
      BY <1>1, <1>2, <2>3 DEF Knows, Work
    <3> QED BY <2>2, <3>1, <3>2, OthersKnow
  <2>6. Fresh'
    BY <1>1, <1>2, <2>1 DEF GearInv, GearTyped, Fresh, Row, Loan, r
  <2>7. Alone'
    BY <1>2, <2>1 DEF GearInv, Alone, Row, r
  <2>8. ASSUME NEW j \in Items, Exists(j)' PROVE Banked(j)'
    <3>0. Exists(j) /\ Banked(j) /\ pool[j] \in Kit
      BY <1>1, <2>8 DEF GearInv, GearTyped, Exists
    <3>1. CASE j # i
      <4>1. Closed(j)' = Closed(j)
        BY <1>2, <1>4, <2>1, <3>1 DEF Closed, History, Row, r
      <4>2. Going(j)' = Going(j)
        BY <1>2, <2>2, <2>3, <3>1 DEF Going, Doing, GearInv, GearTyped
      <4> QED BY <1>1, <3>0, <4>1, <4>2 DEF Banked
    <3>2. CASE j = i
      <4>1. Closed(j)' = Closed(j) \cup {k} /\ k \notin Closed(j)
        BY <1>2, <1>4, <2>1, <3>2 DEF Closed, History, Row, r
      <4>2. Going(j)' = Going(j) \cup {h} /\ h \notin Going(j)
        BY <1>2, <2>2, <2>3, <3>2 DEF Going, Doing, GearInv, GearTyped
      <4>3. /\ Cardinality(Closed(j)') = Cardinality(Closed(j)) + 1
            /\ Cardinality(Going(j)') = Cardinality(Going(j)) + 1
        BY <4>1, <4>2, CountsAreFinite, FS_AddElement DEF GearInv
      <4>4. pool[j].services \in Nat /\ lost[j] \in Nat
        BY <3>0 DEF Kit, GearInv, GearTyped
      <4>5. Cardinality(Closed(j)) \in Nat /\ Cardinality(Going(j)) \in Nat
        BY CountsAreFinite DEF GearInv
      <4> QED BY <1>1, <3>0, <4>3, <4>4, <4>5 DEF Banked
    <3> QED BY <3>1, <3>2
  <2> QED BY <2>4, <2>5, <2>6, <2>7, <2>8 DEF GearInv
<1> QED BY <1>3, <1>4 DEF CloseRow

\* The second half of a checkin ends: one handler less between its statements.
LEMMA Leaves ==
  ASSUME GearInv, NEW h \in Hands, Doing(h, "carry"), Answer(h), NEW i, i = hand[h].item
  PROVE  /\ hand' = [hand EXCEPT ![h] = hand'[h]] /\ hand'[h] = Idle
         /\ i \in Items /\ pool[i] # Unborn /\ hand[h].grade \in Nat
         /\ \A j \in Items : j # i => Going(j)' = Going(j)
         /\ Cardinality(Going(i)') = Cardinality(Going(i)) - 1
         /\ Cardinality(Going(i)) \in Nat
<1>1. hand' = [hand EXCEPT ![h] = hand'[h]] /\ hand'[h] = Idle
  BY DEF Answer, GearInv, GearTyped
<1>2. i \in Items /\ pool[i] # Unborn /\ hand[h].grade \in Nat
  BY DEF GearInv, Knows, Doing, Work
<1>3. \A g \in Hands : g # h => hand'[g] = hand[g]
  BY <1>1 DEF GearInv, GearTyped
<1>4. Going(i)' = Going(i) \ {h} /\ h \in Going(i)
  BY <1>1, <1>3 DEF Going, Doing, Idle
<1>5. \A j \in Items : j # i => Going(j)' = Going(j)
  BY <1>1, <1>3 DEF Going, Doing, Idle
<1>6. Cardinality(Going(i)') = Cardinality(Going(i)) - 1 /\ Cardinality(Going(i)) \in Nat
  BY <1>4, CountsAreFinite, FS_RemoveElement, ZenonT(60) DEF GearInv
<1> QED BY <1>1, <1>2, <1>5, <1>6

\* The item banks the service, or loses it: a deleted one has none to bank.
LEMMA CarrySteps ==
  ASSUME GearInv, NEW h \in Hands, Carry(h) \/ Fail(h)
  PROVE  GearInv'
<1>0. PICK i : i = hand[h].item
  OBVIOUS
<1>1. CASE ~Doing(h, "carry")
  <2>1. Answer(h) /\ UNCHANGED <<today, pool, log, lost>>
    BY <1>1 DEF Carry, Fail
  <2> QED BY <1>1, <2>1, Settles DEF GearInv, GearTyped, Exists
<1>2. CASE Doing(h, "carry")
  <2>1. Answer(h) /\ UNCHANGED <<today, log>>
    BY DEF Carry, Fail
  <2>2. i \in Items /\ pool[i] # Unborn
    BY <1>2, <2>1, Leaves, <1>0
  <2>3. /\ pool' \in [Items -> Kit \cup {Unborn, Deleted}] /\ lost' \in [Items -> Nat]
        /\ \A j \in Items : pool[j] # Unborn => pool'[j] # Unborn
        /\ \A j \in Items : lost'[j] # 0 => pool'[j] # Unborn
        /\ \A j \in Items : Exists(j)' => Exists(j) /\ pool'[j].services \in Nat
        /\ \A j \in Items : j # i /\ Exists(j)' =>
             pool'[j].services = pool[j].services /\ lost'[j] = lost[j]
        /\ Exists(i)' => pool'[i].services + lost'[i] = pool[i].services + lost[i] + 1
    <3>1. /\ pool \in [Items -> Kit \cup {Unborn, Deleted}] /\ lost \in [Items -> Nat]
          /\ \A j \in Items : lost[j] # 0 => pool[j] # Unborn
      BY DEF GearInv, GearTyped, Fresh
    <3>2. \A j \in Items : Exists(j) => pool[j] \in Kit /\ pool[j].services \in Nat
      BY <3>1 DEF Exists, Kit
    <3>3. CASE Carry(h) /\ Exists(i)
      <4> DEFINE kit == [pool[i] EXCEPT !.grade = hand[h].grade, !.services = @ + 1]
      <4>1. hand[h].grade \in Nat
        BY <1>2, <2>1, Leaves, <1>0
      <4>2. kit \in Kit /\ kit.services = pool[i].services + 1
        <5>1. pool[i] \in Kit /\ pool[i].services \in Nat
          BY <2>2, <3>2, <3>3
        <5>2. pool[i].services + 1 \in Nat
          BY <5>1
        <5> QED BY <4>1, <5>1, <5>2 DEF Kit
      <4>3. pool' = [pool EXCEPT ![i] = kit] /\ lost' = lost
        BY <1>0, <2>2, <3>1, <3>3 DEF Carry
      <4> HIDE DEF kit
      <4> QED BY <2>2, <3>1, <3>2, <3>3, <4>2, <4>3, GearAssumption DEF Exists
    <3>4. CASE Carry(h) /\ ~Exists(i)
      BY <1>0, <3>1, <3>2, <3>4 DEF Carry, Exists
    <3>5. CASE Fail(h)
      <4>1. lost' = [lost EXCEPT ![i] = @ + 1] /\ pool' = pool
        BY <1>0, <1>2, <3>5 DEF Fail
      <4> QED BY <2>2, <3>1, <3>2, <4>1 DEF Exists
    <3> QED BY <3>3, <3>4, <3>5
  <2>4. GearTyped'
    BY <1>2, <2>1, <2>3, Leaves, <1>0 DEF GearInv, GearTyped
  <2>5. \A g \in Hands : Knows(g)'
    <3>1. Grows
      BY <2>1, <2>3 DEF Grows, Row
    <3>2. hand' = [hand EXCEPT ![h] = hand'[h]] /\ Knows(h)'
      BY <1>2, <2>1, Leaves, <1>0 DEF Knows, Idle, Work
    <3> QED BY <3>1, <3>2, OthersKnow
  <2>6. Fresh' /\ Alone'
    BY <2>1, <2>3 DEF GearInv, GearTyped, Fresh, Alone, Row, Loan
  <2>7. ASSUME NEW j \in Items, Exists(j)' PROVE Banked(j)'
    <3>1. Closed(j)' = Closed(j)
      BY <2>1 DEF Closed, History, Row
    <3>2. Banked(j) /\ pool'[j].services \in Nat /\ lost'[j] \in Nat
      BY <2>3, <2>7 DEF GearInv
    <3>3. CASE j # i
      BY <1>2, <2>1, <2>3, <2>7, <3>1, <3>2, <3>3, Leaves, <1>0 DEF Banked
    <3>4. CASE j = i
      <4>1. /\ Cardinality(Going(i)') = Cardinality(Going(i)) - 1
            /\ Cardinality(Going(i)) \in Nat
        BY <1>2, <2>1, Leaves, <1>0
      <4>2. pool[i].services \in Nat /\ lost[i] \in Nat
        BY <2>2, <2>3, <2>7, <3>4 DEF GearInv, GearTyped, Exists, Kit
      <4>3. Cardinality(Closed(i)) \in Nat
        BY CountsAreFinite DEF GearInv
      <4> QED BY <2>3, <2>7, <3>1, <3>2, <3>4, <4>1, <4>2, <4>3 DEF Banked
    <3> QED BY <3>3, <3>4
  <2> QED BY <2>4, <2>5, <2>6, <2>7 DEF GearInv
<1> QED BY <1>1, <1>2

\* An item leaves, its rows with it; the others keep theirs.
LEMMA DeleteStep ==
  ASSUME GearInv, NEW h \in Hands, Delete(h)
  PROVE  GearInv'
<1> DEFINE i == hand[h].item
<1>1. Answer(h) /\ UNCHANGED <<today, lost>> /\ i \in Items /\ ~Doing(h, "carry")
      /\ pool' = [pool EXCEPT ![i] = Deleted]
      /\ log' = [k \in DOMAIN log |-> IF k \in History(i) THEN Deleted ELSE log[k]]
  BY DEF Delete, Doing, GearInv, Knows, Work
<1>2. hand' = [hand EXCEPT ![h] = hand'[h]] /\ hand'[h] = Idle
  BY <1>1 DEF Answer, GearInv, GearTyped
<1>3. /\ log' \in Seq(Loan \cup {Deleted}) /\ DOMAIN log' = DOMAIN log
      /\ \A k \in DOMAIN log : k \in History(i) => log'[k] = Deleted
      /\ \A k \in DOMAIN log : k \notin History(i) => log'[k] = log[k]
  <2>1. Len(log) \in Nat /\ DOMAIN log = 1..Len(log)
        /\ \A k \in DOMAIN log : log[k] \in Loan \cup {Deleted}
    BY DEF GearInv, GearTyped
  <2>2. log' \in [1..Len(log) -> Loan \cup {Deleted}]
    BY <1>1, <2>1
  <2>3. log' \in Seq(Loan \cup {Deleted})
    BY <2>1, <2>2
  <2> QED BY <1>1, <2>3
<1>4. /\ pool' \in [Items -> Kit \cup {Unborn, Deleted}] /\ pool'[i] = Deleted
      /\ \A j \in Items : j # i => pool'[j] = pool[j]
  BY <1>1 DEF GearInv, GearTyped
<1>5. GearTyped'
  BY <1>1, <1>2, <1>3, <1>4 DEF GearInv, GearTyped
<1>6. \A g \in Hands : Knows(g)'
  <2>1. Grows
    BY <1>3, <1>4, GearAssumption DEF Grows, Row
  <2>2. Knows(h)'
    BY <1>2 DEF Knows, Idle, Work
  <2> QED BY <1>2, <2>1, <2>2, OthersKnow
<1>7. Fresh'
  BY <1>1, <1>3, <1>4, GearAssumption DEF GearInv, GearTyped, Fresh, Row, Loan, History
<1>8. Alone'
  BY <1>3 DEF GearInv, Alone, Row
<1>9. ASSUME NEW j \in Items, Exists(j)' PROVE Banked(j)'
  <2>1. j # i /\ Exists(j) /\ pool'[j] = pool[j]
    BY <1>4, <1>9 DEF Exists
  <2>2. Closed(j)' = Closed(j)
    BY <1>3, <2>1 DEF Closed, History, Row
  <2>3. Going(j)' = Going(j)
    BY <1>1, <1>2, SameGoing DEF GearInv, Idle
  <2> QED BY <1>1, <2>1, <2>2, <2>3 DEF GearInv, Banked
<1> QED BY <1>5, <1>6, <1>7, <1>8, <1>9 DEF GearInv

\* The next day finds the same pool.
LEMMA MidnightStep == ASSUME GearInv, Midnight PROVE GearInv'
<1>1. UNCHANGED <<pool, log, lost, hand>> /\ today' \in Nat
  BY DEF Midnight, GearInv, GearTyped
<1>2. \A g \in Hands : Knows(g)'
  BY <1>1, AllKnow DEF Grows, Row
<1>3. GearTyped'
  BY <1>1 DEF GearInv, GearTyped
<1>4. \A i \in Items : Going(i)' = Going(i)
  BY <1>1 DEF Going, Doing
<1> QED BY <1>1, <1>2, <1>3, <1>4, Tame DEF Exists

\* Every step keeps the invariant.
LEMMA StepGear == GearInv /\ [PoolNext]_poolVars => GearInv'
<1> SUFFICES ASSUME GearInv, [PoolNext]_poolVars PROVE GearInv'
  OBVIOUS
<1>1. ASSUME NEW h \in Hands, Desk(h) PROVE GearInv'
  BY <1>1, BeginSteps, LookSteps, ItemSteps, InsertStep, CloseStep, CarrySteps, DeleteStep DEF Desk
<1>2. ASSUME NEW i \in Items, NEW grade \in Grades, CreateItem(i, grade) \/ EditItem(i, grade)
      PROVE  GearInv'
  BY <1>2, CatalogueSteps
<1>3. CASE UNCHANGED poolVars
  <2>1. UNCHANGED <<today, pool, log, lost, hand>>
    BY <1>3 DEF poolVars, poolRows, hostVars
  <2>2. \A g \in Hands : Knows(g)'
    BY <2>1, AllKnow DEF Grows, Row
  <2>3. GearTyped' /\ \A i \in Items : Going(i)' = Going(i)
    BY <2>1 DEF GearInv, GearTyped, Going, Doing
  <2> QED BY <2>1, <2>2, <2>3, Tame DEF Exists
<1> QED BY <1>1, <1>2, <1>3, MidnightStep DEF PoolNext

\* Rows and handlers are what the statements leave, and the strengthening holds.
THEOREM GearInvariant == PoolSpec => []GearInv
  BY InitGear, StepGear, PTL DEF PoolSpec

-----------------------------------------------------------------------------
\* An item is with one holder: the partial unique index on open rows, whatever
\* open_checkout answered.
THEOREM GearHasOneHolder == PoolSpec => []OneHolder
<1>1. GearInv => OneHolder
  <2> SUFFICES ASSUME GearInv, NEW i \in Items PROVE Cardinality(OpenRows(i)) <= 1
    BY DEF OneHolder
  <2>1. CASE OpenRows(i) = {}
    BY <2>1, FS_EmptySet
  <2>2. CASE OpenRows(i) # {}
    <3>1. PICK k : k \in OpenRows(i)
      BY <2>2
    <3>2. ASSUME NEW j \in OpenRows(i) PROVE j = k
      <4>1. \A x \in OpenRows(i) :
              x \in DOMAIN log /\ Row(x) /\ log[x].item = i /\ log[x].in = OpenEnded
        BY DEF OpenRows
      <4>2. Alone
        BY DEF GearInv
      <4> QED BY <3>1, <4>1, <4>2 DEF Alone
    <3>3. OpenRows(i) = {k}
      BY <3>1, <3>2
    <3>4. Cardinality(OpenRows(i)) = 1
      BY <3>3, FS_Singleton
    <3> QED BY <3>4
  <2> QED BY <2>1, <2>2
<1> QED BY <1>1, GearInvariant, PTL

\* While no more rows touch the window than the LIMIT lets through, every one of
\* them is fetched: the rows before a row are all but itself at most.
LEMMA LimitHoldsAll ==
  ASSUME GearInv, NEW from, NEW to, Cardinality(Touching(from, to)) <= MaxRows
  PROVE  Fetched(from, to) = Touching(from, to)
<1> DEFINE T == Touching(from, to)
           Before(k) == {j \in T : Precedes(j, k)}
<1>1. IsFiniteSet(T)
  <2>1. Len(log) \in Nat /\ DOMAIN log = 1..Len(log)
    BY DEF GearInv, GearTyped
  <2>2. T \subseteq 1..Len(log)
    BY <2>1 DEF Touching
  <2>3. IsFiniteSet(1..Len(log))
    BY <2>1, FS_Interval
  <2> QED BY <2>2, <2>3, FS_Subset
<1>2. ASSUME NEW k \in T PROVE Cardinality(Before(k)) < MaxRows
  <2>1. k \notin Before(k)
    <3>1. log[k].item \in Nat /\ k \in Nat
      BY GearAssumption DEF Touching, Row, GearInv, GearTyped, Loan
    <3> QED BY <3>1 DEF Precedes
  <2>2. Before(k) \subseteq T /\ Before(k) # T
    BY <1>2, <2>1
  <2>3. /\ Cardinality(Before(k)) < Cardinality(T)
        /\ Cardinality(T) \in Nat /\ Cardinality(Before(k)) \in Nat
    BY <1>1, <2>2, FS_Subset, FS_CardinalityType
  <2> QED BY <2>3, GearAssumption
<1> QED BY <1>2 DEF Fetched

\* What availability offers is free on every day of the window, while the LIMIT
\* of its query holds every row of it; and what an item has banked is what came
\* back, less what died between two statements.
THEOREM ShelvesAreAsTold == PoolSpec => []ShelvesAreTrue
<1>1. GearInv => ServicesAreReturns
  BY DEF GearInv, Banked, Going, ServicesAreReturns
<1>2. GearInv => OfferedIsFree
  <2> SUFFICES ASSUME GearInv, NEW i \in Items, NEW from \in Days, NEW to \in from..LastDay,
                      Offered(i, from, to), Cardinality(Touching(from, to)) <= MaxRows,
                      NEW d \in from..to, NEW k \in History(i), AwayOn(k, d)
               PROVE  FALSE
    BY DEF OfferedIsFree
  <2>1. from \in Nat /\ to \in Nat /\ d \in Nat /\ from <= d /\ d <= to
    BY GearAssumption DEF Days
  <2>2. k \in DOMAIN log /\ Row(k) /\ log[k].item = i /\ log[k] \in Loan
    BY DEF GearInv, GearTyped, History, Row
  <2>3. /\ log[k].out \in Nat /\ log[k].in \in Nat \cup {OpenEnded}
        /\ log[k].due \in Nat \cup {OpenEnded} /\ today \in Nat
    BY <2>2 DEF Loan, GearInv, GearTyped
  <2>4. k \in Touching(from, to) => ~Overlaps(from, to, log[k].out, End(k))
    BY <2>2, LimitHoldsAll DEF Offered
  <2>5. CASE log[k].in # OpenEnded
    BY <2>1, <2>2, <2>3, <2>4, <2>5 DEF Touching, AwayOn, Overlaps, End
  <2>6. CASE log[k].in = OpenEnded /\ log[k].due = OpenEnded
    BY <2>1, <2>2, <2>3, <2>4, <2>6 DEF Touching, AwayOn, Overlaps, End
  <2>7. CASE log[k].in = OpenEnded /\ log[k].due # OpenEnded
    BY <2>1, <2>2, <2>3, <2>4, <2>7 DEF Touching, AwayOn, Overlaps, End
  <2> QED BY <2>5, <2>6, <2>7
<1> QED BY <1>1, <1>2, GearInvariant, PTL DEF ShelvesAreTrue

\* A return is recorded once (the guard of a checkin's update), and a status
\* changes only as the handlers' guards allow.
THEOREM GearMoves == PoolSpec => GearMovesLegally
<1>1. GearInv /\ [PoolNext]_poolVars =>
        [\A k \in DOMAIN log : Row(k) /\ log[k].in # OpenEnded => log'[k] \in {log[k], Deleted}]_poolVars
  <2> SUFFICES ASSUME GearInv, PoolNext, NEW k \in DOMAIN log, Row(k), log[k].in # OpenEnded
               PROVE  log'[k] \in {log[k], Deleted}
    OBVIOUS
  <2>1. ASSUME NEW h \in Hands, Insert(h) PROVE log'[k] \in {log[k], Deleted}
    <3>1. CASE UNCHANGED log
      BY <3>1
    <3>2. CASE log' = Append(log, NewRow(h))
      BY <3>2 DEF GearInv, GearTyped
    <3> QED BY <2>1, <3>1, <3>2 DEF Insert
  <2>2. ASSUME NEW h \in Hands, CloseRow(h) PROVE log'[k] \in {log[k], Deleted}
    <3>1. CASE UNCHANGED log
      BY <3>1
    <3>2. CASE log[hand[h].row].in = OpenEnded /\ Returned(hand[h].row, hand[h].grade)
      BY <3>2 DEF Returned, GearInv, GearTyped
    <3> QED BY <2>2, <3>1, <3>2 DEF CloseRow
  <2>3. ASSUME NEW h \in Hands, Delete(h) PROVE log'[k] \in {log[k], Deleted}
    BY <2>3 DEF Delete
  <2>4. CASE UNCHANGED log
    BY <2>4
  <2> QED BY <2>1, <2>2, <2>3, <2>4
          DEF PoolNext, Desk, BeginCheckout, AskOpen, BeginCheckin, Carry, BeginFlag, BeginReturn,
              BeginRetire, BeginDelete, Flag, Restore, Retire, SetStatus, LookHistory, Fail,
              CreateItem, EditItem, Midnight
<1>2. GearInv /\ [PoolNext]_poolVars =>
        [\A i \in Items : Exists(i) /\ pool'[i] # Deleted /\ pool'[i].status # pool[i].status =>
           <<pool[i].status, pool'[i].status>> \in
             {<<"available", "maintenance">>, <<"available", "retired">>,
              <<"maintenance", "retired">>, <<"maintenance", "available">>,
              <<"retired", "available">>}]_poolVars
  <2> DEFINE Legal(i) == <<pool[i].status, pool'[i].status>> \in
             {<<"available", "maintenance">>, <<"available", "retired">>,
              <<"maintenance", "retired">>, <<"maintenance", "available">>,
              <<"retired", "available">>}
  <2> SUFFICES ASSUME GearInv, PoolNext, NEW i \in Items, Exists(i), pool'[i] # Deleted,
                      pool'[i].status # pool[i].status
               PROVE  Legal(i)
    OBVIOUS
  <2>1. pool \in [Items -> Kit \cup {Unborn, Deleted}] /\ pool[i].status \in Statuses
        /\ pool[i] \in Kit
    BY DEF GearInv, GearTyped, Exists, Kit
  <2>2. ASSUME NEW h \in Hands, Flag(h) \/ Retire(h) PROVE Legal(i)
    BY <2>1, <2>2 DEF Flag, Retire, SetStatus, Statuses, Kit
  <2>3. ASSUME NEW h \in Hands, NEW grade \in Grades, Restore(h, grade) PROVE Legal(i)
    <3>1. CASE UNCHANGED pool
      BY <3>1
    <3>2. CASE pool[hand[h].item].status # "available" /\
               pool' = [pool EXCEPT ![hand[h].item].status = "available", ![hand[h].item].grade = grade]
      BY <2>1, <3>2 DEF Statuses, Kit
    <3> QED BY <2>3, <3>1, <3>2 DEF Restore
  <2>4. ASSUME NEW h \in Hands, Carry(h) \/ Delete(h) PROVE Legal(i)
    BY <2>1, <2>4 DEF Carry, Delete, Kit
  <2>5. ASSUME NEW j \in Items, NEW grade \in Grades, CreateItem(j, grade) \/ EditItem(j, grade)
        PROVE  Legal(i)
    BY <2>1, <2>5 DEF CreateItem, EditItem, Exists, Kit
  <2>6. CASE UNCHANGED pool
    BY <2>6
  <2> QED BY <2>2, <2>3, <2>4, <2>5, <2>6
          DEF PoolNext, Desk, BeginCheckout, AskOpen, BeginCheckin, Insert, CloseRow, BeginFlag,
              BeginReturn, BeginRetire, BeginDelete, LookHistory, Fail, Midnight
<1> QED BY <1>1, <1>2, GearInvariant, PTL
        DEF PoolSpec, GearMovesLegally, ReturnedOnce, StatusMovesLegally

(***************************************************************************)
(* The ledger accounts for the case.  A handler between its write and its  *)
(* row is evidence already: what it will add to the ledger says what it    *)
(* wrote.                                                                  *)
(***************************************************************************)

CaseRows ==
  [status : {"open", "resolved", "withdrawn"}, stage : Pathway, parties : SUBSET Folk,
   founders : SUBSET Folk, facilitators : SUBSET Folk, stalled : BOOLEAN,
   cooling : BOOLEAN, nudged : BOOLEAN]
CaseKinds   == {"filed", "transition", "resolution", "agreement", "withdrawn", "party_added",
                "assigned", "released"}
CaseEntries == [case : Cases, kind : CaseKinds, to : 0..4, whom : Folk]
CaseSteps   == {"advance", "resolve", "agree", "withdraw_case", "party", "staff", "log"}

CaseShape ==
  /\ cases \in [Cases -> CaseRows \cup {NoCase}]
  /\ hand = [h \in Hands |-> hand[h]]

\* What a handler carries to its write, and from it to the ledger.
CaseKnows(h) ==
  /\ hand[h].at \in CaseSteps =>
       /\ "entry" \in DOMAIN hand[h] /\ hand[h].entry \in CaseEntries /\ CaseFiled(CaseOf(h))
  /\ Doing(h, "advance") => hand[h].entry.kind = "transition" /\ hand[h].entry.to \in Pathway
  /\ Doing(h, "resolve") => hand[h].entry.kind = "resolution" /\ hand[h].entry.to \in Pathway
  /\ Doing(h, "agree") => hand[h].entry.kind = "agreement" /\ hand[h].entry.to \in Pathway
  /\ Doing(h, "withdraw_case") => hand[h].entry.kind = "withdrawn" /\ hand[h].entry.to \in Pathway
  /\ Doing(h, "party") => hand[h].entry.kind = "party_added" /\ hand[h].entry.to = 0
  /\ Doing(h, "staff") => hand[h].entry.kind \in {"assigned", "released"} /\ hand[h].entry.to = 0

\* What is in the ledger, or on its way there.
Evidence == ledger \cup {hand[h].entry : h \in {g \in Hands : Doing(g, "log")}}

Shows(E, c, kinds, to, who) ==
  \E e \in E : e.case = c /\ e.kind \in kinds /\ e.to \in to /\ e.whom \in who

\* The evidence says how a row came about.
Accounted(row, c, E) ==
  /\ Shows(E, c, {"filed", "transition"}, {row.stage}, Folk)
  /\ row.status = "resolved" => Shows(E, c, {"resolution", "agreement"}, Pathway, Folk)
  /\ row.status = "withdrawn" => Shows(E, c, {"withdrawn"}, Pathway, Folk)
  /\ \A p \in row.parties \ row.founders : Shows(E, c, {"party_added"}, {0}, {p})
  /\ \A p \in row.facilitators : Shows(E, c, {"assigned"}, {0}, {p})

CaseInv ==
  /\ CaseShape
  /\ \A h \in Hands : CaseKnows(h)
  /\ \A c \in Cases : CaseFiled(c) /\ c \notin unlogged => Accounted(cases[c], c, Evidence)

\* A filed case is a row.
LEMMA FiledIsRow ==
  ASSUME CaseShape, NEW c \in Cases
  PROVE  CaseFiled(c) <=> cases[c] \in CaseRows
  BY DEF CaseShape, CaseFiled, NoCase, CaseRows

\* More evidence about a case accounts for a row that says the same.
LEMMA StillAccounted ==
  ASSUME NEW row, NEW new, NEW c, NEW E, NEW F, Accounted(row, c, E),
         \A e \in E : e.case = c => e \in F,
         new.stage = row.stage, new.status = row.status, new.parties = row.parties,
         new.founders = row.founders, new.facilitators \subseteq row.facilitators
  PROVE  Accounted(new, c, F)
<1>1. \A kinds, to, who : Shows(E, c, kinds, to, who) => Shows(F, c, kinds, to, who)
  BY DEF Shows
<1> QED
  BY <1>1 DEF Accounted

\* A handler keeps what it knows while cases stay filed.
LEMMA CaseStays ==
  ASSUME CaseInv, NEW h \in Hands, hand'[h] = hand[h],
         \A c \in Cases : CaseFiled(c) => CaseFiled(c)'
  PROVE  CaseKnows(h)'
<1>1. CaseKnows(h)
  BY DEF CaseInv
<1>2. hand[h].at \in CaseSteps => CaseFiled(CaseOf(h))'
  <2>1. hand[h].at \in CaseSteps => CaseOf(h) \in Cases /\ CaseFiled(CaseOf(h))
    BY <1>1 DEF CaseKnows, CaseOf, CaseEntries
  <2>2. CaseOf(h)' = CaseOf(h)
    BY DEF CaseOf
  <2> QED
    BY <2>1, <2>2
<1> QED
  BY <1>1, <1>2 DEF CaseKnows, Doing

\* What is on its way to the ledger stays so while its handlers rest.
LEMMA EvidenceStays ==
  ASSUME NEW h \in Hands, \A g \in Hands \ {h} : hand'[g] = hand[g], ledger \subseteq ledger',
         Doing(h, "log") => hand[h].entry \in Evidence'
  PROVE  Evidence \subseteq Evidence'
<1> SUFFICES ASSUME NEW e \in Evidence PROVE e \in Evidence'
  OBVIOUS
<1>1. CASE e \in ledger
  BY <1>1 DEF Evidence
<1>2. ASSUME NEW g \in Hands, Doing(g, "log"), e = hand[g].entry PROVE e \in Evidence'
  BY <1>2 DEF Evidence, Doing
<1> QED
  BY <1>1, <1>2 DEF Evidence

\* Who answers, asks or goes on leaves the others their handlers.
LEMMA CaseHand ==
  ASSUME CaseShape, NEW h \in Hands
  PROVE  /\ Answer(h) => /\ hand' = [g \in Hands |-> hand'[g]] /\ hand'[h] = Idle
                         /\ \A g \in Hands \ {h} : hand'[g] = hand[g]
         /\ \A step : Ask(h, step) => /\ hand' = [g \in Hands |-> hand'[g]] /\ hand'[h] = step
                                      /\ hand[h] = Idle
                                      /\ \A g \in Hands \ {h} : hand'[g] = hand[g]
  BY DEF CaseShape, Answer, Ask, Rests

\* The write of a handler is on its way to the ledger.
LEMMA CaseGoes ==
  ASSUME CaseInv, NEW h \in Hands, Go(h, [at |-> "log"]), "entry" \in DOMAIN hand[h]
  PROVE  /\ hand' = [g \in Hands |-> hand'[g]]
         /\ \A g \in Hands \ {h} : hand'[g] = hand[g]
         /\ hand'[h].at = "log" /\ "entry" \in DOMAIN hand'[h] /\ hand'[h].entry = hand[h].entry
<1> DEFINE more == [at |-> "log"]
<1>1. DOMAIN more = {"at"} /\ more.at = "log"
  OBVIOUS
<1>2. hand' = [hand EXCEPT ![h] = Knowing(hand[h], more)]
  BY DEF Go
<1> HIDE DEF more
<1>3. hand' = [g \in Hands |-> hand'[g]] /\ hand'[h] = Knowing(hand[h], more)
      /\ \A g \in Hands \ {h} : hand'[g] = hand[g]
  BY <1>2 DEF CaseInv, CaseShape
<1>4. PICK k : k = Knowing(hand[h], more)
  OBVIOUS
<1>5. k.at = "log" /\ "entry" \in DOMAIN k /\ k.entry = hand[h].entry
  BY <1>1, <1>4 DEF Knowing
<1> QED
  BY <1>3, <1>4, <1>5

\* Handlers that write no case: the accounts stand as long as the evidence does.
LEMMA CaseQuiet ==
  ASSUME CaseInv, CaseShape', \A g \in Hands : CaseKnows(g)',
         \A c \in Cases : CaseFiled(c)' => /\ CaseFiled(c)
                                           /\ cases'[c].stage = cases[c].stage
                                           /\ cases'[c].status = cases[c].status
                                           /\ cases'[c].parties = cases[c].parties
                                           /\ cases'[c].founders = cases[c].founders
                                           /\ cases'[c].facilitators = cases[c].facilitators,
         unlogged \subseteq unlogged',
         \A e \in Evidence : e \in Evidence' \/ e.case \in unlogged'
  PROVE  CaseInv'
<1>1. ASSUME NEW c \in Cases, CaseFiled(c)', c \notin unlogged'
      PROVE  Accounted(cases[c], c, Evidence)'
  <2>1. Accounted(cases[c], c, Evidence)
    BY <1>1 DEF CaseInv
  <2>2. \A e \in Evidence : e.case = c => e \in Evidence'
    BY <1>1
  <2>3. PICK new, E, F, row : new = cases'[c] /\ E = Evidence /\ F = Evidence' /\ row = cases[c]
    OBVIOUS
  <2>4. /\ new.stage = row.stage /\ new.status = row.status /\ new.parties = row.parties
        /\ new.founders = row.founders /\ new.facilitators \subseteq row.facilitators
    BY <1>1, <2>3
  <2>5. Accounted(new, c, F)
    BY <2>1, <2>2, <2>3, <2>4, StillAccounted
  <2> QED
    BY <2>3, <2>5 DEF Accounted, Shows
<1> QED
  BY <1>1 DEF CaseInv

\* A case is filed, with its filer's entry on the way.
LEMMA FileStep ==
  ASSUME CaseInv, NEW h \in Hands, NEW c \in Cases, NEW who \in Folk,
         NEW others \in SUBSET (Folk \ {who}), FileCase(h, c, who, others)
  PROVE  CaseInv'
<1> DEFINE row == [status |-> "open", stage |-> EntryStage, parties |-> {who} \cup others,
                   founders |-> {who} \cup others, facilitators |-> {}, stalled |-> FALSE,
                   cooling |-> FALSE, nudged |-> FALSE]
           entry == Entry(c, "filed", EntryStage, who)
           step == [at |-> "log", entry |-> entry]
<1>1. /\ CaseShape /\ ~CaseFiled(c) /\ cases' = [cases EXCEPT ![c] = row] /\ Ask(h, step)
      /\ UNCHANGED <<ledger, unlogged>>
  BY DEF FileCase, CaseInv
<1>2. row \in CaseRows /\ row.stage = EntryStage /\ row.status = "open" /\ row.parties = row.founders
      /\ row.facilitators = {}
  BY DEF CaseRows, Pathway, EntryStage
<1>3. /\ entry \in CaseEntries /\ entry.case = c /\ entry.kind = "filed" /\ entry.to = EntryStage
      /\ entry.whom = who /\ step.at = "log" /\ "entry" \in DOMAIN step /\ step.entry = entry
  BY DEF Entry, CaseEntries, CaseKinds, EntryStage
<1> HIDE DEF row, entry, step
<1>4. /\ cases'[c] = row /\ \A d \in Cases \ {c} : cases'[d] = cases[d]
      /\ cases' \in [Cases -> CaseRows \cup {NoCase}]
  BY <1>1, <1>2 DEF CaseShape
<1>5. /\ hand' = [g \in Hands |-> hand'[g]] /\ hand'[h] = step /\ hand[h] = Idle
      /\ \A g \in Hands \ {h} : hand'[g] = hand[g]
  BY <1>1, CaseHand
<1>6. CaseShape'
  BY <1>4, <1>5 DEF CaseShape
<1>7. \A d \in Cases : CaseFiled(d)' <=> CaseFiled(d) \/ d = c
  BY <1>2, <1>4 DEF CaseFiled, CaseRows, NoCase
<1>8. \A g \in Hands : CaseKnows(g)'
  <2>1. CaseKnows(h)'
    <3>1. CaseOf(h)' = c
      BY <1>3, <1>5 DEF CaseOf
    <3> QED
      BY <1>3, <1>5, <1>7, <3>1 DEF CaseKnows, Doing
  <2>2. \A g \in Hands \ {h} : CaseKnows(g)'
    BY <1>5, <1>7, CaseStays
  <2> QED
    BY <2>1, <2>2
<1>9. Evidence \subseteq Evidence' /\ entry \in Evidence'
  <2>1. entry \in Evidence'
    BY <1>3, <1>5 DEF Evidence, Doing
  <2>2. ~Doing(h, "log")
    BY <1>5 DEF Idle, Doing
  <2> QED
    BY <1>1, <1>5, <2>1, <2>2, EvidenceStays
<1>10. ASSUME NEW d \in Cases, CaseFiled(d)', d \notin unlogged'
       PROVE  Accounted(cases[d], d, Evidence)'
  <2>1. CASE d = c
    <3>1. PICK F : F = Evidence'
      OBVIOUS
    <3>2. Shows(F, c, {"filed", "transition"}, {row.stage}, Folk)
      BY <1>2, <1>3, <1>9, <3>1 DEF Shows
    <3>3. Accounted(row, c, F)
      BY <1>2, <3>2 DEF Accounted
    <3> QED
      BY <1>4, <2>1, <3>1, <3>3 DEF Accounted, Shows
  <2>2. CASE d # c
    <3>1. Accounted(cases[d], d, Evidence) /\ cases'[d] = cases[d]
      BY <1>1, <1>4, <1>7, <1>10, <2>2 DEF CaseInv
    <3>2. PICK E, F, r : E = Evidence /\ F = Evidence' /\ r = cases[d]
      OBVIOUS
    <3>3. Accounted(r, d, F)
      BY <1>9, <3>1, <3>2, StillAccounted
    <3> QED
      BY <3>1, <3>2, <3>3 DEF Accounted, Shows
  <2> QED
    BY <2>1, <2>2
<1> QED
  BY <1>6, <1>8, <1>10 DEF CaseInv

\* A handler writes its case, and its entry is on the way.
LEMMA CaseWrite ==
  ASSUME CaseInv, NEW h \in Hands, hand[h].at \in CaseSteps \ {"log"}, NEW row \in CaseRows,
         cases' = [cases EXCEPT ![CaseOf(h)] = row], Go(h, [at |-> "log"]),
         UNCHANGED <<ledger, unlogged>>,
         \A F : hand[h].entry \in F /\ Accounted(cases[CaseOf(h)], CaseOf(h), F)
                 => Accounted(row, CaseOf(h), F)
  PROVE  CaseInv'
<1>1. CaseShape /\ CaseKnows(h)
  BY DEF CaseInv
<1>2. PICK c \in Cases, entry \in CaseEntries :
        /\ c = CaseOf(h) /\ entry = hand[h].entry /\ entry.case = c
        /\ "entry" \in DOMAIN hand[h] /\ CaseFiled(c) /\ hand[h].at # "log"
  BY <1>1 DEF CaseKnows, CaseOf, CaseEntries
<1>3. /\ cases'[c] = row /\ \A d \in Cases \ {c} : cases'[d] = cases[d]
      /\ cases' \in [Cases -> CaseRows \cup {NoCase}]
  BY <1>1, <1>2 DEF CaseShape
<1>4. /\ hand' = [g \in Hands |-> hand'[g]] /\ \A g \in Hands \ {h} : hand'[g] = hand[g]
      /\ hand'[h].at = "log" /\ "entry" \in DOMAIN hand'[h] /\ hand'[h].entry = entry
  BY <1>2, CaseGoes
<1>5. CaseShape'
  BY <1>3, <1>4 DEF CaseShape
<1>6. \A d \in Cases : CaseFiled(d)' <=> CaseFiled(d)
  BY <1>2, <1>3 DEF CaseFiled, CaseRows, NoCase
<1>7. \A g \in Hands : CaseKnows(g)'
  <2>1. CaseKnows(h)'
    <3>1. CaseOf(h)' = c
      BY <1>2, <1>4 DEF CaseOf
    <3> QED
      BY <1>2, <1>4, <1>6, <3>1 DEF CaseKnows, Doing
  <2>2. \A g \in Hands \ {h} : CaseKnows(g)'
    BY <1>4, <1>6, CaseStays
  <2> QED
    BY <2>1, <2>2
<1>8. Evidence \subseteq Evidence' /\ entry \in Evidence'
  <2>1. entry \in Evidence'
    BY <1>4 DEF Evidence, Doing
  <2>2. ~Doing(h, "log")
    BY <1>2 DEF Doing
  <2> QED
    BY <1>4, <2>1, <2>2, EvidenceStays
<1>9. ASSUME NEW d \in Cases, CaseFiled(d)', d \notin unlogged'
       PROVE  Accounted(cases[d], d, Evidence)'
  <2>1. PICK E, F, r : E = Evidence /\ F = Evidence' /\ r = cases[d]
    OBVIOUS
  <2>2. Accounted(r, d, F)
    <3>1. Accounted(r, d, E)
      BY <1>6, <1>9, <2>1 DEF CaseInv
    <3>2. E \subseteq F
      BY <1>8, <2>1
    <3> QED
      BY <3>1, <3>2, StillAccounted
  <2>3. PICK new : new = cases'[d]
    OBVIOUS
  <2>4. Accounted(new, d, F)
    <3>1. CASE d = c
      <4>1. entry \in F /\ Accounted(cases[CaseOf(h)], CaseOf(h), F)
        BY <1>2, <1>8, <2>1, <2>2, <3>1
      <4>2. Accounted(row, c, F)
        BY <1>2, <4>1
      <4> QED
        BY <1>3, <2>3, <3>1, <4>2
    <3>2. CASE d # c
      BY <1>3, <2>1, <2>2, <2>3, <3>2
    <3> QED
      BY <3>1, <3>2
  <2> QED
    BY <2>1, <2>3, <2>4 DEF Accounted, Shows
<1> QED
  BY <1>5, <1>7, <1>9 DEF CaseInv

\* The writes of the handlers, one by one.
LEMMA WriteSteps ==
  ASSUME CaseInv, NEW h \in Hands,
         \/ AdvanceStage(h) \/ RecordResolution(h) \/ RecordAgreement(h) \/ WithdrawCase(h)
         \/ SetFacilitator(h) \/ AddParty(h)
  PROVE  CaseInv'
<1> USE DEF CaseSteps
<1>1. CaseShape /\ CaseKnows(h)
  BY DEF CaseInv
<1>2. hand[h].at \in CaseSteps \ {"log"}
  BY DEF AdvanceStage, RecordResolution, RecordAgreement, WithdrawCase, SetFacilitator, AddParty,
         Close, CaseBecomes, Doing
<1>3. PICK c \in Cases, entry \in CaseEntries, old \in CaseRows :
        /\ c = CaseOf(h) /\ entry = hand[h].entry /\ entry.case = c /\ old = cases[c]
  BY <1>1, <1>2, FiledIsRow DEF CaseKnows, CaseOf, CaseEntries
<1>4. /\ entry.to \in 0..4 /\ entry.whom \in Folk
      /\ old.stage \in Pathway /\ old.parties \subseteq Folk /\ old.facilitators \subseteq Folk
      /\ old.founders \subseteq Folk
  BY DEF CaseEntries, CaseRows
<1>5. CASE AdvanceStage(h)
  <2>1. entry.kind = "transition" /\ entry.to \in Pathway
    BY <1>1, <1>3, <1>5 DEF AdvanceStage, CaseBecomes, CaseKnows
  <2>2. PICK row : row = [old EXCEPT !.stage = entry.to, !.stalled = FALSE, !.cooling = FALSE, !.nudged = FALSE]
    OBVIOUS
  <2>3. /\ row \in CaseRows /\ row.stage = entry.to /\ row.status = old.status
        /\ row.parties = old.parties /\ row.founders = old.founders /\ row.facilitators = old.facilitators
    BY <2>1, <2>2 DEF CaseRows
  <2>4. cases' = [cases EXCEPT ![CaseOf(h)] = row] /\ Go(h, [at |-> "log"]) /\ UNCHANGED <<ledger, unlogged>>
    BY <1>3, <1>5, <2>2 DEF AdvanceStage, CaseBecomes
  <2>5. ASSUME NEW F, entry \in F, Accounted(old, c, F) PROVE Accounted(row, c, F)
    <3>1. Shows(F, c, {"filed", "transition"}, {row.stage}, Folk)
      BY <1>3, <1>4, <2>1, <2>3, <2>5 DEF Shows
    <3> QED
      BY <2>3, <2>5, <3>1 DEF Accounted
  <2> QED
    BY <1>2, <1>3, <2>3, <2>4, <2>5, CaseWrite
<1>6. ASSUME NEW status \in {"resolved", "withdrawn"},
             cases' = [cases EXCEPT ![c] = [old EXCEPT !.status = status]],
             Go(h, [at |-> "log"]), UNCHANGED <<ledger, unlogged>>, entry.to \in Pathway,
             status = "resolved" => entry.kind \in {"resolution", "agreement"},
             status = "withdrawn" => entry.kind = "withdrawn"
      PROVE  CaseInv'
  <2>2. PICK row : row = [old EXCEPT !.status = status]
    OBVIOUS
  <2>3. /\ row \in CaseRows /\ row.status = status /\ row.stage = old.stage
        /\ row.parties = old.parties /\ row.founders = old.founders /\ row.facilitators = old.facilitators
    BY <2>2 DEF CaseRows
  <2>4. cases' = [cases EXCEPT ![CaseOf(h)] = row] /\ Go(h, [at |-> "log"]) /\ UNCHANGED <<ledger, unlogged>>
    BY <1>3, <1>6, <2>2
  <2>5. ASSUME NEW F, entry \in F, Accounted(old, c, F) PROVE Accounted(row, c, F)
    <3>1. /\ status = "resolved" => Shows(F, c, {"resolution", "agreement"}, Pathway, Folk)
          /\ status = "withdrawn" => Shows(F, c, {"withdrawn"}, Pathway, Folk)
      BY <1>3, <1>4, <1>6, <2>5 DEF Shows
    <3> QED
      BY <2>3, <2>5, <3>1 DEF Accounted
  <2> QED
    BY <1>2, <1>3, <2>3, <2>4, <2>5, CaseWrite
<1>7. CASE RecordResolution(h) \/ RecordAgreement(h) \/ WithdrawCase(h)
  <2>1. \/ /\ Doing(h, "resolve") \/ Doing(h, "agree")
           /\ cases' = [cases EXCEPT ![c] = [old EXCEPT !.status = "resolved"]]
        \/ Doing(h, "withdraw_case") /\ cases' = [cases EXCEPT ![c] = [old EXCEPT !.status = "withdrawn"]]
    BY <1>3, <1>7 DEF RecordResolution, RecordAgreement, WithdrawCase, Close, CaseBecomes
  <2>2. Go(h, [at |-> "log"]) /\ UNCHANGED <<ledger, unlogged>>
    BY <1>7 DEF RecordResolution, RecordAgreement, WithdrawCase, Close, CaseBecomes
  <2> QED
    BY <1>1, <1>3, <1>6, <2>1, <2>2 DEF CaseKnows
<1>8. CASE AddParty(h)
  <2>1. entry.kind = "party_added" /\ entry.to = 0
    BY <1>1, <1>3, <1>8 DEF AddParty, CaseBecomes, CaseKnows
  <2>2. PICK row : row = [old EXCEPT !.parties = old.parties \cup {entry.whom}]
    OBVIOUS
  <2>3. /\ row \in CaseRows /\ row.status = old.status /\ row.stage = old.stage
        /\ row.parties = old.parties \cup {entry.whom} /\ row.founders = old.founders
        /\ row.facilitators = old.facilitators
    BY <1>4, <2>2 DEF CaseRows
  <2>4. cases' = [cases EXCEPT ![CaseOf(h)] = row] /\ Go(h, [at |-> "log"]) /\ UNCHANGED <<ledger, unlogged>>
    BY <1>3, <1>8, <2>2 DEF AddParty, CaseBecomes
  <2>5. ASSUME NEW F, entry \in F, Accounted(old, c, F) PROVE Accounted(row, c, F)
    <3>1. Shows(F, c, {"party_added"}, {0}, {entry.whom})
      BY <1>3, <2>1, <2>5 DEF Shows
    <3> QED
      BY <2>3, <2>5, <3>1 DEF Accounted
  <2> QED
    BY <1>2, <1>3, <2>3, <2>4, <2>5, CaseWrite
<1>9. CASE SetFacilitator(h)
  <2>1. entry.kind \in {"assigned", "released"} /\ entry.to = 0
    BY <1>1, <1>3, <1>9 DEF SetFacilitator, CaseBecomes, CaseKnows
  <2>2. PICK staff \in SUBSET Folk :
          staff = IF entry.kind = "assigned" THEN old.facilitators \cup {entry.whom}
                                             ELSE old.facilitators \ {entry.whom}
    BY <1>4
  <2>3. PICK row : row = [old EXCEPT !.facilitators = staff]
    OBVIOUS
  <2>4. /\ row \in CaseRows /\ row.status = old.status /\ row.stage = old.stage
        /\ row.parties = old.parties /\ row.founders = old.founders
        /\ row.facilitators = staff
    BY <1>4, <2>3 DEF CaseRows
  <2>5. cases' = [cases EXCEPT ![CaseOf(h)] = row] /\ Go(h, [at |-> "log"]) /\ UNCHANGED <<ledger, unlogged>>
    BY <1>3, <1>9, <2>2, <2>3 DEF SetFacilitator, CaseBecomes
  <2>6. ASSUME NEW F, entry \in F, Accounted(old, c, F) PROVE Accounted(row, c, F)
    <3>1. entry.kind = "assigned" => Shows(F, c, {"assigned"}, {0}, {entry.whom})
      BY <1>3, <2>1, <2>6 DEF Shows
    <3> QED
      BY <2>2, <2>4, <2>6, <3>1 DEF Accounted
  <2> QED
    BY <1>2, <1>3, <2>4, <2>5, <2>6, CaseWrite
<1> QED
  BY <1>5, <1>7, <1>8, <1>9

\* A handler reads the case and decides.
LEMMA BegunCase ==
  ASSUME CaseInv, NEW h \in Hands, NEW c \in Cases, NEW who \in Folk, NEW step \in CaseSteps \ {"log"},
         NEW guard, NEW kind \in CaseKinds, NEW to \in 0..4,
         BeginCase(h, step, c, guard, Entry(c, kind, to, who)),
         step = "advance" => kind = "transition" /\ to \in Pathway,
         step = "resolve" => kind = "resolution" /\ to \in Pathway,
         step = "agree" => kind = "agreement" /\ to \in Pathway,
         step = "withdraw_case" => kind = "withdrawn" /\ to \in Pathway,
         step = "party" => kind = "party_added" /\ to = 0,
         step = "staff" => kind \in {"assigned", "released"} /\ to = 0
  PROVE  CaseInv'
<1> DEFINE entry == Entry(c, kind, to, who)
           begun == [at |-> step, entry |-> entry]
<1>1. CaseShape /\ CaseFiled(c) /\ Ask(h, begun) /\ UNCHANGED <<cases, ledger, unlogged>>
  BY DEF BeginCase, CaseInv
<1>2. /\ entry \in CaseEntries /\ entry.case = c /\ entry.kind = kind /\ entry.to = to
      /\ begun.at = step /\ "entry" \in DOMAIN begun /\ begun.entry = entry
  BY DEF Entry, CaseEntries
<1> HIDE DEF entry, begun
<1>3. /\ hand' = [g \in Hands |-> hand'[g]] /\ hand'[h] = begun /\ hand[h] = Idle
      /\ \A g \in Hands \ {h} : hand'[g] = hand[g]
  BY <1>1, CaseHand
<1>4. CaseShape' /\ \A d \in Cases : CaseFiled(d)' <=> CaseFiled(d)
  BY <1>1, <1>3 DEF CaseShape, CaseFiled
<1>5. CaseKnows(h)'
  <2>1. CaseOf(h)' = c
    BY <1>2, <1>3 DEF CaseOf
  <2> QED
    BY <1>1, <1>2, <1>3, <1>4, <2>1 DEF CaseKnows, Doing, CaseSteps
<1>6. \A g \in Hands : CaseKnows(g)'
  BY <1>3, <1>4, <1>5, CaseStays
<1>7. Evidence \subseteq Evidence'
  <2>1. ~Doing(h, "log")
    BY <1>3 DEF Idle, Doing
  <2> QED
    BY <1>1, <1>3, <2>1, EvidenceStays
<1> QED
  BY <1>1, <1>4, <1>6, <1>7, CaseQuiet

\* A request of somebody with standing.
LEMMA RequestSteps ==
  ASSUME CaseInv, NEW h \in Hands, NEW c \in Cases, NEW who \in Folk,
         \/ \E to \in Pathway :
              BeginCase(h, "advance", c, IsFacilitator(c, who) /\ CaseOpen(c) /\ to > cases[c].stage,
                        Entry(c, "transition", to, who))
         \/ BeginCase(h, "resolve", c, IsFacilitator(c, who) /\ CaseOpen(c),
                      Entry(c, "resolution", cases[c].stage, who))
         \/ BeginCase(h, "agree", c, IsParty(c, who) /\ CaseOpen(c) /\ cases[c].stage = EntryStage,
                      Entry(c, "agreement", EntryStage, who))
         \/ BeginCase(h, "withdraw_case", c, IsParty(c, who) /\ CaseOpen(c),
                      Entry(c, "withdrawn", cases[c].stage, who))
         \/ BeginCase(h, "party", c, CaseOpen(c) /\ ~IsParty(c, who), Entry(c, "party_added", 0, who))
         \/ BeginCase(h, "staff", c, who \notin cases[c].facilitators, Entry(c, "assigned", 0, who))
         \/ BeginCase(h, "staff", c, who \in cases[c].facilitators, Entry(c, "released", 0, who))
  PROVE  CaseInv'
<1>1. CaseFiled(c) /\ cases[c].stage \in Pathway
  <2>1. CaseFiled(c)
    BY DEF BeginCase
  <2> QED
    BY <2>1, FiledIsRow DEF CaseInv, CaseRows
<1>2. Pathway \subseteq 0..4 /\ EntryStage \in Pathway /\ 0 \in 0..4
  BY DEF Pathway, EntryStage
<1>3. /\ {"transition", "resolution", "agreement", "withdrawn", "party_added", "assigned", "released"}
           \subseteq CaseKinds
      /\ {"advance", "resolve", "agree", "withdraw_case", "party", "staff"} \subseteq CaseSteps \ {"log"}
  BY DEF CaseKinds, CaseSteps
<1>4. ASSUME NEW to \in Pathway,
             BeginCase(h, "advance", c, IsFacilitator(c, who) /\ CaseOpen(c) /\ to > cases[c].stage,
                       Entry(c, "transition", to, who))
      PROVE  CaseInv'
  BY <1>2, <1>3, <1>4, BegunCase
<1>5. CASE BeginCase(h, "resolve", c, IsFacilitator(c, who) /\ CaseOpen(c),
                     Entry(c, "resolution", cases[c].stage, who))
  BY <1>1, <1>2, <1>3, <1>5, BegunCase
<1>6. CASE BeginCase(h, "agree", c, IsParty(c, who) /\ CaseOpen(c) /\ cases[c].stage = EntryStage,
                     Entry(c, "agreement", EntryStage, who))
  BY <1>2, <1>3, <1>6, BegunCase
<1>7. CASE BeginCase(h, "withdraw_case", c, IsParty(c, who) /\ CaseOpen(c),
                     Entry(c, "withdrawn", cases[c].stage, who))
  BY <1>1, <1>2, <1>3, <1>7, BegunCase
<1>8. CASE BeginCase(h, "party", c, CaseOpen(c) /\ ~IsParty(c, who), Entry(c, "party_added", 0, who))
  BY <1>2, <1>3, <1>8, BegunCase
<1>9. CASE BeginCase(h, "staff", c, who \notin cases[c].facilitators, Entry(c, "assigned", 0, who))
  BY <1>2, <1>3, <1>9, BegunCase
<1>10. CASE BeginCase(h, "staff", c, who \in cases[c].facilitators, Entry(c, "released", 0, who))
  BY <1>2, <1>3, <1>10, BegunCase
<1> QED
  BY <1>4, <1>5, <1>6, <1>7, <1>8, <1>9, <1>10

\* The entry is in the ledger, or its handler ended before it was.
LEMMA LogSteps ==
  ASSUME CaseInv, NEW h \in Hands, LogEntry(h) \/ CaseFails(h)
  PROVE  CaseInv'
<1>1. CaseShape /\ Answer(h) /\ UNCHANGED cases /\ unlogged \subseteq unlogged' /\ ledger \subseteq ledger'
  BY DEF CaseInv, LogEntry, CaseFails
<1>2. /\ hand' = [g \in Hands |-> hand'[g]] /\ hand'[h] = Idle
      /\ \A g \in Hands \ {h} : hand'[g] = hand[g]
  BY <1>1, CaseHand
<1>3. CaseShape' /\ \A d \in Cases : CaseFiled(d)' <=> CaseFiled(d)
  BY <1>1, <1>2 DEF CaseShape, CaseFiled
<1>4. \A g \in Hands : CaseKnows(g)'
  <2>1. CaseKnows(h)'
    BY <1>2 DEF CaseKnows, Idle, Doing, CaseSteps
  <2> QED
    BY <1>2, <1>3, <2>1, CaseStays
<1>5. ASSUME NEW e \in Evidence PROVE e \in Evidence' \/ e.case \in unlogged'
  <2>1. CASE e \in ledger
    BY <1>1, <2>1 DEF Evidence
  <2>2. ASSUME NEW g \in Hands \ {h}, Doing(g, "log"), e = hand[g].entry PROVE e \in Evidence'
    BY <1>2, <2>2 DEF Evidence, Doing
  <2>3. CASE Doing(h, "log") /\ e = hand[h].entry
    BY <2>3 DEF LogEntry, CaseFails, Evidence, CaseOf
  <2> QED
    BY <2>1, <2>2, <2>3 DEF Evidence
<1> QED
  BY <1>1, <1>3, <1>4, <1>5, CaseQuiet

\* The clock and the nudge touch flags the ledger does not account for.
LEMMA FlagWrite ==
  ASSUME CaseInv, NEW x \in Cases, NEW row, cases' = [cases EXCEPT ![x] = row],
         UNCHANGED <<hand, unlogged>>, ledger \subseteq ledger',
         cases[x] \notin CaseRows => row = NoCase,
         cases[x] \in CaseRows =>
           /\ row \in CaseRows /\ row.stage = cases[x].stage /\ row.status = cases[x].status
           /\ row.parties = cases[x].parties /\ row.founders = cases[x].founders
           /\ row.facilitators = cases[x].facilitators
  PROVE  CaseInv'
<1>1. CaseShape
  BY DEF CaseInv
<1>2. /\ cases'[x] = row /\ \A d \in Cases \ {x} : cases'[d] = cases[d]
      /\ cases' \in [Cases -> CaseRows \cup {NoCase}]
  BY <1>1 DEF CaseShape
<1>3. CaseShape'
  BY <1>1, <1>2 DEF CaseShape
<1>4. \A d \in Cases : CaseFiled(d)' <=> CaseFiled(d)
  BY <1>1, <1>2 DEF CaseShape, CaseFiled, CaseRows, NoCase
<1>5. \A d \in Cases : CaseFiled(d)' =>
        /\ CaseFiled(d)
        /\ cases'[d].stage = cases[d].stage /\ cases'[d].status = cases[d].status
        /\ cases'[d].parties = cases[d].parties /\ cases'[d].founders = cases[d].founders
        /\ cases'[d].facilitators = cases[d].facilitators
  BY <1>1, <1>2, <1>4, FiledIsRow
<1>6. \A g \in Hands : CaseKnows(g)'
  BY <1>4, CaseStays
<1>7. Evidence \subseteq Evidence'
  BY DEF Evidence, Doing
<1> QED
  BY <1>3, <1>5, <1>6, <1>7, CaseQuiet

\* The nudge and the clock write nothing the ledger accounts for.
LEMMA NudgeSteps ==
  ASSUME CaseInv, Nudging \/ PassEnds \/ Clock
  PROVE  CaseInv'
<1>1. CaseShape /\ UNCHANGED <<hand, unlogged>> /\ ledger \subseteq ledger'
  BY DEF CaseInv, Nudging, ReadStalled, Nudge, PassEnds, Clock, StageAges, CooldownExpires, hostVars
<1>2. ASSUME NEW old \in CaseRows, NEW row,
             \/ row = [old EXCEPT !.stalled = TRUE] \/ row = [old EXCEPT !.cooling = FALSE]
             \/ row = [old EXCEPT !.cooling = TRUE, !.nudged = TRUE]
      PROVE  /\ row \in CaseRows /\ row.stage = old.stage /\ row.status = old.status
             /\ row.parties = old.parties /\ row.founders = old.founders
             /\ row.facilitators = old.facilitators
  BY <1>2 DEF CaseRows
<1>3. CASE UNCHANGED cases
  <2>1. CaseShape' /\ \A c \in Cases : CaseFiled(c)' <=> CaseFiled(c)
    BY <1>1, <1>3 DEF CaseShape, CaseFiled
  <2>2. \A g \in Hands : CaseKnows(g)'
    BY <1>1, <2>1, CaseStays
  <2>3. Evidence \subseteq Evidence'
    BY <1>1 DEF Evidence, Doing
  <2> QED
    BY <1>1, <1>3, <2>1, <2>2, <2>3, CaseQuiet
<1>4. ASSUME NEW c \in Cases, StageAges(c) \/ CooldownExpires(c) PROVE CaseInv'
  <2>1. PICK old \in CaseRows : old = cases[c]
    BY <1>1, <1>4, FiledIsRow DEF StageAges, CooldownExpires
  <2>2. CASE StageAges(c)
    <3>1. PICK row : row = [old EXCEPT !.stalled = TRUE]
      OBVIOUS
    <3>2. cases' = [cases EXCEPT ![c] = row]
      BY <2>1, <2>2, <3>1 DEF StageAges
    <3> QED
      BY <1>1, <1>2, <2>1, <3>1, <3>2, FlagWrite
  <2>3. CASE CooldownExpires(c)
    <3>1. PICK row : row = [old EXCEPT !.cooling = FALSE]
      OBVIOUS
    <3>2. cases' = [cases EXCEPT ![c] = row]
      BY <2>1, <2>3, <3>1 DEF CooldownExpires
    <3>3. /\ row \in CaseRows /\ row.stage = old.stage /\ row.status = old.status
          /\ row.parties = old.parties /\ row.founders = old.founders
          /\ row.facilitators = old.facilitators
      BY <1>2, <3>1
    <3> QED
      BY <1>1, <2>1, <3>2, <3>3, FlagWrite
  <2> QED
    BY <1>4, <2>2, <2>3
<1>5. CASE Nudge
  <2>1. PICK x : x = Head(pass).case
    OBVIOUS
  <2>2. PICK row : row = [cases[x] EXCEPT !.cooling = TRUE, !.nudged = TRUE]
    OBVIOUS
  <2>3. cases' = [cases EXCEPT ![x] = row]
    BY <1>1, <1>5, <2>1, <2>2 DEF Nudge, CaseShape
  <2>4. CASE x \in Cases
    <3>1. cases[x] \notin CaseRows => row = NoCase
      BY <1>1, <2>2, <2>4 DEF CaseShape, NoCase
    <3>2. PICK old : old = cases[x]
      OBVIOUS
    <3>3. old \in CaseRows =>
            /\ row \in CaseRows /\ row.stage = old.stage /\ row.status = old.status
            /\ row.parties = old.parties /\ row.founders = old.founders
            /\ row.facilitators = old.facilitators
      BY <1>2, <2>2, <3>2
    <3> QED
      BY <1>1, <2>3, <2>4, <3>1, <3>2, <3>3, FlagWrite
  <2>5. CASE x \notin Cases
    BY <1>1, <1>3, <2>3, <2>5 DEF CaseShape
  <2> QED
    BY <2>4, <2>5
<1> QED
  BY <1>3, <1>4, <1>5 DEF Nudging, ReadStalled, PassEnds, Clock

\* No case is filed at first.
LEMMA CaseStarts == CaseInit => CaseInv
<1> SUFFICES ASSUME CaseInit PROVE CaseInv
  OBVIOUS
<1>1. CaseShape
  BY DEF CaseInit, HostInit, CaseShape, Idle
<1>2. \A h \in Hands : CaseKnows(h)
  BY DEF CaseInit, HostInit, CaseKnows, Idle, Doing, CaseSteps
<1>3. \A c \in Cases : ~CaseFiled(c)
  BY DEF CaseInit, CaseFiled
<1> QED
  BY <1>1, <1>2, <1>3 DEF CaseInv

\* Every step keeps the invariant.
LEMMA CaseStep == CaseInv /\ [CaseNext]_caseVars => CaseInv'
<1> SUFFICES ASSUME CaseInv, [CaseNext]_caseVars PROVE CaseInv'
  OBVIOUS
<1>1. ASSUME NEW h \in Hands, Circle(h) PROVE CaseInv'
  <2>1. ASSUME NEW c \in Cases, NEW who \in Folk, NEW others \in SUBSET (Folk \ {who}),
               FileCase(h, c, who, others)
        PROVE  CaseInv'
    BY <2>1, FileStep
  <2> QED
    BY <1>1, <2>1, RequestSteps, WriteSteps, LogSteps DEF Circle
<1>2. CASE UNCHANGED caseVars
  <2>1. UNCHANGED <<cases, ledger, hand, unlogged>>
    BY <1>2 DEF caseVars, hostVars
  <2>2. CaseShape' /\ \A c \in Cases : CaseFiled(c)' <=> CaseFiled(c)
    BY <2>1 DEF CaseInv, CaseShape, CaseFiled
  <2>3. \A g \in Hands : CaseKnows(g)'
    BY <2>1, <2>2, CaseStays
  <2>4. Evidence \subseteq Evidence'
    BY <2>1 DEF Evidence, Doing
  <2> QED
    BY <2>1, <2>2, <2>3, <2>4, CaseQuiet
<1> QED
  BY <1>1, <1>2, NudgeSteps DEF CaseNext

\* The evidence accounts for every case, and what a handler is about to write
\* down is what it wrote (conflicts/src/lib.rs, the handlers of the pathway).
THEOREM CaseInvariant == CaseSpec => []CaseInv
  BY CaseStarts, CaseStep, PTL DEF CaseSpec

\* The ledger says how every case came to be what it is and who has standing
\* in it, whatever handlers overlapped, but for the row a handler still owes
\* or lost (conflicts/src/lib.rs, append_log after each UPDATE).
THEOREM LedgerAccounts == CaseSpec => []LedgerAccountsForTheCase
<1>1. CaseInv => LedgerAccountsForTheCase
  <2> SUFFICES ASSUME CaseInv, NEW c \in Cases, CaseFiled(c), c \notin unlogged,
                      \A h \in Hands : Doing(h, "log") => CaseOf(h) # c
               PROVE  Accounted(cases[c], c, ledger)
    BY DEF LedgerAccountsForTheCase, Accounted, Shows
  <2>1. Accounted(cases[c], c, Evidence)
    BY DEF CaseInv
  <2>2. \A e \in Evidence : e.case = c => e \in ledger
    BY DEF Evidence, CaseOf
  <2> QED
    BY <2>1, <2>2, StillAccounted
<1> QED
  BY <1>1, CaseInvariant, PTL

(***************************************************************************)
(* A notice is told of once, by the handler that sent it out.              *)
(***************************************************************************)

NoticeStates == {"none", "draft", "published", "retracted", "deleted"}
Cries == {Told(n) : n \in Notices} \cup
         {[type |-> "announcement.retracted", notice |-> n] : n \in Notices}

\* A notice that is, or was, out; the draft nobody sent is none.
WentOut(n) == notices[n] \in {"published", "retracted", "deleted"}
ToTell(h, n) == Doing(h, "tell") /\ hand[h].event = Told(n)

NoticeShape ==
  /\ notices \in [Notices -> NoticeStates]
  /\ hand = [h \in Hands |-> hand[h]] /\ bus \in Seq(Cries)

NoticeKnows(h) ==
  /\ hand[h].at \in {"send", "retract", "erase", "read", "unread"} => hand[h].notice \in Notices
  /\ Doing(h, "read") => WentOut(hand[h].notice)
  /\ Doing(h, "tell") => hand[h].event \in Cries

\* Who told, or is about to, is one, and the notice went out.
OneCrier(n) ==
  /\ \A i \in DOMAIN bus : bus[i] = Told(n) =>
       /\ WentOut(n) /\ \A h \in Hands : ~ToTell(h, n)
       /\ \A j \in DOMAIN bus : bus[j] = Told(n) => j = i
  /\ \A h \in Hands : ToTell(h, n) =>
       WentOut(n) /\ \A g \in Hands : ToTell(g, n) => g = h

NoticeInv ==
  /\ NoticeShape /\ \A h \in Hands : NoticeKnows(h)
  /\ \A n \in Notices : OneCrier(n)
  /\ \A r \in receipts : r.notice \in Notices /\ notices[r.notice] \in {"published", "retracted"}

\* A handler moves on and tells nothing: notices that went out stay out, and
\* whoever is to tell has just sent the notice out.
LEMMA CrierMoves ==
  ASSUME NoticeInv, NEW h \in Hands, hand' = [g \in Hands |-> hand'[g]],
         \A g \in Hands \ {h} : hand'[g] = hand[g], UNCHANGED bus,
         notices' \in [Notices -> NoticeStates], NoticeKnows(h)',
         \A n \in Notices : WentOut(n) => WentOut(n)',
         \A n \in Notices : ToTell(h, n)' => ~WentOut(n) /\ WentOut(n)',
         \A r \in receipts' : r.notice \in Notices /\ notices'[r.notice] \in {"published", "retracted"}
  PROVE  NoticeInv'
<1>1. NoticeShape'
  BY DEF NoticeInv, NoticeShape
<1>2. ASSUME NEW g \in Hands \ {h} PROVE NoticeKnows(g)'
  <2>1. NoticeKnows(g) /\ hand'[g] = hand[g]
    BY DEF NoticeInv
  <2>2. Doing(g, "read") => WentOut(hand[g].notice)'
    BY <2>1 DEF NoticeKnows, Doing
  <2> QED
    BY <2>1, <2>2 DEF NoticeKnows, Doing
<1>3. ASSUME NEW n \in Notices PROVE OneCrier(n)'
  <2>1. OneCrier(n) /\ (WentOut(n) => WentOut(n)')
    BY DEF NoticeInv
  <2>2. \A g \in Hands \ {h} : ToTell(g, n)' <=> ToTell(g, n)
    BY DEF ToTell, Doing
  <2> QED
    BY <2>1, <2>2 DEF OneCrier
<1> QED
  BY <1>1, <1>2, <1>3 DEF NoticeInv

\* The handler that sent the notice out tells of it.
LEMMA CrierTells ==
  ASSUME NoticeInv, NEW h \in Hands, Tell(h)
  PROVE  NoticeInv'
<1>1. NoticeShape /\ NoticeKnows(h) /\ Doing(h, "tell") /\ hand[h].event \in Cries
  BY DEF NoticeInv, Tell, NoticeKnows
<1>2. /\ bus' = Append(bus, hand[h].event) /\ UNCHANGED <<notices, receipts>>
      /\ hand' = [hand EXCEPT ![h] = Idle]
  BY DEF Tell, Publish, Answer
<1>3. /\ hand' = [g \in Hands |-> hand'[g]] /\ hand'[h] = Idle
      /\ \A g \in Hands \ {h} : hand'[g] = hand[g]
  BY <1>1, <1>2 DEF NoticeShape
<1>4. NoticeShape'
  BY <1>1, <1>2, <1>3 DEF NoticeShape
<1>5. \A g \in Hands : NoticeKnows(g)'
  <2>1. NoticeKnows(h)'
    BY <1>3 DEF NoticeKnows, Idle, Doing
  <2>2. ASSUME NEW g \in Hands \ {h} PROVE NoticeKnows(g)'
    <3>1. NoticeKnows(g) /\ hand'[g] = hand[g]
      BY <1>3 DEF NoticeInv
    <3>2. Doing(g, "read") => WentOut(hand[g].notice)'
      BY <1>2, <3>1 DEF NoticeKnows, WentOut
    <3> QED
      BY <3>1, <3>2 DEF NoticeKnows, Doing
  <2> QED
    BY <2>1, <2>2
<1>6. ASSUME NEW n \in Notices PROVE OneCrier(n)'
  <2>1. OneCrier(n) /\ (WentOut(n)' <=> WentOut(n))
    BY <1>2 DEF NoticeInv, WentOut
  <2>2. /\ ~ToTell(h, n)'
        /\ \A g \in Hands \ {h} : ToTell(g, n)' <=> ToTell(g, n)
    BY <1>3 DEF ToTell, Doing, Idle
  <2>3. PICK cry : cry = hand[h].event
    OBVIOUS
  <2>4. /\ DOMAIN bus' = DOMAIN bus \cup {Len(bus) + 1} /\ bus'[Len(bus) + 1] = cry
        /\ Len(bus) + 1 \notin DOMAIN bus /\ \A i \in DOMAIN bus : bus'[i] = bus[i]
    BY <1>1, <1>2, <2>3 DEF NoticeShape
  <2>5. CASE cry = Told(n)
    <3>1. ToTell(h, n)
      BY <1>1, <2>3, <2>5 DEF ToTell
    <3>2. /\ WentOut(n) /\ \A g \in Hands : ToTell(g, n) => g = h
          /\ \A i \in DOMAIN bus : bus[i] # Told(n)
      BY <2>1, <3>1 DEF OneCrier
    <3> QED
      BY <2>1, <2>2, <2>4, <2>5, <3>2 DEF OneCrier
  <2>6. CASE cry # Told(n)
    BY <2>1, <2>2, <2>4, <2>6 DEF OneCrier
  <2> QED
    BY <2>5, <2>6
<1>7. \A r \in receipts' : r.notice \in Notices /\ notices'[r.notice] \in {"published", "retracted"}
  BY <1>2 DEF NoticeInv
<1> QED
  BY <1>4, <1>5, <1>6, <1>7 DEF NoticeInv

\* Who answers, asks or goes on leaves the others their handlers.
LEMMA CrierHand ==
  ASSUME NoticeShape, NEW h \in Hands
  PROVE  /\ Answer(h) => /\ hand' = [g \in Hands |-> hand'[g]] /\ hand'[h] = Idle
                         /\ \A g \in Hands \ {h} : hand'[g] = hand[g]
         /\ \A step : Ask(h, step) => /\ hand' = [g \in Hands |-> hand'[g]] /\ hand'[h] = step
                                      /\ \A g \in Hands \ {h} : hand'[g] = hand[g]
         /\ \A event : Go(h, [at |-> "tell", event |-> event]) =>
              /\ hand' = [g \in Hands |-> hand'[g]] /\ hand'[h].at = "tell" /\ hand'[h].event = event
              /\ \A g \in Hands \ {h} : hand'[g] = hand[g]
<1>1. ASSUME NEW event, Go(h, [at |-> "tell", event |-> event])
      PROVE  /\ hand' = [g \in Hands |-> hand'[g]] /\ hand'[h].at = "tell" /\ hand'[h].event = event
             /\ \A g \in Hands \ {h} : hand'[g] = hand[g]
  <2> DEFINE more == [at |-> "tell", event |-> event]
  <2>1. DOMAIN more = {"at", "event"} /\ more.at = "tell" /\ more.event = event
    OBVIOUS
  <2>2. hand' = [hand EXCEPT ![h] = Knowing(hand[h], more)]
    BY <1>1 DEF Go
  <2> HIDE DEF more
  <2>3. PICK k : k = Knowing(hand[h], more)
    OBVIOUS
  <2>4. k.at = "tell" /\ k.event = event
    BY <2>1, <2>3 DEF Knowing
  <2> QED
    BY <2>2, <2>3, <2>4 DEF NoticeShape
<1> QED
  BY <1>1 DEF NoticeShape, Answer, Ask, Rests

\* A notice is written, sent at once or kept as a draft.
LEMMA CreateMoves ==
  ASSUME NoticeInv, NEW h \in Hands, NEW n \in Notices, NEW at_once \in BOOLEAN,
         CreateNotice(h, n, at_once)
  PROVE  NoticeInv'
<1>1. /\ NoticeShape /\ notices[n] = "none" /\ UNCHANGED <<bus, receipts>>
      /\ notices' = [notices EXCEPT ![n] = IF at_once THEN "published" ELSE "draft"]
  BY DEF NoticeInv, CreateNotice, Silent
<1>2. /\ notices' \in [Notices -> NoticeStates] /\ ~WentOut(n)
      /\ \A m \in Notices \ {n} : notices'[m] = notices[m]
      /\ at_once => notices'[n] = "published"
  BY <1>1 DEF NoticeShape, NoticeStates, WentOut
<1>3. \A r \in receipts' : r.notice \in Notices /\ notices'[r.notice] \in {"published", "retracted"}
  BY <1>1, <1>2 DEF NoticeInv
<1>4. \A m \in Notices : WentOut(m) => WentOut(m)'
  BY <1>2 DEF WentOut
<1>5. CASE at_once
  <2> DEFINE step == [at |-> "tell", event |-> Told(n)]
  <2>1. Ask(h, step)
    BY <1>5 DEF CreateNotice
  <2>2. step.at = "tell" /\ step.event = Told(n)
    OBVIOUS
  <2> HIDE DEF step
  <2>3. /\ hand' = [g \in Hands |-> hand'[g]] /\ hand'[h] = step
        /\ \A g \in Hands \ {h} : hand'[g] = hand[g]
    BY <1>1, <2>1, CrierHand
  <2>4. NoticeKnows(h)'
    BY <2>2, <2>3 DEF NoticeKnows, Doing, Cries
  <2>5. \A m \in Notices : ToTell(h, m)' => ~WentOut(m) /\ WentOut(m)'
    BY <1>2, <1>5, <2>2, <2>3 DEF ToTell, Told, WentOut
  <2> QED
    BY <1>1, <1>2, <1>3, <1>4, <2>3, <2>4, <2>5, CrierMoves
<1>6. CASE ~at_once
  <2>1. UNCHANGED hand
    BY <1>6 DEF CreateNotice, AskOnce
  <2>2. \A g \in Hands : NoticeKnows(g)'
    <3> SUFFICES ASSUME NEW g \in Hands PROVE NoticeKnows(g)'
      OBVIOUS
    <3>1. NoticeKnows(g) /\ hand'[g] = hand[g]
      BY <2>1 DEF NoticeInv
    <3>2. Doing(g, "read") => WentOut(hand[g].notice)'
      BY <1>4, <3>1 DEF NoticeKnows, Doing
    <3> QED
      BY <2>1, <3>1, <3>2 DEF NoticeKnows, Doing
  <2>3. ASSUME NEW m \in Notices PROVE OneCrier(m)'
    <3>1. OneCrier(m) /\ (WentOut(m) => WentOut(m)')
      BY <1>4 DEF NoticeInv
    <3>2. \A g \in Hands : ToTell(g, m)' <=> ToTell(g, m)
      BY <2>1 DEF ToTell, Doing
    <3> QED
      BY <1>1, <3>1, <3>2 DEF OneCrier
  <2> QED
    BY <1>1, <1>2, <1>3, <2>1, <2>2, <2>3 DEF NoticeInv, NoticeShape
<1> QED
  BY <1>5, <1>6

\* A handler reads the notice and decides, or a reader does.
LEMMA LookMoves ==
  ASSUME NoticeInv, NEW h \in Hands, NEW n \in Notices, NEW step,
         Ask(h, step), UNCHANGED <<notices, receipts, bus>>,
         step.at \in {"send", "retract", "erase", "read", "unread"}, step.notice = n,
         step.at = "read" => WentOut(n)
  PROVE  NoticeInv'
<1>1. /\ hand' = [g \in Hands |-> hand'[g]] /\ hand'[h] = step
      /\ \A g \in Hands \ {h} : hand'[g] = hand[g]
  BY CrierHand DEF NoticeInv
<1>2. NoticeKnows(h)'
  BY <1>1 DEF NoticeKnows, Doing, WentOut
<1>3. \A m \in Notices : ~ToTell(h, m)' /\ (WentOut(m) <=> WentOut(m)')
  BY <1>1 DEF ToTell, Doing, WentOut
<1>4. notices' \in [Notices -> NoticeStates]
  BY DEF NoticeInv, NoticeShape
<1>5. \A r \in receipts' : r.notice \in Notices /\ notices'[r.notice] \in {"published", "retracted"}
  BY DEF NoticeInv
<1> QED
  BY <1>1, <1>2, <1>3, <1>4, <1>5, CrierMoves

\* A handler answers, with what it wrote.
LEMMA AnswerMoves ==
  ASSUME NoticeInv, NEW h \in Hands, Answer(h), UNCHANGED bus,
         notices' \in [Notices -> NoticeStates],
         \A n \in Notices : WentOut(n) => WentOut(n)',
         \A r \in receipts' : r.notice \in Notices /\ notices'[r.notice] \in {"published", "retracted"}
  PROVE  NoticeInv'
<1>1. /\ hand' = [g \in Hands |-> hand'[g]] /\ hand'[h] = Idle
      /\ \A g \in Hands \ {h} : hand'[g] = hand[g]
  BY CrierHand DEF NoticeInv
<1>2. NoticeKnows(h)'
  BY <1>1 DEF NoticeKnows, Doing, Idle
<1>3. \A m \in Notices : ~ToTell(h, m)'
  BY <1>1 DEF ToTell, Doing, Idle
<1> QED
  BY <1>1, <1>2, <1>3, CrierMoves

\* The notice moves on, and its handler is to tell.
LEMMA MovedMoves ==
  ASSUME NoticeInv, NEW h \in Hands, NEW n \in Notices, NEW from, NEW to \in NoticeStates, NEW event,
         n = hand[h].notice, Moved(h, from, to, event), event \in Cries,
         to \in {"published", "retracted"}, WentOut(n) => event # Told(n),
         \A m \in Notices \ {n} : event # Told(m)
  PROVE  NoticeInv'
<1>1. /\ NoticeShape /\ notices' = [notices EXCEPT ![n] = to] /\ UNCHANGED <<bus, receipts>>
      /\ Go(h, [at |-> "tell", event |-> event])
  BY DEF NoticeInv, Moved, Silent
<1>2. /\ notices' \in [Notices -> NoticeStates] /\ notices'[n] = to
      /\ \A m \in Notices \ {n} : notices'[m] = notices[m]
  BY <1>1 DEF NoticeShape
<1>3. /\ hand' = [g \in Hands |-> hand'[g]] /\ hand'[h].at = "tell" /\ hand'[h].event = event
      /\ \A g \in Hands \ {h} : hand'[g] = hand[g]
  BY <1>1, CrierHand
<1>4. NoticeKnows(h)'
  BY <1>3 DEF NoticeKnows, Doing
<1>5. \A m \in Notices : WentOut(m) => WentOut(m)'
  BY <1>2 DEF WentOut
<1>6. \A m \in Notices : ToTell(h, m)' => ~WentOut(m) /\ WentOut(m)'
  BY <1>2, <1>3 DEF ToTell, WentOut
<1>7. \A r \in receipts' : r.notice \in Notices /\ notices'[r.notice] \in {"published", "retracted"}
  BY <1>1, <1>2 DEF NoticeInv
<1> QED
  BY <1>1, <1>2, <1>3, <1>4, <1>5, <1>6, <1>7, CrierMoves

\* The rest of the handlers' steps.
LEMMA CrierSteps ==
  ASSUME NoticeInv, NEW h \in Hands, Crier(h)
  PROVE  NoticeInv'
<1>1. NoticeShape /\ NoticeKnows(h)
  BY DEF NoticeInv
<1>2. /\ notices \in [Notices -> NoticeStates]
      /\ \A r \in receipts : r.notice \in Notices /\ notices[r.notice] \in {"published", "retracted"}
  BY DEF NoticeInv, NoticeShape
<1>3. ASSUME NEW n \in Notices, NEW step \in {"send", "retract", "erase"}, NEW status,
             Look(h, n, step, status)
      PROVE  NoticeInv'
  <2>1. PICK row : row = [at |-> step, notice |-> n, seen |-> notices[n]]
    OBVIOUS
  <2>2. row.at = step /\ row.notice = n
    BY <2>1
  <2> QED
    BY <1>3, <2>1, <2>2, LookMoves DEF Look, Silent
<1>4. ASSUME NEW n \in Notices, NEW who \in Readers, NEW step \in {"read", "unread"},
             BeginRead(h, n, who, step)
      PROVE  NoticeInv'
  <2>1. PICK row : row = [at |-> step, notice |-> n, who |-> who]
    OBVIOUS
  <2>2. row.at = step /\ row.notice = n
    BY <2>1
  <2>3. step = "read" => WentOut(n)
    BY <1>4 DEF BeginRead, WentOut
  <2>4. Ask(h, row) /\ UNCHANGED <<notices, receipts, bus>>
    BY <1>4, <2>1 DEF BeginRead, Silent
  <2> QED
    BY <2>2, <2>3, <2>4, LookMoves
<1>5. CASE TooLate(h) \/ NoticeFails(h)
  <2>1. Answer(h) /\ UNCHANGED <<notices, receipts, bus>>
    BY <1>5 DEF TooLate, NoticeFails, Silent
  <2>2. \A n \in Notices : WentOut(n)' <=> WentOut(n)
    BY <2>1 DEF WentOut
  <2> QED
    BY <1>2, <2>1, <2>2, AnswerMoves
<1>6. CASE PublishNotice(h)
  <2>1. PICK n \in Notices : n = hand[h].notice
    BY <1>1, <1>6 DEF PublishNotice, NoticeKnows, Doing
  <2>2. CASE notices[n] = "draft"
    <3>1. Moved(h, "draft", "published", Told(n))
      BY <1>6, <2>1, <2>2 DEF PublishNotice
    <3>2. /\ Told(n) \in Cries /\ ~WentOut(n) /\ \A m \in Notices \ {n} : Told(n) # Told(m)
          /\ "published" \in NoticeStates
      BY <2>2 DEF Cries, WentOut, Told, NoticeStates
    <3> QED
      BY <2>1, <3>1, <3>2, MovedMoves
  <2>3. CASE notices[n] # "draft"
    BY <1>5, <1>6, <2>1, <2>3 DEF PublishNotice
  <2> QED
    BY <2>2, <2>3
<1>7. CASE RetractNotice(h)
  <2>1. PICK n \in Notices : n = hand[h].notice
    BY <1>1, <1>7 DEF RetractNotice, NoticeKnows, Doing
  <2>2. PICK event : event = [type |-> "announcement.retracted", notice |-> n]
    OBVIOUS
  <2>3. CASE notices[n] = "published"
    <3>1. Moved(h, "published", "retracted", event)
      BY <1>7, <2>1, <2>2, <2>3 DEF RetractNotice
    <3>2. event \in Cries /\ (\A m \in Notices : event # Told(m)) /\ "retracted" \in NoticeStates
      BY <2>2 DEF Cries, Told, NoticeStates
    <3> QED
      BY <2>1, <3>1, <3>2, MovedMoves
  <2>4. CASE notices[n] # "published"
    BY <1>5, <1>7, <2>1, <2>4 DEF RetractNotice
  <2> QED
    BY <2>3, <2>4
<1>8. CASE DeleteNotice(h)
  <2>1. PICK n \in Notices : n = hand[h].notice
    BY <1>1, <1>8 DEF DeleteNotice, NoticeKnows, Doing
  <2>2. /\ Answer(h) /\ UNCHANGED bus /\ notices' = [notices EXCEPT ![n] = "deleted"]
        /\ receipts' = {r \in receipts : r.notice # n}
    BY <1>8, <2>1 DEF DeleteNotice, Silent
  <2>3. /\ notices' \in [Notices -> NoticeStates] /\ notices'[n] = "deleted"
        /\ \A m \in Notices \ {n} : notices'[m] = notices[m]
    BY <1>2, <2>2 DEF NoticeStates
  <2>4. \A m \in Notices : WentOut(m) => WentOut(m)'
    BY <2>3 DEF WentOut
  <2>5. \A r \in receipts' : r.notice \in Notices /\ notices'[r.notice] \in {"published", "retracted"}
    BY <1>2, <2>2, <2>3
  <2> QED
    BY <2>2, <2>3, <2>4, <2>5, AnswerMoves
<1>9. CASE MarkRead(h)
  <2>1. PICK n \in Notices : n = hand[h].notice
    BY <1>1, <1>9 DEF MarkRead, NoticeKnows, Doing
  <2>2. Answer(h) /\ UNCHANGED <<bus, notices>> /\ WentOut(n)
    BY <1>1, <1>9, <2>1 DEF MarkRead, Silent, NoticeKnows
  <2>3. receipts' = IF Posted(n) THEN receipts \cup {Receipt(h)} ELSE receipts
    BY <1>9, <2>1 DEF MarkRead
  <2>4. Receipt(h).notice = n
    BY <2>1 DEF Receipt
  <2>5. \A r \in receipts' : r.notice \in Notices /\ notices'[r.notice] \in {"published", "retracted"}
    BY <1>2, <2>1, <2>2, <2>3, <2>4 DEF Posted, WentOut
  <2>6. \A m \in Notices : WentOut(m)' <=> WentOut(m)
    BY <2>2 DEF WentOut
  <2> QED
    BY <1>2, <2>2, <2>5, <2>6, AnswerMoves
<1>10. CASE MarkUnread(h)
  <2>1. Answer(h) /\ UNCHANGED <<bus, notices>> /\ receipts' \subseteq receipts
    BY <1>10 DEF MarkUnread, Silent
  <2>2. \A m \in Notices : WentOut(m)' <=> WentOut(m)
    BY <2>1 DEF WentOut
  <2>3. \A r \in receipts' : r.notice \in Notices /\ notices'[r.notice] \in {"published", "retracted"}
    BY <1>2, <2>1
  <2> QED
    BY <1>2, <2>1, <2>2, <2>3, AnswerMoves
<1> QED
  BY <1>3, <1>4, <1>5, <1>6, <1>7, <1>8, <1>9, <1>10, CreateMoves, CrierTells DEF Crier

\* Whoever told, or is about to, is one; whoever is about to mark a notice
\* read saw it out (announcements/src/lib.rs, the handlers).
THEOREM NoticeInvariant == NoticeSpec => []NoticeInv
<1>1. NoticeInit => NoticeInv
  <2> SUFFICES ASSUME NoticeInit PROVE NoticeInv
    OBVIOUS
  <2>1. NoticeShape /\ bus = <<>>
    BY DEF NoticeInit, HostInit, NoticeShape, NoticeStates, Idle
  <2>2. \A h \in Hands : NoticeKnows(h) /\ \A n \in Notices : ~ToTell(h, n)
    BY DEF NoticeInit, HostInit, NoticeKnows, Idle, Doing, ToTell
  <2> QED
    BY <2>1, <2>2 DEF NoticeInv, OneCrier, NoticeInit
<1>2. NoticeInv /\ [NoticeNext]_noticeVars => NoticeInv'
  <2> SUFFICES ASSUME NoticeInv, [NoticeNext]_noticeVars PROVE NoticeInv'
    OBVIOUS
  <2>1. CASE NoticeNext
    BY <2>1, CrierSteps DEF NoticeNext
  <2>2. CASE UNCHANGED noticeVars
    BY <2>2 DEF noticeVars, hostVars, NoticeInv, NoticeShape, NoticeKnows, OneCrier, ToTell, WentOut, Doing
  <2> QED
    BY <2>1, <2>2
<1> QED
  BY <1>1, <1>2, PTL DEF NoticeSpec

\* The troop is told of a notice at most once, however publishers, retractions
\* and deletions overlap, and every receipt is of a notice that went out
\* (announcements/src/lib.rs, publish_announcement and set_receipt).
THEOREM NoticesReach == NoticeSpec => []NoticesReachOnce
<1>1. NoticeInv => NoticesReachOnce
  <2> SUFFICES ASSUME NoticeInv PROVE NoticesReachOnce
    OBVIOUS
  <2>1. ASSUME NEW n \in Notices
        PROVE  Cardinality({i \in DOMAIN bus : bus[i] = Told(n)}) <= 1
    <3> DEFINE Said == {i \in DOMAIN bus : bus[i] = Told(n)}
    <3>1. Said = {} \/ \E i : Said = {i}
      BY DEF NoticeInv, OneCrier
    <3>2. Cardinality(Said) = 0 \/ Cardinality(Said) = 1
      BY <3>1, FS_EmptySet, FS_Singleton
    <3> QED
      BY <3>2
  <2> QED
    BY <2>1 DEF NoticesReachOnce, ToldOnce, ReceiptsAreOfReaders, NoticeInv
<1> QED
  BY <1>1, NoticeInvariant, PTL

(***************************************************************************)
(* The queue a pass rewrites from its own copy is one record per act, since*)
(* the copy is, and holds what the pass has not reached.                   *)
(***************************************************************************)

\* An entry of the queue, and a pass over it.
Waiting == [act : Acts, tries : Nat]
Passes  ==
  [at : {"send", "taken", "note"}, entry : Waiting, rest : Seq(Waiting), kept : Seq(Waiting),
   parked : SUBSET Acts, stopped : BOOLEAN, over : BOOLEAN]

OnceEach(q)   == \A i, j \in DOMAIN q : q[i].act = q[j].act => i = j
Lacks(q, act) == \A i \in DOMAIN q : q[i].act # act
ShareNoAct(p, q)   == \A i \in DOMAIN p : Lacks(q, p[i].act)
Holds(q, p)   == \A i \in DOMAIN p : ~Lacks(q, p[i].act)

QueueShape ==
  queue \in Seq(Waiting) /\ declined \subseteq Acts /\ flush \in Passes \cup {Still}

\* The copy a pass works from is one record per act as well, the entry it is
\* sending included, and the device holds what the pass has not reached.
Sound(f, q) ==
  /\ OnceEach(f.kept) /\ OnceEach(f.rest) /\ ShareNoAct(f.kept, f.rest)
  /\ f.at # "note" => Lacks(f.kept, f.entry.act) /\ Lacks(f.rest, f.entry.act)
  /\ ~f.over => Holds(q, f.rest)

QueueInv == QueueShape /\ OnceEach(queue) /\ (flush # Still => Sound(flush, queue))

\* What one record per act comes to.
LEMMA OnceEachCounts ==
  ASSUME NEW q \in Seq(Waiting), OnceEach(q)
  PROVE  Cardinality(Keys(q)) = Len(q)
<1> DEFINE f == [i \in 1..Len(q) |-> q[i].act]
<1>1. Len(q) \in Nat /\ DOMAIN q = 1..Len(q)
  OBVIOUS
<1>2. Keys(q) = {q[i].act : i \in 1..Len(q)}
  BY <1>1 DEF Keys, Entries
<1>3. f \in Bijection(1..Len(q), Keys(q))
  BY <1>1, <1>2 DEF OnceEach, Bijection, Injection, Surjection, IsInjective
<1>4. ExistsBijection(1..Len(q), Keys(q))
  BY <1>3 DEF ExistsBijection
<1> QED
  BY <1>1, <1>4, FS_CountingElements

\* Who has no record of an act.
LEMMA LacksIsNotIn ==
  ASSUME NEW q, NEW act
  PROVE  Lacks(q, act) <=> act \notin Keys(q)
  BY DEF Lacks, Keys, Entries

\* One list after another.
LEMMA Joined ==
  ASSUME NEW p \in Seq(Waiting), NEW q \in Seq(Waiting), OnceEach(p), OnceEach(q), ShareNoAct(p, q)
  PROVE  p \o q \in Seq(Waiting) /\ OnceEach(p \o q) /\ Holds(p \o q, q)
<1>1. /\ p \o q \in Seq(Waiting) /\ Len(p) \in Nat /\ Len(q) \in Nat
      /\ DOMAIN p = 1..Len(p) /\ DOMAIN q = 1..Len(q) /\ DOMAIN (p \o q) = 1..(Len(p) + Len(q))
  OBVIOUS
<1>2. /\ \A i \in DOMAIN p : i \in DOMAIN (p \o q) /\ (p \o q)[i] = p[i]
      /\ \A i \in DOMAIN q : i + Len(p) \in DOMAIN (p \o q) /\ (p \o q)[i + Len(p)] = q[i]
  BY <1>1
<1>3. \A k \in DOMAIN (p \o q) :
        \/ k \in DOMAIN p /\ (p \o q)[k] = p[k]
        \/ \E i \in DOMAIN q : k = i + Len(p) /\ (p \o q)[k] = q[i]
  <2> SUFFICES ASSUME NEW k \in DOMAIN (p \o q), k \notin DOMAIN p
               PROVE  k - Len(p) \in DOMAIN q /\ k = (k - Len(p)) + Len(p)
    BY <1>2
  <2> QED
    BY <1>1
<1>4. PICK r : r = p \o q
  OBVIOUS
<1>5. Holds(r, q)
  BY <1>2, <1>4 DEF Holds, Lacks
<1>6. OnceEach(r)
  BY <1>1, <1>3, <1>4 DEF OnceEach, ShareNoAct, Lacks
<1> QED
  BY <1>1, <1>4, <1>5, <1>6

\* One more entry.
LEMMA OneMore ==
  ASSUME NEW q \in Seq(Waiting), NEW e \in Waiting, OnceEach(q), Lacks(q, e.act)
  PROVE  /\ Append(q, e) \in Seq(Waiting) /\ OnceEach(Append(q, e))
         /\ \A p : Holds(q, p) => Holds(Append(q, e), p)
         /\ \A p : ShareNoAct(q, p) /\ Lacks(p, e.act) => ShareNoAct(Append(q, e), p)
<1>1. PICK r : r = Append(q, e)
  OBVIOUS
<1>2. /\ r \in Seq(Waiting) /\ Len(q) \in Nat /\ DOMAIN q = 1..Len(q) /\ DOMAIN r = 1..(Len(q) + 1) /\ r[Len(q) + 1] = e
      /\ \A i \in DOMAIN q : r[i] = q[i]
  BY <1>1
<1>3. \A i \in DOMAIN r : (i \in DOMAIN q /\ r[i] = q[i]) \/ (i = Len(q) + 1 /\ r[i] = e)
  BY <1>2
<1>4. \A i \in DOMAIN q : i \in DOMAIN r /\ r[i] = q[i]
  BY <1>2
<1>5. OnceEach(r)
  BY <1>3 DEF OnceEach, Lacks
<1>6. \A p : Holds(q, p) => Holds(r, p)
  BY <1>4 DEF Holds, Lacks
<1>7. \A p : ShareNoAct(q, p) /\ Lacks(p, e.act) => ShareNoAct(r, p)
  BY <1>3 DEF ShareNoAct, Lacks
<1> QED
  BY <1>1, <1>2, <1>5, <1>6, <1>7

\* The next entry, and what is behind it.
LEMMA HeadAndTail ==
  ASSUME NEW q \in Seq(Waiting), q # <<>>, OnceEach(q)
  PROVE  /\ Head(q) \in Waiting /\ Tail(q) \in Seq(Waiting)
         /\ OnceEach(Tail(q)) /\ Lacks(Tail(q), Head(q).act)
         /\ \A p : Holds(p, q) => Holds(p, Tail(q))
         /\ \A p : ShareNoAct(p, q) => ShareNoAct(p, Tail(q)) /\ Lacks(p, Head(q).act)
<1>1. /\ Head(q) \in Waiting /\ Tail(q) \in Seq(Waiting) /\ Head(q) = q[1]
      /\ Len(q) \in Nat /\ Len(q) > 0 /\ DOMAIN q = 1..Len(q) /\ DOMAIN Tail(q) = 1..(Len(q) - 1)
      /\ \A i \in 1..(Len(q) - 1) : Tail(q)[i] = q[i + 1]
  OBVIOUS
<1>2. PICK t \in Seq(Waiting) : t = Tail(q)
  BY <1>1
<1>3. \A i \in DOMAIN t : i + 1 \in DOMAIN q /\ t[i] = q[i + 1] /\ i + 1 # 1 /\ i \in Nat
  BY <1>1, <1>2
<1>4. 1 \in DOMAIN q
  BY <1>1
<1>5. OnceEach(t)
  <2>1. ASSUME NEW i \in DOMAIN t, NEW j \in DOMAIN t, t[i].act = t[j].act PROVE i = j
    <3>1. i + 1 = j + 1
      BY <1>3, <2>1 DEF OnceEach
    <3> QED
      BY <1>3, <3>1
  <2> QED
    BY <2>1 DEF OnceEach
<1>6. Lacks(t, q[1].act)
  BY <1>3, <1>4 DEF OnceEach, Lacks
<1>7. \A p : Holds(p, q) => Holds(p, t)
  BY <1>3 DEF Holds
<1>8. \A p : ShareNoAct(p, q) => ShareNoAct(p, t) /\ Lacks(p, q[1].act)
  BY <1>3, <1>4 DEF ShareNoAct, Lacks
<1> QED
  BY <1>1, <1>2, <1>5, <1>6, <1>7, <1>8

\* What is sound of the values is so of the state they become.
LEMMA PassBecomes ==
  ASSUME NEW q \in Seq(Waiting), NEW g \in Passes, declined' \subseteq Acts, OnceEach(q), Sound(g, q),
         queue' = q, flush' = g
  PROVE  QueueInv'
  BY DEF QueueInv, QueueShape, Sound, OnceEach, ShareNoAct, Lacks, Holds

\* The person goes on pressing buttons.
LEMMA PersonSteps ==
  ASSUME QueueInv, Person
  PROVE  QueueInv'
<1> USE DEF Sound, OnceEach, ShareNoAct, Lacks, Holds
<1>1. QueueShape
  BY DEF QueueInv
<1>2. CASE UNCHANGED <<queue, flush>> /\ declined' \subseteq declined
  BY <1>2 DEF QueueInv, QueueShape
<1>3. ASSUME NEW a \in Acts, WriteOnline(a) PROVE QueueInv'
  BY <1>2, <1>3 DEF WriteOnline
<1>4. ASSUME NEW a \in Acts, WriteOffline(a) PROVE QueueInv'
  <2>1. Enqueue(a) /\ UNCHANGED <<declined, flush>>
    BY <1>4 DEF WriteOffline
  <2>2. CASE a \in Keys(queue)
    BY <1>2, <2>1, <2>2 DEF Enqueue
  <2>3. CASE a \notin Keys(queue)
    <3> USE DEF QueueInv
    <3>1. PICK e : e = [act |-> a, tries |-> 0]
      OBVIOUS
    <3>2. e \in Waiting /\ e.act = a /\ queue' = Append(queue, e)
      BY <2>1, <2>3, <3>1 DEF Enqueue, Waiting
    <3>3. PICK q \in Seq(Waiting) : q = queue
      BY <1>1 DEF QueueShape
    <3>4. PICK r : r = Append(q, e)
      OBVIOUS
    <3>5. OnceEach(q) /\ Lacks(q, e.act)
      BY <2>3, <3>2, <3>3, LacksIsNotIn DEF QueueInv
    <3> HIDE DEF Sound, OnceEach, ShareNoAct, Lacks, Holds
    <3>6. r \in Seq(Waiting) /\ OnceEach(r) /\ \A p : Holds(q, p) => Holds(r, p)
      BY <3>2, <3>4, <3>5, OneMore
    <3>7. flush # Still => Sound(flush, r)
      BY <3>3, <3>6 DEF QueueInv, Sound
    <3>8. queue' = r /\ UNCHANGED <<declined, flush>>
      BY <2>1, <3>2, <3>3, <3>4
    <3> USE DEF Sound, OnceEach, ShareNoAct, Lacks, Holds
    <3> QED
      BY <1>1, <3>6, <3>7, <3>8 DEF QueueInv, QueueShape
  <2> QED
    BY <2>2, <2>3
<1>5. CASE ClearRefused
  BY <1>2, <1>5 DEF ClearRefused
<1>6. CASE SignOut
  <2>1. /\ queue' = <<>> /\ declined' = {}
        /\ flush' = IF flush = Still THEN Still ELSE [flush EXCEPT !.over = TRUE]
    BY <1>6 DEF SignOut
  <2>2. CASE flush = Still
    BY <2>1, <2>2 DEF QueueInv, QueueShape
  <2>3. CASE flush # Still
    <3>1. PICK f : f = flush
      OBVIOUS
    <3>2. PICK g : g = [f EXCEPT !.over = TRUE]
      OBVIOUS
    <3>3. f \in Passes /\ flush' = g
      BY <1>1, <2>1, <2>3, <3>1, <3>2 DEF QueueShape
    <3>4. /\ g \in Passes /\ g.over = TRUE /\ g.at = f.at /\ g.kept = f.kept /\ g.rest = f.rest
          /\ g.entry = f.entry
      BY <3>2, <3>3 DEF Passes
    <3>5. Sound(f, queue)
      BY <2>3, <3>1 DEF QueueInv
    <3>6. PICK q : q = <<>>
      OBVIOUS
    <3>7. q \in Seq(Waiting) /\ OnceEach(q)
      BY <3>6
    <3>8. Sound(g, q)
      BY <3>4, <3>5
    <3> HIDE DEF Sound, OnceEach, ShareNoAct, Lacks, Holds
    <3> QED
      BY <2>1, <3>3, <3>4, <3>6, <3>7, <3>8, PassBecomes
  <2> QED
    BY <2>2, <2>3
<1> QED
  BY <1>3, <1>4, <1>5, <1>6 DEF Person

\* An entry is dealt with: what is kept and what is not reached yet go back.
LEMMA ResolveKeeps ==
  ASSUME QueueInv, flush # Still, flush.at # "note", NEW kept \in Seq(Waiting),
         NEW parked \in SUBSET Acts, NEW stopped \in BOOLEAN, Resolve(kept, parked, stopped),
         OnceEach(kept), ShareNoAct(kept, flush.rest)
  PROVE  QueueInv'
<1>1. PICK f \in Passes : f = flush
  BY DEF QueueInv, QueueShape
<1>2. PICK g : g = [f EXCEPT !.at = "note", !.kept = kept, !.parked = parked, !.stopped = stopped]
  OBVIOUS
<1>3. flush' = g /\ queue' = kept \o f.rest /\ declined' \subseteq Acts
  BY <1>1, <1>2 DEF Resolve, Rewrite, QueueInv, QueueShape
<1>4. g \in Passes /\ g.at = "note" /\ g.kept = kept /\ g.rest = f.rest /\ f.rest \in Seq(Waiting)
  BY <1>1, <1>2 DEF Passes
<1>5. OnceEach(f.rest)
  BY <1>1 DEF QueueInv, Sound
<1>6. PICK new : new = kept \o f.rest
  OBVIOUS
<1>7. new \in Seq(Waiting) /\ OnceEach(new) /\ Holds(new, f.rest)
  BY <1>1, <1>4, <1>5, <1>6, Joined
<1>8. Sound(g, new)
  BY <1>1, <1>4, <1>5, <1>7 DEF Sound
<1> QED
  BY <1>3, <1>4, <1>6, <1>7, <1>8, PassBecomes

\* The pass begins, sends, and writes back.
LEMMA ReplaySteps ==
  ASSUME QueueInv, Replay
  PROVE  QueueInv'
<1>1. QueueShape
  BY DEF QueueInv
<1>2. CASE BeginPass
  <2>1. PICK q \in Seq(Waiting) : q = queue /\ q # <<>>
    BY <1>1, <1>2 DEF QueueShape, BeginPass
  <2>2. PICK g : g = [at |-> "send", entry |-> Head(q), rest |-> Tail(q), kept |-> <<>>,
                      parked |-> declined, stopped |-> FALSE, over |-> FALSE]
    OBVIOUS
  <2>3. flush' = g /\ queue' = q /\ declined' \subseteq Acts
    BY <1>1, <1>2, <2>1, <2>2 DEF BeginPass, QueueShape
  <2>4. OnceEach(q)
    BY <2>1 DEF QueueInv
  <2>5. Head(q) \in Waiting /\ Tail(q) \in Seq(Waiting)
    BY <2>1, <2>4, HeadAndTail
  <2>6. g \in Passes /\ g.entry = Head(q) /\ g.rest = Tail(q) /\ g.kept = <<>>
    BY <1>1, <2>2, <2>5 DEF Passes, QueueShape
  <2>7. Holds(q, q)
    BY DEF Holds, Lacks
  <2>8. OnceEach(g.rest) /\ Lacks(g.rest, g.entry.act) /\ Holds(q, g.rest)
    BY <2>1, <2>4, <2>6, <2>7, HeadAndTail
  <2>9. OnceEach(g.kept) /\ Lacks(g.kept, g.entry.act) /\ ShareNoAct(g.kept, g.rest)
    BY <2>6 DEF OnceEach, Lacks, ShareNoAct
  <2>10. Sound(g, q)
    BY <2>8, <2>9 DEF Sound
  <2> QED
    BY <2>3, <2>4, <2>6, <2>10, PassBecomes
<1>3. ASSUME Sending \/ Taken PROVE flush # Still /\ flush.at # "note"
  BY <1>3 DEF Sending, Taken, Still
<1>4. ASSUME Sending \/ Taken, NEW stopped \in BOOLEAN, NEW parked \in SUBSET Acts,
             Resolve(flush.kept, parked, stopped)
      PROVE  QueueInv'
  <2>1. flush # Still /\ flush.at # "note" /\ flush \in Passes
    BY <1>1, <1>3, <1>4 DEF QueueShape
  <2>2. flush.kept \in Seq(Waiting)
    BY <2>1 DEF Passes
  <2>3. OnceEach(flush.kept) /\ ShareNoAct(flush.kept, flush.rest)
    BY <2>1 DEF QueueInv, Sound
  <2> QED
    BY <1>4, <2>1, <2>2, <2>3, ResolveKeeps
<1>5. ASSUME Sending \/ Taken, NEW stopped \in BOOLEAN, NEW e \in Waiting,
             e.act = flush.entry.act, Resolve(Append(flush.kept, e), flush.parked, stopped)
      PROVE  QueueInv'
  <2>1. flush # Still /\ flush.at # "note" /\ flush \in Passes
    BY <1>1, <1>3, <1>5 DEF QueueShape
  <2>2. /\ flush.kept \in Seq(Waiting) /\ flush.rest \in Seq(Waiting) /\ flush.parked \in SUBSET Acts
    BY <2>1 DEF Passes
  <2>3. /\ OnceEach(flush.kept) /\ ShareNoAct(flush.kept, flush.rest)
        /\ Lacks(flush.kept, e.act) /\ Lacks(flush.rest, e.act)
    BY <1>5, <2>1 DEF QueueInv, Sound
  <2>4. PICK kept : kept = Append(flush.kept, e)
    OBVIOUS
  <2>5. kept \in Seq(Waiting) /\ OnceEach(kept) /\ ShareNoAct(kept, flush.rest)
    BY <2>2, <2>3, <2>4, OneMore
  <2> QED
    BY <1>5, <2>1, <2>2, <2>4, <2>5, ResolveKeeps
<1>6. ASSUME Sending \/ Taken
      PROVE  /\ flush.entry \in Waiting /\ flush.parked \in SUBSET Acts
             /\ flush.parked \cup {flush.entry.act} \in SUBSET Acts
             /\ Retried \in Waiting /\ Retried.act = flush.entry.act
  <2>1. PICK f \in Passes : f = flush
    BY <1>1, <1>3, <1>6 DEF QueueShape
  <2>2. PICK e \in Waiting : e = flush.entry
    BY <2>1 DEF Passes
  <2>3. PICK r : r = [e EXCEPT !.tries = e.tries + 1]
    OBVIOUS
  <2>4. r \in Waiting /\ r.act = e.act /\ e.act \in Acts
    BY <2>3 DEF Waiting
  <2>5. Retried = r
    BY <2>2, <2>3 DEF Retried
  <2> QED
    BY <2>1, <2>2, <2>4, <2>5 DEF Passes
<1>7. CASE ServerTakes
  <2>1. PICK f \in Passes : f = flush /\ f.at = "send" /\ flush # Still
    BY <1>1, <1>3, <1>7 DEF QueueShape, ServerTakes, Sending
  <2>2. PICK g : g = [f EXCEPT !.at = "taken"]
    OBVIOUS
  <2>3. PICK q \in Seq(Waiting) : q = queue
    BY <1>1 DEF QueueShape
  <2>4. flush' = g /\ queue' = q /\ declined' \subseteq Acts
    BY <1>1, <1>7, <2>1, <2>2, <2>3 DEF ServerTakes, QueueShape
  <2>5. g \in Passes /\ g.kept = f.kept /\ g.rest = f.rest /\ g.entry = f.entry /\ g.over = f.over
    BY <2>1, <2>2 DEF Passes
  <2>6. Sound(g, q) /\ OnceEach(q)
    BY <2>1, <2>3, <2>5 DEF QueueInv, Sound
  <2> QED
    BY <2>4, <2>5, <2>6, PassBecomes
<1>8. CASE Accepted \/ Refused
  BY <1>4, <1>6, <1>8 DEF Accepted, Refused
<1>9. CASE Unreachable
  BY <1>5, <1>6, <1>9 DEF Unreachable
<1>10. CASE ServerErrs
  BY <1>4, <1>5, <1>6, <1>10 DEF ServerErrs
<1>11. ASSUME flush' = Still, UNCHANGED queue, declined' \subseteq Acts PROVE QueueInv'
  BY <1>1, <1>11 DEF QueueInv, QueueShape, OnceEach
<1>12. CASE NoteRefused
  <2>1. PICK f \in Passes : f = flush /\ f.at = "note" /\ flush # Still
    BY <1>1, <1>12 DEF QueueShape, NoteRefused, Still
  <2>2. f.parked \subseteq Acts /\ f.rest \in Seq(Waiting) /\ declined' = f.parked /\ UNCHANGED queue
    BY <1>12, <2>1 DEF NoteRefused, Passes
  <2>3. CASE f.stopped \/ f.rest = <<>>
    BY <1>11, <1>12, <2>1, <2>2, <2>3 DEF NoteRefused
  <2>4. CASE ~f.stopped /\ f.rest # <<>>
    <3>1. PICK g : g = [f EXCEPT !.at = "send", !.entry = Head(f.rest), !.rest = Tail(f.rest)]
      OBVIOUS
    <3>2. PICK q \in Seq(Waiting) : q = queue
      BY <1>1 DEF QueueShape
    <3>3. flush' = g /\ queue' = q /\ declined' \subseteq Acts
      BY <1>12, <2>1, <2>2, <2>4, <3>1, <3>2 DEF NoteRefused
    <3>4. /\ OnceEach(q) /\ OnceEach(f.kept) /\ OnceEach(f.rest) /\ ShareNoAct(f.kept, f.rest)
          /\ ~f.over => Holds(q, f.rest)
      BY <2>1, <3>2 DEF QueueInv, Sound
    <3>5. Head(f.rest) \in Waiting /\ Tail(f.rest) \in Seq(Waiting)
      BY <2>2, <2>4, <3>4, HeadAndTail
    <3>6. /\ g \in Passes /\ g.kept = f.kept /\ g.rest = Tail(f.rest) /\ g.entry = Head(f.rest)
          /\ g.over = f.over
      BY <2>1, <3>1, <3>5 DEF Passes
    <3>7. /\ OnceEach(g.rest) /\ Lacks(g.rest, g.entry.act)
          /\ ShareNoAct(g.kept, g.rest) /\ Lacks(g.kept, g.entry.act)
          /\ ~g.over => Holds(q, g.rest)
      BY <2>2, <2>4, <3>4, <3>6, HeadAndTail
    <3>8. Sound(g, q)
      BY <3>4, <3>6, <3>7 DEF Sound
    <3> QED
      BY <3>3, <3>4, <3>6, <3>8, PassBecomes
  <2> QED
    BY <2>3, <2>4
<1>13. CASE AppKilled
  BY <1>1, <1>11, <1>13 DEF AppKilled, QueueShape
<1> QED
  BY <1>2, <1>7, <1>8, <1>9, <1>10, <1>12, <1>13 DEF Replay

\* The copy a pass works from stays one record per act, and what it has not
\* reached stays on the device (client/lib/state/outbox.dart).
THEOREM QueueInvariant == QueueSpec => []QueueInv
<1>1. QueueInit => QueueInv
  BY DEF QueueInit, QueueInv, QueueShape, OnceEach
<1>2. QueueInv /\ [QueueNext]_queueVars => QueueInv'
  <2> SUFFICES ASSUME QueueInv, [QueueNext]_queueVars PROVE QueueInv'
    OBVIOUS
  <2>1. CASE UNCHANGED queueVars
    BY <2>1 DEF queueVars, QueueInv, QueueShape, Sound, OnceEach, ShareNoAct, Lacks, Holds
  <2> QED
    BY <2>1, PersonSteps, ReplaySteps DEF QueueNext
<1> QED
  BY <1>1, <1>2, PTL DEF QueueSpec

\* What a pass writes back neither doubles an act nor drops one it has yet to
\* reach, whatever the person presses meanwhile (outbox.dart, flush and
\* enqueue).
THEOREM QueueStaysKept == QueueSpec => []QueueIsKept
<1>1. QueueInv => QueueIsKept
  <2> SUFFICES ASSUME QueueInv PROVE QueueIsKept
    OBVIOUS
  <2>1. OneRecordPerAct
    BY OnceEachCounts DEF QueueInv, QueueShape, OneRecordPerAct
  <2>2. NothingBehindIsLost
    BY DEF QueueInv, Sound, Holds, Lacks, NothingBehindIsLost, Keys, Entries
  <2> QED
    BY <2>1, <2>2 DEF QueueIsKept
<1> QED
  BY <1>1, QueueInvariant, PTL

-----------------------------------------------------------------------------
(***************************************************************************)
(* However patrol writes and reloads overlap, no pair of the roster stays  *)
(* undeclared once they are over (EdgesFollowTheRoster), for every set of  *)
(* lodges, patrols, persons and handlers.  A DELETE takes other handlers'  *)
(* pairs away, so the invariant speaks of who is still to declare each.    *)
(***************************************************************************)

\* h has yet to read the roster, or carries e to its INSERT.
WillDeclare(h, e) ==
  \/ hand[h].at \in {"retract", "project"}
  \/ hand[h].at = "declare" /\ e \in hand[h].edges

RosterTyped ==
  /\ hand = [h \in Hands |-> hand[h]]
  /\ patrols = [p \in Patrols |-> patrols[p]]

RosterInv ==
  /\ RosterTyped
  /\ ~torn => \A e \in Projection : e \in declared \/ \E h \in Hands : WillDeclare(h, e)

\* An empty roster declares nothing.
LEMMA InitRoster == RosterInit => RosterInv
  BY RosterAssumption DEF RosterInit, HostInit, RosterInv, RosterTyped, Projection, Nowhere, Unset

\* A step of a handler that has nothing left to declare, and takes no pair away.
LEMMA Aside ==
  ASSUME RosterInv, NEW h \in Hands, RosterTyped', hand[h].at \notin Redeclaring,
         \A g \in Hands : g # h => hand'[g] = hand[g],
         UNCHANGED <<declared, torn>>, Projection' \subseteq Projection
  PROVE  RosterInv'
  BY DEF RosterInv, WillDeclare, Redeclaring

\* A patrol that a member only names has no lodge, hence no edge.
LEMMA NamingAddsNothing ==
  ASSUME RosterInv, NEW p, patrols' = NamePatrol(p)
  PROVE  Projection' \subseteq Projection /\ patrols' = [q \in Patrols |-> patrols'[q]]
  BY RosterAssumption DEF RosterInv, RosterTyped, NamePatrol, Projection, Nowhere, Unset

\* Every step keeps the invariant.
LEMMA StepRoster == RosterInv /\ [RosterNext]_rosterVars => RosterInv'
<1> SUFFICES ASSUME RosterInv, [RosterNext]_rosterVars PROVE RosterInv'
  OBVIOUS
<1> USE DEF RosterInv, RosterTyped, WillDeclare, Redeclaring, Projection, rosterRows,
        Doing, Rests, Idle, Ask, AskOnce, Go, Knowing, Answer
<1>1. ASSUME NEW h \in Hands, NEW p \in Patrols, NEW l \in Lodges \cup {Unset}, BeginPatrol(h, p, l)
      PROVE  RosterInv'
  <2>1. hand[h].at \notin Redeclaring /\ \A g \in Hands : g # h => hand'[g] = hand[g]
    BY <1>1 DEF BeginPatrol
  <2>2. RosterTyped' /\ Projection' \subseteq Projection
    BY <1>1 DEF BeginPatrol
  <2> QED BY <1>1, <2>1, <2>2, Aside DEF BeginPatrol
<1>2. ASSUME NEW h \in Hands, WritePatrol(h) PROVE RosterInv'
  <2>1. hand'[h].at = "retract" /\ hand' = [g \in Hands |-> hand'[g]]
    BY <1>2 DEF WritePatrol
  <2>2. patrols' = [p \in Patrols |-> patrols'[p]]
    BY <1>2 DEF WritePatrol, Housed
  <2> QED BY <2>1, <2>2
<1>3. ASSUME NEW h \in Hands, Retract(h) PROVE RosterInv'
  BY <1>3 DEF Retract
<1>4. ASSUME NEW h \in Hands, Project(h) PROVE RosterInv'
  BY <1>4 DEF Project
<1>5. ASSUME NEW h \in Hands, Declare(h) PROVE RosterInv'
  BY <1>5 DEF Declare
<1>6. ASSUME NEW h \in Hands, DeclareFails(h) PROVE RosterInv'
  BY <1>6 DEF DeclareFails
<1>7. ASSUME NEW h \in Hands, BeginReloading(h) PROVE RosterInv'
  BY <1>7 DEF BeginReloading
<1>8. ASSUME NEW h \in Hands, LoadHierarchy(h) \/ AdoptHierarchy(h) PROVE RosterInv'
  BY <1>8, Aside DEF LoadHierarchy, AdoptHierarchy
<1>9. ASSUME NEW h \in Hands, NEW p \in Patrols \cup {Unset}, NEW n \in Names, BeginMember(h, n, p)
      PROVE  RosterInv'
  <2>1. hand[h].at \notin Redeclaring /\ \A g \in Hands : g # h => hand'[g] = hand[g]
    BY <1>9 DEF BeginMember
  <2>2. RosterTyped' /\ Projection' \subseteq Projection
    BY <1>9, NamingAddsNothing DEF BeginMember
  <2> QED BY <1>9, <2>1, <2>2, Aside DEF BeginMember
<1>10. ASSUME NEW h \in Hands, NEW p \in Patrols \cup {Unset}, NEW whom, BeginImport(h, p, whom)
       PROVE  RosterInv'
  <2>1. hand[h].at \notin Redeclaring /\ \A g \in Hands : g # h => hand'[g] = hand[g]
    BY <1>10 DEF BeginImport
  <2>2. RosterTyped' /\ Projection' \subseteq Projection
    BY <1>10 DEF BeginImport
  <2> QED BY <1>10, <2>1, <2>2, Aside DEF BeginImport
<1>11. ASSUME NEW h \in Hands, NextRow(h) PROVE RosterInv'
  <2>1. hand[h].at \notin Redeclaring /\ \A g \in Hands : g # h => hand'[g] = hand[g]
    BY <1>11 DEF NextRow
  <2>2. RosterTyped' /\ Projection' \subseteq Projection
    BY <1>11, NamingAddsNothing DEF NextRow
  <2> QED BY <1>11, <2>1, <2>2, Aside DEF NextRow
<1>12. ASSUME NEW h \in Hands, UpsertMember(h) PROVE RosterInv'
  BY <1>12, Aside DEF UpsertMember
<1>13. ASSUME NEW h \in Hands, RosterFails(h) PROVE RosterInv'
  BY <1>13, Aside DEF RosterFails, Housed
<1>14. ASSUME NEW l \in Lodges, CreateLodge(l) PROVE RosterInv'
  BY <1>14 DEF CreateLodge
<1>15. ASSUME NEW n, NEW kind, NEW l, Honour(n, kind, l) PROVE RosterInv'
  BY <1>15 DEF Honour
<1>16. CASE UNCHANGED rosterVars
  BY <1>16 DEF rosterVars, hostVars
<1> QED
  BY <1>1, <1>2, <1>3, <1>4, <1>5, <1>6, <1>7, <1>8, <1>9, <1>10, <1>11, <1>12, <1>13, <1>14,
     <1>15, <1>16 DEF RosterNext, Registrar

\* The inductive invariant of the roster's writers and reloads.
THEOREM RosterInvariant == RosterSpec => []RosterInv
  BY InitRoster, StepRoster, PTL DEF RosterSpec

\* Once no declaration is in progress and none has failed, every lodge's patrol
\* is declared, so a lodge's grant covers it from the next load on.
THEOREM EdgesFollow == RosterSpec => []EdgesFollowTheRoster
<1>1. RosterInv => EdgesFollowTheRoster
  BY DEF RosterInv, WillDeclare, EdgesFollowTheRoster, Redeclaring
<1> QED BY RosterInvariant, <1>1, PTL

-----------------------------------------------------------------------------
(***************************************************************************)
(* A sign-in opens one session at most, of the account of whoever signed   *)
(* in, and no subject gets two accounts (SignInsFindTheirAccount), for     *)
(* every set of names, subjects, roles and handlers.  What makes it        *)
(* inductive is whose hands a sign-in may be in between its state, which   *)
(* is taken once, and its session.                                         *)
(***************************************************************************)

Owners == Subjects \cup {Local}
Handles == Logins \X Owners

\* h is past the state of its sign-in, or past a form's check.
Carries(h) == hand[h].at \in {"exchange", "insert", "session"}

AccountsTyped ==
  /\ hand = [h \in Hands |-> hand[h]]
  /\ users \in Seq([name : Handles, subject : Owners])
  /\ started \in Nat /\ states \subseteq 1..started
  /\ sessions \in Seq([user : Nat, by : 0..started, who : Owners, open : BOOLEAN])

\* What each handler knows at each of its steps.
Vouches(h) ==
  /\ hand[h].at \in {"user", "clear", "grant"} => "then" \in DOMAIN hand[h]
  /\ hand[h].at = "clear" => "user" \in DOMAIN hand[h]
  /\ hand[h].at = "grant" => {"at", "user"} \subseteq DOMAIN hand[h]
  /\ hand[h].at = "user" => hand[h].name \in Logins
  /\ hand[h].at = "clear" => hand[h].then = "end"
  /\ hand[h].at = "grant" /\ hand[h].then # "end" =>
       hand[h].user \in DOMAIN users /\ users[hand[h].user].subject = Local
  /\ hand[h].at \in {"exchange", "insert"} => "by" \in DOMAIN hand[h] /\ hand[h].by # ByForm
  /\ hand[h].at = "insert" => {"at", "who", "name"} \subseteq DOMAIN hand[h]
                              /\ hand[h].who \in Subjects /\ hand[h].name \in Handles
  /\ hand[h].at = "session" =>
       /\ hand[h].user \in DOMAIN users /\ hand[h].who \in Owners
       /\ users[hand[h].user].subject = hand[h].who
  /\ Carries(h) => hand[h].by \in 0..started

\* A sign-in is in its state, in one handler's hands or in one session.
OneHome ==
  /\ \A h \in Hands : Carries(h) /\ hand[h].by # ByForm =>
       /\ hand[h].by \notin states
       /\ \A i \in DOMAIN sessions : sessions[i].by # hand[h].by
       /\ \A g \in Hands : Carries(g) /\ hand[g].by = hand[h].by => g = h
  /\ \A i \in DOMAIN sessions : sessions[i].by \notin states /\ sessions[i].user \in DOMAIN users

AccountsInv ==
  /\ AccountsTyped
  /\ \A h \in Hands : Vouches(h)
  /\ OneHome
  /\ SignInsFindTheirAccount

\* Nobody has an account, a session or a sign-in under way.
LEMMA InitAccounts == AccountsInit => AccountsInv
  BY DEF AccountsInit, HostInit, Idle, AccountsInv, AccountsTyped, Vouches, Carries, OneHome,
         SignInsFindTheirAccount

-----------------------------------------------------------------------------
\* A step that changes no row, and after which h carries no sign-in and has
\* nothing to say of an account.
LEMMA Quietly ==
  ASSUME AccountsInv, NEW h \in Hands, hand' = [hand EXCEPT ![h] = hand'[h]],
         UNCHANGED accountRows, Vouches(h)', ~Carries(h)'
  PROVE  AccountsInv'
<1> USE DEF AccountsInv, accountRows
<1>1. AccountsTyped'
  BY DEF AccountsTyped
<1>2. ASSUME NEW g \in Hands PROVE Vouches(g)'
  BY <1>2 DEF Vouches, Carries, AccountsTyped
<1>3. OneHome'
  BY DEF OneHome, Carries, AccountsTyped
<1>4. SignInsFindTheirAccount'
  BY DEF SignInsFindTheirAccount
<1> QED BY <1>1, <1>2, <1>3, <1>4

\* A row is appended: what was known of the others is still so.
LEMMA NewUser ==
  ASSUME AccountsInv, NEW user \in [name : Handles, subject : Owners], Indexed(user),
         users' = Append(users, user)
  PROVE  /\ users' \in Seq([name : Handles, subject : Owners])
         /\ Len(users) + 1 \in DOMAIN users' /\ users'[Len(users) + 1] = user
         /\ \A i \in DOMAIN users : i \in DOMAIN users' /\ users'[i] = users[i]
         /\ \A i, j \in DOMAIN users' :
              users'[i].subject = users'[j].subject /\ users'[i].subject # Local => i = j
  BY DEF AccountsInv, AccountsTyped, SignInsFindTheirAccount, Indexed

\* A handler that begins carries no sign-in.
LEMMA FormBegan ==
  ASSUME AccountsInv, NEW h \in Hands, NEW step, Ask(h, step), UNCHANGED accountRows,
         step.at \notin {"exchange", "insert", "session"},
         step.at \in {"user", "clear"} => "then" \in DOMAIN step,
         step.at = "user" => step.name \in Logins,
         step.at = "clear" => "user" \in DOMAIN step /\ step.then = "end",
         step.at # "grant"
  PROVE  AccountsInv'
<1>1. hand' = [hand EXCEPT ![h] = hand'[h]] /\ hand'[h] = step
  BY DEF Ask, AccountsInv, AccountsTyped
<1>2. Vouches(h)' /\ ~Carries(h)'
  BY <1>1 DEF Vouches, Carries
<1> QED BY <1>1, <1>2, Quietly

\* A handler that ends carries none either.
LEMMA Ends ==
  ASSUME AccountsInv, NEW h \in Hands, Answer(h), UNCHANGED accountRows
  PROVE  AccountsInv'
<1>1. hand' = [hand EXCEPT ![h] = hand'[h]] /\ hand'[h] = Idle
  BY DEF Answer, AccountsInv, AccountsTyped
<1>2. Vouches(h)' /\ ~Carries(h)'
  BY <1>1 DEF Vouches, Carries, Idle
<1> QED BY <1>1, <1>2, Quietly

\* Registration, creation and the assignment of roles begin and fail so.
LEMMA FormSteps ==
  ASSUME AccountsInv, NEW h \in Hands,
         \/ \E n \in Logins : BeginRegister(h, n)
         \/ \E n \in Logins, ranks \in SUBSET Ranks : BeginCreate(h, n, ranks)
         \/ \E u \in DOMAIN users, ranks \in SUBSET Ranks : BeginAssign(h, u, ranks)
         \/ AccountsFail(h)
  PROVE  AccountsInv'
<1>1. ASSUME NEW n \in Logins, BeginRegister(h, n) PROVE AccountsInv'
  BY <1>1, FormBegan DEF BeginRegister
<1>2. ASSUME NEW n \in Logins, NEW ranks, BeginCreate(h, n, ranks) PROVE AccountsInv'
  BY <1>2, FormBegan DEF BeginCreate
<1>3. ASSUME NEW u, NEW ranks, BeginAssign(h, u, ranks) PROVE AccountsInv'
  BY <1>3, FormBegan DEF BeginAssign
<1>4. CASE AccountsFail(h)
  BY <1>4, Ends DEF AccountsFail
<1> QED BY <1>1, <1>2, <1>3, <1>4

\* A local account is written under a name that is free, with no subject.
LEMMA UserStep ==
  ASSUME AccountsInv, NEW h \in Hands, InsertUser(h) PROVE AccountsInv'
<1> DEFINE user == Account(Plain(hand[h].name), Local)
<1>1. CASE Indexed(user)
  <2>1. user \in [name : Handles, subject : Owners]
    BY DEF InsertUser, Doing, AccountsInv, Vouches, Account, Plain, Handles, Owners
  <2>2. users' = Append(users, user) /\ Go(h, [at |-> "grant", user |-> Len(users) + 1])
    BY <1>1 DEF InsertUser
  <2>3. hand' = [hand EXCEPT ![h] = hand'[h]] /\ hand'[h].at = "grant"
        /\ hand'[h].user = Len(users) + 1 /\ {"at", "then", "user"} \subseteq DOMAIN hand'[h]
    BY <2>2 DEF Go, Knowing, InsertUser, Doing, AccountsInv, AccountsTyped, Vouches
  <2>4. UNCHANGED <<grants, sessions, started, states>>
    BY DEF InsertUser
  <2> HIDE DEF user
  <2>5. users' \in Seq([name : Handles, subject : Owners])
        /\ Len(users) + 1 \in DOMAIN users' /\ users'[Len(users) + 1] = user
        /\ (\A i \in DOMAIN users : i \in DOMAIN users' /\ users'[i] = users[i])
        /\ \A i, j \in DOMAIN users' :
             users'[i].subject = users'[j].subject /\ users'[i].subject # Local => i = j
    BY <1>1, <2>1, <2>2, NewUser
  <2>6. user.subject = Local
    BY DEF user, Account
  <2> USE <2>3, <2>4, <2>5, <2>6 DEF AccountsInv
  <2>7. AccountsTyped'
    BY DEF AccountsTyped
  <2>8. ASSUME NEW g \in Hands PROVE Vouches(g)'
    <3>1. CASE g = h
      BY <3>1 DEF Vouches, Carries
    <3>2. CASE g # h
      <4>1. hand'[g] = hand[g]
        BY <3>2, <2>8 DEF AccountsTyped
      <4> QED BY <2>8, <4>1 DEF Vouches, Carries
    <3> QED BY <3>1, <3>2
  <2>9. OneHome'
    <3>1. ASSUME NEW g \in Hands, Carries(g)' PROVE Carries(g) /\ hand'[g] = hand[g]
      BY <3>1 DEF Carries, AccountsTyped
    <3> QED BY <3>1 DEF OneHome, Carries
  <2>10. SignInsFindTheirAccount'
    <3>1. \A i \in DOMAIN sessions : users'[sessions[i].user].subject = sessions[i].who
      BY DEF SignInsFindTheirAccount, OneHome
    <3> QED BY <3>1 DEF SignInsFindTheirAccount
  <2> QED BY <2>7, <2>8, <2>9, <2>10
<1>2. CASE ~Indexed(user)
  BY <1>2, Ends DEF InsertUser, accountRows
<1> QED BY <1>1, <1>2

\* Grants are cleared and written, and a login found, without a sign-in.
LEMMA GrantSteps ==
  ASSUME AccountsInv, NEW h \in Hands,
         \/ ClearGrants(h) \/ Grant(h)
         \/ \E u \in DOMAIN users : BeginLogin(h, u)
  PROVE  AccountsInv'
<1>1. /\ UNCHANGED <<users, sessions, started, states>>
      /\ hand' = [hand EXCEPT ![h] = hand'[h]]
      /\ Vouches(h)' /\ (Carries(h)' => hand'[h].by = ByForm)
  <2> USE DEF AccountsInv, AccountsTyped, Vouches, Carries, Doing, Go, Knowing, ByForm, Local, Owners
  <2>1. CASE ClearGrants(h)
    BY <2>1 DEF ClearGrants
  <2>2. CASE Grant(h)
    <3>0. UNCHANGED <<users, sessions, started, states>>
      BY <2>2 DEF Grant
    <3>1. ASSUME NEW r, Go(h, [ranks |-> hand[h].ranks \ {r}])
          PROVE  hand' = [hand EXCEPT ![h] = hand'[h]] /\ Vouches(h)' /\ ~Carries(h)'
      <4>1. hand[h].at = "grant" /\ UNCHANGED <<users, sessions, started, states>>
        BY <2>2 DEF Grant
      <4> QED BY <3>1, <4>1
    <3>2. CASE Answer(h)
      <4>1. hand'[h].at = "idle" /\ hand' = [hand EXCEPT ![h] = hand'[h]]
        BY <3>2 DEF Answer, Idle
      <4> QED BY <2>2, <4>1 DEF Grant
    <3>3. CASE hand[h].then # "end" /\ ~\E r \in hand[h].ranks : Go(h, [ranks |-> hand[h].ranks \ {r}])
      <4>1. Go(h, [at |-> "session", by |-> ByForm, who |-> Local])
        BY <2>2, <3>3 DEF Grant
      <4>2. hand[h].at = "grant" /\ UNCHANGED <<users, sessions, started, states>>
        BY <2>2 DEF Grant
      <4> QED BY <4>1, <4>2, <3>3
    <3> HIDE DEF AccountsInv, AccountsTyped, Vouches, Carries, Doing, Go, Knowing, ByForm, Local, Owners
    <3>4. CASE \E r : Go(h, [ranks |-> hand[h].ranks \ {r}])
      BY <3>0, <3>1, <3>4
    <3>5. \/ \E r : Go(h, [ranks |-> hand[h].ranks \ {r}])
          \/ Answer(h)
          \/ hand[h].then # "end" /\ ~\E r \in hand[h].ranks : Go(h, [ranks |-> hand[h].ranks \ {r}])
      BY <2>2 DEF Grant
    <3> QED BY <3>0, <3>2, <3>3, <3>4, <3>5
  <2>3. ASSUME NEW u \in DOMAIN users, BeginLogin(h, u)
        PROVE  /\ UNCHANGED <<users, sessions, started, states>>
               /\ hand' = [hand EXCEPT ![h] = hand'[h]]
               /\ Vouches(h)' /\ (Carries(h)' => hand'[h].by = ByForm)
    BY <2>3 DEF BeginLogin, Ask, accountRows
  <2> QED BY <2>1, <2>2, <2>3
<1> USE <1>1 DEF AccountsInv
<1>2. AccountsTyped'
  BY DEF AccountsTyped
<1>3. ASSUME NEW g \in Hands PROVE Vouches(g)'
  BY <1>3, ZenonT(60) DEF Vouches, Carries, AccountsTyped
<1>4. OneHome'
  BY DEF OneHome, Carries, AccountsTyped
<1>5. SignInsFindTheirAccount'
  BY DEF SignInsFindTheirAccount
<1> QED BY <1>2, <1>3, <1>4, <1>5

\* A session is of the account whose handler opens it.
LEMMA OpenSteps ==
  ASSUME AccountsInv, NEW h \in Hands, OpenSession(h) PROVE AccountsInv'
<1> DEFINE session == [user |-> hand[h].user, by |-> hand[h].by, who |-> hand[h].who, open |-> TRUE]
<1>1. /\ sessions' = Append(sessions, session) /\ UNCHANGED <<users, grants, started, states>>
      /\ hand' = [hand EXCEPT ![h] = Idle] /\ hand[h].at = "session"
  BY DEF OpenSession, Answer, Doing
<1>2. /\ session.user \in DOMAIN users /\ session.by \in 0..started /\ session.who \in Owners
      /\ users[session.user].subject = session.who
      /\ session \in [user : Nat, by : 0..started, who : Owners, open : BOOLEAN]
      /\ session.by = hand[h].by
  BY <1>1 DEF AccountsInv, AccountsTyped, Vouches, Carries
<1> HIDE DEF session
<1> USE <1>1, <1>2 DEF AccountsInv
<1>3. AccountsTyped'
  <2>1. sessions' \in Seq([user : Nat, by : 0..started, who : Owners, open : BOOLEAN])
    BY DEF AccountsTyped
  <2>2. hand' = [g \in Hands |-> hand'[g]]
    BY DEF AccountsTyped
  <2> QED BY <2>1, <2>2 DEF AccountsTyped
<1>4. \A g \in Hands : Carries(g)' => Carries(g) /\ hand'[g] = hand[g] /\ g # h
  BY DEF Carries, AccountsTyped, Idle
<1>5. ASSUME NEW g \in Hands PROVE Vouches(g)'
  BY <1>4, <1>5 DEF Vouches, Carries, AccountsTyped, Idle
<1>6. /\ DOMAIN sessions' = DOMAIN sessions \cup {Len(sessions) + 1}
      /\ sessions'[Len(sessions) + 1] = session
      /\ \A i \in DOMAIN sessions : sessions'[i] = sessions[i]
  BY DEF AccountsTyped
<1>7. session.by # ByForm => session.by \notin states /\ \A i \in DOMAIN sessions : sessions[i].by # session.by
  BY DEF OneHome, Carries
<1>8. session.by \notin states
  <2>1. ByForm \notin states
    BY DEF AccountsTyped, ByForm
  <2> QED BY <1>7, <2>1
<1>9. OneHome'
  <2>1. ASSUME NEW g \in Hands, Carries(g)', hand'[g].by # ByForm
        PROVE  hand[g].by # session.by
    BY <1>4, <2>1 DEF OneHome, Carries
  <2> QED BY <1>4, <1>6, <1>8, <2>1 DEF OneHome, Carries
<1>10. SignInsFindTheirAccount'
  <2>1. \A i, j \in DOMAIN sessions' :
          sessions'[i].by = sessions'[j].by /\ sessions'[i].by # ByForm => i = j
    BY <1>6, <1>7 DEF SignInsFindTheirAccount
  <2> QED BY <1>6, <2>1 DEF SignInsFindTheirAccount
<1> QED BY <1>3, <1>5, <1>9, <1>10

\* A session is what its columns allow.
LEMMA SessionTyped ==
  ASSUME AccountsTyped, NEW i \in DOMAIN sessions
  PROVE  sessions[i] \in [user : Nat, by : 0..started, who : Owners, open : BOOLEAN]
<1> DEFINE S == [user : Nat, by : 0..started, who : Owners, open : BOOLEAN]
<1>1. sessions \in Seq(S)
  BY DEF AccountsTyped
<1> HIDE DEF S
<1>2. sessions[i] \in S
  BY <1>1
<1> QED BY <1>2 DEF S

\* A logout closes its session and changes nothing else of it.
LEMMA LogoutStep ==
  ASSUME AccountsInv, NEW i \in DOMAIN sessions, Logout(i) PROVE AccountsInv'
<1> DEFINE closed == [sessions[i] EXCEPT !.open = FALSE]
<1>1. sessions[i] \in [user : Nat, by : 0..started, who : Owners, open : BOOLEAN]
  BY SessionTyped DEF AccountsInv
<1>2. closed \in [user : Nat, by : 0..started, who : Owners, open : BOOLEAN]
      /\ closed.user = sessions[i].user /\ closed.by = sessions[i].by /\ closed.who = sessions[i].who
  BY <1>1
<1>3. sessions' = [sessions EXCEPT ![i] = closed] /\ UNCHANGED <<users, started, states, hand>>
  BY DEF Logout, AskOnce
<1> HIDE DEF closed
<1>4. /\ UNCHANGED <<users, started, states, hand>>
      /\ sessions' \in Seq([user : Nat, by : 0..started, who : Owners, open : BOOLEAN])
      /\ DOMAIN sessions' = DOMAIN sessions
      /\ \A j \in DOMAIN sessions : /\ sessions'[j].user = sessions[j].user
                                    /\ sessions'[j].by = sessions[j].by
                                    /\ sessions'[j].who = sessions[j].who
  BY <1>2, <1>3 DEF AccountsInv, AccountsTyped
<1> USE <1>4 DEF AccountsInv
<1>5. AccountsTyped'
  BY DEF AccountsTyped
<1>6. ASSUME NEW g \in Hands PROVE Vouches(g)'
  BY <1>6 DEF Vouches, Carries
<1>7. OneHome'
  <2>1. \A g \in Hands : Carries(g)' <=> Carries(g)
    BY DEF Carries
  <2>2. \A j \in DOMAIN sessions' : sessions'[j].by \notin states' /\ sessions'[j].user \in DOMAIN users'
    BY DEF OneHome
  <2>3. ASSUME NEW g \in Hands, Carries(g), hand[g].by # ByForm
        PROVE  /\ hand[g].by \notin states
               /\ \A j \in DOMAIN sessions' : sessions'[j].by # hand[g].by
               /\ \A k \in Hands : Carries(k) /\ hand[k].by = hand[g].by => k = g
    BY <2>3 DEF OneHome
  <2> QED BY <2>1, <2>2, <2>3 DEF OneHome
<1>8. SignInsFindTheirAccount'
  BY DEF SignInsFindTheirAccount
<1> QED BY <1>5, <1>6, <1>7, <1>8

\* A sign-in starts with a state of its own; a purge only takes states away.
LEMMA StartSteps ==
  ASSUME AccountsInv, NEW h \in Hands, StartSignIn(h) \/ PurgeStates(h) PROVE AccountsInv'
<1>1. /\ UNCHANGED <<users, sessions>> /\ started' \in Nat /\ started <= started'
      /\ states' \subseteq states \cup ((started + 1)..started')
      /\ hand' = [hand EXCEPT ![h] = hand'[h]] /\ hand'[h].at \in {"purge", "idle"}
  BY DEF StartSignIn, PurgeStates, Ask, Answer, Idle, AccountsInv, AccountsTyped
<1> USE <1>1 DEF AccountsInv
<1>2. AccountsTyped'
  <2>1. states' \subseteq 1..started' /\ 0..started \subseteq 0..started'
    BY DEF AccountsTyped
  <2> DEFINE S(n) == [user : Nat, by : 0..n, who : Owners, open : BOOLEAN]
  <2>2. S(started) \subseteq S(started')
    BY <2>1
  <2>3. sessions \in Seq(S(started))
    BY DEF AccountsTyped
  <2> HIDE DEF S
  <2>4. sessions \in Seq(S(started'))
    BY <2>2, <2>3
  <2>5. sessions' \in Seq([user : Nat, by : 0..started', who : Owners, open : BOOLEAN])
    BY <2>4 DEF S
  <2> QED BY <2>1, <2>5 DEF AccountsTyped
<1>3. \A g \in Hands : Carries(g)' => Carries(g) /\ hand'[g] = hand[g]
  BY DEF Carries, AccountsTyped
<1>4. ASSUME NEW g \in Hands PROVE Vouches(g)'
  <2>1. CASE g = h
    BY <2>1 DEF Vouches, Carries
  <2>2. CASE g # h
    <3>1. hand'[g] = hand[g]
      BY <1>4, <2>2 DEF AccountsTyped
    <3>2. 0..started \subseteq 0..started'
      BY DEF AccountsTyped
    <3> QED BY <1>4, <3>1, <3>2 DEF Vouches, Carries
  <2> QED BY <2>1, <2>2
<1>5. OneHome'
  <2>1. ASSUME NEW g \in Hands, Carries(g), hand[g].by # ByForm PROVE hand[g].by \notin states'
    BY <2>1 DEF OneHome, Vouches, AccountsTyped
  <2>2. ASSUME NEW j \in DOMAIN sessions PROVE sessions[j].by \notin states'
    <3>1. sessions[j].by \in 0..started /\ sessions[j].by \notin states
      BY <2>2, SessionTyped DEF OneHome
    <3> QED BY <3>1 DEF AccountsTyped
  <2>3. \A g \in Hands : Carries(g)' /\ hand'[g].by # ByForm =>
          /\ \A j \in DOMAIN sessions : sessions[j].by # hand'[g].by
          /\ \A k \in Hands : Carries(k)' /\ hand'[k].by = hand'[g].by => k = g
    BY <1>3 DEF OneHome
  <2> QED BY <1>3, <2>1, <2>2, <2>3 DEF OneHome
<1>6. SignInsFindTheirAccount'
  BY DEF SignInsFindTheirAccount
<1> QED BY <1>2, <1>4, <1>5, <1>6

\* A callback takes its state from the table: nobody else has it.
LEMMA TakeStep ==
  ASSUME AccountsInv, NEW h \in Hands, NEW s \in states, TakeState(h, s) PROVE AccountsInv'
<1>1. /\ UNCHANGED <<users, sessions, started>> /\ states' = states \ {s}
      /\ hand' = [hand EXCEPT ![h] = hand'[h]] /\ hand'[h] = [at |-> "exchange", by |-> s]
      /\ s \in 1..started
  BY DEF TakeState, Ask, AccountsInv, AccountsTyped
<1> USE <1>1 DEF AccountsInv
<1>2. AccountsTyped'
  BY DEF AccountsTyped
<1>3. ASSUME NEW g \in Hands PROVE Vouches(g)'
  <2>1. CASE g = h
    BY <2>1 DEF Vouches, Carries, AccountsTyped, ByForm
  <2>2. CASE g # h
    BY <1>3, <2>2 DEF Vouches, Carries, AccountsTyped
  <2> QED BY <2>1, <2>2
<1>4. \A g \in Hands : g # h /\ Carries(g)' => Carries(g) /\ hand'[g] = hand[g] /\ hand[g].by # s
  BY DEF Carries, AccountsTyped, OneHome, ByForm
<1>5. \A j \in DOMAIN sessions : sessions[j].by # s
  BY DEF OneHome
<1>6. OneHome'
  BY <1>4, <1>5 DEF OneHome
<1>7. SignInsFindTheirAccount'
  BY DEF SignInsFindTheirAccount
<1> QED BY <1>2, <1>3, <1>6, <1>7

\* The exchange finds the account of the subject, or that there is none.
LEMMA ExchangeStep ==
  ASSUME AccountsInv, NEW h \in Hands, NEW who \in Subjects, Exchange(h, who) PROVE AccountsInv'
<1>1. /\ UNCHANGED accountRows /\ hand' = [hand EXCEPT ![h] = hand'[h]]
      /\ Carries(h) /\ hand'[h].by = hand[h].by /\ hand[h].by # ByForm /\ Vouches(h)'
  <2> USE DEF AccountsInv, AccountsTyped, Vouches, Carries, Doing, Go, Knowing
  <2>1. hand[h].at = "exchange" /\ UNCHANGED accountRows
    BY DEF Exchange
  <2>2. ASSUME NEW u \in {k \in DOMAIN users : users[k].subject = who},
               Go(h, [at |-> "session", who |-> who, user |-> u])
        PROVE  hand' = [hand EXCEPT ![h] = hand'[h]] /\ hand'[h].by = hand[h].by /\ Vouches(h)'
    BY <2>1, <2>2 DEF accountRows, Owners
  <2>3. ASSUME Go(h, [at |-> "insert", who |-> who, name |-> Plain(Called[who])])
        PROVE  hand' = [hand EXCEPT ![h] = hand'[h]] /\ hand'[h].by = hand[h].by /\ Vouches(h)'
    <3>1. Plain(Called[who]) \in Handles
      BY AccountsAssumption DEF Plain, Handles, Owners
    <3> HIDE DEF Plain
    <3> QED BY <2>1, <2>3, <3>1 DEF accountRows
  <2> QED BY <2>1, <2>2, <2>3 DEF Exchange
<1> USE <1>1 DEF AccountsInv, accountRows
<1>2. AccountsTyped'
  BY DEF AccountsTyped
<1>3. ASSUME NEW g \in Hands PROVE Vouches(g)'
  BY <1>3, ZenonT(60) DEF Vouches, Carries, AccountsTyped
<1>4. OneHome'
  <2>1. \A g \in Hands : Carries(g)' => Carries(g) /\ hand'[g].by = hand[g].by
    BY DEF Carries, AccountsTyped
  <2> QED BY <2>1 DEF OneHome
<1>5. SignInsFindTheirAccount'
  BY DEF SignInsFindTheirAccount
<1> QED BY <1>2, <1>3, <1>4, <1>5

\* An account is written for a subject that has none: the unique index.
LEMMA SubjectStep ==
  ASSUME AccountsInv, NEW h \in Hands, InsertSubject(h) PROVE AccountsInv'
<1> DEFINE who == hand[h].who
           user == Account(hand[h].name, who)
<1>0. hand[h].at = "insert" /\ UNCHANGED <<grants, sessions, started, states>>
      /\ who \in Subjects /\ hand[h].name \in Handles /\ {"at", "who", "name", "by"} \subseteq DOMAIN hand[h]
  BY DEF InsertSubject, Doing, AccountsInv, Vouches
<1>1. CASE Indexed(user)
  <2>1. user \in [name : Handles, subject : Owners] /\ user.subject = who
    BY <1>0 DEF Account, Owners
  <2>2. users' = Append(users, user) /\ Go(h, [at |-> "session", user |-> Len(users) + 1])
    BY <1>1 DEF InsertSubject
  <2>3. hand' = [hand EXCEPT ![h] = hand'[h]] /\ hand'[h].at = "session" /\ hand'[h].who = who
        /\ hand'[h].user = Len(users) + 1 /\ hand'[h].by = hand[h].by /\ Carries(h)
    BY <1>0, <2>2 DEF Go, Knowing, AccountsInv, AccountsTyped, Carries
  <2> HIDE DEF user
  <2>4. users' \in Seq([name : Handles, subject : Owners])
        /\ Len(users) + 1 \in DOMAIN users' /\ users'[Len(users) + 1] = user
        /\ (\A i \in DOMAIN users : i \in DOMAIN users' /\ users'[i] = users[i])
        /\ \A i, j \in DOMAIN users' :
             users'[i].subject = users'[j].subject /\ users'[i].subject # Local => i = j
    BY <1>1, <2>1, <2>2, NewUser
  <2> USE <1>0, <2>1, <2>3, <2>4 DEF AccountsInv
  <2>5. AccountsTyped'
    BY DEF AccountsTyped
  <2>6. ASSUME NEW g \in Hands PROVE Vouches(g)'
    <3>1. CASE g = h
      BY <3>1 DEF Vouches, Carries, Owners
    <3>2. CASE g # h
      <4>1. hand'[g] = hand[g]
        BY <3>2, <2>6 DEF AccountsTyped
      <4> QED BY <2>6, <4>1 DEF Vouches, Carries
    <3> QED BY <3>1, <3>2
  <2>7. OneHome'
    <3>1. \A g \in Hands : Carries(g)' => Carries(g) /\ hand'[g].by = hand[g].by
      BY DEF Carries, AccountsTyped
    <3> QED BY <3>1 DEF OneHome
  <2>8. SignInsFindTheirAccount'
    <3>1. \A i \in DOMAIN sessions : users'[sessions[i].user].subject = sessions[i].who
      BY DEF SignInsFindTheirAccount, OneHome
    <3> QED BY <3>1 DEF SignInsFindTheirAccount
  <2> QED BY <2>5, <2>6, <2>7, <2>8
<1>2. CASE ~Indexed(user) /\ hand[h].name # Apart(who)
  <2>1. Go(h, [name |-> Apart(who)]) /\ UNCHANGED users
    BY <1>2 DEF InsertSubject
  <2>2. Apart(who) \in Handles
    BY <1>0, AccountsAssumption DEF Apart, Handles, Owners
  <2> DEFINE again == Apart(who)
  <2>3. again \in Handles /\ Go(h, [name |-> again])
    BY <2>1, <2>2
  <2> HIDE DEF again
  <2>4. hand' = [hand EXCEPT ![h] = hand'[h]] /\ hand'[h].at = "insert" /\ hand'[h].who = who
        /\ hand'[h].name = again /\ hand'[h].by = hand[h].by /\ Carries(h)
        /\ DOMAIN hand'[h] = DOMAIN hand[h] /\ hand[h].by # ByForm /\ hand[h].by \in 0..started
    BY <1>0, <2>3 DEF Go, Knowing, AccountsInv, AccountsTyped, Carries, Vouches
  <2> USE <1>0, <2>1, <2>3, <2>4 DEF AccountsInv
  <2>5. AccountsTyped'
    BY DEF AccountsTyped
  <2>6. ASSUME NEW g \in Hands PROVE Vouches(g)'
    <3>1. CASE g = h
      BY <3>1 DEF Vouches, Carries
    <3>2. CASE g # h
      <4>1. hand'[g] = hand[g]
        BY <3>2, <2>6 DEF AccountsTyped
      <4> QED BY <2>6, <4>1 DEF Vouches, Carries
    <3> QED BY <3>1, <3>2
  <2>7. OneHome'
    <3>1. \A g \in Hands : Carries(g)' => Carries(g) /\ hand'[g].by = hand[g].by
      BY DEF Carries, AccountsTyped
    <3> QED BY <3>1 DEF OneHome
  <2>8. SignInsFindTheirAccount'
    BY DEF SignInsFindTheirAccount
  <2> QED BY <2>5, <2>6, <2>7, <2>8
<1>3. CASE ~Indexed(user) /\ hand[h].name = Apart(who)
  BY <1>0, <1>3, Ends DEF InsertSubject, accountRows
<1> QED BY <1>1, <1>2, <1>3

\* Every step keeps the invariant.
LEMMA StepAccounts == AccountsInv /\ [AccountsNext]_accountVars => AccountsInv'
<1> SUFFICES ASSUME AccountsInv, [AccountsNext]_accountVars PROVE AccountsInv'
  OBVIOUS
<1>1. ASSUME NEW h \in Hands, Doorkeeper(h) PROVE AccountsInv'
  BY <1>1, FormSteps, UserStep, GrantSteps, OpenSteps, StartSteps, TakeStep, ExchangeStep, SubjectStep
     DEF Doorkeeper
<1>2. ASSUME NEW i \in DOMAIN sessions, Logout(i) PROVE AccountsInv'
  BY <1>2, LogoutStep
<1>3. CASE UNCHANGED accountVars
  BY <1>3 DEF accountVars, accountRows, hostVars, AccountsInv, AccountsTyped, Vouches, Carries, OneHome,
     SignInsFindTheirAccount
<1> QED BY <1>1, <1>2, <1>3 DEF AccountsNext

\* The inductive invariant: where a sign-in is, and what its handler knows.
THEOREM AccountsInvariant == AccountsSpec => []AccountsInv
  BY InitAccounts, StepAccounts, PTL DEF AccountsSpec

\* However first sign-ins, callbacks, retries and the admin's forms overlap.
THEOREM SignInsAreTheirs == AccountsSpec => []SignInsFindTheirAccount
<1>1. AccountsInv => SignInsFindTheirAccount
  BY DEF AccountsInv
<1> QED BY AccountsInvariant, <1>1, PTL
=============================================================================
