---------------------------- MODULE Outbox_proofs ----------------------------
(***************************************************************************)
(* The outbox's safety, for any number of rows, keys, principals, relays   *)
(* and attempts; what the lease adds to it; and the payments of the stripe *)
(* plugin, which settle through it.                                        *)
(***************************************************************************)
EXTENDS StripeLedger, TLAPS

(***************************************************************************)
(* Type correctness.                                                       *)
(***************************************************************************)

\* An empty outbox is well typed.
LEMMA InitTyped == Init => TypeOK
  BY OutboxAssumption
  DEF Init, TypeOK, Ids, States, Terminal, Pcs, BusyPcs, Verdicts, Rows

\* core.outbox_enqueue writes a well-typed row.
LEMMA EnqueueTyped == ASSUME TypeOK, NEW k \in Keys, Enqueue(k) PROVE TypeOK'
  BY DEF Enqueue, TypeOK, Ids, States, Terminal, Pcs, BusyPcs, Verdicts, Rows,
     principalVars, relayVars

\* The saturating counter stays in its range.
LEMMA SpendBounded ==
  ASSUME NEW n \in 0..(MaxAttempts + 1) PROVE Spend(n) \in 0..(MaxAttempts + 1)
  BY OutboxAssumption DEF Spend

\* Booking a key leaves at most one entry for each.
LEMMA BookedTyped ==
  ASSUME ledger \in [Keys -> 0..1], NEW k PROVE Booked(k) \in [Keys -> 0..1]
<1>1. CASE k \notin Keys
  BY <1>1 DEF Booked
<1>2. CASE k \in Keys
  <2>1. (IF ledger[k] = 0 THEN 1 ELSE ledger[k]) \in 0..1
    BY <1>2
  <2> QED
    BY <2>1 DEF Booked
<1> QED
  BY <1>1, <1>2

\* Every step of a relay keeps the types.
LEMMA RelayTyped == ASSUME TypeOK, NEW r \in Relays, RelayStep(r) PROVE TypeOK'
<1> USE OutboxAssumption
    DEF TypeOK, Ids, States, Terminal, Pcs, BusyPcs, Verdicts, Rows
<1>a. CASE BeginPass(r)
  BY <1>a DEF BeginPass, principalVars
<1>b. CASE Claim(r)
  <2>1. PICK i \in Ids :
          /\ Claimable(i)
          /\ state'    = [state EXCEPT ![i] = "attempting"]
          /\ attempts' = [attempts EXCEPT ![i] = Spend(@)]
          /\ stale'    = [stale EXCEPT ![i] = FALSE]
          /\ job'      = [job EXCEPT ![r] = i]
          /\ spent'    = [spent EXCEPT ![r] = Spend(attempts[i])]
    BY <1>b DEF Claim
  <2>2. Spend(attempts[i]) \in 0..(MaxAttempts + 1)
    BY SpendBounded
  <2>3. attempts' \in [Ids -> 0..(MaxAttempts + 1)] /\ spent' \in [Relays -> 0..(MaxAttempts + 1)]
    BY <2>1, <2>2
  <2>4. taken' \in [Relays -> 0..Batch]
    BY <1>b DEF Claim
  <2>5. /\ state' \in [Ids -> States] /\ stale' \in [Ids -> BOOLEAN]
        /\ job' \in [Relays -> Ids \cup {0}] /\ pc' \in [Relays -> Pcs]
        /\ \A q \in Relays : pc'[q] \in BusyPcs \cup {"recorded"} => job'[q] \in Rows'
    BY <1>b, <2>1 DEF Claim, Claimable
  <2>6. UNCHANGED <<key, due, principalVars, ledger, dbUp, routed, verdict, raised, lost, rearms>>
    BY <1>b DEF Claim
  <2>7. \A q \in Relays : /\ pc'[q] = "answered" => verdict'[q] # "none"
                          /\ pc'[q] = "recorded" => verdict'[q] \in Terminal
    BY <1>b, <2>6 DEF Claim
  <2> QED
    BY <2>3, <2>4, <2>5, <2>6, <2>7 DEF principalVars
<1>c. CASE EndPass(r)
  BY <1>c DEF EndPass, LeavePass, Release, rowVars, principalVars
<1>d. CASE Vet(r)
  <2>1. \/ \E v \in {"refused", "exhausted", "pending"} : Conclude(r, v)
        \/ Proceed(r, "vetted")
    BY <1>d DEF Vet, Retry
  <2>2. UNCHANGED <<rowVars, principalVars, ledger, dbUp, routed, job, spent, taken, raised, lost, rearms>>
    BY <1>d DEF Vet
  <2>3. job[r] \in Rows
    BY <1>d DEF Vet
  <2>4. CASE \E v \in {"refused", "exhausted", "pending"} : Conclude(r, v)
    BY <2>2, <2>3, <2>4 DEF Conclude, rowVars, principalVars
  <2>5. CASE Proceed(r, "vetted")
    BY <2>2, <2>3, <2>5 DEF Proceed, rowVars, principalVars
  <2> QED
    BY <2>1, <2>4, <2>5
<1>e. CASE Gate(r)
  <2>1. \/ \E v \in {"refused", "exhausted", "pending"} : Conclude(r, v)
        \/ Proceed(r, "admitted")
    BY <1>e DEF Gate, Retry
  <2>2. UNCHANGED <<rowVars, principalVars, ledger, dbUp, routed, job, spent, taken, raised, lost, rearms>>
    BY <1>e DEF Gate
  <2>3. job[r] \in Rows
    BY <1>e DEF Gate
  <2>4. CASE \E v \in {"refused", "exhausted", "pending"} : Conclude(r, v)
    BY <2>2, <2>3, <2>4 DEF Conclude, rowVars, principalVars
  <2>5. CASE Proceed(r, "admitted")
    BY <2>2, <2>3, <2>5 DEF Proceed, rowVars, principalVars
  <2> QED
    BY <2>1, <2>4, <2>5
<1>f. CASE Handle(r)
  <2>1. ledger' \in [Keys -> 0..1]
    BY <1>f, BookedTyped DEF Handle
  <2>2. \E v \in {"delivered", "refused", "exhausted", "pending"} : Conclude(r, v)
    BY <1>f DEF Handle, Retry
  <2>3. UNCHANGED <<rowVars, principalVars, dbUp, routed, job, spent, taken, raised, lost, rearms>>
    BY <1>f DEF Handle
  <2>4. job[r] \in Rows
    BY <1>f DEF Handle
  <2> QED
    BY <2>1, <2>2, <2>3, <2>4 DEF Conclude, rowVars, principalVars
<1>g. CASE Record(r)
  <2>1. state' = [state EXCEPT ![job[r]] = verdict[r]] /\ job[r] \in Rows
    BY <1>g DEF Record
  <2>2. verdict[r] \in States \ {"absent"}
    BY <1>g DEF Record
  <2>3. state' \in [Ids -> States] /\ Rows \subseteq Rows'
    BY <2>1, <2>2
  <2>4. due' \in [Ids -> BOOLEAN]
    BY <1>g DEF Record
  <2>5. CASE verdict[r] = "pending"
    <3>1. /\ job' = [job EXCEPT ![r] = 0] /\ spent' = [spent EXCEPT ![r] = 0]
          /\ verdict' = [verdict EXCEPT ![r] = "none"]
          /\ pc' = [pc EXCEPT ![r] = "draining"]
      BY <1>g, <2>5 DEF Record, Release
    <3>2. /\ job' \in [Relays -> Ids \cup {0}] /\ spent' \in [Relays -> 0..(MaxAttempts + 1)]
          /\ verdict' \in [Relays -> Verdicts] /\ pc' \in [Relays -> Pcs]
      BY <3>1
    <3>3. UNCHANGED <<key, attempts, stale, principalVars, ledger, dbUp, routed,
                     taken, raised, lost, rearms>>
      BY <1>g DEF Record
    <3>4. \A q \in Relays :
            /\ pc'[q] \in BusyPcs \cup {"recorded"} => job'[q] \in Rows'
            /\ pc'[q] = "answered" => verdict'[q] # "none"
            /\ pc'[q] = "recorded" => verdict'[q] \in Terminal
      BY <2>3, <3>1
    <3> QED
      BY <2>3, <2>4, <3>2, <3>3, <3>4 DEF principalVars
  <2>6. CASE verdict[r] # "pending"
    <3>1. verdict[r] \in Terminal /\ pc' = [pc EXCEPT ![r] = "recorded"]
      BY <1>g, <2>2, <2>6 DEF Record
    <3> QED
      BY <1>g, <2>3, <2>4, <2>6, <3>1, SMTT(60) DEF Record, principalVars
  <2> QED
    BY <2>5, <2>6
<1>h. CASE Raise(r)
  <2>1. raised' \subseteq Ids \X Terminal /\ lost' \subseteq Ids \X Terminal
    BY <1>h DEF Raise, Publish
  <2> QED
    BY <1>h, <2>1 DEF Raise, Release, rowVars, principalVars
<1>i. CASE PassFails(r)
  BY <1>i DEF PassFails, LeavePass, Release, rowVars, principalVars
<1> QED
  BY <1>a, <1>b, <1>c, <1>d, <1>e, <1>f, <1>g, <1>h, <1>i DEF RelayStep

\* A crash, a boot and a change of routes keep the types.
LEMMA ProcessTyped ==
  ASSUME TypeOK, NEW r \in Relays, Crash(r) \/ Boot(r) \/ Reroute(r) PROVE TypeOK'
<1> USE OutboxAssumption
    DEF TypeOK, Ids, States, Terminal, Pcs, BusyPcs, Verdicts, Rows
<1>a. CASE Crash(r)
  <2>1. ledger' \in [Keys -> 0..1]
    BY <1>a, BookedTyped DEF Crash
  <2>2. lost' \subseteq Ids \X Terminal
    BY <1>a DEF Crash
  <2> QED
    BY SMTT(60), <1>a, <2>1, <2>2 DEF Crash, LeavePass, Release, rowVars, principalVars
<1>b. CASE Boot(r)
  BY <1>b DEF Boot, rowVars
<1>c. CASE Reroute(r)
  BY <1>c DEF Reroute, rowVars, principalVars, relayVars
<1> QED
  BY <1>a, <1>b, <1>c

\* The database, the clock and the operator keep the types.
LEMMA WorldTyped ==
  ASSUME TypeOK,
         \/ Outage
         \/ \E p \in Principals : SetRevoked(p) \/ SetGranted(p)
         \/ \E i \in Ids : RetryIntent(i) \/ BackoffElapses(i) \/ LeaseExpires(i)
  PROVE  TypeOK'
<1> USE OutboxAssumption
    DEF TypeOK, Ids, States, Terminal, Pcs, BusyPcs, Verdicts, Rows
<1>a. CASE Outage
  BY <1>a DEF Outage, rowVars, principalVars, relayVars
<1>b. CASE \E p \in Principals : SetRevoked(p) \/ SetGranted(p)
  BY <1>b, ZenonT(60) DEF SetRevoked, SetGranted, rowVars, relayVars
<1>c. ASSUME NEW i \in Ids, RetryIntent(i) PROVE TypeOK'
  BY <1>c DEF RetryIntent, principalVars, relayVars
<1>d. ASSUME NEW i \in Ids, BackoffElapses(i) \/ LeaseExpires(i) PROVE TypeOK'
  BY <1>d, ZenonT(60) DEF BackoffElapses, LeaseExpires, principalVars, relayVars
<1> QED
  BY <1>a, <1>b, <1>c, <1>d

\* Every step keeps the types.
LEMMA NextTyped == TypeOK /\ [Next]_vars => TypeOK'
<1> SUFFICES ASSUME TypeOK, [Next]_vars PROVE TypeOK'
  OBVIOUS
<1>1. CASE UNCHANGED vars
  BY <1>1 DEF vars, rowVars, principalVars, relayVars, TypeOK, Rows
<1>2. CASE Next
  BY <1>2, EnqueueTyped, RelayTyped, ProcessTyped, WorldTyped DEF Next
<1> QED
  BY <1>1, <1>2

\* Every variable keeps its type, and a relay past its claim holds a real row
\* and a verdict its record can write.
THEOREM TypeCorrect == Spec => []TypeOK
  BY InitTyped, NextTyped, PTL DEF Spec

(***************************************************************************)
(* The ledger's safety.  None of the properties is inductive alone: a row  *)
(* is `delivered` because a relay said so, a relay says so because finance *)
(* answered, and what it answered is about the key the row had all along.  *)
(***************************************************************************)

\* A row has a key exactly when it is not empty.
KeyedRows == \A i \in Ids : state[i] = "absent" <=> key[i] = NoKey

\* A relay that is about to record `delivered`, or to raise it, is right.
VerdictIsTrue ==
  \A r \in Relays : pc[r] \in {"answered", "recorded"} /\ verdict[r] = "delivered"
    => ledger[key[job[r]]] = 1

\* An event is about a row.
RaisedRows == \A i \in Ids, v \in Terminal : <<i, v>> \in raised => i \in Rows

\* What holds whoever else books; and, where only the relay does, what is owed.
BookInv ==
  /\ TypeOK /\ KeyedRows
  /\ DeliveredIsBooked /\ VerdictIsTrue /\ RaisedRows /\ EventIsTrue
IInv == BookInv /\ BookedWasOwed

\* Initially nothing is enqueued, booked or raised.
LEMMA InitSafe == Init => IInv
  BY InitTyped
  DEF Init, IInv, BookInv, KeyedRows, BookedWasOwed, Rows, DeliveredIsBooked,
      VerdictIsTrue, RaisedRows, EventIsTrue, Ids, Terminal

\* Booking k writes its entry unless it has one, and touches no other key.
LEMMA BookedOnce ==
  ASSUME ledger \in [Keys -> 0..1], NEW k \in Keys
  PROVE  \A j \in Keys : Booked(k)[j] = IF j = k /\ ledger[k] = 0 THEN 1 ELSE ledger[j]
  BY DEF Booked

\* The key of a row, and of the row a relay holds, is a key of the ledger.
LEMMA KeyOfRow == ASSUME TypeOK, KeyedRows, NEW i \in Rows PROVE key[i] \in Keys /\ Enqueued(key[i])
  BY DEF TypeOK, KeyedRows, Rows, Enqueued

\* What a step that adds no row and books at most one key keeps.
Steady ==
  /\ key' = key /\ Rows' = Rows
  /\ ledger' = ledger \/ \E k \in Keys : ledger' = Booked(k)

\* A steady step keeps the rows keyed and what is booked booked.
LEMMA SteadyStep ==
  ASSUME BookInv, Steady
  PROVE  /\ KeyedRows'
         /\ \A k \in Keys : ledger[k] = 1 => ledger'[k] = 1
<1>1. ledger \in [Keys -> 0..1]
  BY DEF BookInv, TypeOK
<1>2. KeyedRows'
  <2>1. \A i \in Ids : i \in Rows' <=> i \in Rows
    BY DEF Steady
  <2>2. \A i \in Ids : state'[i] = "absent" <=> state[i] = "absent"
    BY <2>1 DEF Rows
  <2> QED
    BY <2>2 DEF Steady, KeyedRows, BookInv
<1>3. \A k \in Keys : (ledger[k] = 1 => ledger'[k] = 1) /\ ledger'[k] <= 1
  <2>1. \A k \in Keys : ledger[k] \in Nat /\ ledger[k] <= 1
    BY <1>1
  <2>2. CASE ledger' = ledger
    BY <2>1, <2>2
  <2>3. ASSUME NEW k \in Keys, ledger' = Booked(k)
        PROVE  \A j \in Keys : (ledger[j] = 1 => ledger'[j] = 1) /\ ledger'[j] <= 1
    BY <1>1, <2>1, <2>3, BookedOnce
  <2> QED
    BY <2>2, <2>3 DEF Steady
<1> QED
  BY <1>2, <1>3

\* A steady step that delivers, concludes and raises nothing keeps the rest.
LEMMA SteadyKeeps ==
  ASSUME BookInv, TypeOK', Steady, raised' = raised,
         \A i \in Ids : state'[i] = "delivered" => state[i] = "delivered",
         \A q \in Relays : pc'[q] \in {"answered", "recorded"} /\ verdict'[q] = "delivered"
            => /\ pc[q] \in {"answered", "recorded"} /\ verdict[q] = "delivered"
               /\ job'[q] = job[q]
  PROVE  BookInv'
<1>1. /\ KeyedRows'
      /\ \A k \in Keys : ledger[k] = 1 => ledger'[k] = 1
  BY SteadyStep
<1>2. \A i \in Rows : key[i] \in Keys
  BY KeyOfRow DEF BookInv
<1>3. DeliveredIsBooked'
  BY <1>1, <1>2 DEF DeliveredIsBooked, Steady, BookInv, Rows
<1>4. VerdictIsTrue'
  <2> SUFFICES ASSUME NEW q \in Relays, pc'[q] \in {"answered", "recorded"},
                      verdict'[q] = "delivered"
               PROVE  ledger'[key'[job'[q]]] = 1
    BY DEF VerdictIsTrue
  <2>1. pc[q] \in {"answered", "recorded"} /\ job'[q] = job[q] /\ ledger[key[job[q]]] = 1
    BY DEF BookInv, VerdictIsTrue
  <2>2. job[q] \in Rows
    BY <2>1 DEF BookInv, TypeOK, BusyPcs
  <2> QED
    BY <1>1, <1>2, <2>1, <2>2 DEF Steady
<1>5. RaisedRows'
  BY DEF RaisedRows, Steady, BookInv
<1>6. EventIsTrue'
  BY <1>1, <1>2 DEF EventIsTrue, RaisedRows, Steady, BookInv, Terminal
<1> QED
  BY <1>1, <1>3, <1>4, <1>5, <1>6 DEF BookInv

\* A new row is neither delivered nor raised.
LEMMA EnqueueSafe == ASSUME BookInv, NEW k \in Keys, Enqueue(k) PROVE BookInv'
<1>1. PICK i \in Ids :
        /\ state[i] = "absent"
        /\ key'   = [key EXCEPT ![i] = k]
        /\ state' = [state EXCEPT ![i] = "pending"]
  BY DEF Enqueue
<1>2. /\ UNCHANGED <<ledger, raised, pc, job, verdict>> /\ ~Enqueued(k)
  BY DEF Enqueue, relayVars
<1>3. TypeOK /\ TypeOK'
  BY EnqueueTyped DEF BookInv
<1>4. \A j \in Ids : /\ key'[j] = IF j = i THEN k ELSE key[j]
                     /\ state'[j] = IF j = i THEN "pending" ELSE state[j]
  BY <1>1, <1>3 DEF TypeOK
<1>5. KeyedRows'
  BY <1>4, OutboxAssumption DEF KeyedRows, BookInv
<1>6. i \notin Rows /\ Rows' = Rows \cup {i}
  BY <1>1, <1>4 DEF Rows
<1>7. \A j \in Rows : key'[j] = key[j] /\ key[j] # k
  BY <1>2, <1>4, <1>6 DEF Rows, Enqueued
<1>8. DeliveredIsBooked'
  BY <1>2, <1>4, <1>7 DEF DeliveredIsBooked, BookInv, Rows
<1>9. VerdictIsTrue'
  BY <1>2, <1>3, <1>7 DEF VerdictIsTrue, BookInv, TypeOK, BusyPcs
<1>10. RaisedRows' /\ EventIsTrue'
  BY <1>2, <1>6, <1>7 DEF RaisedRows, EventIsTrue, BookInv, Terminal
<1> QED
  BY <1>2, <1>3, <1>5, <1>8, <1>9, <1>10 DEF BookInv

\* The three steps that conclude: finance answers, the outcome is recorded,
\* the event is raised.
LEMMA HandleSafe == ASSUME BookInv, TypeOK', NEW r \in Relays, Handle(r) PROVE BookInv'
<1> DEFINE k == key[job[r]]
<1>1. job[r] \in Rows /\ k \in Keys /\ Enqueued(k)
  <2>1. job[r] \in Rows
    BY DEF Handle, BookInv, TypeOK, BusyPcs
  <2> QED
    BY <2>1, KeyOfRow DEF BookInv
<1>2. UNCHANGED <<rowVars, job, raised>>
  BY DEF Handle
<1>3. Steady
  BY <1>1, <1>2 DEF Handle, Steady, Rows, rowVars
<1>4. /\ KeyedRows'
      /\ \A x \in Keys : ledger[x] = 1 => ledger'[x] = 1
  BY <1>3, SteadyStep
<1>5. \A i \in Rows : key[i] \in Keys
  BY KeyOfRow DEF BookInv
<1>6. DeliveredIsBooked' /\ EventIsTrue' /\ RaisedRows'
  BY <1>2, <1>4, <1>5
  DEF DeliveredIsBooked, EventIsTrue, RaisedRows, BookInv, Rows, rowVars, Terminal
<1>7. VerdictIsTrue'
  <2> SUFFICES ASSUME NEW q \in Relays, pc'[q] \in {"answered", "recorded"},
                      verdict'[q] = "delivered"
               PROVE  ledger'[key'[job'[q]]] = 1
    BY DEF VerdictIsTrue
  <2>1. CASE q = r
    <3>1. Retry(spent[r]) # "delivered" /\ verdict \in [Relays -> Verdicts]
      BY DEF Retry, BookInv, TypeOK
    <3>2. ledger' = Booked(k)
      BY <2>1, <3>1 DEF Handle, Conclude
    <3>3. ledger'[k] = 1
      <4>1. ledger \in [Keys -> 0..1] /\ ledger[k] <= 1
        BY <1>1 DEF BookInv, TypeOK
      <4> QED
        BY <1>1, <3>2, <4>1, BookedOnce
    <3> QED
      BY <1>2, <2>1, <3>3 DEF rowVars
  <2>2. CASE q # r
    <3>1. pc'[q] = pc[q] /\ verdict'[q] = verdict[q]
      BY <2>2 DEF Handle, Conclude, BookInv, TypeOK
    <3>2. ledger[key[job[q]]] = 1 /\ job[q] \in Rows
      BY <3>1 DEF BookInv, VerdictIsTrue, TypeOK, BusyPcs
    <3> QED
      BY <1>2, <1>4, <1>5, <3>2 DEF rowVars
  <2> QED
    BY <2>1, <2>2
<1> QED
  BY <1>4, <1>6, <1>7 DEF BookInv

\* A record writes what its relay concluded, and a relay concludes delivered of an entry it has seen.
LEMMA RecordSafe == ASSUME BookInv, TypeOK', NEW r \in Relays, Record(r) PROVE BookInv'
<1>1. /\ job[r] \in Rows /\ verdict[r] # "absent"
      /\ state' = [state EXCEPT ![job[r]] = verdict[r]]
      /\ UNCHANGED <<key, ledger, raised>>
  BY DEF Record, BookInv, TypeOK, BusyPcs, Verdicts, Terminal
<1>2. Rows' = Rows
  BY <1>1 DEF Rows, BookInv, TypeOK
<1>3. KeyedRows'
  BY <1>1, <1>2, SteadyStep DEF Steady
<1>4. DeliveredIsBooked'
  <2>1. verdict[r] = "delivered" => ledger[key[job[r]]] = 1
    BY DEF Record, BookInv, VerdictIsTrue
  <2> QED
    BY <1>1, <2>1 DEF DeliveredIsBooked, BookInv, TypeOK
<1>5. VerdictIsTrue'
  <2>1. \A q \in Relays : pc'[q] \in {"answered", "recorded"} /\ verdict'[q] = "delivered"
          => /\ pc[q] \in {"answered", "recorded"} /\ verdict[q] = "delivered"
             /\ job'[q] = job[q]
    BY DEF Record, Release, BookInv, TypeOK
  <2> QED
    BY <1>1, <2>1 DEF VerdictIsTrue, BookInv
<1>6. RaisedRows' /\ EventIsTrue'
  BY <1>1, <1>2 DEF RaisedRows, EventIsTrue, BookInv
<1> QED
  BY <1>3, <1>4, <1>5, <1>6 DEF BookInv

\* A raise publishes what its relay has recorded.
LEMMA RaiseSafe == ASSUME BookInv, TypeOK', NEW r \in Relays, Raise(r) PROVE BookInv'
<1>1. /\ job[r] \in Rows /\ raised' \subseteq raised \cup {<<job[r], verdict[r]>>}
      /\ UNCHANGED <<rowVars, ledger>>
  BY DEF Raise, Publish, BookInv, TypeOK, BusyPcs
<1>2. KeyedRows' /\ Rows' = Rows
  BY <1>1, SteadyStep DEF Steady, Rows, rowVars
<1>3. DeliveredIsBooked'
  BY <1>1 DEF DeliveredIsBooked, BookInv, rowVars
<1>4. VerdictIsTrue'
  <2>1. \A q \in Relays : pc'[q] \in {"answered", "recorded"} /\ verdict'[q] = "delivered"
          => /\ pc[q] \in {"answered", "recorded"} /\ verdict[q] = "delivered"
             /\ job'[q] = job[q]
    BY DEF Raise, Release, BookInv, TypeOK
  <2> QED
    BY <1>1, <2>1 DEF VerdictIsTrue, BookInv, rowVars
<1>5. RaisedRows'
  BY <1>1, <1>2 DEF RaisedRows, BookInv
<1>6. EventIsTrue'
  <2>1. verdict[r] = "delivered" => ledger[key[job[r]]] = 1
    BY DEF Raise, BookInv, VerdictIsTrue
  <2> QED
    BY <1>1, <2>1 DEF EventIsTrue, BookInv, rowVars
<1> QED
  BY <1>2, <1>3, <1>4, <1>5, <1>6 DEF BookInv

\* Every other step is steady.
LEMMA QuietSafe ==
  ASSUME BookInv, TypeOK', NEW r \in Relays,
         \/ BeginPass(r) \/ Claim(r) \/ EndPass(r) \/ Vet(r) \/ Gate(r) \/ PassFails(r)
         \/ Crash(r) \/ Boot(r) \/ Reroute(r)
  PROVE  BookInv'
<1> USE DEF BookInv, TypeOK, Rows
<1>a. CASE BeginPass(r)
  BY <1>a, SteadyKeeps DEF BeginPass, LostLeases, Steady
<1>b. CASE Claim(r)
  BY <1>b, SteadyKeeps DEF Claim, Claimable, Steady
<1>c. CASE EndPass(r) \/ PassFails(r)
  BY <1>c, SteadyKeeps DEF EndPass, PassFails, LeavePass, Release, Steady, rowVars
<1>d. CASE Vet(r)
  BY <1>d, SteadyKeeps DEF Vet, Conclude, Proceed, Retry, Steady, rowVars
<1>e. CASE Gate(r)
  BY <1>e, SteadyKeeps DEF Gate, Conclude, Proceed, Retry, Steady, rowVars
<1>f. CASE Crash(r)
  <2>1. pc[r] = "admitted" => key[job[r]] \in Keys /\ Enqueued(key[job[r]])
    BY KeyOfRow DEF BusyPcs
  <2> QED
    BY <1>f, <2>1, SteadyKeeps DEF Crash, LeavePass, Release, Steady, rowVars
<1>g. CASE Boot(r) \/ Reroute(r)
  BY <1>g, SteadyKeeps DEF Boot, Reroute, Steady, rowVars, relayVars
<1> QED
  BY <1>a, <1>b, <1>c, <1>d, <1>e, <1>f, <1>g

\* The database, the clock and the operator book and deliver nothing.
LEMMA WorldSafe ==
  ASSUME BookInv, TypeOK',
         \/ Outage
         \/ \E p \in Principals : SetRevoked(p) \/ SetGranted(p)
         \/ \E i \in Ids : RetryIntent(i) \/ BackoffElapses(i) \/ LeaseExpires(i)
  PROVE  BookInv'
<1>1. Steady /\ UNCHANGED <<raised, pc, verdict, job>>
  BY DEF Outage, SetRevoked, SetGranted, RetryIntent, BackoffElapses, LeaseExpires,
     Steady, BookInv, TypeOK, Rows, rowVars, relayVars
<1>2. \A i \in Ids : state'[i] = "delivered" => state[i] = "delivered"
  BY DEF Outage, SetRevoked, SetGranted, RetryIntent, BackoffElapses, LeaseExpires,
     BookInv, TypeOK, rowVars
<1> QED
  BY <1>1, <1>2, SteadyKeeps

\* Every step keeps the part of the invariant that needs no producer but core.outbox_enqueue.
LEMMA NextBooks == BookInv /\ [Next]_vars => BookInv'
<1> SUFFICES ASSUME BookInv, [Next]_vars PROVE BookInv'
  OBVIOUS
<1>1. TypeOK'
  BY NextTyped DEF BookInv
<1>2. CASE UNCHANGED vars
  BY <1>1, <1>2, SteadyKeeps DEF vars, rowVars, relayVars, Steady, Rows
<1>3. CASE Next
  BY <1>1, <1>3, EnqueueSafe, HandleSafe, RecordSafe, RaiseSafe, QuietSafe, WorldSafe
  DEF Next, RelayStep
<1> QED
  BY <1>2, <1>3

\* Only an enqueue adds a row, of a key that had none; only the relay books,
\* and what it works on is a row.
LEMMA NextOwed == ASSUME IInv, Next PROVE BookedWasOwed'
<1>1. CASE \E k \in Keys : Enqueue(k)
  <2>1. PICK k \in Keys, i \in Ids :
          /\ state[i] = "absent" /\ ~Enqueued(k) /\ ledger' = ledger
          /\ key'   = [key EXCEPT ![i] = k]
          /\ state' = [state EXCEPT ![i] = "pending"]
    BY <1>1 DEF Enqueue
  <2>2. \A j \in Ids : /\ key'[j] = IF j = i THEN k ELSE key[j]
                       /\ state'[j] = IF j = i THEN "pending" ELSE state[j]
    BY <2>1 DEF IInv, BookInv, TypeOK
  <2>3. i \notin Rows /\ Rows' = Rows \cup {i} /\ key[i] = NoKey
    BY <2>1, <2>2 DEF Rows, IInv, BookInv, KeyedRows
  <2>4. \A j \in Rows : key'[j] = key[j] /\ key[j] # k
    BY <2>1, <2>2, <2>3 DEF Rows, Enqueued
  <2>5. \A x \in Keys : Enqueued(x) => Enqueued(x)'
    BY <2>2, <2>3, OutboxAssumption DEF Enqueued
  <2>6. \A x \in Keys : ledger'[x] > 0 => Enqueued(x)'
    BY <2>1, <2>5 DEF IInv, BookedWasOwed
  <2>7. \A x, y \in Rows' : key'[x] = key'[y] => x = y
    BY <2>2, <2>3, <2>4 DEF IInv, BookedWasOwed
  <2> QED BY <2>6, <2>7 DEF BookedWasOwed
<1>2. CASE ~\E k \in Keys : Enqueue(k)
  <2>1. \A r \in Relays : pc[r] = "admitted" =>
          job[r] \in Rows /\ key[job[r]] \in Keys /\ Enqueued(key[job[r]])
    BY KeyOfRow DEF IInv, BookInv, TypeOK, BusyPcs
  <2>2. /\ key' = key /\ Rows' = Rows
        /\ ledger' = ledger \/ \E k \in Keys : Enqueued(k) /\ ledger' = Booked(k)
    BY <1>2, <2>1
       DEF Next, RelayStep, BeginPass, LostLeases, Claim, Claimable, EndPass, Vet, Gate, Handle,
           Record, Raise, PassFails, Crash, Boot, Reroute, Outage, SetRevoked, SetGranted,
           RetryIntent, BackoffElapses, LeaseExpires, rowVars, IInv, BookInv, TypeOK, Rows,
           BusyPcs, Verdicts, Terminal
  <2>3. \A k \in Keys : Enqueued(k)' <=> Enqueued(k)
    BY <2>2 DEF Enqueued
  <2>4. \A k \in Keys : ledger'[k] > 0 => Enqueued(k)
    BY <2>2, BookedOnce DEF IInv, BookInv, TypeOK, BookedWasOwed
  <2> QED BY <2>2, <2>3, <2>4 DEF IInv, BookedWasOwed
<1> QED BY <1>1, <1>2

\* Every step keeps the invariant: what is booked was owed, too.
LEMMA NextSafe == IInv /\ [Next]_vars => IInv'
<1>1. BookedWasOwed /\ UNCHANGED vars => BookedWasOwed'
  BY DEF vars, rowVars, BookedWasOwed, Rows, Enqueued
<1> QED BY <1>1, NextBooks, NextOwed DEF IInv

\* The inductive invariant, from which the theorems below follow.
THEOREM Invariant == Spec => []IInv
  BY InitSafe, NextSafe, PTL DEF Spec

(***************************************************************************)
(* What becomes of an outcome once it is recorded.                         *)
(***************************************************************************)

\* A step that writes no outcome into a row, forgets no event and lets no relay
\* drop one it still has to raise leaves every outcome told.
LEMMA ToldKept ==
  ASSUME OutcomesAreTold,
         \A i \in Ids : state'[i] \in Terminal => state'[i] = state[i],
         raised \cup lost \subseteq raised' \cup lost',
         \A q \in Relays : pc[q] = "recorded" =>
            \/ pc'[q] = "recorded" /\ job'[q] = job[q] /\ verdict'[q] = verdict[q]
            \/ <<job[q], verdict[q]>> \in raised' \cup lost'
  PROVE  OutcomesAreTold'
<1> SUFFICES ASSUME NEW i \in Ids, state'[i] \in Terminal
             PROVE  \/ <<i, state'[i]>> \in raised' \cup lost'
                    \/ \E r \in Relays : /\ pc'[r] = "recorded"
                                         /\ job'[r] = i /\ verdict'[r] = state'[i]
  BY DEF OutcomesAreTold
<1>1. state'[i] = state[i]
  OBVIOUS
<1>2. CASE <<i, state[i]>> \in raised \cup lost
  BY <1>1, <1>2
<1>3. CASE \E r \in Relays : pc[r] = "recorded" /\ job[r] = i /\ verdict[r] = state[i]
  BY <1>1, <1>3
<1> QED
  BY <1>1, <1>2, <1>3 DEF OutcomesAreTold

\* Every step of a relay leaves every outcome told: its record because it goes
\* on to raise, its raise because the event is then out, or lost.
LEMMA RelayTells ==
  ASSUME TypeOK, OutcomesAreTold, NEW r \in Relays, RelayStep(r) PROVE OutcomesAreTold'
<1> USE DEF TypeOK
<1>a. CASE BeginPass(r)
  BY <1>a, ToldKept DEF BeginPass, Terminal
<1>b. CASE Claim(r)
  BY <1>b, ToldKept DEF Claim, Terminal
<1>c. CASE EndPass(r) \/ PassFails(r)
  BY <1>c, ToldKept DEF EndPass, PassFails, LeavePass, Release, rowVars
<1>d. CASE Vet(r) \/ Gate(r) \/ Handle(r)
  BY <1>d, ToldKept DEF Vet, Gate, Handle, Conclude, Proceed, rowVars
<1>e. CASE Record(r)
  <2>1. /\ state' = [state EXCEPT ![job[r]] = verdict[r]] /\ job[r] \in Ids
        /\ UNCHANGED <<raised, lost>> /\ pc[r] = "answered"
    BY <1>e DEF Record, Rows, BusyPcs
  <2>2. \A q \in Relays \ {r} : pc'[q] = pc[q] /\ job'[q] = job[q] /\ verdict'[q] = verdict[q]
    BY <1>e DEF Record, Release
  <2>3. CASE verdict[r] = "pending"
    BY <2>1, <2>2, <2>3, ToldKept DEF Terminal
  <2>4. CASE verdict[r] # "pending"
    <3>1. pc'[r] = "recorded" /\ job'[r] = job[r] /\ verdict'[r] = verdict[r]
      BY <1>e, <2>4 DEF Record
    <3>2. ASSUME NEW i \in Ids, state'[i] \in Terminal
          PROVE  \/ <<i, state'[i]>> \in raised' \cup lost'
                 \/ \E q \in Relays : /\ pc'[q] = "recorded"
                                      /\ job'[q] = i /\ verdict'[q] = state'[i]
      <4>1. CASE i = job[r]
        BY <2>1, <3>1, <4>1
      <4>2. CASE i # job[r]
        BY <2>1, <2>2, <3>2, <4>2 DEF OutcomesAreTold
      <4> QED
        BY <4>1, <4>2
    <3> QED
      BY <3>2 DEF OutcomesAreTold
  <2> QED
    BY <2>3, <2>4
<1>f. CASE Raise(r)
  <2>1. /\ raised \cup lost \subseteq raised' \cup lost' /\ state' = state
        /\ <<job[r], verdict[r]>> \in raised' \cup lost'
    BY <1>f DEF Raise, Publish, rowVars
  <2>2. \A q \in Relays \ {r} : pc'[q] = pc[q] /\ job'[q] = job[q] /\ verdict'[q] = verdict[q]
    BY <1>f DEF Raise, Release
  <2> QED
    BY <2>1, <2>2, ToldKept
<1> QED
  BY <1>a, <1>b, <1>c, <1>d, <1>e, <1>f DEF RelayStep

\* So does every other step: a crash loses what the relay had not raised.
LEMMA NextTells == TypeOK /\ OutcomesAreTold /\ [Next]_vars => OutcomesAreTold'
<1> SUFFICES ASSUME TypeOK, OutcomesAreTold, [Next]_vars PROVE OutcomesAreTold'
  OBVIOUS
<1> USE DEF TypeOK
<1>1. CASE UNCHANGED vars
  BY <1>1, ToldKept DEF vars, rowVars, relayVars
<1>2. ASSUME NEW k \in Keys, Enqueue(k) PROVE OutcomesAreTold'
  BY <1>2, ToldKept DEF Enqueue, Terminal, relayVars
<1>3. ASSUME NEW r \in Relays, Crash(r) PROVE OutcomesAreTold'
  BY <1>3, ToldKept DEF Crash, LeavePass, Release, rowVars
<1>4. ASSUME NEW r \in Relays, Boot(r) \/ Reroute(r) PROVE OutcomesAreTold'
  BY <1>4, ToldKept DEF Boot, Reroute, rowVars, relayVars
<1>5. CASE Outage \/ \E p \in Principals : SetRevoked(p) \/ SetGranted(p)
  BY <1>5, ToldKept DEF Outage, SetRevoked, SetGranted, rowVars, relayVars
<1>6. ASSUME NEW i \in Ids, RetryIntent(i) \/ BackoffElapses(i) \/ LeaseExpires(i)
      PROVE  OutcomesAreTold'
  BY <1>6, ToldKept DEF RetryIntent, BackoffElapses, LeaseExpires, Terminal, relayVars
<1> QED
  BY <1>1, <1>2, <1>3, <1>4, <1>5, <1>6, RelayTells DEF Next

\* An outcome is told, or a crash or an outage took its event: no late write by
\* a relay that lost its lease and no re-arming leaves a row silently settled.
THEOREM OutcomesStayTold == Spec => []OutcomesAreTold
<1>1. Init => OutcomesAreTold
  BY DEF Init, OutcomesAreTold, Terminal
<1>2. Spec => []TypeOK
  BY TypeCorrect
<1> QED
  BY <1>1, <1>2, NextTells, PTL DEF Spec

\* A row that reads `delivered` has its entry, even when a relay that lost its
\* lease wrote it.
THEOREM DeliveredRowsAreBooked == Spec => []DeliveredIsBooked
<1>1. IInv => DeliveredIsBooked
  BY DEF IInv, BookInv
<1> QED
  BY <1>1, Invariant, PTL

\* Nothing is booked that no producer enqueued, and no fact has two intents.
THEOREM OnlyOwedIsBooked == Spec => []BookedWasOwed
<1>1. IInv => BookedWasOwed
  BY DEF IInv
<1> QED
  BY <1>1, Invariant, PTL

\* A producer may settle its record from core.outbox.delivered: it is never
\* raised for a fact the ledger lacks.
THEOREM EventsAreTrue == Spec => []EventIsTrue
<1>1. IInv => EventIsTrue
  BY DEF IInv, BookInv
<1> QED
  BY <1>1, Invariant, PTL

-----------------------------------------------------------------------------
(***************************************************************************)
(* What the lease adds, when a delivery never outlasts it (~Overrun, the   *)
(* promise of the comment on LEASE_SECS): the relays exclude one another,  *)
(* `delivered` is terminal, and the outbox implements LedgerPromise.       *)
(***************************************************************************)

\* A held row is not stale, so no pass reclaims it, so no second relay claims
\* it: HeldByOne is inductive only together with the freshness of the lease.
Hold ==
  \A r \in Relays : Busy(r) =>
    /\ state[job[r]] = "attempting" /\ ~stale[job[r]]
    /\ \A s \in Relays \ {r} : ~Holder(s, job[r])

LInv == IInv /\ Hold

\* The row of every working relay is a row.
LEMMA BusyHasRow == ASSUME TypeOK, NEW r \in Relays, Busy(r) PROVE job[r] \in Rows
  BY DEF TypeOK, Busy

\* A step that leaves the held rows as they are, and starts no work, keeps Hold.
LEMMA HoldKept ==
  ASSUME LInv,
         \A r \in Relays : Busy(r)' => Busy(r) /\ job'[r] = job[r],
         \A r \in Relays : Busy(r)' => /\ state'[job[r]] = state[job[r]]
                                       /\ stale'[job[r]] = stale[job[r]]
  PROVE  Hold'
  BY DEF LInv, Hold, Holder

\* A claim takes a pending row, which no relay holds.
LEMMA ClaimHolds == ASSUME LInv, NEW r \in Relays, Claim(r) PROVE Hold'
<1>1. PICK i \in Ids :
        /\ state[i] = "pending"
        /\ state' = [state EXCEPT ![i] = "attempting"]
        /\ stale' = [stale EXCEPT ![i] = FALSE]
        /\ job'   = [job EXCEPT ![r] = i]
  BY DEF Claim, Claimable
<1>2. pc' = [pc EXCEPT ![r] = "claimed"] /\ pc[r] = "draining"
  BY DEF Claim
<1>3. \A q \in Relays \ {r} : /\ Busy(q)' <=> Busy(q)
                              /\ job'[q] = job[q]
                              /\ Busy(q) => job[q] # i
  BY <1>1, <1>2 DEF LInv, IInv, BookInv, TypeOK, Hold, Busy
<1>4. \A q \in Relays : Busy(q)' => job'[q] \in Ids
  BY <1>1, <1>3, BusyHasRow DEF LInv, IInv, BookInv, TypeOK, Rows
<1>5. job'[r] = i /\ state'[i] = "attempting" /\ ~stale'[i]
  BY <1>1 DEF LInv, IInv, BookInv, TypeOK
<1>6. \A q \in Relays \ {r} : Busy(q)' =>
        state'[job'[q]] = "attempting" /\ ~stale'[job'[q]]
  BY <1>1, <1>3 DEF LInv, IInv, BookInv, TypeOK, Hold
<1> QED
  BY <1>3, <1>5, <1>6 DEF LInv, Hold, Holder

\* A relay gives up the row it holds, or goes on holding it.
LEMMA RelayHolds == ASSUME LInv, NEW r \in Relays, RelayStep(r) PROVE Hold'
<1> USE DEF Busy, BusyPcs
<1>1. TypeOK
  BY DEF LInv, IInv, BookInv
<1>a. CASE BeginPass(r)
  <2>1. \A q \in Relays : Busy(q)' => Busy(q) /\ job'[q] = job[q]
    BY <1>1, <1>a DEF BeginPass, TypeOK
  <2>2. \A q \in Relays : Busy(q) => state'[job[q]] = state[job[q]] /\ stale'[job[q]] = stale[job[q]]
    BY <1>1, <1>a, BusyHasRow DEF BeginPass, LostLeases, LInv, Hold, Rows, TypeOK
  <2> QED
    BY <2>1, <2>2, HoldKept
<1>b. CASE Claim(r)
  BY <1>b, ClaimHolds
<1>c. CASE EndPass(r) \/ PassFails(r)
  BY <1>1, <1>c, HoldKept DEF EndPass, PassFails, LeavePass, Release, rowVars, TypeOK
<1>d. CASE Vet(r) \/ Gate(r) \/ Handle(r)
  BY <1>1, <1>d, HoldKept DEF Vet, Gate, Handle, Conclude, Proceed, rowVars, TypeOK
<1>e. CASE Record(r)
  <2>1. \A q \in Relays : Busy(q)' => q # r /\ Busy(q) /\ job'[q] = job[q]
    BY <1>1, <1>e DEF Record, Release, TypeOK
  <2>2. \A q \in Relays \ {r} : Busy(q) => job[q] # job[r]
    BY <1>e DEF Record, LInv, Hold, Holder
  <2>3. state' = [state EXCEPT ![job[r]] = verdict[r]] /\ stale' = stale
    BY <1>e DEF Record
  <2> QED
    BY <1>1, <2>1, <2>2, <2>3, HoldKept DEF TypeOK
<1>f. CASE Raise(r)
  BY <1>1, <1>f, HoldKept DEF Raise, Release, rowVars, TypeOK
<1> QED
  BY <1>a, <1>b, <1>c, <1>d, <1>e, <1>f DEF RelayStep

\* While no delivery overruns, nothing but a relay takes a row from one.
LEMMA OthersHold ==
  ASSUME LInv, ~Overrun, Next, ~\E r \in Relays : RelayStep(r)
  PROVE  Hold'
<1> USE DEF Busy, BusyPcs
<1>1. TypeOK
  BY DEF LInv, IInv, BookInv
<1>2. \A q \in Relays : Busy(q) =>
        /\ job[q] \in Ids /\ state[job[q]] = "attempting" /\ ~stale[job[q]]
  BY <1>1, BusyHasRow DEF LInv, Hold, Rows
<1>a. ASSUME NEW k \in Keys, Enqueue(k) PROVE Hold'
  BY <1>1, <1>2, <1>a, HoldKept DEF Enqueue, relayVars, TypeOK
<1>b. ASSUME NEW r \in Relays, Crash(r) \/ Boot(r) \/ Reroute(r) PROVE Hold'
  BY <1>1, <1>b, HoldKept
  DEF Crash, Boot, Reroute, LeavePass, Release, rowVars, relayVars, TypeOK
<1>c. ASSUME NEW i \in Ids, RetryIntent(i) \/ BackoffElapses(i) PROVE Hold'
  BY <1>1, <1>2, <1>c, HoldKept DEF RetryIntent, BackoffElapses, relayVars, TypeOK
<1>d. ASSUME NEW i \in Ids, LeaseExpires(i) PROVE Hold'
  <2>1. \A q \in Relays : Busy(q) => job[q] # i
    BY <1>d DEF LeaseExpires, Holder
  <2> QED
    BY <1>1, <1>2, <1>d, <2>1, HoldKept DEF LeaseExpires, relayVars, TypeOK
<1>e. CASE Outage \/ \E p \in Principals : SetRevoked(p) \/ SetGranted(p)
  BY <1>e, HoldKept DEF Outage, SetRevoked, SetGranted, rowVars, relayVars
<1> QED
  BY <1>a, <1>b, <1>c, <1>d, <1>e DEF Next

\* Every step keeps the lease.
LEMMA LeaseStep == ASSUME ~Overrun PROVE LInv /\ [Next]_vars => LInv'
<1> SUFFICES ASSUME LInv, [Next]_vars PROVE Hold'
  BY NextSafe DEF LInv
<1>1. CASE UNCHANGED vars
  BY <1>1, HoldKept DEF vars, rowVars, relayVars, Busy
<1>2. CASE Next
  BY <1>2, RelayHolds, OthersHold
<1> QED
  BY <1>1, <1>2

\* Initially no relay holds a row.
LEMMA InitHolds == Init => LInv
  BY InitSafe DEF Init, LInv, Hold, Busy, BusyPcs

\* The lease is held in every state: the relay that works on a row finds it
\* attempting, not stale, and with no other relay (LEASE_SECS, claim_next).
THEOREM LeaseInvariant == ASSUME ~Overrun PROVE Spec => []LInv
  BY InitHolds, LeaseStep, PTL DEF Spec

\* Two relays never work on one intent, and a row a relay works on is never
\* handed back to the queue, whatever crashes and re-arms there are.
THEOREM OneHolder == ASSUME ~Overrun PROVE Spec => []HeldByOne
<1>1. LInv => HeldByOne
  BY DEF LInv, Hold, HeldByOne
<1> QED
  BY <1>1, LeaseInvariant, PTL

(***************************************************************************)
(* `delivered` is terminal.                                                *)
(***************************************************************************)

\* No step takes a row out of delivered.
LEMMA DeliveredStays ==
  ASSUME LInv, [Next]_vars, NEW i \in Ids, state[i] = "delivered"
  PROVE  state'[i] = "delivered"
<1>1. TypeOK
  BY DEF LInv, IInv, BookInv
<1>a. ASSUME NEW k \in Keys, Enqueue(k) PROVE state'[i] = "delivered"
  BY <1>1, <1>a DEF Enqueue, TypeOK
<1>b. ASSUME NEW r \in Relays, RelayStep(r) PROVE state'[i] = "delivered"
  <2>1. CASE Record(r)
    <3>1. state[job[r]] = "attempting" /\ state' = [state EXCEPT ![job[r]] = verdict[r]]
      BY <2>1 DEF Record, LInv, Hold, Busy, BusyPcs
    <3> QED
      BY <1>1, <3>1 DEF TypeOK
  <2>2. CASE BeginPass(r) \/ Claim(r)
    BY <1>1, <2>2 DEF BeginPass, LostLeases, Claim, Claimable, TypeOK
  <2>3. CASE \/ EndPass(r) \/ Vet(r) \/ Gate(r) \/ Handle(r) \/ Raise(r) \/ PassFails(r)
    BY <2>3 DEF EndPass, Vet, Gate, Handle, Raise, PassFails, rowVars
  <2> QED
    BY <1>b, <2>1, <2>2, <2>3 DEF RelayStep
<1>c. ASSUME NEW r \in Relays, Crash(r) \/ Boot(r) \/ Reroute(r) PROVE state'[i] = "delivered"
  BY <1>c DEF Crash, Boot, Reroute, rowVars
<1>d. ASSUME NEW j \in Ids, RetryIntent(j) \/ BackoffElapses(j) \/ LeaseExpires(j)
      PROVE  state'[i] = "delivered"
  BY <1>1, <1>d DEF RetryIntent, BackoffElapses, LeaseExpires, TypeOK
<1>e. CASE \/ Outage \/ UNCHANGED vars
           \/ \E p \in Principals : SetRevoked(p) \/ SetGranted(p)
  BY <1>e DEF Outage, SetRevoked, SetGranted, vars, rowVars
<1> QED
  BY <1>a, <1>b, <1>c, <1>d, <1>e DEF Next

\* "Terminal: one intent, one delivery": nothing undoes `delivered`, as long as
\* the lease outlasts the delivery.
THEOREM DeliveredStaysDelivered == ASSUME ~Overrun PROVE Spec => DeliveredIsTerminal
<1>1. LInv /\ [Next]_vars => [\A i \in Ids : state[i] = "delivered" => state'[i] = "delivered"]_vars
  BY DeliveredStays
<1> QED
  BY <1>1, LeaseInvariant, PTL DEF Spec, DeliveredIsTerminal

(***************************************************************************)
(* What a row says of its history: the budget is spent at the claim, given *)
(* back by an operator only, and an exhausted row has spent it.            *)
(***************************************************************************)

\* A relay knows what its row has spent, and concludes `exhausted` from that.
Spending ==
  /\ \A r \in Relays : Busy(r) =>
       /\ spent[r] = attempts[job[r]]
       /\ pc[r] = "answered" /\ verdict[r] = "exhausted" => spent[r] >= MaxAttempts
  /\ ExhaustedSpentItsBudget

SpentInv == LInv /\ Spending

\* The rows that are held, and those that are exhausted, keep what they spent.
LEMMA SpendingKept ==
  ASSUME SpentInv,
         \A r \in Relays : Busy(r)' => /\ Busy(r) /\ job'[r] = job[r] /\ spent'[r] = spent[r]
                                       /\ attempts'[job[r]] = attempts[job[r]],
         \A r \in Relays : pc'[r] = "answered" =>
           pc[r] = "answered" /\ verdict'[r] = verdict[r],
         \A i \in Ids : state'[i] = "exhausted" => state[i] = "exhausted" /\ attempts'[i] = attempts[i]
  PROVE  Spending'
  BY DEF SpentInv, Spending, ExhaustedSpentItsBudget, Busy

\* A claim spends one attempt of a row nobody holds.
LEMMA ClaimSpends == ASSUME SpentInv, NEW r \in Relays, Claim(r) PROVE Spending'
<1>0. TypeOK /\ OutboxAssumption
  BY OutboxAssumption DEF SpentInv, LInv, IInv, BookInv
<1>1. PICK i \in Ids :
        /\ state[i] = "pending"
        /\ state' = [state EXCEPT ![i] = "attempting"]
        /\ attempts' = [attempts EXCEPT ![i] = Spend(attempts[i])]
        /\ job'   = [job EXCEPT ![r] = i]
        /\ spent' = [spent EXCEPT ![r] = Spend(attempts[i])]
  BY DEF Claim, Claimable
<1>2. pc' = [pc EXCEPT ![r] = "claimed"] /\ verdict' = verdict
  BY DEF Claim
<1>3. \A q \in Relays \ {r} : Busy(q) => job[q] # i
  BY <1>1 DEF SpentInv, LInv, Hold
<1>4. PICK n : n = Spend(attempts[i])
  OBVIOUS
<1>5. attempts' = [attempts EXCEPT ![i] = n] /\ spent' = [spent EXCEPT ![r] = n]
  BY <1>1, <1>4
<1>6. ASSUME NEW q \in Relays, Busy(q)'
      PROVE  /\ spent'[q] = attempts'[job'[q]]
             /\ pc'[q] = "answered" /\ verdict'[q] = "exhausted" => spent'[q] >= MaxAttempts
  <2>1. CASE q = r
    BY <1>0, <1>1, <1>2, <1>5, <2>1 DEF TypeOK
  <2>2. CASE q # r
    <3>1. Busy(q) /\ job'[q] = job[q] /\ spent'[q] = spent[q] /\ pc'[q] = pc[q] /\ job[q] \in Ids
      BY <1>0, <1>1, <1>2, <1>5, <1>6, <2>2, BusyHasRow DEF TypeOK, Busy, Rows
    <3>2. attempts'[job[q]] = attempts[job[q]]
      BY <1>0, <1>3, <1>5, <2>2, <3>1 DEF TypeOK
    <3> QED BY <1>2, <3>1, <3>2 DEF SpentInv, Spending
  <2> QED BY <2>1, <2>2
<1>7. ASSUME NEW j \in Ids, state'[j] = "exhausted" PROVE attempts'[j] >= MaxAttempts
  BY <1>0, <1>1, <1>5, <1>7 DEF TypeOK, SpentInv, Spending, ExhaustedSpentItsBudget
<1> QED BY <1>6, <1>7 DEF Spending, ExhaustedSpentItsBudget

\* A relay gives up for good when the attempt it was given was the last.
LEMMA AnswerSpends ==
  ASSUME SpentInv, NEW r \in Relays, Vet(r) \/ Gate(r) \/ Handle(r) PROVE Spending'
<1>0. TypeOK /\ OutboxAssumption
  BY OutboxAssumption DEF SpentInv, LInv, IInv, BookInv
<1>1. /\ UNCHANGED <<state, attempts, job, spent>> /\ Busy(r)
      /\ \/ Conclude(r, Retry(spent[r])) \/ Conclude(r, "refused") \/ Conclude(r, "delivered")
         \/ Proceed(r, "vetted") \/ Proceed(r, "admitted")
  BY DEF Vet, Gate, Handle, rowVars, Busy, BusyPcs
<1>2. spent[r] \in Nat /\ (Retry(spent[r]) = "exhausted" => spent[r] >= MaxAttempts)
  BY <1>0 DEF TypeOK, Retry, OutboxAssumption
<1>3. \A q \in Relays : Busy(q)' => Busy(q)
  BY <1>0, <1>1 DEF Conclude, Proceed, Busy, TypeOK
<1>4. \A q \in Relays : pc'[q] = "answered" /\ verdict'[q] = "exhausted" =>
        \/ pc[q] = "answered" /\ verdict[q] = "exhausted"
        \/ q = r /\ spent[r] >= MaxAttempts
  BY <1>0, <1>1, <1>2 DEF Conclude, Proceed, TypeOK
<1> QED BY <1>1, <1>3, <1>4 DEF SpentInv, Spending, ExhaustedSpentItsBudget

\* The record writes what the relay concluded of the row it holds.
LEMMA RecordSpends == ASSUME SpentInv, NEW r \in Relays, Record(r) PROVE Spending'
<1>0. TypeOK /\ OutboxAssumption
  BY OutboxAssumption DEF SpentInv, LInv, IInv, BookInv
<1>1. /\ pc[r] = "answered" /\ Busy(r) /\ job[r] \in Ids
      /\ state' = [state EXCEPT ![job[r]] = verdict[r]] /\ UNCHANGED attempts
  BY <1>0, BusyHasRow DEF Record, Busy, BusyPcs, Rows
<1>2. \A q \in Relays : Busy(q)' => Busy(q) /\ q # r /\ job'[q] = job[q] /\ spent'[q] = spent[q]
                                    /\ pc'[q] = pc[q] /\ verdict'[q] = verdict[q]
  BY <1>0 DEF Record, Release, TypeOK, Busy, BusyPcs
<1>3. verdict[r] = "exhausted" => attempts[job[r]] >= MaxAttempts
  BY <1>1 DEF SpentInv, Spending
<1>4. \A i \in Ids : state'[i] = "exhausted" => attempts'[i] >= MaxAttempts
  BY <1>0, <1>1, <1>3 DEF TypeOK, SpentInv, Spending, ExhaustedSpentItsBudget
<1> QED BY <1>1, <1>2, <1>4 DEF SpentInv, Spending, ExhaustedSpentItsBudget

\* Every other step leaves what is spent alone, but for an operator's re-arm.
LEMMA SpendingStep == ASSUME ~Overrun PROVE SpentInv /\ [Next]_vars => SpentInv'
<1> SUFFICES ASSUME SpentInv, [Next]_vars PROVE Spending'
  BY LeaseStep DEF SpentInv
<1> USE DEF Busy, BusyPcs
<1>1. TypeOK
  BY DEF SpentInv, LInv, IInv, BookInv
<1>2. \A q \in Relays : Busy(q) => job[q] \in Ids /\ state[job[q]] = "attempting"
  BY <1>1, BusyHasRow DEF SpentInv, LInv, Hold, Rows
<1>a. ASSUME NEW k \in Keys, Enqueue(k) PROVE Spending'
  BY <1>1, <1>a, SpendingKept DEF Enqueue, relayVars, TypeOK
<1>b. ASSUME NEW r \in Relays, RelayStep(r) PROVE Spending'
  <2>1. CASE BeginPass(r)
    BY <1>1, <2>1, SpendingKept DEF BeginPass, LostLeases, TypeOK
  <2>2. CASE EndPass(r) \/ PassFails(r)
    BY <1>1, <2>2, SpendingKept DEF EndPass, PassFails, LeavePass, Release, rowVars, TypeOK
  <2>3. CASE Raise(r)
    BY <1>1, <2>3, SpendingKept DEF Raise, Release, rowVars, TypeOK
  <2> QED
    BY <1>b, <2>1, <2>2, <2>3, ClaimSpends, AnswerSpends, RecordSpends DEF RelayStep
<1>c. ASSUME NEW r \in Relays, Crash(r) \/ Boot(r) \/ Reroute(r) PROVE Spending'
  BY <1>1, <1>c, SpendingKept DEF Crash, Boot, Reroute, LeavePass, Release, rowVars, relayVars, TypeOK
<1>d. ASSUME NEW i \in Ids, RetryIntent(i) PROVE Spending'
  BY <1>1, <1>2, <1>d, SpendingKept DEF RetryIntent, relayVars, TypeOK
<1>e. ASSUME NEW i \in Ids, BackoffElapses(i) \/ LeaseExpires(i) PROVE Spending'
  BY <1>1, <1>e, SpendingKept DEF BackoffElapses, LeaseExpires, relayVars
<1>f. CASE \/ Outage \/ UNCHANGED vars
           \/ \E p \in Principals : SetRevoked(p) \/ SetGranted(p)
  BY <1>f, SpendingKept DEF Outage, SetRevoked, SetGranted, vars, rowVars, relayVars
<1> QED
  BY <1>a, <1>b, <1>c, <1>d, <1>e, <1>f DEF Next

\* Initially nothing is spent.
LEMMA InitSpends == Init => SpentInv
  BY InitHolds DEF Init, SpentInv, Spending, ExhaustedSpentItsBudget, Busy, BusyPcs

\* Only a re-arm lowers what a row has spent.
LEMMA OperatorRefunds ==
  ASSUME LInv, [Next]_vars, NEW i \in Ids, attempts'[i] < attempts[i]
  PROVE  state[i] \in {"refused", "exhausted"} /\ state'[i] = "pending"
<1>1. TypeOK /\ OutboxAssumption
  BY OutboxAssumption DEF LInv, IInv, BookInv
<1>2. attempts[i] \in Nat
  BY <1>1 DEF TypeOK
<1>3. attempts' # attempts
  BY <1>2
<1>4. ASSUME NEW r \in Relays, Claim(r) PROVE FALSE
  <2>1. PICK j \in Ids : attempts' = [attempts EXCEPT ![j] = Spend(attempts[j])]
    BY <1>4 DEF Claim
  <2>2. attempts[j] \in Nat /\ MaxAttempts \in Nat
    BY <1>1 DEF TypeOK, OutboxAssumption
  <2>3. PICK n \in Nat : n = Spend(attempts[j]) /\ n >= attempts[j]
    BY <2>2 DEF Spend
  <2>4. attempts' = [attempts EXCEPT ![j] = n] /\ DOMAIN attempts = Ids
    BY <1>1, <2>1, <2>3 DEF TypeOK
  <2>5. attempts'[i] = IF i = j THEN n ELSE attempts[i]
    BY <2>4
  <2> QED BY <1>2, <2>3, <2>5
<1>5. ASSUME NEW r \in Relays, RelayStep(r) PROVE FALSE
  BY <1>3, <1>4, <1>5
  DEF RelayStep, BeginPass, EndPass, Vet, Gate, Handle, Record, Raise, PassFails, rowVars
<1>6. ASSUME NEW j \in Ids, RetryIntent(j)
      PROVE  state[i] \in {"refused", "exhausted"} /\ state'[i] = "pending"
  <2>1. i = j
    BY <1>1, <1>2, <1>6 DEF RetryIntent, TypeOK
  <2> QED BY <1>1, <1>6, <2>1 DEF RetryIntent, TypeOK
<1>7. ASSUME ~\E j \in Ids : RetryIntent(j), ~\E r \in Relays : RelayStep(r) PROVE FALSE
  BY <1>3, <1>7 DEF Next, Enqueue, Crash, Boot, Reroute, Outage, SetRevoked, SetGranted, BackoffElapses,
     LeaseExpires, vars, rowVars
<1> QED BY <1>5, <1>6, <1>7

\* RowsKeepTheirAccount: an exhausted row spent its budget, an attempt is given
\* back by an operator only, and delivered is terminal, as long as the lease
\* outlasts the delivery.
THEOREM RowsStayAccounted == ASSUME ~Overrun PROVE Spec => RowsKeepTheirAccount
<1>1. Spec => []SpentInv
  BY InitSpends, SpendingStep, PTL DEF Spec
<1>2. SpentInv => ExhaustedSpentItsBudget
  BY DEF SpentInv, Spending
<1>3. LInv /\ [Next]_vars => [\A i \in Ids : attempts'[i] < attempts[i] =>
        state[i] \in {"refused", "exhausted"} /\ state'[i] = "pending"]_vars
  BY OperatorRefunds
<1>4. Spec => OnlyAnOperatorRefunds
  BY <1>3, LeaseInvariant, PTL DEF Spec, OnlyAnOperatorRefunds
<1> QED
  BY <1>1, <1>2, <1>4, DeliveredStaysDelivered, PTL DEF RowsKeepTheirAccount

(***************************************************************************)
(* The outbox keeps LedgerPromise: an enqueue owes, finance's first insert *)
(* books, a record of `delivered` confirms, and nothing else shows.        *)
(***************************************************************************)

Owed      == {k \in Keys : Enqueued(k)}
Confirmed == {key[i] : i \in {j \in Ids : state[j] = "delivered"}}

\* Initially nothing is owed, booked or confirmed.
LEMMA PromiseInit == Init => Promise!Init
<1> SUFFICES ASSUME Init PROVE Promise!Init
  OBVIOUS
<1>1. Owed = {}
  BY OutboxAssumption DEF Init, Owed, Enqueued
<1>2. Confirmed = {}
  BY DEF Init, Confirmed
<1> QED
  BY <1>1, <1>2 DEF Init, Promise!Init, Owed, Confirmed

\* A step that changes no key changes no debt.
LEMMA OwedKept == ASSUME key' = key PROVE Owed' = Owed
  BY DEF Owed, Enqueued

\* A step that changes no key and takes no row into `delivered` confirms nothing.
LEMMA ConfirmedKept ==
  ASSUME LInv, [Next]_vars, key' = key,
         \A i \in Ids : state'[i] = "delivered" => state[i] = "delivered"
  PROVE  Confirmed' = Confirmed
<1>1. \A i \in Ids : state[i] = "delivered" => state'[i] = "delivered"
  BY DeliveredStays
<1> QED
  BY <1>1 DEF Confirmed

Refined == Promise!Next \/ UNCHANGED Promise!promiseVars

\* Booking a debt is a Book, or nothing at all when the entry is there already.
LEMMA BookRefined ==
  ASSUME LInv, NEW i \in Rows, ledger' = Booked(key[i]) \/ ledger' = ledger,
         Owed' = Owed, Confirmed' = Confirmed
  PROVE  Refined
<1> DEFINE k == key[i]
<1>1. k \in Keys /\ k \in Owed
  BY KeyOfRow DEF LInv, IInv, BookInv, Owed
<1>2. ledger \in [Keys -> 0..1]
  BY DEF LInv, IInv, BookInv, TypeOK
<1>3. CASE ledger[k] = 0 /\ ledger' = Booked(k)
  <2>1. ledger' = [ledger EXCEPT ![k] = 1]
    BY <1>2, <1>3 DEF Booked
  <2>2. Promise!Book(k)
    BY <1>1, <1>3, <2>1 DEF Promise!Book, Owed, Confirmed
  <2> QED
    BY <1>1, <2>2 DEF Refined, Promise!Next
<1>4. CASE ledger[k] # 0 \/ ledger' = ledger
  <2>1. ledger' = ledger
    BY <1>2, <1>4 DEF Booked
  <2> QED
    BY <2>1 DEF Refined, Promise!promiseVars, Owed, Confirmed
<1> QED
  BY <1>3, <1>4

\* An enqueue owes a new fact, or one that is owed already.
LEMMA EnqueueRefined == ASSUME LInv, NEW k \in Keys, Enqueue(k) PROVE Refined
<1>1. PICK i \in Ids :
        /\ state[i] = "absent"
        /\ key'   = [key EXCEPT ![i] = k]
        /\ state' = [state EXCEPT ![i] = "pending"]
  BY DEF Enqueue
<1>2. k \notin Owed /\ ledger' = ledger
  BY DEF Enqueue, Owed
<1>3. TypeOK /\ key[i] = NoKey
  BY <1>1 DEF LInv, IInv, BookInv, KeyedRows
<1>4. \A j \in Ids : key'[j] = IF j = i THEN k ELSE key[j]
  BY <1>1, <1>3 DEF TypeOK
<1>5. Owed' = Owed \cup {k}
  BY <1>3, <1>4, OutboxAssumption DEF Owed, Enqueued
<1>6. \A j \in Ids : state'[j] = "delivered" <=> state[j] = "delivered"
  BY <1>1, <1>3 DEF TypeOK
<1>7. Confirmed' = Confirmed
  BY <1>1, <1>4, <1>6 DEF Confirmed
<1>8. Promise!Owe(k)
  BY <1>2, <1>5, <1>7 DEF Promise!Owe, Owed, Confirmed
<1> QED
  BY <1>8 DEF Refined, Promise!Next

\* A record of delivered confirms what is booked; any other confirms nothing.
LEMMA RecordRefined == ASSUME LInv, NEW r \in Relays, Record(r) PROVE Refined
<1> DEFINE i == job[r]
<1>1. /\ state' = [state EXCEPT ![i] = verdict[r]] /\ key' = key /\ ledger' = ledger
      /\ [Next]_vars
  BY DEF Record, Next, RelayStep
<1>2. TypeOK /\ i \in Rows /\ pc[r] = "answered"
  BY DEF LInv, IInv, BookInv, TypeOK, BusyPcs, Record
<1>3. Owed' = Owed
  BY <1>1, OwedKept
<1>4. CASE verdict[r] = "delivered"
  <2>1. key[i] \in Keys /\ ledger[key[i]] = 1
    BY <1>2, <1>4, KeyOfRow DEF LInv, IInv, BookInv, VerdictIsTrue
  <2>2. \A j \in Ids : state'[j] = "delivered" <=> (j = i \/ state[j] = "delivered")
    BY <1>1, <1>2, <1>4 DEF TypeOK, Rows
  <2>3. Confirmed' = Confirmed \cup {key[i]}
    BY <1>1, <1>2, <2>2 DEF Confirmed, Rows
  <2>4. CASE key[i] \in Confirmed
    <3>1. Confirmed' = Confirmed
      BY <2>3, <2>4
    <3> QED
      BY <1>1, <1>3, <3>1 DEF Refined, Promise!promiseVars, Owed, Confirmed
  <2>5. CASE key[i] \notin Confirmed
    <3>1. PICK k \in Keys : k = key[i]
      BY <2>1
    <3>2. Promise!Confirm(k)
      BY <1>1, <1>3, <2>1, <2>3, <2>5, <3>1 DEF Promise!Confirm, Owed, Confirmed
    <3> QED
      BY <3>2 DEF Refined, Promise!Next
  <2> QED
    BY <2>4, <2>5
<1>5. CASE verdict[r] # "delivered"
  <2>1. \A j \in Ids : state'[j] = "delivered" => state[j] = "delivered"
    BY <1>1, <1>2, <1>5 DEF TypeOK
  <2>2. Confirmed' = Confirmed
    BY <1>1, <2>1, ConfirmedKept
  <2> QED
    BY <1>1, <1>3, <2>2 DEF Refined, Promise!promiseVars, Owed, Confirmed
<1> QED
  BY <1>4, <1>5

\* A step that touches neither the keys nor the ledger, and delivers nothing.
LEMMA QuietRefined ==
  ASSUME LInv, [Next]_vars, key' = key, ledger' = ledger,
         \A i \in Ids : state'[i] = "delivered" => state[i] = "delivered"
  PROVE  Refined
  BY OwedKept, ConfirmedKept DEF Refined, Promise!promiseVars, Owed, Confirmed

\* Every step is one of the promise or changes nothing the promise speaks of.
LEMMA PromiseStep == LInv /\ [Next]_vars => [Promise!Next]_(Promise!promiseVars)
<1> SUFFICES ASSUME LInv, [Next]_vars PROVE Refined
  BY DEF Refined
<1>1. TypeOK
  BY DEF LInv, IInv, BookInv
<1>a. ASSUME NEW k \in Keys, Enqueue(k) PROVE Refined
  BY <1>a, EnqueueRefined
<1>b. ASSUME NEW r \in Relays, Handle(r) \/ Crash(r) PROVE Refined
  <2>1. state' = state /\ key' = key
    BY <1>b DEF Handle, Crash, rowVars
  <2>2. Owed' = Owed /\ Confirmed' = Confirmed
    BY <2>1, OwedKept, ConfirmedKept
  <2>3. CASE ledger' = ledger
    BY <2>1, <2>3, QuietRefined
  <2>4. CASE ledger' # ledger
    <3>1. ledger' = Booked(key[job[r]]) /\ job[r] \in Rows
      BY <1>1, <1>b, <2>4 DEF Handle, Crash, TypeOK, BusyPcs
    <3> QED
      BY <2>2, <3>1, BookRefined
  <2> QED
    BY <2>3, <2>4
<1>c. ASSUME NEW r \in Relays, Record(r) PROVE Refined
  BY <1>c, RecordRefined
<1>d. ASSUME NEW r \in Relays,
             \/ BeginPass(r) \/ Claim(r) \/ EndPass(r) \/ Vet(r) \/ Gate(r) \/ Raise(r)
             \/ PassFails(r) \/ Boot(r) \/ Reroute(r)
      PROVE  Refined
  <2>1. key' = key /\ ledger' = ledger
    BY <1>d DEF BeginPass, Claim, EndPass, Vet, Gate, Raise, PassFails, Boot, Reroute, rowVars
  <2>2. \A i \in Ids : state'[i] = "delivered" => state[i] = "delivered"
    BY <1>1, <1>d
    DEF BeginPass, LostLeases, Claim, EndPass, Vet, Gate, Raise, PassFails, Boot, Reroute, rowVars, TypeOK
  <2> QED
    BY <2>1, <2>2, QuietRefined
<1>e. ASSUME NEW i \in Ids, RetryIntent(i) \/ BackoffElapses(i) \/ LeaseExpires(i)
      PROVE  Refined
  BY <1>1, <1>e, QuietRefined DEF RetryIntent, BackoffElapses, LeaseExpires, TypeOK
<1>f. CASE \/ Outage \/ UNCHANGED vars
           \/ \E p \in Principals : SetRevoked(p) \/ SetGranted(p)
  BY <1>f, QuietRefined DEF Outage, SetRevoked, SetGranted, vars, rowVars
<1> QED
  BY <1>a, <1>b, <1>c, <1>d, <1>e, <1>f DEF Next, RelayStep

\* The outbox implements the promise made to the producers.
THEOREM PromiseKept == ASSUME ~Overrun PROVE Spec => KeepsPromise
  BY PromiseInit, PromiseStep, LeaseInvariant, PTL DEF Spec, KeepsPromise, Promise!Spec

-----------------------------------------------------------------------------
(***************************************************************************)
(* The payments that go through it.  A confirmed payment is in the ledger  *)
(* once or on the treasurer's worklist, for every set of payments,         *)
(* webhooks, relays and events.  The strengthening follows what each party *)
(* may say: a handler, an event or an intent is about a payment the plugin *)
(* has a row for, and whoever says `booked` (the row, route_book's answer, *)
(* an outcome on its way) says it of an entry the ledger has.              *)
(***************************************************************************)

\* A webhook past its first statement.
AtWork == [at : {"reread", "publish", "mark"}, key : Keys]

StripeTyped ==
  /\ paid \in [Keys -> Statuses]
  /\ link \in [Keys -> BOOLEAN]
  /\ hook \in [Hooks -> {Idle} \cup AtWork]
  /\ manual \in [Keys -> Answers \cup {"none"}]
  /\ bus \in Seq(Events)

\* Whatever is about a payment is about one that has its row.
Recorded ==
  /\ \A k \in Keys : Enqueued(k) \/ ledger[k] > 0 \/ manual[k] # "none" => paid[k] # "none"
  /\ \A h \in Hooks : hook[h] # Idle => paid[hook[h].key] # "none"
  /\ \A n \in DOMAIN bus : bus[n].type = "received" => paid[bus[n].key] # "none"

\* Who says `booked` is right.
Truthful ==
  /\ \A k \in Keys : paid[k] = "booked" \/ manual[k] = "booked" => ledger[k] = 1
  /\ \A n \in DOMAIN bus : bus[n].type = "outcome" =>
       bus[n].id \in Rows /\ (bus[n].state = "delivered" => ledger[key[bus[n].id]] = 1)

SInv == BookInv /\ StripeTyped /\ Recorded /\ Truthful

\* Nothing is paid, owed or on the bus.
LEMMA InitStripe == SInit => SInv
<1> SUFFICES ASSUME SInit PROVE SInv
  OBVIOUS
<1>1. BookInv
  BY InitSafe DEF SInit, IInv
<1>2. StripeTyped
  BY DEF SInit, StripeTyped, Statuses, Answers, Idle
<1>3. Recorded /\ Truthful
  BY OutboxAssumption DEF SInit, Init, Recorded, Truthful, Enqueued, Idle
<1> QED BY <1>1, <1>2, <1>3 DEF SInv

-----------------------------------------------------------------------------
(* What the steps of the plugin do to the outbox: nothing, or one booking. *)

Elsewhere ==
  /\ UNCHANGED <<rowVars, principalVars, dbUp, routed, relayVars, raised, lost, rearms>>
  /\ ledger' = ledger \/ \E k \in Keys : ledger' = Booked(k)

\* One booking beside the relay keeps the invariant of the outbox.
LEMMA ElsewhereBooks ==
  ASSUME BookInv, Elsewhere
  PROVE  /\ BookInv' /\ key' = key /\ Rows' = Rows
         /\ \A k \in Keys : ledger[k] = 1 => ledger'[k] = 1
         /\ \A k \in Keys : Enqueued(k)' = Enqueued(k)
<1>1. key' = key /\ Rows' = Rows /\ state' = state /\ UNCHANGED <<pc, job, verdict, raised>>
  BY DEF Elsewhere, rowVars, relayVars, Rows
<1>2. ledger' \in [Keys -> 0..1]
  BY BookedTyped DEF Elsewhere, BookInv, TypeOK
<1>3. TypeOK'
  BY <1>1, <1>2 DEF Elsewhere, rowVars, principalVars, relayVars, BookInv, TypeOK
<1>4. Steady
  BY <1>1 DEF Elsewhere, Steady
<1>5. BookInv'
  BY <1>1, <1>3, <1>4, SteadyKeeps
<1>6. \A k \in Keys : ledger[k] = 1 => ledger'[k] = 1
  BY <1>4, SteadyStep
<1> QED BY <1>1, <1>5, <1>6 DEF Enqueued

\* A step that leaves the outbox alone.
LEMMA Beside ==
  ASSUME SInv, UNCHANGED vars
  PROVE  /\ BookInv' /\ key' = key /\ Rows' = Rows /\ ledger' = ledger
         /\ \A k \in Keys : Enqueued(k)' = Enqueued(k)
BY ElsewhereBooks DEF SInv, Elsewhere, vars

-----------------------------------------------------------------------------
(* The webhook.                                                            *)

\* A delivery that records a payment with its intent, in one statement.
LEMMA WithIntentStep ==
  ASSUME SInv, NEW h \in Hooks, NEW k \in Keys, WebhookWithIntent(h, k)
  PROVE  SInv'
<1>1. BookInv' /\ ledger' = ledger
  <2>1. CASE Enqueued(k)
    BY <2>1, Beside DEF WebhookWithIntent
  <2>2. CASE ~Enqueued(k)
    <3>1. Enqueue(k)
      BY <2>2 DEF WebhookWithIntent
    <3>2. TypeOK'
      BY <3>1, EnqueueTyped DEF SInv, BookInv
    <3> QED BY <3>1, <3>2, EnqueueSafe DEF SInv, Enqueue
  <2> QED BY <2>1, <2>2
<1>2. /\ \A j \in Keys : Enqueued(j)' => Enqueued(j) \/ j = k
      /\ \A i \in Rows : i \in Rows' /\ key'[i] = key[i]
  <2>1. CASE Enqueued(k)
    BY <2>1, Beside DEF WebhookWithIntent
  <2>2. CASE ~Enqueued(k)
    <3>1. PICK i \in Ids : state[i] = "absent" /\ key' = [key EXCEPT ![i] = k]
                           /\ state' = [state EXCEPT ![i] = "pending"]
      BY <2>2 DEF WebhookWithIntent, Enqueue
    <3> QED BY <3>1 DEF SInv, BookInv, TypeOK, Enqueued, Rows
  <2> QED BY <2>1, <2>2
<1>3. /\ \A j \in Keys : paid[j] # "none" => paid'[j] = paid[j]
      /\ paid'[k] # "none"
      /\ \A j \in Keys : paid'[j] = "booked" => paid[j] = "booked"
      /\ UNCHANGED <<manual, bus>>
  BY DEF WebhookWithIntent, SInv, StripeTyped
<1>4. StripeTyped'
  <2>1. [at |-> "reread", key |-> k] \in AtWork
    BY DEF AtWork
  <2>2. paid' \in [Keys -> Statuses] /\ link' \in [Keys -> BOOLEAN]
    BY DEF WebhookWithIntent, SInv, StripeTyped, Statuses
  <2> QED BY <1>3, <2>1, <2>2 DEF WebhookWithIntent, SInv, StripeTyped
<1>5. \A g \in Hooks : hook'[g] = hook[g] \/ hook'[g] = [at |-> "reread", key |-> k]
  BY DEF WebhookWithIntent, SInv, StripeTyped
<1>6. Recorded'
  <2>1. \A j \in Keys : Enqueued(j)' \/ ledger'[j] > 0 \/ manual'[j] # "none" => paid'[j] # "none"
    BY <1>1, <1>2, <1>3 DEF SInv, Recorded
  <2>2. ASSUME NEW g \in Hooks, hook'[g] # Idle PROVE paid'[hook'[g].key] # "none"
    <3>1. CASE hook'[g] = hook[g]
      BY <1>3, <2>2, <3>1 DEF SInv, StripeTyped, Recorded, AtWork
    <3>2. CASE hook'[g] = [at |-> "reread", key |-> k]
      BY <1>3, <3>2
    <3> QED BY <1>5, <3>1, <3>2
  <2>3. \A n \in DOMAIN bus' : bus'[n].type = "received" => paid'[bus'[n].key] # "none"
    BY <1>3 DEF SInv, StripeTyped, Recorded, Events
  <2> QED BY <2>1, <2>2, <2>3 DEF Recorded
<1>7. Truthful'
  BY <1>1, <1>2, <1>3 DEF SInv, Truthful
<1> QED BY <1>1, <1>4, <1>6, <1>7 DEF SInv

\* A webhook that is past its first statement has a row to work on.
LEMMA OnItsWay ==
  ASSUME SInv, NEW h \in Hooks, hook[h] # Idle \/ hook[h].at # "idle"
  PROVE  hook[h] \in AtWork /\ paid[hook[h].key] # "none"
<1>1. hook[h] \in AtWork
  BY DEF SInv, StripeTyped, Idle
<1>2. hook[h] # Idle
  BY <1>1 DEF AtWork, Idle
<1> QED BY <1>1, <1>2 DEF SInv, Recorded

\* Every other step of a webhook: a status that is not `booked`, an event
\* about a payment that has its row.
LEMMA WebhookSteps ==
  ASSUME SInv, NEW h \in Hooks,
         \/ \E k \in Keys : WebhookWithoutIntent(h, k)
         \/ Reread(h) \/ PublishReceived(h) \/ MarkDelegated(h) \/ WebhookFails(h)
  PROVE  SInv'
<1>0. /\ UNCHANGED vars /\ UNCHANGED manual
  BY DEF WebhookWithoutIntent, Reread, PublishReceived, MarkDelegated, WebhookFails
<1>1. /\ BookInv' /\ key' = key /\ Rows' = Rows /\ ledger' = ledger
      /\ \A k \in Keys : Enqueued(k)' = Enqueued(k)
  BY <1>0, Beside
<1>2. ASSUME NEW k \in Keys, WebhookWithoutIntent(h, k) PROVE SInv'
  <2>1. /\ \A j \in Keys : paid[j] # "none" => paid'[j] = paid[j]
        /\ paid'[k] # "none" /\ UNCHANGED bus
        /\ \A j \in Keys : paid'[j] = "booked" => paid[j] = "booked"
    BY <1>2 DEF WebhookWithoutIntent, SInv, StripeTyped
  <2>2. StripeTyped'
    <3>1. \A x \in {"publish", "reread"} : [at |-> x, key |-> k] \in AtWork
      BY DEF AtWork
    <3>2. paid' \in [Keys -> Statuses] /\ UNCHANGED <<link, bus>>
      BY <1>2 DEF WebhookWithoutIntent, SInv, StripeTyped, Statuses
    <3> QED BY <1>0, <1>2, <3>1, <3>2 DEF WebhookWithoutIntent, SInv, StripeTyped
  <2>3. \A g \in Hooks : hook'[g] = hook[g] \/ hook'[g].key = k
    BY <1>2 DEF WebhookWithoutIntent, SInv, StripeTyped
  <2>4. Recorded'
    <3>1. \A j \in Keys : Enqueued(j)' \/ ledger'[j] > 0 \/ manual'[j] # "none" => paid'[j] # "none"
      BY <1>0, <1>1, <2>1 DEF SInv, Recorded
    <3>2. ASSUME NEW g \in Hooks, hook'[g] # Idle PROVE paid'[hook'[g].key] # "none"
      <4>1. CASE hook'[g] = hook[g]
        BY <2>1, <3>2, <4>1 DEF SInv, StripeTyped, Recorded, AtWork
      <4>2. CASE hook'[g].key = k
        BY <2>1, <4>2
      <4> QED BY <2>3, <4>1, <4>2
    <3>3. \A n \in DOMAIN bus' : bus'[n].type = "received" => paid'[bus'[n].key] # "none"
      BY <2>1 DEF SInv, StripeTyped, Recorded, Events
    <3> QED BY <3>1, <3>2, <3>3 DEF Recorded
  <2>5. Truthful'
    BY <1>0, <1>1, <2>1 DEF SInv, Truthful
  <2> QED BY <1>1, <2>2, <2>4, <2>5 DEF SInv
<1>3. CASE Reread(h) \/ WebhookFails(h)
  <2>1. UNCHANGED <<paid, link, bus>>
    BY <1>3 DEF Reread, WebhookFails
  <2>2. hook[h] \in AtWork /\ paid[hook[h].key] # "none"
    BY <1>3, OnItsWay DEF Reread, WebhookFails
  <2>3. PICK x \in {Idle} \cup AtWork :
          hook' = [hook EXCEPT ![h] = x] /\ (x = Idle \/ x.key = hook[h].key)
    BY <1>3, <2>2 DEF Reread, WebhookFails, AtWork
  <2>4. StripeTyped'
    BY <1>0, <2>1, <2>3 DEF SInv, StripeTyped
  <2>5. Recorded'
    <3>1. \A j \in Keys : Enqueued(j)' \/ ledger'[j] > 0 \/ manual'[j] # "none" => paid'[j] # "none"
      BY <1>0, <1>1, <2>1 DEF SInv, Recorded
    <3>2. ASSUME NEW g \in Hooks, hook'[g] # Idle PROVE paid'[hook'[g].key] # "none"
      <4>1. CASE hook'[g] = hook[g]
        BY <2>1, <3>2, <4>1 DEF SInv, Recorded
      <4>2. CASE hook'[g].key = hook[h].key
        BY <2>1, <2>2, <4>2
      <4> QED BY <2>3, <3>2, <4>1, <4>2 DEF SInv, StripeTyped
    <3>3. \A n \in DOMAIN bus' : bus'[n].type = "received" => paid'[bus'[n].key] # "none"
      BY <2>1 DEF SInv, Recorded
    <3> QED BY <3>1, <3>2, <3>3 DEF Recorded
  <2>6. Truthful'
    BY <1>0, <1>1, <2>1 DEF SInv, Truthful
  <2> QED BY <1>1, <2>4, <2>5, <2>6 DEF SInv
<1>4. CASE PublishReceived(h)
  <2>1. hook[h] \in AtWork /\ hook[h].key \in Keys /\ paid[hook[h].key] # "none"
    BY <1>4, OnItsWay DEF PublishReceived, AtWork
  <2> DEFINE ev == Received(hook[h].key)
  <2>2. ev \in Events /\ ev.type = "received" /\ ev.key = hook[h].key
    BY <2>1 DEF Received, Events
  <2>3. bus' = Append(bus, ev) /\ UNCHANGED <<paid, link>>
    BY <1>4 DEF PublishReceived
  <2> HIDE DEF ev
  <2>4. /\ bus' \in Seq(Events)
        /\ \A n \in DOMAIN bus' : (n \in DOMAIN bus /\ bus'[n] = bus[n]) \/ bus'[n] = ev
    BY <2>2, <2>3 DEF SInv, StripeTyped
  <2>5. PICK x \in AtWork : hook' = [hook EXCEPT ![h] = x] /\ x.key = hook[h].key
    <3>1. [hook[h] EXCEPT !.at = "mark"] \in AtWork
      BY <2>1 DEF AtWork
    <3>2. [hook[h] EXCEPT !.at = "mark"].key = hook[h].key
      BY <2>1 DEF AtWork
    <3>3. hook' = [hook EXCEPT ![h] = [hook[h] EXCEPT !.at = "mark"]]
      BY <1>4 DEF PublishReceived
    <3> QED BY <3>1, <3>2, <3>3
  <2>6. StripeTyped'
    BY <1>0, <2>3, <2>4, <2>5 DEF SInv, StripeTyped
  <2>7. Recorded'
    BY <1>0, <1>1, <2>1, <2>2, <2>3, <2>4, <2>5 DEF SInv, StripeTyped, Recorded
  <2>8. Truthful'
    BY <1>0, <1>1, <2>2, <2>3, <2>4 DEF SInv, Truthful
  <2> QED BY <1>1, <2>6, <2>7, <2>8 DEF SInv
<1>5. CASE MarkDelegated(h)
  <2>1. hook[h].key \in Keys /\ paid[hook[h].key] # "none"
    BY <1>5, OnItsWay DEF MarkDelegated, AtWork
  <2>2. /\ paid' = [paid EXCEPT ![hook[h].key] = "delegated_event"]
        /\ hook' = [hook EXCEPT ![h] = Idle] /\ UNCHANGED <<link, bus>>
    BY <1>5 DEF MarkDelegated
  <2>3. StripeTyped'
    BY <1>0, <2>1, <2>2 DEF SInv, StripeTyped, Statuses
  <2>4. \A j \in Keys : (paid[j] # "none" => paid'[j] # "none")
                        /\ (paid'[j] = "booked" => paid[j] = "booked")
    BY <2>1, <2>2 DEF SInv, StripeTyped
  <2>5. Recorded'
    BY <1>0, <1>1, <2>2, <2>4 DEF SInv, StripeTyped, Recorded, Events, Idle
  <2>6. Truthful'
    BY <1>0, <1>1, <2>2, <2>4 DEF SInv, Truthful
  <2> QED BY <1>1, <2>3, <2>5, <2>6 DEF SInv
<1> QED BY <1>2, <1>3, <1>4, <1>5

-----------------------------------------------------------------------------
(* The subscribers, and route_book.                                        *)

\* The event at the head is one of the bus's, and the rest keeps its order.
LEMMA TakeEvent ==
  ASSUME SInv, bus # <<>>, bus' = Tail(bus)
  PROVE  /\ 1 \in DOMAIN bus /\ Head(bus) = bus[1] /\ Head(bus) \in Events
         /\ bus' \in Seq(Events)
         /\ \A n \in DOMAIN bus' : n + 1 \in DOMAIN bus /\ bus'[n] = bus[n + 1]
  BY DEF SInv, StripeTyped

\* The settlement says `booked` of a delivered intent.
LEMMA SettleStep == ASSUME SInv, SettleFromIntent PROVE SInv'
<1> DEFINE ev == Head(bus)
           k == key[ev.id]
<1>1. /\ bus' \in Seq(Events) /\ ev = bus[1] /\ 1 \in DOMAIN bus /\ ev \in Events
      /\ \A n \in DOMAIN bus' : n + 1 \in DOMAIN bus /\ bus'[n] = bus[n + 1]
  BY TakeEvent DEF SettleFromIntent
<1>2. /\ UNCHANGED <<vars, link, hook, manual>> /\ ev.type = "outcome"
      /\ \/ paid' = paid
         \/ paid[k] # "none" /\ paid' = [paid EXCEPT ![k] = SettledAs(ev.state)]
  BY DEF SettleFromIntent
<1>3. /\ BookInv' /\ key' = key /\ Rows' = Rows /\ ledger' = ledger
      /\ \A j \in Keys : Enqueued(j)' = Enqueued(j)
  BY <1>2, Beside
<1>4. ev.state \in Terminal
  BY <1>1, <1>2 DEF Events
<1>5. SettledAs(ev.state) \in {"booked", "refused", "failed"}
      /\ (SettledAs(ev.state) = "booked" => ev.state = "delivered")
  BY <1>4 DEF SettledAs, Terminal
<1>6. k \in Keys /\ (ev.state = "delivered" => ledger[k] = 1)
  <2>1. ev.id \in Rows /\ (ev.state = "delivered" => ledger[k] = 1)
    BY <1>1, <1>2 DEF SInv, Truthful
  <2> QED BY <2>1, KeyOfRow DEF SInv, BookInv
<1>7. /\ paid' \in [Keys -> Statuses]
      /\ \A j \in Keys : paid[j] # "none" => paid'[j] # "none"
      /\ \A j \in Keys : paid'[j] = "booked" => paid[j] = "booked" \/ ledger[j] = 1
  BY <1>2, <1>5, <1>6 DEF SInv, StripeTyped, Statuses
<1>8. StripeTyped'
  BY <1>1, <1>2, <1>7 DEF SInv, StripeTyped
<1>9. Recorded'
  <2>1. \A n \in DOMAIN bus' : bus'[n].type = "received" => bus'[n].key \in Keys
    BY <1>1 DEF Events
  <2>2. \A h \in Hooks : hook[h] # Idle => hook[h].key \in Keys
    BY DEF SInv, StripeTyped, AtWork
  <2> QED BY <1>1, <1>2, <1>3, <1>7, <2>1, <2>2 DEF SInv, Recorded
<1>10. Truthful'
  BY <1>1, <1>2, <1>3, <1>7 DEF SInv, Truthful
<1> QED BY <1>3, <1>8, <1>9, <1>10 DEF SInv

\* Finance books what was received: a payment that has its row.
LEMMA ReceivedStep == ASSUME SInv, OnPaymentReceived PROVE SInv'
<1> DEFINE k == Head(bus).key
<1>1. /\ bus' \in Seq(Events) /\ Head(bus) = bus[1] /\ 1 \in DOMAIN bus /\ Head(bus) \in Events
      /\ \A n \in DOMAIN bus' : n + 1 \in DOMAIN bus /\ bus'[n] = bus[n + 1]
  BY TakeEvent DEF OnPaymentReceived
<1>2. k \in Keys /\ paid[k] # "none"
  BY <1>1 DEF OnPaymentReceived, Events, SInv, Recorded
<1>3. Elsewhere /\ (ledger' = ledger \/ ledger' = Booked(k)) /\ UNCHANGED <<paid, link, hook, manual>>
  BY <1>2 DEF OnPaymentReceived, Elsewhere, rowVars, principalVars, relayVars
<1>4. /\ BookInv' /\ key' = key /\ Rows' = Rows
      /\ \A j \in Keys : ledger[j] = 1 => ledger'[j] = 1
      /\ \A j \in Keys : Enqueued(j)' = Enqueued(j)
  BY <1>3, ElsewhereBooks DEF SInv
<1>5. \A j \in Keys : ledger'[j] > 0 => ledger[j] > 0 \/ j = k
  BY <1>2, <1>3, BookedOnce DEF SInv, BookInv, TypeOK
<1>6. StripeTyped'
  BY <1>1, <1>3 DEF SInv, StripeTyped
<1>7. Recorded'
  BY <1>1, <1>2, <1>3, <1>4, <1>5 DEF SInv, Recorded
<1>8. Truthful'
  <2>1. \A i \in Rows : key[i] \in Keys
    BY KeyOfRow DEF SInv, BookInv
  <2> QED BY <1>1, <1>3, <1>4, <2>1 DEF SInv, Truthful
<1> QED BY <1>4, <1>6, <1>7, <1>8 DEF SInv

\* route_book: what finance answers is so, whenever it is written down.
LEMMA BookSteps ==
  ASSUME SInv, NEW k \in Keys, AskFinanceToBook(k) \/ WriteBookOutcome(k)
  PROVE  SInv'
<1>1. CASE AskFinanceToBook(k)
  <2>1. Elsewhere /\ (ledger' = ledger \/ ledger' = Booked(k)) /\ UNCHANGED <<paid, link, hook, bus>>
    BY <1>1 DEF AskFinanceToBook, Elsewhere, rowVars, principalVars, relayVars
  <2>2. PICK a \in Answers : manual' = [manual EXCEPT ![k] = a] /\ (a = "booked" => ledger' = Booked(k))
    BY <1>1 DEF AskFinanceToBook
  <2>3. /\ BookInv' /\ key' = key /\ Rows' = Rows
        /\ \A j \in Keys : ledger[j] = 1 => ledger'[j] = 1
        /\ \A j \in Keys : Enqueued(j)' = Enqueued(j)
    BY <2>1, ElsewhereBooks DEF SInv
  <2>4. /\ \A j \in Keys : ledger'[j] > 0 => ledger[j] > 0 \/ j = k
        /\ a = "booked" => ledger'[k] = 1
    <3>1. ledger \in [Keys -> 0..1] /\ ledger[k] <= 1
      BY DEF SInv, BookInv, TypeOK
    <3> QED BY <2>1, <2>2, <3>1, BookedOnce
  <2>5. StripeTyped'
    BY <2>1, <2>2 DEF SInv, StripeTyped
  <2>6. Recorded'
    BY <1>1, <2>1, <2>2, <2>3, <2>4 DEF AskFinanceToBook, SInv, StripeTyped, Recorded
  <2>7. Truthful'
    <3>1. \A i \in Rows : key[i] \in Keys
      BY KeyOfRow DEF SInv, BookInv
    <3> QED BY <2>1, <2>2, <2>3, <2>4, <3>1 DEF SInv, StripeTyped, Truthful
  <2> QED BY <2>3, <2>5, <2>6, <2>7 DEF SInv
<1>2. CASE WriteBookOutcome(k)
  <2>1. /\ UNCHANGED <<vars, link, hook, bus>> /\ manual[k] # "none"
        /\ manual' = [manual EXCEPT ![k] = "none"]
        /\ paid' = paid \/ paid' = [paid EXCEPT ![k] = manual[k]]
    BY <1>2 DEF WriteBookOutcome
  <2>2. /\ BookInv' /\ key' = key /\ Rows' = Rows /\ ledger' = ledger
        /\ \A j \in Keys : Enqueued(j)' = Enqueued(j)
    BY <2>1, Beside
  <2>3. /\ paid' \in [Keys -> Statuses] /\ \A j \in Keys : paid[j] # "none" => paid'[j] # "none"
        /\ \A j \in Keys : paid'[j] = "booked" => paid[j] = "booked" \/ ledger[j] = 1
    BY <2>1 DEF SInv, StripeTyped, Truthful, Statuses, Answers
  <2>4. StripeTyped'
    BY <2>1, <2>3 DEF SInv, StripeTyped
  <2>5. Recorded'
    <3>1. \A n \in DOMAIN bus : bus[n].type = "received" => bus[n].key \in Keys
      BY DEF SInv, StripeTyped, Events
    <3>2. \A h \in Hooks : hook[h] # Idle => hook[h].key \in Keys
      BY DEF SInv, StripeTyped, AtWork
    <3> QED BY <2>1, <2>2, <2>3, <3>1, <3>2 DEF SInv, StripeTyped, Recorded
  <2>6. Truthful'
    BY <2>1, <2>2, <2>3 DEF SInv, StripeTyped, Truthful
  <2> QED BY <2>2, <2>4, <2>5, <2>6 DEF SInv
<1> QED BY <1>1, <1>2

-----------------------------------------------------------------------------
(* The outbox.                                                             *)

\* What a step of the relay books is an intent's, and so a payment's.
LEMMA RelayBooks ==
  ASSUME SInv, Next, key' = key
  PROVE  /\ BookInv' /\ Rows \subseteq Rows'
         /\ \A k \in Keys : ledger[k] = 1 => ledger'[k] = 1
         /\ \A k \in Keys : ledger'[k] > 0 => paid[k] # "none"
<1>1. BookInv'
  BY NextBooks DEF SInv
<1>2. \A r \in Relays : pc[r] = "admitted" =>
        job[r] \in Rows /\ key[job[r]] \in Keys /\ Enqueued(key[job[r]])
  BY KeyOfRow DEF SInv, BookInv, TypeOK, BusyPcs
<1>3. ledger' = ledger \/ \E k \in Keys : Enqueued(k) /\ ledger' = Booked(k)
  BY <1>2
     DEF Next, RelayStep, Enqueue, BeginPass, Claim, EndPass, Vet, Gate, Handle, Record, Raise,
         PassFails, Crash, Boot, Reroute, Outage, SetRevoked, SetGranted, RetryIntent,
         BackoffElapses, LeaseExpires
<1>4. \A i \in Ids : state[i] # "absent" => state'[i] # "absent"
  BY <1>1 DEF SInv, BookInv, KeyedRows
<1>5. \A k \in Keys : ledger[k] \in Nat /\ ledger[k] <= 1 /\ (ledger[k] > 0 => paid[k] # "none")
  BY DEF SInv, BookInv, TypeOK, Recorded
<1>6. \A k \in Keys : Enqueued(k) => paid[k] # "none"
  BY DEF SInv, Recorded
<1>7. CASE ledger' = ledger
  BY <1>1, <1>4, <1>5, <1>7 DEF Rows
<1>8. ASSUME NEW k \in Keys, Enqueued(k), ledger' = Booked(k)
      PROVE  \A j \in Keys : (ledger[j] = 1 => ledger'[j] = 1) /\ (ledger'[j] > 0 => paid[j] # "none")
  BY <1>5, <1>6, <1>8, BookedOnce DEF SInv, BookInv, TypeOK
<1> QED BY <1>1, <1>3, <1>4, <1>7, <1>8 DEF Rows

\* What the relay books was recorded, and what it announces is true.
LEMMA RelaySteps == ASSUME SInv, OutboxStep PROVE SInv'
<1>1. /\ BookInv' /\ Rows \subseteq Rows'
      /\ \A k \in Keys : ledger[k] = 1 => ledger'[k] = 1
      /\ \A k \in Keys : ledger'[k] > 0 => paid[k] # "none"
  BY RelayBooks DEF OutboxStep
<1>2. key' = key /\ UNCHANGED <<paid, link, hook, manual>>
  BY DEF OutboxStep
<1>3. \A k \in Keys : Enqueued(k)' = Enqueued(k)
  BY <1>2 DEF Enqueued
<1>4. /\ bus' \in Seq(Events)
      /\ \A n \in DOMAIN bus' :
           \/ n \in DOMAIN bus /\ bus'[n] = bus[n]
           \/ /\ bus'[n].type = "outcome" /\ bus'[n].id \in Rows
              /\ bus'[n].state = "delivered" => ledger[key[bus'[n].id]] = 1
  <2>1. CASE bus' = bus
    BY <2>1 DEF SInv, StripeTyped
  <2>2. CASE bus' # bus
    <3>1. PICK r \in Relays : Raising(r) /\ bus' = Append(bus, Outcome(job[r], verdict[r]))
      BY <2>2 DEF OutboxStep
    <3>2. job[r] \in Rows /\ job[r] \in Ids /\ verdict[r] \in Terminal
          /\ (verdict[r] = "delivered" => ledger[key[job[r]]] = 1)
      BY <3>1 DEF Raising, SInv, BookInv, TypeOK, VerdictIsTrue, Rows
    <3> DEFINE ev == Outcome(job[r], verdict[r])
    <3>3. ev \in Events /\ ev.type = "outcome" /\ ev.id = job[r] /\ ev.state = verdict[r]
      BY <3>2 DEF Outcome, Events
    <3>4. bus' = Append(bus, ev)
      BY <3>1
    <3> HIDE DEF ev
    <3>5. /\ bus' \in Seq(Events)
          /\ \A n \in DOMAIN bus' : (n \in DOMAIN bus /\ bus'[n] = bus[n]) \/ bus'[n] = ev
      BY <3>3, <3>4 DEF SInv, StripeTyped
    <3> QED BY <3>2, <3>3, <3>5
  <2> QED BY <2>1, <2>2
<1>5. StripeTyped'
  BY <1>2, <1>4 DEF SInv, StripeTyped
<1>6. Recorded'
  BY <1>1, <1>2, <1>3, <1>4 DEF SInv, Recorded
<1>7. Truthful'
  <2>1. \A i \in Rows : key[i] \in Keys
    BY KeyOfRow DEF SInv, BookInv
  <2> QED BY <1>1, <1>2, <1>4, <2>1 DEF SInv, Truthful
<1> QED BY <1>1, <1>5, <1>6, <1>7 DEF SInv

\* A crash loses what was on its way, and keeps the rows.
LEMMA CrashStep == ASSUME SInv, NEW r \in Relays, ProcessCrash(r) PROVE SInv'
<1>1. Crash(r) /\ key' = key /\ UNCHANGED <<paid, link>>
      /\ hook' = [h \in Hooks |-> Idle] /\ manual' = [k \in Keys |-> "none"] /\ bus' = <<>>
  BY DEF ProcessCrash, Crash, rowVars
<1>2. /\ BookInv' /\ Rows \subseteq Rows'
      /\ \A k \in Keys : ledger[k] = 1 => ledger'[k] = 1
      /\ \A k \in Keys : ledger'[k] > 0 => paid[k] # "none"
  BY <1>1, RelayBooks DEF Next
<1>3. StripeTyped'
  BY <1>1 DEF SInv, StripeTyped
<1>4. Recorded'
  BY <1>1, <1>2 DEF SInv, Recorded, Enqueued
<1>5. Truthful'
  BY <1>1, <1>2 DEF SInv, Truthful
<1> QED BY <1>2, <1>3, <1>4, <1>5 DEF SInv

\* Every step keeps the invariant.
LEMMA StepStripe == SInv /\ [SNext]_svars => SInv'
<1> SUFFICES ASSUME SInv, [SNext]_svars PROVE SInv'
  OBVIOUS
<1>1. CASE SNext
  BY <1>1, WithIntentStep, WebhookSteps, SettleStep, ReceivedStep, BookSteps, RelaySteps, CrashStep
  DEF SNext
<1>2. CASE UNCHANGED svars
  <2>1. UNCHANGED vars /\ UNCHANGED stripeVars
    BY <1>2 DEF svars
  <2>2. /\ BookInv' /\ key' = key /\ Rows' = Rows /\ ledger' = ledger
        /\ \A k \in Keys : Enqueued(k)' = Enqueued(k)
    BY <2>1, Beside
  <2> QED BY <2>1, <2>2 DEF stripeVars, SInv, StripeTyped, Recorded, Truthful
<1> QED BY <1>1, <1>2

\* The three routes keep the outbox's promises and their own.
THEOREM StripeInvariant == SSpec => []SInv
  BY InitStripe, StepStripe, PTL DEF SSpec

\* No confirmed payment is missing from the ledger and from sql_unbooked at
\* once, none is in it twice, and none that was never recorded is in it:
\* whatever is lost, replayed, late, or booked by hand meanwhile.
THEOREM PaymentsAccounted == SSpec => []PaymentsAreAccounted
<1>1. SInv => OneEntryPerPayment
  BY DEF SInv, BookInv, TypeOK, OneEntryPerPayment
<1>2. SInv => LedgerKnowsOnlyPayments
  BY DEF SInv, Recorded, LedgerKnowsOnlyPayments
<1>3. SInv => WorklistIsComplete
  BY DEF SInv, BookInv, DeliveredIsBooked, Truthful, WorklistIsComplete, Listed, IntentDelivered
<1> QED BY <1>1, <1>2, <1>3, StripeInvariant, PTL DEF PaymentsAreAccounted
=============================================================================
