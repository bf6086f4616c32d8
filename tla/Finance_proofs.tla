--------------------------- MODULE Finance_proofs ---------------------------
(***************************************************************************)
(* The ledger and the dues, for any funds, clients, references, amounts,   *)
(* shares, bases and number of calls: a reference moves money once, the    *)
(* books balance, the overdraft guard is worth a bound for clients that    *)
(* overlap and the whole truth for one alone, and a dues row says of its   *)
(* funding what the ledger did.  The last part is of all that moves money, *)
(* the shop of Store_proofs with it.                                       *)
(***************************************************************************)
EXTENDS Money, Store_proofs, FiniteSetTheorems, WellFoundedInduction, TLAPS

(***************************************************************************)
(* Sums over a finite set.  The recursive function of the library's fold   *)
(* is shown to exist, from the set that would be the smallest without one; *)
(* every later fact about a sum is the smallest set that would refute it.  *)
(***************************************************************************)

\* The sum of a function over a set, as the library's fold computes it.
Total(fn, S) == MapThenSumSet(LAMBDA x : fn[x], S)

Some(s) == CHOOSE x \in s : TRUE

\* g solves the fold's recursive equation on the subsets of S.
Recurs(g, fn, S) ==
  g = [s \in SUBSET S |-> IF s = {} THEN 0 ELSE fn[Some(s)] + g[s \ {Some(s)}]]

Solution(fn, S) == CHOOSE g : Recurs(g, fn, S)

\* The fold is the solution at the whole set.
LEMMA TotalDef ==
  ASSUME NEW fn, NEW S
  PROVE  Total(fn, S) = Solution(fn, S)[S]
  BY DEF Total, MapThenSumSet, MapThenFoldSet, Recurs, Some, Solution

\* Among some subsets of a finite set there is one with no smaller one: every
\* induction below is a use of it.
LEMMA SmallestSet ==
  ASSUME NEW S, IsFiniteSet(S), NEW T, T \subseteq SUBSET S, T # {}
  PROVE  \E t \in T : \A u \in SUBSET t : u # t => u \notin T
<1>1. FiniteSubsetsOf(S) = SUBSET S
  BY FS_FiniteSubsetsOfFinite
<1>2. PICK t \in T : \A u \in T : ~ (<<u, t>> \in StrictSubsetOrdering(S))
  <2>1. IsWellFoundedOn(StrictSubsetOrdering(S), SUBSET S)
    BY <1>1, FS_StrictSubsetOrderingWellFounded
  <2> QED
    BY <2>1, WFMin
<1>3. \A u \in SUBSET t : u # t /\ u \in T => <<u, t>> \in StrictSubsetOrdering(S)
  BY DEF StrictSubsetOrdering
<1> WITNESS t \in T
<1> QED
  BY <1>2, <1>3

\* Two solutions agree where both are defined.
LEMMA RecursIsUnique ==
  ASSUME NEW fn, NEW S, NEW T, NEW g, NEW h, IsFiniteSet(S), S \subseteq T,
         Recurs(g, fn, S), Recurs(h, fn, T)
  PROVE  g[S] = h[S]
<1> DEFINE Differ == {s \in SUBSET S : g[s] # h[s]}
<1>1. SUFFICES ASSUME Differ # {} PROVE FALSE
  OBVIOUS
<1>2. PICK s \in Differ : \A u \in SUBSET s : u # s => u \notin Differ
  <2>1. Differ \subseteq SUBSET S
    OBVIOUS
  <2> HIDE DEF Differ
  <2> QED
    BY <1>1, <2>1, SmallestSet
<1>3. /\ g[s] = IF s = {} THEN 0 ELSE fn[Some(s)] + g[s \ {Some(s)}]
      /\ h[s] = IF s = {} THEN 0 ELSE fn[Some(s)] + h[s \ {Some(s)}]
  BY DEF Recurs
<1>4. s # {}
  BY <1>3
<1>5. s \ {Some(s)} \in SUBSET s /\ s \ {Some(s)} # s
  BY <1>4 DEF Some
<1>6. g[s \ {Some(s)}] = h[s \ {Some(s)}]
  BY <1>2, <1>5
<1> QED
  BY <1>3, <1>6

\* There is a solution.
LEMMA RecursExists ==
  ASSUME NEW fn, NEW S, IsFiniteSet(S)
  PROVE  \E g : Recurs(g, fn, S)
<1> DEFINE Bad == {s \in SUBSET S : ~ \E g : Recurs(g, fn, s)}
<1>1. SUFFICES ASSUME Bad # {} PROVE FALSE
  OBVIOUS
<1>2. PICK s \in Bad : \A u \in SUBSET s : u # s => u \notin Bad
  <2>1. Bad \subseteq SUBSET S
    OBVIOUS
  <2> HIDE DEF Bad
  <2> QED
    BY <1>1, <2>1, SmallestSet
<1> DEFINE Rest(u) == u \ {Some(u)}
           G == [u \in SUBSET s |-> IF u = {} THEN 0 ELSE fn[Some(u)] + Solution(fn, Rest(u))[Rest(u)]]
<1>3. \A u \in SUBSET s : u # s => Recurs(Solution(fn, u), fn, u)
  BY <1>2 DEF Solution
<1>4. \A u \in SUBSET s : u # {} => Rest(u) \in SUBSET s /\ Rest(u) # s /\ Rest(u) \in SUBSET u
  BY DEF Some
<1>5. ASSUME NEW u \in SUBSET s, u # s, u # {}
      PROVE  G[u] = Solution(fn, u)[u]
  <2>1. Solution(fn, u)[u] = fn[Some(u)] + Solution(fn, u)[Rest(u)]
    BY <1>3, <1>5 DEF Recurs
  <2>2. IsFiniteSet(Rest(u))
    BY FS_Subset
  <2>3. Solution(fn, Rest(u))[Rest(u)] = Solution(fn, u)[Rest(u)]
    BY <1>3, <1>4, <1>5, <2>2, RecursIsUnique
  <2> QED
    BY <1>5, <2>1, <2>3
<1>6. ASSUME NEW u \in SUBSET s, u # {}
      PROVE  G[Rest(u)] = Solution(fn, Rest(u))[Rest(u)]
  <2>1. CASE Rest(u) = {}
    <3>1. Recurs(Solution(fn, {}), fn, {})
      BY <1>3, <1>4, <1>6, <2>1
    <3>2. Solution(fn, {})[{}] = 0
      BY <3>1 DEF Recurs
    <3>3. G[{}] = 0
      OBVIOUS
    <3> QED
      BY <2>1, <3>2, <3>3
  <2>2. CASE Rest(u) # {}
    BY <1>4, <1>5, <1>6, <2>2
  <2> QED
    BY <2>1, <2>2
<1>7. Recurs(G, fn, s)
  BY <1>6 DEF Recurs
<1> QED
  BY <1>2, <1>7

\* The sum is what the chosen element adds to the sum of the others.
LEMMA TotalStep ==
  ASSUME NEW fn, NEW S, IsFiniteSet(S)
  PROVE  Total(fn, S) = IF S = {} THEN 0 ELSE fn[Some(S)] + Total(fn, S \ {Some(S)})
<1> DEFINE R == S \ {Some(S)}
           g == Solution(fn, S)
           h == Solution(fn, R)
<1>1. IsFiniteSet(R)
  BY FS_Subset
<1>2. Recurs(g, fn, S) /\ Recurs(h, fn, R)
  BY <1>1, RecursExists DEF Solution
<1>3. g[S] = IF S = {} THEN 0 ELSE fn[Some(S)] + g[R]
  BY <1>2 DEF Recurs
<1>4. g[R] = h[R]
  BY <1>1, <1>2, RecursIsUnique
<1>5. Total(fn, S) = g[S] /\ Total(fn, R) = h[R]
  BY TotalDef
<1> HIDE DEF g, h
<1> QED
  BY <1>3, <1>4, <1>5

\* A sum of integers is one.
LEMMA TotalIsInt ==
  ASSUME NEW D, NEW fn \in [D -> Int], NEW S \in SUBSET D, IsFiniteSet(S)
  PROVE  Total(fn, S) \in Int
<1> DEFINE Bad == {s \in SUBSET S : Total(fn, s) \notin Int}
<1>1. SUFFICES ASSUME Bad # {} PROVE FALSE
  OBVIOUS
<1>2. PICK s \in Bad : \A u \in SUBSET s : u # s => u \notin Bad
  <2>1. Bad \subseteq SUBSET S
    OBVIOUS
  <2> HIDE DEF Bad
  <2> QED
    BY <1>1, <2>1, SmallestSet
<1>3. Total(fn, s) = IF s = {} THEN 0 ELSE fn[Some(s)] + Total(fn, s \ {Some(s)})
  BY FS_Subset, TotalStep
<1>4. CASE s # {}
  <2>1. Some(s) \in s
    BY <1>4 DEF Some
  <2>2. Total(fn, s \ {Some(s)}) \in Int
    BY <1>2, <2>1
  <2> QED
    BY <1>2, <1>3, <1>4, <2>1, <2>2
<1> QED
  BY <1>2, <1>3, <1>4

\* A function that changes at one point changes the sum by as much.
LEMMA TotalChange ==
  ASSUME NEW D, NEW fn \in [D -> Int], NEW gn \in [D -> Int], NEW S \in SUBSET D,
         IsFiniteSet(S), NEW x \in S, \A y \in D \ {x} : gn[y] = fn[y]
  PROVE  Total(gn, S) = Total(fn, S) + gn[x] - fn[x]
<1> DEFINE Gain(s) == IF x \in s THEN gn[x] - fn[x] ELSE 0
           Bad == {s \in SUBSET S : Total(gn, s) # Total(fn, s) + Gain(s)}
<1>1. SUFFICES ASSUME Bad # {} PROVE FALSE
  BY TotalIsInt
<1>2. PICK s \in Bad : \A u \in SUBSET s : u # s => u \notin Bad
  <2>1. Bad \subseteq SUBSET S
    OBVIOUS
  <2> HIDE DEF Bad
  <2> QED
    BY <1>1, <2>1, SmallestSet
<1> DEFINE y == Some(s)
           R == s \ {y}
<1>3. /\ Total(fn, s) = IF s = {} THEN 0 ELSE fn[y] + Total(fn, R)
      /\ Total(gn, s) = IF s = {} THEN 0 ELSE gn[y] + Total(gn, R)
  BY FS_Subset, TotalStep
<1>4. CASE s # {}
  <2>1. y \in s
    BY <1>4 DEF Some
  <2>2. Total(gn, R) = Total(fn, R) + Gain(R)
    BY <1>2, <2>1
  <2>3. Total(gn, R) \in Int /\ Total(fn, R) \in Int /\ y \in D /\ fn[y] \in Int /\ gn[y] \in Int
        /\ fn[x] \in Int /\ gn[x] \in Int
    BY <2>1, FS_Subset, TotalIsInt
  <2>4. x \in s <=> x = y \/ x \in R
    BY <2>1
  <2>5. x # y => gn[y] = fn[y]
    BY <2>3
  <2> HIDE DEF y, R
  <2>6. Total(gn, s) = Total(fn, s) + Gain(s)
    <3>1. CASE x = y
      BY <1>3, <1>4, <2>2, <2>3, <2>4, <3>1 DEF R
    <3>2. CASE x # y
      BY <1>3, <1>4, <2>2, <2>3, <2>4, <2>5, <3>2
    <3> QED
      BY <3>1, <3>2
  <2> QED
    BY <1>2, <2>6
<1>5. CASE s = {}
  BY <1>2, <1>3, <1>5
<1> QED
  BY <1>4, <1>5

\* A sum of equal terms.
LEMMA TotalOfEqual ==
  ASSUME NEW k \in Int, NEW S, IsFiniteSet(S)
  PROVE  Total([x \in S |-> k], S) = k * Cardinality(S)
<1> DEFINE fn == [x \in S |-> k]
           Bad == {s \in SUBSET S : Total(fn, s) # k * Cardinality(s)}
<1>1. SUFFICES ASSUME Bad # {} PROVE FALSE
  OBVIOUS
<1>2. PICK s \in Bad : \A u \in SUBSET s : u # s => u \notin Bad
  <2>1. Bad \subseteq SUBSET S
    OBVIOUS
  <2> HIDE DEF Bad
  <2> QED
    BY <1>1, <2>1, SmallestSet
<1> DEFINE y == Some(s)
           R == s \ {y}
<1>3. IsFiniteSet(s)
  BY FS_Subset
<1>4. Total(fn, s) = IF s = {} THEN 0 ELSE fn[y] + Total(fn, R)
  BY <1>3, TotalStep
<1>5. CASE s # {}
  <2>1. y \in s
    BY <1>5 DEF Some
  <2>2. Total(fn, R) = k * Cardinality(R)
    BY <1>2, <2>1
  <2>3. Cardinality(R) = Cardinality(s) - 1
    BY <1>3, <2>1, FS_RemoveElement
  <2>4. Cardinality(s) \in Nat
    BY <1>3, FS_CardinalityType
  <2>5. Total(fn, s) = k + k * (Cardinality(s) - 1)
    BY <1>4, <1>5, <2>1, <2>2, <2>3
  <2> DEFINE n == Cardinality(s)
  <2> HIDE DEF n
  <2>6. k + k * (n - 1) = k * n
    BY <2>4 DEF n
  <2> QED
    BY <1>2, <2>5, <2>6 DEF n
<1>6. CASE s = {}
  BY <1>2, <1>4, <1>6, FS_EmptySet
<1> QED
  BY <1>5, <1>6

-----------------------------------------------------------------------------
(* The ledger *)

USE DEF Answers

\* The requests are entries or transfers of a positive amount.
LEMMA RequestShape ==
  ASSUME NEW q \in Requests
  PROVE  /\ q.kind \in {"income", "expense", "transfer"} /\ q.fund \in Funds
         /\ q.amount \in Nat /\ q.amount > 0 /\ q.ref \in Refs \cup {NoRef}
         /\ q.overdraft \in BOOLEAN /\ Signed(q) \in Int
         /\ q.kind = "transfer" => q.to \in Funds /\ q.to # q.fund
  BY FundAssumption DEF Requests, Entries, Transfers, Signed

\* A handler that wrote its rows, or says that the reference is there, is right.
WrittenIsHeld ==
  \A c \in Clients :
    at[c] \in {"written", "created", "duplicate"} /\ req[c].ref # NoRef
      => moved[req[c].ref] = 1

FInv == FTypeOK /\ RefMovesOnce /\ WrittenIsHeld

\* The books open with nothing written.
LEMMA FInitInv == FInit => FInv
  BY FundAssumption DEF FInit, FInv, FTypeOK, RefMovesOnce, WrittenIsHeld

\* Posting keeps the ledger's types and counts the move.
LEMMA PostTyped ==
  ASSUME FTypeOK, NEW q \in Requests, Post(q)
  PROVE  /\ balance' \in [Funds -> Int] /\ moved' \in [Refs -> Nat] /\ flow' \in Int
         /\ overdrawn' \subseteq Funds
         /\ \A x \in Refs : moved'[x] = IF x = q.ref THEN moved[x] + 1 ELSE moved[x]
<1>1. Signed(q) \in Int /\ q.amount \in Int /\ q.fund \in Funds
  BY RequestShape
<1>2. balance' \in [Funds -> Int]
  BY <1>1 DEF Post, Posted, FTypeOK
<1>3. moved' \in [Refs -> Nat] /\ \A x \in Refs : moved'[x] = IF x = q.ref THEN moved[x] + 1 ELSE moved[x]
  BY DEF Post, FTypeOK
<1>4. flow' \in Int /\ overdrawn' \subseteq Funds
  BY <1>1 DEF Post, FTypeOK
<1> QED
  BY <1>2, <1>3, <1>4

\* A commit writes a reference that nobody holds, or writes nothing.
LEMMA CommitInv == ASSUME FInv, NEW c \in Clients, Commit(c) PROVE FInv'
<1> DEFINE q == req[c]
<1>1. q \in Requests /\ at \in [Clients -> {"idle", "sent", "writing", "written", "nothing"} \cup Answers]
  BY DEF Commit, FInv, FTypeOK
<1>2. UNCHANGED <<req, plan, calls>>
  BY DEF Commit
<1>3. CASE UNCHANGED ledgerVars /\ (Goto(c, "nothing") \/ Goto(c, "failed"))
  BY <1>1, <1>2, <1>3 DEF Goto, FInv, FTypeOK, RefMovesOnce, WrittenIsHeld, ledgerVars
<1>4. CASE ~Held(q.ref) /\ Post(q) /\ Goto(c, "written")
  <2>1. /\ balance' \in [Funds -> Int] /\ moved' \in [Refs -> Nat] /\ flow' \in Int
        /\ overdrawn' \subseteq Funds
        /\ \A x \in Refs : moved'[x] = IF x = q.ref THEN moved[x] + 1 ELSE moved[x]
    BY <1>1, <1>4, PostTyped DEF FInv
  <2>2. FTypeOK'
    BY <1>1, <1>2, <1>4, <2>1 DEF FInv, FTypeOK, Goto
  <2>3. \A x \in Refs : moved[x] \in Nat /\ (x = q.ref => moved[x] = 0)
    BY <1>4 DEF Held, FInv, FTypeOK
  <2>4. RefMovesOnce'
    BY <2>1, <2>3 DEF FInv, RefMovesOnce
  <2>5. WrittenIsHeld'
    <3> SUFFICES ASSUME NEW d \in Clients, at'[d] \in {"written", "created", "duplicate"},
                        req'[d].ref # NoRef
                 PROVE  moved'[req'[d].ref] = 1
      BY DEF WrittenIsHeld
    <3>1. req[d] \in Requests
      BY <1>1, <1>2, <1>4 DEF Goto, FInv, FTypeOK
    <3>2. req'[d].ref \in Refs /\ req'[d] = req[d]
      BY <1>2, <3>1, RequestShape
    <3>3. CASE d = c
      BY <2>1, <2>3, <3>2, <3>3
    <3>4. CASE d # c
      <4>1. moved[req[d].ref] = 1
        BY <1>1, <1>4, <3>2, <3>4 DEF Goto, FInv, WrittenIsHeld
      <4> QED
        BY <2>1, <2>3, <3>2, <4>1
    <3> QED
      BY <3>3, <3>4
  <2> QED
    BY <2>2, <2>4, <2>5 DEF FInv
<1> QED
  BY <1>3, <1>4 DEF Commit

\* Every step keeps the invariant.
LEMMA FNextInv == FInv /\ [FNext]_fundVars => FInv'
<1> SUFFICES ASSUME FInv, [FNext]_fundVars PROVE FInv'
  OBVIOUS
<1> USE DEF FInv, FTypeOK, RefMovesOnce, WrittenIsHeld, ledgerVars, Goto
<1>1. CASE UNCHANGED fundVars
  BY <1>1 DEF fundVars
<1>2. ASSUME NEW c \in Clients, Call(c) PROVE FInv'
  <2>1. PICK q \in Requests : req' = [req EXCEPT ![c] = q]
    BY <1>2 DEF Call
  <2>2. calls' \in 0..MaxCalls
    BY <1>2, FundAssumption DEF Call
  <2>3. \A d \in Clients : at'[d] # "sent" => at'[d] = at[d] /\ req'[d] = req[d]
    BY <1>2, <2>1 DEF Call
  <2>4. WrittenIsHeld'
    BY <1>2, <2>3 DEF Call
  <2> QED
    BY <1>2, <2>1, <2>2, <2>4 DEF Call
<1>3. ASSUME NEW c \in Clients, ReadSnapshot(c) PROVE FInv'
  <2>1. plan' \in [Clients -> BOOLEAN]
    BY <1>3 DEF ReadSnapshot, Funded, Held
  <2> QED
    BY <1>3, <2>1 DEF ReadSnapshot
<1>4. ASSUME NEW c \in Clients, Commit(c) PROVE FInv'
  BY <1>4, CommitInv
<1>5. ASSUME NEW c \in Clients, Explain(c) PROVE FInv'
  <2>1. Held(req[c].ref) => moved[req[c].ref] = 1
    BY DEF Held
  <2> QED
    <3>1. req[c] \in Requests
      BY <1>5 DEF Explain
    <3>2. at'[c] = "duplicate" => moved[req[c].ref] = 1
      BY <1>5, <2>1 DEF Explain
    <3>3. FTypeOK'
      BY <1>5, <3>1 DEF Explain
    <3>4. WrittenIsHeld'
      BY <1>5, <3>2 DEF Explain
    <3> QED
      BY <1>5, <3>3, <3>4 DEF Explain
<1>6. ASSUME NEW c \in Clients, Report(c) \/ Fail(c) \/ Retry(c) PROVE FInv'
  BY <1>6 DEF Report, Fail, Retry
<1>7. ASSUME NEW c \in Clients, Done(c) PROVE FInv'
  BY <1>7 DEF Done
<1> QED
  BY <1>1, <1>2, <1>3, <1>4, <1>5, <1>6, <1>7 DEF FNext

\* The inductive invariant of insert_entry, TRANSFER_SQL and their callers: types,
\* a reference that moves once, and a caller who knows what was written.
THEOREM FundInvariant == FSpec => []FInv
  BY FInitInv, FNextInv, PTL DEF FSpec

\* Every variable keeps its type.
THEOREM FundTyped == FSpec => []FTypeOK
<1>1. FInv => FTypeOK
  BY DEF FInv
<1> QED
  BY <1>1, FundInvariant, PTL

\* A reference moves money at most once, however many attempts overlap, fail
\* and are repeated.
THEOREM RefOnce == FSpec => []RefMovesOnce
<1>1. FInv => RefMovesOnce
  BY DEF FInv
<1> QED
  BY <1>1, FundInvariant, PTL

\* An answer of success is about money that did move.
THEOREM AnswersAreTrue == FSpec => []AnswerIsHeld
<1>1. FInv => AnswerIsHeld
  BY DEF FInv, WrittenIsHeld, AnswerIsHeld
<1> QED
  BY <1>1, FundInvariant, PTL

(***************************************************************************)
(* The overdraft guard, when no two statements overlap: what the statement *)
(* saw on its snapshot is still so when it ends.                           *)
(***************************************************************************)

OneClient == \A c, d \in Clients : c = d

GuardStillHolds == \A c \in Clients : at[c] = "writing" /\ plan[c] => Funded(req[c])

AloneInv == FInv /\ FundsStayFunded /\ GuardStillHolds

\* The books open with no fund below zero.
LEMMA AloneInit == FInit => AloneInv
<1> SUFFICES ASSUME FInit PROVE FundsStayFunded /\ GuardStillHolds
  BY FInitInv DEF AloneInv
<1>1. \A f \in Funds : balance[f] \in Nat
  BY FundAssumption DEF FInit
<1> QED
  BY <1>1 DEF FInit, FundsStayFunded, GuardStillHolds

\* A step that posts nothing and lets no new statement begin writing.
LEMMA AloneKept ==
  ASSUME AloneInv, FInv', UNCHANGED <<balance, overdrawn>>,
         \A c \in Clients : at'[c] = "writing" => /\ at[c] = "writing" /\ plan'[c] = plan[c]
                                                  /\ req'[c] = req[c]
  PROVE  AloneInv'
  BY DEF AloneInv, FundsStayFunded, GuardStillHolds, Funded

\* A client alone commits against the balance its snapshot showed.
LEMMA AloneCommit ==
  ASSUME OneClient, AloneInv, FInv', NEW c \in Clients, Commit(c) PROVE AloneInv'
<1> DEFINE q == req[c]
<1>1. q \in Requests /\ balance \in [Funds -> Int]
  BY DEF Commit, AloneInv, FInv, FTypeOK
<1>2. \A d \in Clients : at'[d] # "writing"
  BY DEF Commit, Goto, OneClient, AloneInv, FInv, FTypeOK
<1>3. CASE UNCHANGED ledgerVars
  BY <1>2, <1>3, AloneKept DEF ledgerVars
<1>4. CASE plan[c] /\ Post(q)
  <2>1. Funded(q)
    BY <1>4 DEF Commit, AloneInv, GuardStillHolds
  <2>2. /\ q.fund \in Funds /\ q.amount \in Nat /\ Signed(q) \in Int
        /\ q.overdraft \in BOOLEAN
    BY <1>1, RequestShape
  <2>3. FundsStayFunded'
    <3> SUFFICES ASSUME NEW f \in Funds, f \notin overdrawn' PROVE balance'[f] >= 0
      BY DEF FundsStayFunded
    <3>1. f \notin overdrawn /\ (f = q.fund => ~q.overdraft)
      BY <1>4 DEF Post
    <3>2. balance[f] >= 0 /\ balance[f] \in Int
      BY <1>1, <3>1 DEF AloneInv, FundsStayFunded
    <3>3. balance'[f] = IF f = q.fund THEN balance[f] + Signed(q)
                        ELSE IF q.kind = "transfer" /\ f = q.to THEN balance[f] + q.amount
                        ELSE balance[f]
      BY <1>4 DEF Post, Posted
    <3>4. f = q.fund => balance[f] + Signed(q) >= 0
      BY <2>1, <3>1 DEF Funded
    <3> QED
      BY <2>2, <3>2, <3>3, <3>4
  <2> QED
    BY <1>2, <2>3 DEF AloneInv, GuardStillHolds
<1> QED
  BY <1>3, <1>4 DEF Commit

\* Every step of a client alone keeps the funds funded.
LEMMA AloneNext == ASSUME OneClient PROVE AloneInv /\ [FNext]_fundVars => AloneInv'
<1> SUFFICES ASSUME AloneInv, [FNext]_fundVars PROVE AloneInv'
  OBVIOUS
<1>1. FInv' /\ at \in [Clients -> {"idle", "sent", "writing", "written", "nothing"} \cup Answers]
            /\ plan \in [Clients -> BOOLEAN] /\ req \in [Clients -> Requests \cup {NoRequest}]
  BY FNextInv DEF AloneInv, FInv, FTypeOK
<1>2. CASE UNCHANGED fundVars
  BY <1>1, <1>2, AloneKept DEF fundVars
<1>3. ASSUME NEW c \in Clients, ReadSnapshot(c) PROVE AloneInv'
  <2>1. \A d \in Clients : d = c
    BY DEF OneClient
  <2>2. plan'[c] => Funded(req[c])
    BY <1>1, <1>3 DEF ReadSnapshot
  <2>3. UNCHANGED <<balance, overdrawn, req>>
    BY <1>3 DEF ReadSnapshot, ledgerVars
  <2>4. GuardStillHolds'
    BY <2>1, <2>2, <2>3 DEF GuardStillHolds, Funded, Signed
  <2> QED
    BY <1>1, <2>3, <2>4 DEF AloneInv, FundsStayFunded
<1>4. ASSUME NEW c \in Clients, Commit(c) PROVE AloneInv'
  BY <1>1, <1>4, AloneCommit
<1>5. ASSUME NEW c \in Clients,
             Call(c) \/ Explain(c) \/ Report(c) \/ Fail(c) \/ Retry(c) \/ Done(c)
      PROVE  AloneInv'
  <2>1. UNCHANGED <<balance, overdrawn, plan>>
    BY <1>5 DEF Call, Explain, Report, Fail, Retry, Done, ledgerVars
  <2>2. \A d \in Clients : at'[d] = "writing" => at[d] = "writing" /\ req'[d] = req[d]
    BY <1>1, <1>5 DEF Call, Explain, Report, Fail, Retry, Done, Goto
  <2> QED
    BY <1>1, <2>1, <2>2, AloneKept
<1> QED
  BY <1>2, <1>3, <1>4, <1>5 DEF FNext

\* One request at a time, no fund goes negative unless somebody authorised it:
\* what two overlapping statements break.
THEOREM FundedAlone == ASSUME OneClient PROVE FSpec => []FundsStayFunded
<1>1. AloneInv => FundsStayFunded
  BY DEF AloneInv
<1> QED
  BY <1>1, AloneInit, AloneNext, PTL DEF FSpec

-----------------------------------------------------------------------------
(***************************************************************************)
(* The overdraft guard, when statements overlap.  A fund can be charged by *)
(* every statement that read it before the others committed, so what holds *)
(* is a bound, and the invariant says how much of it is used up: after the *)
(* last of them has read, every further commit costs one of those still    *)
(* writing.                                                                *)
(***************************************************************************)

Crowd == Cardinality(Clients)
Most == Max(Amounts)

\* The statements that found f funded and will take from it.
Withdrawing(f) ==
  {c \in Clients : /\ at[c] = "writing" /\ plan[c] /\ req[c].fund = f
                   /\ req[c].kind # "income" /\ ~req[c].overdraft}

\* A fund that holds b, with the statements D about to take what q names.
Within(b, D, q) ==
  /\ D = {} => b + (Crowd - 1) * Most >= 0
  /\ D # {} => \E c \in D : b - q[c].amount + (Crowd - Cardinality(D)) * Most >= 0

GuardLags == \A f \in Funds \ overdrawn : Within(balance[f], Withdrawing(f), req)

\* The largest amount a request may name.
LEMMA LargestAmount == Most \in Nat /\ \A a \in Amounts : a <= Most
<1> DEFINE Bad == {s \in SUBSET Amounts : s # {} /\ ~ \E x \in s : \A y \in s : x >= y}
<1>1. Bad = {}
  <2> SUFFICES ASSUME Bad # {} PROVE FALSE
    OBVIOUS
  <2>1. PICK s \in Bad : \A u \in SUBSET s : u # s => u \notin Bad
    <3>1. Bad \subseteq SUBSET Amounts
      OBVIOUS
    <3> HIDE DEF Bad
    <3> QED
      BY <3>1, SmallestSet, FundAssumption
  <2>2. PICK x \in s : TRUE
    OBVIOUS
  <2>3. s \ {x} # {}
    BY <2>2, FundAssumption
  <2>4. PICK y \in s \ {x} : \A z \in s \ {x} : y >= z
    BY <2>1, <2>3
  <2>5. x \in Nat /\ y \in Nat /\ \A z \in s : z \in Nat
    BY FundAssumption
  <2>6. CASE x >= y
    BY <2>4, <2>5, <2>6
  <2>7. CASE y >= x
    BY <2>4, <2>5, <2>7
  <2> QED
    BY <2>5, <2>6, <2>7
<1>2. \E x \in Amounts : \A y \in Amounts : x >= y
  BY <1>1, FundAssumption
<1>3. Most \in Amounts /\ \A y \in Amounts : Most >= y
  BY <1>2 DEF Most, Max
<1> QED
  BY <1>3, FundAssumption

\* How many clients there are.
LEMMA SomeClients ==
  /\ Crowd \in Nat \ {0}
  /\ \A D \in SUBSET Clients :
       /\ IsFiniteSet(D) /\ Cardinality(D) \in 0..Crowd /\ (D = {} <=> Cardinality(D) = 0)
       /\ \A d \in D : Cardinality(D \ {d}) = Cardinality(D) - 1
  BY FundAssumption, FS_CardinalityType, FS_Subset, FS_EmptySet, FS_RemoveElement DEF Crowd

\* A statement leaves, and takes what it names at most.
LEMMA WithinLess ==
  ASSUME NEW b \in Int, NEW b2 \in Int, NEW D \in SUBSET Clients, NEW q, NEW d \in D,
         \A c \in D : q[c].amount \in 0..Most,
         Within(b, D, q), b2 >= b - q[d].amount
  PROVE  Within(b2, D \ {d}, q)
<1> DEFINE n == Cardinality(D)
           L == (Crowd - n) * Most
<1>1. /\ Crowd \in Nat /\ Most \in Nat /\ n \in 1..Crowd
      /\ Cardinality(D \ {d}) = n - 1 /\ (D \ {d} = {} <=> n = 1)
  <2>1. Cardinality(D) \in 0..Crowd /\ (D = {} <=> n = 0) /\ Cardinality(D \ {d}) = n - 1
    BY SomeClients
  <2>2. D \ {d} \in SUBSET Clients
    OBVIOUS
  <2>3. D \ {d} = {} <=> Cardinality(D \ {d}) = 0
    BY <2>2, SomeClients
  <2> QED BY <2>1, <2>3, SomeClients, LargestAmount
<1>2. L \in Int /\ (Crowd - (n - 1)) * Most = L + Most
  <2>1. PICK k, most : k = Crowd - n /\ most = Most
    OBVIOUS
  <2>2. k \in Int /\ most \in Int /\ Crowd - (n - 1) = k + 1
    BY <1>1, <2>1
  <2>3. (k + 1) * most = k * most + most /\ k * most \in Int
    BY ONLY <2>2
  <2> QED BY <2>1, <2>2, <2>3
<1>3. PICK c \in D : b - q[c].amount + L >= 0
  BY DEF Within
<1> HIDE DEF n, L
<1>4. CASE D \ {d} = {}
  <2>1. c = d /\ n = 1
    BY <1>1, <1>4
  <2>2. b2 + L >= 0
    BY <1>2, <1>3, <2>1
  <2> QED
    BY <1>1, <1>4, <2>1, <2>2 DEF Within, L
<1>5. CASE D \ {d} # {}
  <2>1. \E e \in D \ {d} : b2 - q[e].amount + L + Most >= 0
    <3>1. CASE c = d
      <4>1. PICK e \in D \ {d} : TRUE
        BY <1>5
      <4> QED
        BY <1>1, <1>2, <1>3, <3>1, <4>1
    <3>2. CASE c # d
      BY <1>1, <1>2, <1>3, <3>2
    <3> QED
      BY <3>1, <3>2
  <2>2. \A e \in D \ {d} : b2 - q[e].amount + (Crowd - (n - 1)) * Most = b2 - q[e].amount + L + Most
    BY <1>1, <1>2
  <2> QED
    BY <1>1, <1>5, <2>1, <2>2 DEF Within
<1> QED
  BY <1>4, <1>5

\* The same statements, and a fund that has not lost.
LEMMA WithinSame ==
  ASSUME NEW b \in Int, NEW b2 \in Int, NEW D \in SUBSET Clients, NEW q, NEW q2,
         \A c \in D : q[c].amount \in 0..Most /\ q2[c] = q[c],
         Within(b, D, q), b2 >= b
  PROVE  Within(b2, D, q2)
<1>1. Crowd \in Nat /\ Most \in Nat /\ Cardinality(D) \in Nat
  BY SomeClients, LargestAmount
<1>2. (Crowd - 1) * Most \in Int /\ (Crowd - Cardinality(D)) * Most \in Int
  BY <1>1
<1> DEFINE X == (Crowd - 1) * Most
           Y == (Crowd - Cardinality(D)) * Most
<1> HIDE DEF X, Y
<1>3. /\ D = {} => b + X >= 0
      /\ D # {} => \E c \in D : b - q[c].amount + Y >= 0
  BY DEF Within, X, Y
<1>4. X \in Int /\ Y \in Int
  BY <1>2 DEF X, Y
<1>5. D = {} => b2 + X >= 0
  BY <1>3, <1>4
<1>6. D # {} => \E c \in D : b2 - q2[c].amount + Y >= 0
  BY <1>3, <1>4
<1> QED
  BY <1>5, <1>6 DEF Within, X, Y

\* A statement that has just read that the fund covers it.
LEMMA WithinRead ==
  ASSUME NEW b \in Int, NEW D \in SUBSET Clients, NEW c \in D, NEW q,
         q[c].amount \in Int, b - q[c].amount >= 0
  PROVE  Within(b, D, q)
<1>1. Crowd \in Nat /\ Most \in Nat /\ Cardinality(D) \in 0..Crowd
  BY SomeClients, LargestAmount
<1>2. (Crowd - Cardinality(D)) * Most \in Nat
  BY <1>1
<1> DEFINE Y == (Crowd - Cardinality(D)) * Most
<1> HIDE DEF Y
<1>3. b - q[c].amount + Y >= 0
  BY <1>2 DEF Y
<1> QED
  BY <1>3 DEF Within, Y

\* What the invariant says is within the bound.
LEMMA WithinBound ==
  ASSUME NEW b \in Int, NEW D \in SUBSET Clients, NEW q,
         \A c \in D : q[c].amount \in 0..Most, Within(b, D, q)
  PROVE  b + (Crowd - 1) * Most >= 0
<1> DEFINE n == Cardinality(D)
<1>1. Crowd \in Nat /\ Most \in Nat /\ n \in 0..Crowd /\ (D = {} <=> n = 0)
  BY SomeClients, LargestAmount
<1>2. CASE D = {}
  BY <1>2 DEF Within
<1>3. CASE D # {}
  <2> DEFINE X == (Crowd - n) * Most
             Y == (n - 1) * Most
  <2>1. X \in Int /\ Y \in Nat /\ (Crowd - 1) * Most = X + Y
    BY <1>1, <1>3
  <2>2. PICK c \in D : b - q[c].amount + X >= 0
    BY <1>3 DEF Within
  <2> HIDE DEF X, Y
  <2> QED
    BY <1>1, <2>1, <2>2
<1> QED
  BY <1>2, <1>3

LagInv == FInv /\ GuardLags

\* The books open within the bound.
LEMMA LagInit == FInit => LagInv
<1> SUFFICES ASSUME FInit, NEW f \in Funds PROVE Within(balance[f], Withdrawing(f), req)
  BY FInitInv DEF LagInv, GuardLags
<1>1. Withdrawing(f) = {}
  BY DEF FInit, Withdrawing
<1>2. Crowd \in Nat \ {0} /\ Most \in Nat
  BY SomeClients, LargestAmount
<1>3. (Crowd - 1) * Most \in Nat
  BY <1>2
<1>4. balance[f] \in Nat
  BY FundAssumption DEF FInit
<1> DEFINE X == (Crowd - 1) * Most
<1> HIDE DEF X
<1>5. balance[f] + X >= 0
  BY <1>3, <1>4 DEF X
<1> QED
  BY <1>1, <1>5 DEF Within, X

\* The statements that draw on a fund name an amount that a request may name.
LEMMA DrawingShape ==
  ASSUME FTypeOK, NEW f \in Funds
  PROVE  /\ Withdrawing(f) \in SUBSET Clients
         /\ \A c \in Withdrawing(f) : /\ req[c] \in Requests /\ req[c].amount \in 0..Most
                                  /\ req[c].amount \in Nat
<1>1. \A q \in Requests : q.amount \in Amounts
  BY DEF Requests, Entries, Transfers
<1>2. \A c \in Withdrawing(f) : req[c] \in Requests
  BY DEF Withdrawing, FTypeOK
<1>3. \A a \in Amounts : a \in Nat /\ a \in 0..Most
  BY LargestAmount, FundAssumption
<1> QED
  BY <1>1, <1>2, <1>3 DEF Withdrawing

\* A step after which nobody draws on the fund who did not before.
LEMMA LagKept ==
  ASSUME LagInv, FInv', NEW f \in Funds, f \notin overdrawn, NEW c,
         \A d \in Clients \ {c} : /\ d \in Withdrawing(f)' <=> d \in Withdrawing(f)
                                  /\ d \in Withdrawing(f) => req'[d] = req[d],
         c \in Withdrawing(f) => c \notin Withdrawing(f)' /\ balance'[f] >= balance[f] - req[c].amount,
         c \notin Withdrawing(f) => c \notin Withdrawing(f)' /\ balance'[f] >= balance[f]
  PROVE  Within(balance'[f], Withdrawing(f)', req')
<1>1. /\ Withdrawing(f) \in SUBSET Clients /\ Withdrawing(f)' \in SUBSET Clients
      /\ \A d \in Withdrawing(f) : req[d].amount \in 0..Most
      /\ balance[f] \in Int /\ balance'[f] \in Int
  <2>1. FTypeOK /\ FTypeOK'
    BY DEF LagInv, FInv
  <2>2. Withdrawing(f)' \in SUBSET Clients
    BY DEF Withdrawing
  <2> QED
    BY <2>1, <2>2, DrawingShape DEF FTypeOK
<1>2. Within(balance[f], Withdrawing(f), req)
  BY DEF LagInv, GuardLags
<1>3. Withdrawing(f)' = Withdrawing(f) \ {c}
  <2> DEFINE D == Withdrawing(f)
             E == Withdrawing(f)'
  <2>1. D \subseteq Clients /\ E \subseteq Clients /\ c \notin E
    BY <1>1
  <2>2. \A d \in Clients \ {c} : d \in E <=> d \in D
    OBVIOUS
  <2> HIDE DEF D, E
  <2>3. E = D \ {c}
    BY <2>1, <2>2
  <2> QED
    BY <2>3 DEF D, E
<1>4. Within(balance'[f], Withdrawing(f)', req)
  <2>1. CASE c \in Withdrawing(f)
    <3> DEFINE D == Withdrawing(f)
               b == balance[f]
               b2 == balance'[f]
    <3>1. /\ D \in SUBSET Clients /\ c \in D /\ b \in Int /\ b2 \in Int
          /\ \A d \in D : req[d].amount \in 0..Most
          /\ Within(b, D, req) /\ b2 >= b - req[c].amount
      BY <1>1, <1>2, <2>1
    <3> HIDE DEF D, b, b2
    <3>2. Within(b2, D \ {c}, req)
      BY <3>1, WithinLess
    <3> QED
      BY <1>3, <3>2 DEF D, b2
  <2>2. CASE c \notin Withdrawing(f)
    <3>1. Withdrawing(f)' = Withdrawing(f)
      BY <1>3, <2>2
    <3> QED
      BY <1>1, <1>2, <2>2, <3>1, WithinSame
  <2> QED
    BY <2>1, <2>2
<1> QED
  BY <1>1, <1>3, <1>4, WithinSame

\* The statement of c reads its snapshot.
LEMMA LagRead ==
  ASSUME LagInv, FInv', NEW c \in Clients, ReadSnapshot(c) PROVE GuardLags'
<1> SUFFICES ASSUME NEW f \in Funds, f \notin overdrawn
             PROVE  Within(balance[f], Withdrawing(f)', req)
  BY DEF ReadSnapshot, ledgerVars, GuardLags
<1>1. /\ at' = [at EXCEPT ![c] = "writing"] /\ at[c] = "sent" /\ req' = req /\ balance' = balance
      /\ \A d \in Clients \ {c} : plan'[d] = plan[d]
      /\ plan'[c] => Funded(req[c])
  BY DEF ReadSnapshot, Goto, ledgerVars, LagInv, FInv, FTypeOK
<1>2. \A d \in Clients \ {c} : d \in Withdrawing(f)' <=> d \in Withdrawing(f)
  BY <1>1 DEF Withdrawing, LagInv, FInv, FTypeOK
<1>3. c \notin Withdrawing(f)
  BY <1>1 DEF Withdrawing
<1>4. CASE c \notin Withdrawing(f)'
  BY <1>1, <1>2, <1>3, <1>4, LagKept DEF LagInv, FInv, FTypeOK
<1>5. CASE c \in Withdrawing(f)'
  <2>1. /\ Withdrawing(f)' \in SUBSET Clients /\ balance[f] \in Int
        /\ req[c] \in Requests /\ ~req[c].overdraft /\ req[c].kind # "income" /\ req[c].fund = f
        /\ plan'[c]
    BY <1>1, <1>5 DEF Withdrawing, LagInv, FInv, FTypeOK
  <2>2. req[c].amount \in Int /\ balance[f] - req[c].amount >= 0
    BY <1>1, <2>1, RequestShape DEF Funded, Signed
  <2> QED
    BY <1>5, <2>1, <2>2, WithinRead
<1> QED
  BY <1>4, <1>5

\* The statement of c ends.
LEMMA LagCommit ==
  ASSUME LagInv, FInv', NEW c \in Clients, Commit(c) PROVE GuardLags'
<1> DEFINE q == req[c]
<1>1. /\ q \in Requests /\ balance \in [Funds -> Int]
      /\ req' = req /\ plan' = plan /\ at[c] = "writing"
      /\ \A d \in Clients \ {c} : at'[d] = at[d]
      /\ at'[c] # "writing"
  BY DEF Commit, Goto, LagInv, FInv, FTypeOK
<1>2. /\ q.kind \in {"income", "expense", "transfer"} /\ q.amount \in Nat
      /\ Signed(q) = IF q.kind = "income" THEN q.amount ELSE -q.amount
  BY <1>1, RequestShape DEF Signed
<1> SUFFICES ASSUME NEW f \in Funds, f \notin overdrawn'
             PROVE  Within(balance'[f], Withdrawing(f)', req')
  BY DEF GuardLags
<1>3. \A d \in Clients \ {c} : d \in Withdrawing(f)' <=> d \in Withdrawing(f)
  BY <1>1 DEF Withdrawing
<1>4. c \notin Withdrawing(f)'
  BY <1>1 DEF Withdrawing
<1>5. CASE UNCHANGED ledgerVars
  <2>1. f \notin overdrawn /\ balance'[f] = balance[f] /\ balance[f] \in Int
    BY <1>1, <1>5 DEF ledgerVars
  <2>2. c \in Withdrawing(f) => balance'[f] >= balance[f] - q.amount
    BY <1>2, <2>1
  <2> QED
    BY <1>1, <1>3, <1>4, <2>1, <2>2, LagKept
<1>6. CASE plan[c] /\ Post(q)
  <2>1. f \notin overdrawn /\ (f = q.fund => ~q.overdraft)
    BY <1>6 DEF Post
  <2>2. balance'[f] = IF f = q.fund THEN balance[f] + Signed(q)
                      ELSE IF q.kind = "transfer" /\ f = q.to THEN balance[f] + q.amount
                      ELSE balance[f]
    BY <1>6 DEF Post, Posted
  <2>3. c \in Withdrawing(f) <=> f = q.fund /\ q.kind # "income"
    BY <1>1, <1>6, <2>1 DEF Withdrawing
  <2>4. balance[f] \in Int
    BY <1>1
  <2>5. c \in Withdrawing(f) => balance'[f] >= balance[f] - q.amount
    BY <1>2, <2>2, <2>3, <2>4
  <2>6. c \notin Withdrawing(f) => balance'[f] >= balance[f]
    BY <1>2, <2>2, <2>3, <2>4
  <2> QED
    BY <1>1, <1>3, <1>4, <2>1, <2>5, <2>6, LagKept
<1> QED
  BY <1>5, <1>6 DEF Commit

\* Every step keeps the funds within the bound.
LEMMA LagNext == LagInv /\ [FNext]_fundVars => LagInv'
<1> SUFFICES ASSUME LagInv, [FNext]_fundVars PROVE GuardLags'
  BY FNextInv DEF LagInv
<1>1. FInv' /\ FTypeOK
  BY FNextInv DEF LagInv, FInv
<1>2. CASE UNCHANGED fundVars
  BY <1>2 DEF fundVars, GuardLags, LagInv, Withdrawing, Within
<1>3. ASSUME NEW c \in Clients,
             Call(c) \/ Explain(c) \/ Report(c) \/ Fail(c) \/ Retry(c) \/ Done(c)
      PROVE  GuardLags'
  <2> SUFFICES ASSUME NEW f \in Funds, f \notin overdrawn'
               PROVE  Within(balance'[f], Withdrawing(f)', req')
    BY DEF GuardLags
  <2>1. UNCHANGED <<balance, overdrawn, plan>> /\ balance[f] \in Int
    BY <1>1, <1>3 DEF Call, Explain, Report, Fail, Retry, Done, ledgerVars, FTypeOK
  <2>2. /\ at'[c] # "writing"
        /\ \A d \in Clients \ {c} : at'[d] = at[d] /\ req'[d] = req[d]
    BY <1>1, <1>3 DEF Call, Explain, Report, Fail, Retry, Done, Goto, FTypeOK
  <2>3. /\ \A d \in Clients \ {c} : d \in Withdrawing(f)' <=> d \in Withdrawing(f)
        /\ c \notin Withdrawing(f)'
    BY <2>1, <2>2 DEF Withdrawing
  <2>4. c \in Withdrawing(f) => req[c].amount \in Nat
    BY <1>1, DrawingShape
  <2>5. c \in Withdrawing(f) => balance'[f] >= balance[f] - req[c].amount
    BY <2>1, <2>4
  <2> QED
    BY <1>1, <2>1, <2>2, <2>3, <2>5, LagKept
<1> QED
  BY <1>1, <1>2, <1>3, LagRead, LagCommit DEF FNext

-----------------------------------------------------------------------------
\* What the funds hold together, as a sum over them.
LEMMA BooksAsTotal ==
  TransfersConserve <=> Total(balance, Funds) = Opening * Cardinality(Funds) + flow
  BY DEF TransfersConserve, Total

\* ... and after a step.
LEMMA BooksAsTotalNext ==
  TransfersConserve' <=> Total(balance', Funds) = Opening * Cardinality(Funds) + flow'
  BY DEF TransfersConserve, Total, MapThenSumSet, MapThenFoldSet

\* An entry changes the total by its sign, a transfer not at all.
LEMMA PostTotal ==
  ASSUME FTypeOK, NEW q \in Requests, Post(q)
  PROVE  Total(balance', Funds) - flow' = Total(balance, Funds) - flow
<1>1. /\ balance \in [Funds -> Int] /\ balance' \in [Funds -> Int] /\ flow \in Int /\ flow' \in Int
      /\ q.fund \in Funds /\ Signed(q) \in Int /\ q.amount \in Nat
      /\ q.kind = "transfer" => q.to \in Funds /\ q.to # q.fund
      /\ IsFiniteSet(Funds)
  BY PostTyped, RequestShape, FundAssumption DEF FTypeOK
<1>2. Total(balance, Funds) \in Int /\ Total(balance', Funds) \in Int
  BY <1>1, TotalIsInt
<1> DEFINE half == [balance EXCEPT ![q.fund] = @ + Signed(q)]
<1>3. half \in [Funds -> Int]
  BY <1>1
<1>4. Total(half, Funds) = Total(balance, Funds) + Signed(q)
  <2>1. half[q.fund] = balance[q.fund] + Signed(q)
    BY <1>1
  <2>2. \A f \in Funds \ {q.fund} : half[f] = balance[f]
    BY <1>1
  <2>3. Total(half, Funds) = Total(balance, Funds) + half[q.fund] - balance[q.fund]
    <3> HIDE DEF half
    <3> QED
      BY <1>1, <1>3, <2>2, TotalChange
  <2> HIDE DEF half
  <2>4. balance[q.fund] \in Int
    BY <1>1
  <2> QED
    BY <1>1, <1>2, <2>1, <2>3, <2>4
<1>5. CASE q.kind # "transfer"
  <2>1. balance' = half
    BY <1>1, <1>5 DEF Post, Posted
  <2>2. flow' = flow + Signed(q)
    BY <1>5 DEF Post
  <2> HIDE DEF half
  <2> QED
    BY <1>1, <1>2, <1>4, <2>1, <2>2
<1>6. CASE q.kind = "transfer"
  <2>1. balance'[q.to] = half[q.to] + q.amount
    BY <1>1, <1>6 DEF Post, Posted
  <2>2. \A f \in Funds \ {q.to} : balance'[f] = half[f]
    BY <1>1, <1>6 DEF Post, Posted
  <2>3. flow' = flow /\ Signed(q) = -q.amount
    BY <1>6 DEF Post, Signed
  <2> HIDE DEF half
  <2>4. Total(balance', Funds) = Total(half, Funds) + balance'[q.to] - half[q.to]
    BY <1>1, <1>3, <1>6, <2>2, TotalChange
  <2>5. half[q.to] \in Int
    BY <1>1, <1>3, <1>6
  <2> QED
    BY <1>1, <1>2, <1>4, <2>1, <2>3, <2>4, <2>5
<1> QED
  BY <1>5, <1>6

BooksInv == LagInv /\ TransfersConserve

\* The books open balanced.
LEMMA BooksInit == FInit => BooksInv
<1> SUFFICES ASSUME FInit PROVE TransfersConserve
  BY LagInit DEF BooksInv
<1>1. Total([f \in Funds |-> Opening], Funds) = Opening * Cardinality(Funds)
  BY FundAssumption, TotalOfEqual
<1>2. Opening * Cardinality(Funds) \in Int
  BY FundAssumption, FS_CardinalityType
<1> QED
  BY <1>1, <1>2, BooksAsTotal DEF FInit

\* Every step keeps them balanced.
LEMMA BooksNext == BooksInv /\ [FNext]_fundVars => BooksInv'
<1> SUFFICES ASSUME BooksInv, [FNext]_fundVars PROVE TransfersConserve'
  BY LagNext DEF BooksInv
<1>1. FTypeOK /\ FTypeOK'
  BY FNextInv DEF BooksInv, LagInv, FInv
<1>2. CASE UNCHANGED <<balance, flow>>
  BY <1>2, BooksAsTotal, BooksAsTotalNext DEF BooksInv
<1>3. ASSUME NEW c \in Clients, Commit(c) PROVE TransfersConserve'
  <2>1. CASE UNCHANGED ledgerVars
    BY <1>2, <2>1 DEF ledgerVars
  <2>2. CASE Post(req[c])
    <3>1. req[c] \in Requests
      BY <1>1, <1>3 DEF Commit, FTypeOK
    <3>2. Total(balance', Funds) - flow' = Total(balance, Funds) - flow
      BY <1>1, <2>2, <3>1, PostTotal
    <3>3. /\ Total(balance', Funds) \in Int /\ Total(balance, Funds) \in Int
          /\ flow' \in Int /\ flow \in Int
      BY <1>1, TotalIsInt, FundAssumption DEF FTypeOK
    <3>4. Total(balance, Funds) = Opening * Cardinality(Funds) + flow
      BY BooksAsTotal DEF BooksInv
    <3>5. Opening * Cardinality(Funds) \in Int
      BY FundAssumption, FS_CardinalityType
    <3> DEFINE K == Opening * Cardinality(Funds)
    <3> HIDE DEF K
    <3>6. Total(balance', Funds) = K + flow'
      BY <3>2, <3>3, <3>4, <3>5 DEF K
    <3> QED
      BY <3>6, BooksAsTotalNext DEF K
  <2> QED
    BY <1>3, <2>1, <2>2 DEF Commit
<1>4. ASSUME NEW c \in Clients,
             \/ Call(c) \/ ReadSnapshot(c) \/ Explain(c) \/ Report(c)
             \/ Fail(c) \/ Retry(c) \/ Done(c)
      PROVE  TransfersConserve'
  <2>1. UNCHANGED <<balance, flow>>
    BY <1>4 DEF Call, ReadSnapshot, Explain, Report, Fail, Retry, Done, ledgerVars
  <2> QED
    BY <1>2, <2>1
<1>5. CASE UNCHANGED fundVars
  BY <1>2, <1>5 DEF fundVars
<1> QED
  BY <1>3, <1>4, <1>5 DEF FNext

\* However many statements overlap, the funds together hold what they opened
\* with and what came in less what went out, and no fund that nobody
\* authorised to be overdrawn is below what the other clients can take.
THEOREM BooksAlwaysBalance == FSpec => []BooksBalance
<1>1. BooksInv => BooksBalance
  <2> SUFFICES ASSUME BooksInv, NEW f \in Funds, f \notin overdrawn
               PROVE  balance[f] + (Crowd - 1) * Most >= 0
    BY DEF BooksInv, BooksBalance, OverdraftIsBounded, Crowd, Most
  <2>1. Withdrawing(f) \in SUBSET Clients /\ \A c \in Withdrawing(f) : req[c].amount \in 0..Most
    BY DrawingShape DEF BooksInv, LagInv, FInv
  <2>2. balance[f] \in Int /\ Within(balance[f], Withdrawing(f), req)
    BY DEF BooksInv, LagInv, GuardLags, FInv, FTypeOK
  <2> QED
    BY <2>1, <2>2, WithinBound
<1> QED
  BY <1>1, BooksInit, BooksNext, PTL DEF FSpec

-----------------------------------------------------------------------------
(***************************************************************************)
(* A member's dues row.  The strengthening is what a handler that is past  *)
(* its upsert may say: it only tries to move a positive amount, and it     *)
(* only reports a draw booked once the money is out.                       *)
(***************************************************************************)

SaysSo ==
  \A c \in Callers :
    /\ doing[c] = "transfer" => row # NoRow /\ ToFund(asked[c]) > 0
    /\ doing[c] = "booked" => drawn # 0

DuesInv == DTypeOK /\ SaysSo /\ WaivedOwesNothing /\ NotSilentlyUnfunded

\* A tier's share of a base is a whole number of cents, and so is the part of
\* it that scholarship owes.
LEMMA ShareTyped ==
  ASSUME NEW tier \in Tiers, NEW base \in Bases, NEW status
  PROVE  Assessed(tier, base) \in Nat /\ FundedCents(status, tier, base) \in Nat
<1>1. base \in Nat /\ Bps[tier] \in Nat
  BY DuesAssumption
<1>2. base * Bps[tier] \in Nat
  BY <1>1
<1>3. Assessed(tier, base) \in Nat
  BY <1>2 DEF Assessed
<1> QED BY <1>1, <1>3 DEF FundedCents

\* The row a request asks for.
LEMMA RowTyped ==
  ASSUME NEW q \in DuesRequests, NEW draw \in Draws
  PROVE  Row(q, draw) \in DuesRows /\ Row(q, draw) # NoRow /\ ToFund(q) \in Nat
<1>1. q.tier \in Tiers /\ q.base \in Bases /\ q.status \in Statuses
  BY DEF DuesRequests
<1>2. Assessed(q.tier, q.base) \in Nat /\ FundedCents(q.status, q.tier, q.base) \in Nat
  BY <1>1, ShareTyped
<1>3. Row(q, draw) \in DuesRows
  BY <1>1, <1>2 DEF Row, DuesRows
<1> QED BY <1>2, <1>3, DuesAssumption DEF ToFund

\* At first there is no row, or a legacy one that owes nothing.
LEMMA InitDues == DInit => DuesInv
<1> SUFFICES ASSUME DInit PROVE DuesInv
  OBVIOUS
<1>1. row # NoRow =>
        row \in DuesRows /\ row.status = "waived" /\ row.assessed = 0 /\ row.funded = 0
  BY DuesAssumption DEF DInit
<1>2. DTypeOK
  BY <1>1, DuesAssumption DEF DInit, DTypeOK, Places, Resting, Outcomes
<1> QED BY <1>1, <1>2, DuesAssumption
        DEF DInit, DuesInv, SaysSo, WaivedOwesNothing, NotSilentlyUnfunded

-----------------------------------------------------------------------------
\* A request is made: nothing is said yet.
LEMMA AskStep ==
  ASSUME DuesInv, NEW c \in Callers, AssessDues(c) \/ SelfReport(c)
  PROVE  DuesInv'
<1>1. PICK q \in DuesRequests : AskFor(c, q)
  <2>1. CASE AssessDues(c)
    BY <2>1 DEF AssessDues
  <2>2. CASE SelfReport(c)
    <3>1. PICK t \in Tiers :
            AskFor(c, [status |-> "self_reported", tier |-> t, books |-> FALSE, self |-> TRUE,
                       base |-> IF row = NoRow THEN ConfiguredBase ELSE row.base])
      BY <2>2 DEF SelfReport
    <3>2. (IF row = NoRow THEN ConfiguredBase ELSE row.base) \in Bases
      BY DuesAssumption DEF DuesInv, DTypeOK, DuesRows
    <3> QED BY <3>1, <3>2 DEF DuesRequests, Statuses
  <2> QED BY <2>1, <2>2
<1>2. DTypeOK'
  BY <1>1, DuesAssumption DEF DuesInv, DTypeOK, AskFor, Onto, Places, Outcomes, Resting
<1>3. SaysSo'
  BY <1>1 DEF DuesInv, DTypeOK, SaysSo, AskFor, Onto
<1> QED BY <1>1, <1>2, <1>3
        DEF DuesInv, AskFor, WaivedOwesNothing, NotSilentlyUnfunded

\* The upsert's new row funds what it promises, and stays booked only with
\* the funding that moved.
LEMMA UpsertStep ==
  ASSUME DuesInv, NEW c \in Callers, Upsert(c)
  PROVE  DuesInv'
<1> DEFINE q == asked[c]
           draw == IF row # NoRow /\ row.draw = "booked" THEN "booked" ELSE OpeningDraw(q)
<1>1. q \in DuesRequests
  BY DEF DuesInv, DTypeOK, Upsert, Resting
<1>2. draw \in Draws
  BY DEF OpeningDraw, Draws, Outcomes
<1>3. row' = Row(q, draw) /\ row' \in DuesRows /\ row' # NoRow /\ ToFund(q) \in Nat
  BY <1>1, <1>2, RowTyped DEF Upsert
<1>4. DTypeOK'
  BY <1>3 DEF DuesInv, DTypeOK, Upsert, Onto, Places, Outcomes, Resting
<1>5. SaysSo'
  BY <1>3 DEF DuesInv, DTypeOK, SaysSo, Upsert, Onto, ToFund
<1>6. WaivedOwesNothing'
  BY <1>3 DEF WaivedOwesNothing, Row, FundedCents
<1>7. NotSilentlyUnfunded'
  <2>1. row'.funded = ToFund(q) /\ row'.draw = draw
    BY <1>3 DEF Row, ToFund
  <2>2. CASE row # NoRow /\ row.draw = "booked"
    <3>1. row.funded = ToFund(q)
      BY <2>2 DEF Upsert, Guarded
    <3> QED BY <2>1, <2>2, <3>1 DEF DuesInv, NotSilentlyUnfunded, Upsert, Unsettled
  <2>3. CASE ~(row # NoRow /\ row.draw = "booked")
    BY <1>3, <2>1, <2>3 DEF NotSilentlyUnfunded, OpeningDraw, Unsettled
  <2> QED BY <2>2, <2>3
<1> QED BY <1>4, <1>5, <1>6, <1>7 DEF DuesInv

\* The transfer: what it leaves to say is that it moved the money, or not.
LEMMA BookStep ==
  ASSUME DuesInv, NEW c \in Callers, BookDraw(c)
  PROVE  DuesInv'
<1>1. asked[c] \in DuesRequests /\ ToFund(asked[c]) > 0
  BY DEF DuesInv, DTypeOK, SaysSo, BookDraw, Resting
<1>2. ToFund(asked[c]) \in Nat
  BY <1>1, RowTyped DEF Draws
<1>3. PICK o \in Outcomes :
        Onto(c, o) /\ (o = "booked" => drawn' # 0) /\ (drawn # 0 => drawn' = drawn) /\ drawn' \in Nat
  BY <1>1, <1>2 DEF BookDraw, Outcomes, DuesInv, DTypeOK
<1>4. row # NoRow
  BY DEF DuesInv, SaysSo, BookDraw
<1>5. DTypeOK'
  BY <1>1, <1>3, <1>4 DEF DuesInv, DTypeOK, BookDraw, Onto, Places, Resting
<1>6. SaysSo'
  BY <1>3 DEF DuesInv, DTypeOK, SaysSo, BookDraw, Onto, Outcomes
<1> QED BY <1>3, <1>5, <1>6
        DEF DuesInv, BookDraw, WaivedOwesNothing, NotSilentlyUnfunded

\* A handler's answer, or its end, without a change to the row.
LEMMA EndStep ==
  ASSUME DuesInv, NEW c \in Callers, UpsertRefused(c) \/ ExplainRefusal(c) \/ Abandon(c)
  PROVE  DuesInv'
<1>1. PICK next \in {"unwritten", "conflict", "internal", "idle"} : Onto(c, next)
  BY DEF UpsertRefused, ExplainRefusal, Abandon
<1>2. doing[c] \notin Resting \/ next \in Resting
  BY <1>1 DEF UpsertRefused, ExplainRefusal, Abandon, Resting
<1> QED BY <1>1
        DEF UpsertRefused, ExplainRefusal, Abandon, DuesInv, DTypeOK, SaysSo, Onto, Places,
            Outcomes, Resting, WaivedOwesNothing, NotSilentlyUnfunded, Guarded

\* The third statement of an assessment writes the state and nothing else.
LEMMA StateStep ==
  ASSUME DuesInv, NEW c \in Callers, SetDuesDrawState(c)
  PROVE  DuesInv'
<1>1. row # NoRow /\ row \in DuesRows /\ doing[c] \in Outcomes
  BY DEF DuesInv, DTypeOK, SetDuesDrawState
<1>2. row' \in DuesRows /\ row' # NoRow /\ row'.draw = doing[c]
      /\ row'.status = row.status /\ row'.funded = row.funded /\ row'.assessed = row.assessed
  BY <1>1, DuesAssumption DEF SetDuesDrawState, DuesRows, Draws
<1>3. DTypeOK' /\ SaysSo'
  BY <1>2 DEF DuesInv, DTypeOK, SaysSo, SetDuesDrawState, Onto, Places, Resting, Outcomes
<1>4. NotSilentlyUnfunded'
  BY <1>1, <1>2 DEF DuesInv, SaysSo, NotSilentlyUnfunded, SetDuesDrawState, Outcomes, Unsettled
<1> QED BY <1>1, <1>2, <1>3, <1>4 DEF DuesInv, WaivedOwesNothing

\* A hand-made transfer and the waiver repair.
LEMMA AroundStep ==
  ASSUME DuesInv, BookByHand \/ ReadForRepair \/ WriteRepair
  PROVE  DuesInv'
<1>1. CASE BookByHand
  BY <1>1 DEF BookByHand, DuesInv, DTypeOK, SaysSo, WaivedOwesNothing, NotSilentlyUnfunded, DuesRows
<1>2. CASE ReadForRepair
  <2>1. row \in DuesRows
    BY <1>2 DEF ReadForRepair, WaivedAtZero, DuesInv, DTypeOK
  <2>2. repair' \in Nat
    BY <1>2, <2>1, ShareTyped DEF ReadForRepair, DuesRows
  <2> QED BY <1>2, <2>2
          DEF ReadForRepair, DuesInv, DTypeOK, SaysSo, WaivedOwesNothing, NotSilentlyUnfunded
<1>3. CASE WriteRepair
  <2>1. CASE WaivedAtZero
    <3>1. row' = [row EXCEPT !.assessed = repair, !.funded = repair, !.draw = "unbooked"]
          /\ row # NoRow /\ row \in DuesRows /\ repair \in Nat
      BY <1>3, <2>1 DEF WriteRepair, WaivedAtZero, DuesInv, DTypeOK
    <3>2. row' \in DuesRows /\ row' # NoRow /\ row'.draw = "unbooked"
          /\ row'.funded = repair /\ row'.assessed = repair
      BY <3>1, DuesAssumption DEF DuesRows, Draws
    <3> QED BY <1>3, <3>2
            DEF WriteRepair, DuesInv, DTypeOK, SaysSo, WaivedOwesNothing, NotSilentlyUnfunded,
                Unsettled
  <2>2. CASE ~WaivedAtZero
    BY <1>3, <2>2
       DEF WriteRepair, DuesInv, DTypeOK, SaysSo, WaivedOwesNothing, NotSilentlyUnfunded
  <2> QED BY <2>1, <2>2
<1> QED BY <1>1, <1>2, <1>3

\* Every step keeps the invariant.
LEMMA StepDues == DuesInv /\ [DNext]_duesVars => DuesInv'
<1> SUFFICES ASSUME DuesInv, [DNext]_duesVars PROVE DuesInv'
  OBVIOUS
<1>1. CASE DNext
  BY <1>1, AskStep, UpsertStep, BookStep, EndStep, StateStep, AroundStep DEF DNext
<1>2. CASE UNCHANGED duesVars
  BY <1>2 DEF duesVars, DuesInv, DTypeOK, SaysSo, WaivedOwesNothing, NotSilentlyUnfunded
<1> QED BY <1>1, <1>2

\* The rows are what the columns allow, and the strengthening holds.
THEOREM DuesInvariant == DSpec => []DuesInv
  BY InitDues, StepDues, PTL DEF DSpec

\* The type invariant: a row holds what its columns and their CHECKs allow.
THEOREM DuesTyped == DSpec => []DTypeOK
<1>1. DuesInv => DTypeOK
  BY DEF DuesInv
<1> QED BY <1>1, DuesInvariant, PTL

-----------------------------------------------------------------------------
\* A waived member owes nothing, through every revision and repair
\* (funded_cents_for, upsert_dues and the repair's update).
THEOREM WaiversOweNothing == DSpec => []WaivedOwesNothing
<1>1. DuesInv => WaivedOwesNothing
  BY DEF DuesInv
<1> QED BY <1>1, DuesInvariant, PTL

\* Funding that has not moved stays on the worklist or is refused: no order of
\* answers, deaths and repairs reports it as booked or as none.
THEOREM FundingIsNotSilent == DSpec => []NotSilentlyUnfunded
<1>1. DuesInv => NotSilentlyUnfunded
  BY DEF DuesInv
<1> QED BY <1>1, DuesInvariant, PTL

\* One waiver, one transfer; and a booked row keeps its status and its amount:
\* the upsert's guard refuses, and a repair finds no booked row at zero.
THEOREM DrawsSettleOnce == DSpec => DrawIsSettledOnce
<1>1. DuesInv /\ [DNext]_duesVars => [drawn # 0 => drawn' = drawn]_duesVars
  <2> SUFFICES ASSUME DuesInv, DNext, drawn # 0 PROVE drawn' = drawn
    OBVIOUS
  <2> QED BY DEF DNext, AssessDues, SelfReport, AskFor, Upsert, UpsertRefused, ExplainRefusal,
             BookDraw, SetDuesDrawState, Abandon, BookByHand, ReadForRepair, WriteRepair
<1>2. DuesInv /\ [DNext]_duesVars =>
        [row # NoRow /\ row.draw = "booked" /\ row.funded > 0
           => row'.funded = row.funded /\ row'.status = row.status]_duesVars
  <2> SUFFICES ASSUME DuesInv, DNext, row # NoRow, row.draw = "booked", row.funded > 0
               PROVE  row'.funded = row.funded /\ row'.status = row.status
    OBVIOUS
  <2>1. ASSUME NEW c \in Callers, Upsert(c)
        PROVE  row'.funded = row.funded /\ row'.status = row.status
    BY <2>1 DEF Upsert, Guarded, Row, ToFund
  <2>2. ASSUME NEW c \in Callers, SetDuesDrawState(c)
        PROVE  row'.funded = row.funded /\ row'.status = row.status
    BY <2>2 DEF SetDuesDrawState, DuesInv, DTypeOK, DuesRows
  <2>3. CASE WriteRepair
    <3>1. ~WaivedAtZero
      BY DEF WaivedAtZero, DuesInv, DTypeOK, WaivedOwesNothing, DuesRows
    <3> QED BY <2>3, <3>1 DEF WriteRepair
  <2>4. CASE UNCHANGED row
    BY <2>4
  <2> QED BY <2>1, <2>2, <2>3, <2>4
          DEF DNext, AssessDues, SelfReport, AskFor, UpsertRefused, ExplainRefusal, BookDraw,
              Abandon, BookByHand, ReadForRepair
<1> QED BY <1>1, <1>2, DuesInvariant, PTL
        DEF DSpec, DrawIsSettledOnce, MovedOnce, BookedFundingIsFrozen

(***************************************************************************)
(* The desk beside the ledger: the receipts, the corrections and the events*)
(* that are written in statements of their own agree with the entries they *)
(* are about, however the handlers overlap.                                *)
(***************************************************************************)

Lines       == [kind : Direction, key : Keys \cup {NoKey}]
Papers      == [entry : Nat, corrects : Nat]
DeskEvents  ==
  [type : {"finance.dues.payment"}, entry : Nat, paid : Nat, known : BOOLEAN]
  \cup [type : {"finance.receipt.issued"}, receipt : Nat]

DeskShape ==
  /\ entries \in Seq(Lines) /\ receipts \in Seq(Papers) /\ bus \in Seq(DeskEvents)
  /\ hand = [h \in Hands |-> hand[h]]

\* What a treasurer's handler knows at its step.
DeskKnows(h) ==
  /\ Doing(h, "dues") => "key" \in DOMAIN hand[h] /\ hand[h].key \in Keys \cup {NoKey}
  /\ hand[h].at \in {"standing", "paid", "issue", "write"} =>
       "entry" \in DOMAIN hand[h] /\ hand[h].entry \in DOMAIN entries
  /\ Doing(h, "paid") =>
       /\ hand[h].paid \in Nat /\ hand[h].known \in BOOLEAN
       /\ hand[h].known => hand[h].paid >= Dues(hand[h].entry)
  /\ hand[h].at \in {"issue", "write"} =>
       /\ "corrects" \in DOMAIN hand[h]
       /\ Receiptable(hand[h].entry)
       /\ hand[h].corrects # 0 => hand[h].corrects \in DOMAIN receipts
  /\ Doing(h, "issued") => hand[h].receipt \in Nat

\* A payment the troop was told of.
PaperSaysSo(e) ==
  e.type = "finance.dues.payment" =>
    e.entry \in DOMAIN entries /\ (e.known => e.paid >= Dues(e.entry))

DeskInv ==
  /\ DeskShape /\ CorrectionsFormAChain
  /\ \A h \in Hands : DeskKnows(h)
  /\ \A k \in DOMAIN bus : PaperSaysSo(bus[k])

\* Entries are only added.
EntriesGrow == entries' = entries \/ \E line \in Lines : entries' = Append(entries, line)

\* What was entered stays where it is.
LEMMA EntriesStay ==
  ASSUME DeskShape, EntriesGrow
  PROVE  /\ entries' \in Seq(Lines)
         /\ DOMAIN entries \subseteq DOMAIN entries'
         /\ \A k \in DOMAIN entries : entries'[k] = entries[k]
<1>1. entries \in Seq(Lines)
  BY DEF DeskShape
<1>2. ASSUME NEW line \in Lines, entries' = Append(entries, line)
      PROVE  /\ entries' \in Seq(Lines) /\ DOMAIN entries \subseteq DOMAIN entries'
             /\ \A k \in DOMAIN entries : entries'[k] = entries[k]
  BY <1>1, <1>2
<1> QED
  BY <1>1, <1>2 DEF EntriesGrow

\* What was paid up to an entry is what it was.
LEMMA DuesStay ==
  ASSUME DeskShape, EntriesGrow, NEW n \in DOMAIN entries
  PROVE  Dues(n)' = Dues(n)
<1>1. n \in Nat /\ 1..n \subseteq DOMAIN entries
  BY DEF DeskShape
<1>2. {k \in 1..n : entries'[k].kind = "income"} = {k \in 1..n : entries[k].kind = "income"}
  BY <1>1, EntriesStay
<1> QED
  BY <1>2 DEF Dues

\* The ledger says of every payment what it and those before it came to.
LEMMA DuesGrow ==
  ASSUME DeskShape, NEW n \in DOMAIN entries
  PROVE  Dues(Len(entries)) \in Nat /\ Dues(Len(entries)) >= Dues(n)
<1> DEFINE Upto(m) == {k \in 1..m : entries[k].kind = "income"}
<1>1. n \in Nat /\ Len(entries) \in Nat /\ n <= Len(entries)
  BY DEF DeskShape
<1>2. IsFiniteSet(1..Len(entries)) /\ Upto(Len(entries)) \in SUBSET (1..Len(entries))
  BY <1>1, FS_Interval
<1>3. IsFiniteSet(Upto(Len(entries)))
  BY <1>2, FS_Subset
<1>4. Upto(n) \in SUBSET Upto(Len(entries))
  BY <1>1
<1>5. /\ IsFiniteSet(Upto(n)) /\ Cardinality(Upto(n)) <= Cardinality(Upto(Len(entries)))
      /\ Cardinality(Upto(Len(entries))) \in Nat /\ Cardinality(Upto(n)) \in Nat
  BY <1>3, <1>4, FS_Subset, FS_CardinalityType
<1> QED
  BY <1>5 DEF Dues

\* The chain, of any receipts and entries.
Chain(rs, es) ==
  \A k \in DOMAIN rs :
    /\ rs[k].entry \in DOMAIN es /\ es[rs[k].entry].kind = "income"
    /\ rs[k].corrects # 0 =>
         /\ rs[k].corrects < k /\ rs[rs[k].corrects].entry = rs[k].entry
         /\ \A j \in DOMAIN rs : rs[j].corrects = rs[k].corrects => j = k

\* The chain of the desk's.
LEMMA AsChain == CorrectionsFormAChain <=> Chain(receipts, entries)
  BY DEF CorrectionsFormAChain, Chain, Receiptable

\* A receipt that corrects one nobody corrected makes the chain longer.
LEMMA ChainGrows ==
  ASSUME NEW rs \in Seq(Papers), NEW es, Chain(rs, es), NEW new \in Papers,
         new.entry \in DOMAIN es, es[new.entry].kind = "income",
         new.corrects # 0 => new.corrects \in DOMAIN rs /\ rs[new.corrects].entry = new.entry,
         \A k \in DOMAIN rs : rs[k].corrects # 0 => rs[k].corrects # new.corrects
  PROVE  Chain(Append(rs, new), es)
<1> DEFINE ns == Append(rs, new)
           n  == Len(rs) + 1
<1>1. /\ n \in Nat /\ DOMAIN ns = DOMAIN rs \cup {n} /\ n \notin DOMAIN rs /\ ns[n] = new
      /\ \A k \in DOMAIN rs : ns[k] = rs[k] /\ k < n /\ k \in Nat /\ rs[k] \in Papers
  OBVIOUS
<1> HIDE DEF ns, n
<1>2. ASSUME NEW k \in DOMAIN rs, rs[k].corrects # 0 PROVE rs[k].corrects \in DOMAIN rs
  <2>1. rs[k].corrects \in Nat /\ rs[k].corrects < k /\ k \in 1..Len(rs)
    BY <1>1, <1>2 DEF Chain, Papers
  <2> QED
    BY <1>2, <2>1
<1>3. /\ ns[n].entry \in DOMAIN es /\ es[ns[n].entry].kind = "income"
      /\ ns[n].corrects # 0 =>
           /\ ns[n].corrects < n /\ ns[ns[n].corrects].entry = ns[n].entry
           /\ \A j \in DOMAIN ns : ns[j].corrects = ns[n].corrects => j = n
  BY <1>1
<1>4. ASSUME NEW k \in DOMAIN rs
      PROVE  /\ ns[k].entry \in DOMAIN es /\ es[ns[k].entry].kind = "income"
             /\ ns[k].corrects # 0 =>
                  /\ ns[k].corrects < k /\ ns[ns[k].corrects].entry = ns[k].entry
                  /\ \A j \in DOMAIN ns : ns[j].corrects = ns[k].corrects => j = k
  BY <1>1, <1>2 DEF Chain
<1>5. Chain(ns, es)
  BY <1>1, <1>3, <1>4 DEF Chain
<1> QED
  BY <1>5 DEF ns

\* A handler keeps what it knows while others work.
LEMMA DeskStays ==
  ASSUME DeskInv, EntriesGrow, DOMAIN receipts \subseteq DOMAIN receipts',
         NEW h \in Hands, hand'[h] = hand[h]
  PROVE  DeskKnows(h)'
<1>1. DeskKnows(h) /\ DeskShape
  BY DEF DeskInv
<1>2. hand[h].at \in {"standing", "paid", "issue", "write"} =>
        hand[h].entry \in DOMAIN entries' /\ Dues(hand[h].entry)' = Dues(hand[h].entry)
  BY <1>1, EntriesStay, DuesStay DEF DeskKnows
<1>3. hand[h].at \in {"issue", "write"} => Receiptable(hand[h].entry)'
  BY <1>1, EntriesStay DEF DeskKnows, Receiptable
<1> QED
  BY <1>1, <1>2, <1>3 DEF DeskKnows, Doing

\* A step that adds an entry or none, and neither issues nor publishes.
LEMMA DeskStep ==
  ASSUME DeskInv, EntriesGrow, UNCHANGED <<receipts, bus>>,
         hand' = [h \in Hands |-> hand'[h]],
         \A h \in Hands : hand'[h] = hand[h] \/ DeskKnows(h)'
  PROVE  DeskInv'
<1>1. DeskShape /\ DeskShape'
  BY EntriesStay DEF DeskInv, DeskShape
<1>2. CorrectionsFormAChain'
  BY <1>1, EntriesStay DEF DeskInv, CorrectionsFormAChain, Receiptable
<1>3. \A h \in Hands : DeskKnows(h)'
  BY DeskStays
<1>4. ASSUME NEW k \in DOMAIN bus PROVE PaperSaysSo(bus[k])'
  <2>1. PaperSaysSo(bus[k])
    BY DEF DeskInv
  <2> QED
    BY <1>1, <2>1, EntriesStay, DuesStay DEF PaperSaysSo
<1> QED
  BY <1>1, <1>2, <1>3, <1>4 DEF DeskInv

\* What a handler that goes on has kept and has learnt.
LEMMA WentOn ==
  ASSUME DeskInv, NEW h \in Hands, NEW more, Go(h, more)
  PROVE  /\ hand' = [g \in Hands |-> hand'[g]]
         /\ \A g \in Hands \ {h} : hand'[g] = hand[g]
         /\ DOMAIN hand'[h] = DOMAIN more \cup DOMAIN hand[h]
         /\ \A k \in DOMAIN more : hand'[h][k] = more[k]
         /\ \A k \in DOMAIN hand[h] \ DOMAIN more : hand'[h][k] = hand[h][k]
  BY DEF Go, Knowing, DeskInv, DeskShape

\* A request whose handler goes on.
LEMMA AskedDesk ==
  ASSUME DeskInv, NEW h \in Hands, NEW step, Ask(h, step)
  PROVE  /\ hand' = [g \in Hands |-> hand'[g]] /\ hand'[h] = step
         /\ \A g \in Hands \ {h} : hand'[g] = hand[g]
  BY DEF Ask, DeskInv, DeskShape

\* A handler that has answered knows nothing.
LEMMA AnsweredDesk ==
  ASSUME DeskInv, NEW h \in Hands, Answer(h)
  PROVE  /\ hand' = [g \in Hands |-> hand'[g]] /\ DeskKnows(h)'
         /\ \A g \in Hands \ {h} : hand'[g] = hand[g]
  BY DEF Answer, DeskInv, DeskShape, DeskKnows, Idle, Doing

\* The requests that are one statement.
LEMMA AtOnce ==
  ASSUME DeskInv, \/ \E c \in Codes : \/ CreateFund(c) \/ EditFund(c) \/ Spend(c)
                                      \/ \E d \in Direction : SetBudget(c, d)
                  \/ \E who \in Payers : AssessOne(who)
  PROVE  DeskInv'
<1>1. UNCHANGED <<hand, receipts, bus>>
  BY DEF CreateFund, EditFund, Spend, SetBudget, AssessOne, AskOnce, Silent
<1>2. EntriesGrow
  <2>1. [kind |-> "expense", key |-> NoKey] \in Lines
    BY DEF Lines, Direction
  <2> QED
    BY <2>1 DEF CreateFund, EditFund, Spend, SetBudget, AssessOne, EntriesGrow
<1> QED
  BY <1>1, <1>2, DeskStep DEF DeskInv, DeskShape

\* The requests that a handler goes on with.
LEMMA Begun ==
  ASSUME DeskInv, NEW h \in Hands,
         \/ \E key \in Keys \cup {NoKey} : BeginDues(h, key)
         \/ \E n \in DOMAIN entries : BeginIssue(h, n)
         \/ \E r \in DOMAIN receipts : BeginCorrection(h, r)
  PROVE  DeskInv'
<1>1. UNCHANGED <<entries, receipts, bus>> /\ EntriesGrow
  BY DEF BeginDues, BeginIssue, BeginCorrection, Silent, treasuryRows, EntriesGrow
<1>2. ASSUME NEW key \in Keys \cup {NoKey}, BeginDues(h, key) PROVE DeskInv'
  <2> DEFINE step == [at |-> "dues", key |-> key]
  <2>1. Ask(h, step) /\ step.at = "dues" /\ "key" \in DOMAIN step /\ step.key = key
    BY <1>2 DEF BeginDues
  <2> HIDE DEF step
  <2>2. hand'[h] = step /\ hand' = [g \in Hands |-> hand'[g]] /\ \A g \in Hands \ {h} : hand'[g] = hand[g]
    BY <2>1, AskedDesk
  <2>3. DeskKnows(h)'
    BY <2>1, <2>2 DEF DeskKnows, Doing
  <2> QED
    BY <1>1, <2>2, <2>3, DeskStep
<1>3. ASSUME NEW n \in DOMAIN entries, NEW r, Receiptable(n), r # 0 => r \in DOMAIN receipts,
             Ask(h, [at |-> "issue", entry |-> n, corrects |-> r])
      PROVE  DeskInv'
  <2> DEFINE step == [at |-> "issue", entry |-> n, corrects |-> r]
  <2>1. /\ Ask(h, step) /\ step.at = "issue" /\ {"entry", "corrects"} \subseteq DOMAIN step
        /\ step.entry = n /\ step.corrects = r
    BY <1>3
  <2> HIDE DEF step
  <2>2. hand'[h] = step /\ hand' = [g \in Hands |-> hand'[g]] /\ \A g \in Hands \ {h} : hand'[g] = hand[g]
    BY <2>1, AskedDesk
  <2>3. DeskKnows(h)'
    BY <1>1, <1>3, <2>1, <2>2 DEF DeskKnows, Doing, Receiptable
  <2> QED
    BY <1>1, <2>2, <2>3, DeskStep
<1>4. ASSUME NEW n \in DOMAIN entries, BeginIssue(h, n) PROVE DeskInv'
  BY <1>3, <1>4 DEF BeginIssue
<1>5. ASSUME NEW r \in DOMAIN receipts, BeginCorrection(h, r) PROVE DeskInv'
  <2>1. Receiptable(receipts[r].entry) /\ receipts[r].entry \in DOMAIN entries
    BY DEF DeskInv, CorrectionsFormAChain, Receiptable
  <2> QED
    BY <1>3, <1>5, <2>1 DEF BeginCorrection
<1> QED
  BY <1>2, <1>4, <1>5

\* The entry of a payment, and the standing read after it.
LEMMA Collecting ==
  ASSUME DeskInv, NEW h \in Hands, InsertDues(h) \/ ReadStanding(h)
  PROVE  DeskInv'
<1>1. DeskShape /\ DeskKnows(h) /\ UNCHANGED <<receipts, bus>>
  BY DEF DeskInv, InsertDues, ReadStanding, Silent, treasuryRows
<1>2. CASE Answer(h) /\ UNCHANGED entries
  BY <1>1, <1>2, AnsweredDesk, DeskStep DEF EntriesGrow
<1>3. CASE /\ Doing(h, "dues") /\ entries' = Append(entries, [kind |-> "income", key |-> hand[h].key])
           /\ Go(h, [at |-> "standing", entry |-> Len(entries')])
  <2>1. [kind |-> "income", key |-> hand[h].key] \in Lines
    BY <1>1, <1>3 DEF DeskKnows, Lines, Direction
  <2>2. EntriesGrow /\ Len(entries') \in DOMAIN entries'
    BY <1>1, <1>3, <2>1 DEF EntriesGrow, DeskShape
  <2>3. PICK n : n = Len(entries')
    OBVIOUS
  <2> DEFINE more == [at |-> "standing", entry |-> n]
  <2>4. Go(h, more) /\ {"at", "entry"} = DOMAIN more /\ more.at = "standing" /\ more.entry = n
    BY <1>3, <2>3
  <2> HIDE DEF more
  <2>5. /\ hand' = [g \in Hands |-> hand'[g]] /\ \A g \in Hands \ {h} : hand'[g] = hand[g]
        /\ hand'[h].at = "standing" /\ "entry" \in DOMAIN hand'[h] /\ hand'[h].entry = n
    BY <2>4, WentOn
  <2>6. DeskKnows(h)'
    BY <2>2, <2>3, <2>5 DEF DeskKnows, Doing
  <2> QED
    BY <1>1, <2>2, <2>5, <2>6, DeskStep
<1>4. CASE ReadStanding(h)
  <2>1. hand[h].at = "standing" /\ hand[h].entry \in DOMAIN entries /\ "entry" \in DOMAIN hand[h]
    BY <1>1, <1>4 DEF ReadStanding, Doing, DeskKnows
  <2>2. UNCHANGED entries /\ EntriesGrow
    BY <1>4 DEF ReadStanding, treasuryRows, EntriesGrow
  <2>3. PICK known \in BOOLEAN : known <=> "member" \in assessed
    OBVIOUS
  <2>4. PICK paid \in Nat : /\ paid = IF "member" \in assessed THEN Dues(Len(entries)) ELSE 0
                            /\ known => paid >= Dues(hand[h].entry)
    BY <1>1, <2>1, <2>3, DuesGrow
  <2> DEFINE more == [at |-> "paid", paid |-> paid, known |-> known]
  <2>5. /\ Go(h, more) /\ DOMAIN more = {"at", "paid", "known"}
        /\ more.at = "paid" /\ more.paid = paid /\ more.known = known
    <3>1. ("member" \in assessed) = known
      BY <2>3
    <3> QED
      BY <1>4, <2>4, <3>1 DEF ReadStanding, Paid
  <2> HIDE DEF more
  <2>6. /\ hand' = [g \in Hands |-> hand'[g]] /\ \A g \in Hands \ {h} : hand'[g] = hand[g]
        /\ hand'[h].at = "paid" /\ "entry" \in DOMAIN hand'[h] /\ hand'[h].entry = hand[h].entry
        /\ hand'[h].paid = paid /\ hand'[h].known = known
    <3>1. "entry" \in DOMAIN hand[h] \ DOMAIN more
      BY <2>1, <2>5
    <3> QED
      BY <2>5, <3>1, WentOn
  <2>7. DeskKnows(h)'
    <3>1. PICK n \in DOMAIN entries : n = hand[h].entry
      BY <2>1
    <3>2. Dues(n)' = Dues(n) /\ n \in DOMAIN entries'
      BY <1>1, <2>2, DuesStay
    <3>3. hand'[h].entry = n /\ (hand'[h].known => hand'[h].paid >= Dues(n)')
      BY <2>4, <2>6, <3>1, <3>2
    <3> QED
      BY <2>6, <3>2, <3>3 DEF DeskKnows, Doing
  <2> QED
    BY <1>1, <2>2, <2>6, <2>7, DeskStep
<1> QED
  BY <1>2, <1>3, <1>4 DEF InsertDues

\* A guarded statement lets a receipt's handler go on, or answers.
LEMMA Guarding ==
  ASSUME DeskInv, NEW h \in Hands, ReadGuards(h) \/ TreasuryFails(h)
  PROVE  DeskInv'
<1>1. DeskShape /\ DeskKnows(h) /\ UNCHANGED <<entries, receipts, bus>> /\ EntriesGrow
  BY DEF DeskInv, ReadGuards, TreasuryFails, Silent, treasuryRows, EntriesGrow
<1>2. CASE Answer(h)
  BY <1>1, <1>2, AnsweredDesk, DeskStep
<1>3. CASE Doing(h, "issue") /\ Go(h, [at |-> "write"])
  <2>1. /\ Receiptable(hand[h].entry) /\ {"entry", "corrects"} \subseteq DOMAIN hand[h]
        /\ hand[h].entry \in DOMAIN entries
        /\ hand[h].corrects # 0 => hand[h].corrects \in DOMAIN receipts
    BY <1>1, <1>3 DEF DeskKnows, Doing
  <2> DEFINE more == [at |-> "write"]
  <2>2. Go(h, more) /\ DOMAIN more = {"at"} /\ more.at = "write"
    BY <1>3
  <2> HIDE DEF more
  <2>3. /\ hand' = [g \in Hands |-> hand'[g]] /\ \A g \in Hands \ {h} : hand'[g] = hand[g]
        /\ hand'[h].at = "write" /\ {"entry", "corrects"} \subseteq DOMAIN hand'[h]
        /\ hand'[h].entry = hand[h].entry /\ hand'[h].corrects = hand[h].corrects
    <3>1. "entry" \in DOMAIN hand[h] \ DOMAIN more /\ "corrects" \in DOMAIN hand[h] \ DOMAIN more
      BY <2>1, <2>2
    <3> QED
      BY <2>2, <3>1, WentOn
  <2>4. DeskKnows(h)'
    BY <1>1, <2>1, <2>3 DEF DeskKnows, Doing, Receiptable
  <2> QED
    BY <1>1, <2>3, <2>4, DeskStep
<1> QED
  BY <1>2, <1>3 DEF ReadGuards, TreasuryFails, Proceed

\* The receipt is inserted, or the index or the trigger refuses it.
LEMMA Issuing ==
  ASSUME DeskInv, NEW h \in Hands, InsertReceipt(h)
  PROVE  DeskInv'
<1>1. DeskShape /\ DeskKnows(h) /\ UNCHANGED <<entries, bus>> /\ EntriesGrow
  BY DEF DeskInv, InsertReceipt, Silent, EntriesGrow
<1>2. CASE Answer(h) /\ UNCHANGED receipts
  BY <1>1, <1>2, AnsweredDesk, DeskStep
<1>3. CASE ~(hand[h].corrects # 0 /\ (Corrected(hand[h].corrects) \/ receipts[hand[h].corrects].entry # hand[h].entry)) /\ Written(h)
  <2>1. /\ Receiptable(hand[h].entry) /\ hand[h].entry \in DOMAIN entries
        /\ hand[h].corrects # 0 => /\ hand[h].corrects \in DOMAIN receipts /\ ~Corrected(hand[h].corrects)
                                   /\ receipts[hand[h].corrects].entry = hand[h].entry
    BY <1>1, <1>3 DEF InsertReceipt, DeskKnows, Doing
  <2>2. PICK new \in Papers : /\ new.entry = hand[h].entry /\ new.corrects = hand[h].corrects
                              /\ receipts' = Append(receipts, new)
    <3>1. hand[h].entry \in Nat /\ hand[h].corrects \in Nat
      BY <1>1, <2>1 DEF DeskShape
    <3>2. NewReceipt(h) \in Papers
      BY <3>1 DEF NewReceipt, Papers
    <3> QED
      BY <1>3, <3>2 DEF Written, NewReceipt
  <2>3. PICK n : n = Len(receipts')
    OBVIOUS
  <2>4. /\ receipts' \in Seq(Papers) /\ n \in Nat /\ DOMAIN receipts' = DOMAIN receipts \cup {n}
        /\ n \notin DOMAIN receipts /\ \A k \in DOMAIN receipts : receipts'[k] = receipts[k] /\ k < n
        /\ receipts'[n] = new
    BY <1>1, <2>2, <2>3 DEF DeskShape
  <2> DEFINE more == [at |-> "issued", receipt |-> n]
  <2>5. Go(h, more) /\ DOMAIN more = {"at", "receipt"} /\ more.at = "issued" /\ more.receipt = n
    BY <1>3, <2>3 DEF Written
  <2> HIDE DEF more
  <2>6. /\ hand' = [g \in Hands |-> hand'[g]] /\ \A g \in Hands \ {h} : hand'[g] = hand[g]
        /\ hand'[h].at = "issued" /\ hand'[h].receipt = n
    BY <2>5, WentOn
  <2>7. DeskShape'
    BY <1>1, <2>4, <2>6 DEF DeskShape
  <2>8. \A g \in Hands : DeskKnows(g)'
    <3>1. DeskKnows(h)'
      BY <2>4, <2>6 DEF DeskKnows, Doing
    <3>2. \A g \in Hands \ {h} : DeskKnows(g)'
      BY <1>1, <2>4, <2>6, DeskStays
    <3> QED
      BY <3>1, <3>2
  <2>9. CorrectionsFormAChain'
    <3>1. \A k \in DOMAIN receipts : receipts[k].corrects # 0 => receipts[k].corrects # new.corrects
      BY <2>1, <2>2 DEF Corrected
    <3>2. Chain(Append(receipts, new), entries)
      BY <1>1, <2>1, <2>2, <3>1, ChainGrows, AsChain DEF DeskShape, DeskInv, Receiptable
    <3>3. Chain(receipts', entries')
      BY <1>1, <2>2, <3>2
    <3> QED
      BY <3>3 DEF Chain, CorrectionsFormAChain, Receiptable
  <2>10. \A k \in DOMAIN bus' : PaperSaysSo(bus[k])'
    BY <1>1, DuesStay DEF DeskInv, PaperSaysSo
  <2> QED
    BY <2>7, <2>8, <2>9, <2>10 DEF DeskInv
<1> QED
  BY <1>2, <1>3 DEF InsertReceipt

\* The troop is told of the payment, or of the receipt.
LEMMA Telling ==
  ASSUME DeskInv, NEW h \in Hands, PublishPayment(h) \/ PublishReceipt(h)
  PROVE  DeskInv'
<1>1. DeskShape /\ DeskKnows(h) /\ UNCHANGED <<entries, receipts>> /\ EntriesGrow /\ Answer(h)
  BY DEF DeskInv, PublishPayment, PublishReceipt, treasuryRows, EntriesGrow
<1>2. PICK e \in DeskEvents : bus' = Append(bus, e) /\ PaperSaysSo(e)
  <2>1. CASE PublishPayment(h)
    <3> DEFINE e == [type |-> "finance.dues.payment", entry |-> hand[h].entry,
                     paid |-> hand[h].paid, known |-> hand[h].known]
    <3>1. /\ hand[h].entry \in DOMAIN entries /\ hand[h].paid \in Nat /\ hand[h].known \in BOOLEAN
          /\ hand[h].known => hand[h].paid >= Dues(hand[h].entry) /\ hand[h].entry \in Nat
      BY <1>1, <2>1 DEF PublishPayment, DeskKnows, Doing, DeskShape
    <3>2. hand[h].entry \in Nat
      BY <1>1, <3>1 DEF DeskShape
    <3>3. e \in DeskEvents /\ PaperSaysSo(e)
      BY <3>1, <3>2 DEF DeskEvents, PaperSaysSo
    <3> QED
      BY <2>1, <3>3 DEF PublishPayment, Publish
  <2>2. CASE PublishReceipt(h)
    <3> DEFINE e == [type |-> "finance.receipt.issued", receipt |-> hand[h].receipt]
    <3>1. e \in DeskEvents /\ PaperSaysSo(e)
      BY <1>1, <2>2 DEF PublishReceipt, DeskKnows, DeskEvents, PaperSaysSo
    <3> QED
      BY <2>2, <3>1 DEF PublishReceipt, Publish
  <2> QED
    BY <2>1, <2>2
<1>3. /\ bus' \in Seq(DeskEvents) /\ DOMAIN bus' = DOMAIN bus \cup {Len(bus) + 1}
      /\ \A k \in DOMAIN bus : bus'[k] = bus[k] /\ bus'[Len(bus) + 1] = e
      /\ bus'[Len(bus) + 1] = e
  BY <1>1, <1>2 DEF DeskShape
<1>4. DeskKnows(h)' /\ hand' = [g \in Hands |-> hand'[g]] /\ \A g \in Hands \ {h} : hand'[g] = hand[g]
  BY <1>1, AnsweredDesk
<1>5. \A g \in Hands : DeskKnows(g)'
  BY <1>1, <1>4, DeskStays
<1>6. DeskShape' /\ CorrectionsFormAChain'
  BY <1>1, <1>3, <1>4 DEF DeskInv, DeskShape, CorrectionsFormAChain, Receiptable
<1>7. ASSUME NEW k \in DOMAIN bus' PROVE PaperSaysSo(bus[k])'
  <2>1. PaperSaysSo(bus'[k])
    BY <1>2, <1>3 DEF DeskInv
  <2> QED
    BY <1>1, <2>1, DuesStay DEF PaperSaysSo
<1> QED
  BY <1>5, <1>6, <1>7 DEF DeskInv

\* The desk before its first entry.
LEMMA InitDesk == TreasuryInit => DeskInv
<1> SUFFICES ASSUME TreasuryInit PROVE DeskInv
  OBVIOUS
<1>1. DeskShape /\ DOMAIN receipts = {} /\ DOMAIN bus = {}
  BY DEF TreasuryInit, HostInit, DeskShape, Idle
<1>2. \A h \in Hands : DeskKnows(h)
  BY DEF TreasuryInit, HostInit, DeskKnows, Idle, Doing
<1> QED
  BY <1>1, <1>2 DEF DeskInv, CorrectionsFormAChain

\* Every step of the desk keeps the invariant.
LEMMA StepDesk == DeskInv /\ [TreasuryNext]_treasuryVars => DeskInv'
<1> SUFFICES ASSUME DeskInv, [TreasuryNext]_treasuryVars PROVE DeskInv'
  OBVIOUS
<1>1. ASSUME NEW h \in Hands, Treasurer(h) PROVE DeskInv'
  BY <1>1, Begun, Collecting, Guarding, Issuing, Telling DEF Treasurer
<1>2. CASE UNCHANGED treasuryVars
  <2>1. UNCHANGED <<entries, receipts, bus, hand>> /\ EntriesGrow
    BY <1>2 DEF treasuryVars, treasuryRows, hostVars, EntriesGrow
  <2> QED
    BY <2>1, DeskStep DEF DeskInv, DeskShape
<1> QED
  BY <1>1, <1>2, AtOnce DEF TreasuryNext

\* What the desk's handlers know, and the papers they gave out, agree with the
\* ledger in every state.
THEOREM DeskInvariant == TreasurySpec => []DeskInv
  BY InitDesk, StepDesk, PTL DEF TreasurySpec

\* Corrections form a chain, and a standing covers the payment it goes with.
THEOREM PapersAlwaysAgree == TreasurySpec => []PapersAgree
<1>1. DeskInv => PapersAgree
  BY DEF DeskInv, PapersAgree, StandingCoversThePayment, PaperSaysSo
<1> QED
  BY DeskInvariant, <1>1, PTL

-----------------------------------------------------------------------------
(* All that moves or owes money: in each scene one part moves, by its own   *)
(* rules.                                                                  *)

\* Every step is one of each part, or leaves it alone.
LEMMA ScenesMoveOnePart ==
  [MoneyNext]_moneyVars => [FNext]_fundVars /\ [DNext]_duesVars /\ [StoreNext]_storeVars
BY DEF MoneyNext, moneyVars

\* MoneyTypeOK: the ledger, a dues row and an order keep their types, whichever
\* of them moves.
THEOREM MoneyTyped == MoneySpec => []MoneyTypeOK
<1>1. MoneyInit => FInit /\ DInit /\ StoreInit
  BY DEF MoneyInit
<1>2. FTypeOK /\ DTypeOK /\ StoreTypeOK => MoneyTypeOK
  BY DEF MoneyTypeOK
<1> QED BY <1>1, <1>2, ScenesMoveOnePart, FundTyped, DuesTyped, StoreTyped, PTL
        DEF MoneySpec, FSpec, DSpec, StoreSpec
=============================================================================
