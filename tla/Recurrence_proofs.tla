------------------------- MODULE Recurrence_proofs -------------------------
(***************************************************************************)
(* The expansion of a recurrence rule, period by period, is the series the *)
(* rule means, for every calendar of months and weeks, every rule that is  *)
(* accepted and every start, window and limit.                             *)
(*                                                                         *)
(* The candidates of a period are the days of that period the rule fits    *)
(* (CandidatesFit: an ordinal weekday by counting the weeks before and     *)
(* after it), so those of a later period come later (CandidatesAscend),    *)
(* and the walk takes the days of the series in order.  What it has found  *)
(* is then, candidate by candidate, the first `limit` days asked for of    *)
(* what UNTIL and COUNT let in (TakeKeeps), and taking the excluded dates  *)
(* out of as many more leaves the first of what is left (FirstLeft).       *)
(***************************************************************************)
EXTENDS Recurrence, TLAPS, FiniteSetTheorems, WellFoundedInduction, NaturalsInduction

(* Numbers: a least one, quotients and remainders.                         *)

\* A set of numbers from 0 that is not empty has a least one.
LEMMA Least ==
  ASSUME NEW S, S \subseteq Nat, S # {}
  PROVE  \E n \in S : \A m \in S : n <= m
<1>1. PICK n \in S : \A m \in S : ~ (<<m, n>> \in OpToRel(<, Nat))
  BY NatLessThanWellFounded, WFMin
<1>2. \A m \in S : m < n => <<m, n>> \in OpToRel(<, Nat)
  BY DEF OpToRel
<1>3. \A m \in S : n <= m
  <2> SUFFICES ASSUME NEW m \in S PROVE n <= m
    OBVIOUS
  <2>1. ~ (m < n)
    BY <1>1, <1>2
  <2> QED BY <2>1
<1> QED BY <1>3

\* A number is its quotient times the divisor and its remainder.
LEMMA Divided ==
  ASSUME NEW d \in Int, NEW L \in Nat \ {0}
  PROVE  /\ d \div L \in Int /\ d % L \in 0..L-1
         /\ d = (d \div L) * L + (d % L)
  OBVIOUS

\* And there is one such quotient and remainder.
LEMMA DividedOnce ==
  ASSUME NEW L \in Nat \ {0}, NEW q \in Int, NEW r \in 0..L-1
  PROVE  (q * L + r) \div L = q /\ (q * L + r) % L = r
<1> DEFINE d == q * L + r
<1>1. d \in Int OBVIOUS
<1>2. d = (d \div L) * L + (d % L) /\ d \div L \in Int /\ d % L \in 0..L-1
  BY <1>1, Divided
<1> HIDE DEF d
<1>3. PICK p, e : p = d \div L /\ e = d % L
  OBVIOUS
<1>4. (p - q) * L = r - e
  BY <1>1, <1>2, <1>3 DEF d
<1>5. p = q
  <2>0. e \in 0..L-1 /\ p \in Int
    BY <1>2, <1>3
  <2>1. r - e < L /\ e - r < L /\ p - q \in Int /\ p \in Int /\ e \in Int /\ r \in Int
    BY <2>0
  <2>2. CASE p - q >= 1
    <3>1. (p - q) * L >= L
      BY <2>1, <2>2
    <3> QED BY <1>4, <2>1, <3>1
  <2>3. CASE q - p >= 1
    <3>1. (q - p) * L >= L
      BY <2>1, <2>3
    <3>2. (q - p) * L = e - r
      BY <1>4, <2>1
    <3> QED BY <2>1, <3>1, <3>2
  <2> QED BY <2>1, <2>2, <2>3
<1> QED BY <1>3, <1>4, <1>5, <1>2 DEF d

-----------------------------------------------------------------------------
(* The calendar: every day has one month.                                  *)

\* A first day for each of the months 0..n.
LaysTo(F, n) == F = [m \in 0..n |-> IF m = 0 THEN 0 ELSE F[m-1] + MonthLength(m-1)]

\* Every month of the cycle has days.
LEMMA MonthHasDays == ASSUME NEW m \in Nat PROVE MonthLength(m) \in Nat \ {0}
<1>1. Len(MonthLengths) \in Nat \ {0}
  BY RecurrenceAssumption
<1>2. PICK n : n = Len(MonthLengths)
  OBVIOUS
<1>3. m % n \in 0..n - 1
  <2>1. n \in Nat \ {0} /\ m \in Int
    BY <1>1, <1>2
  <2> QED BY <2>1, Divided
<1>4. (m % n) + 1 \in DOMAIN MonthLengths
  BY <1>1, <1>2, <1>3, RecurrenceAssumption
<1> QED BY <1>2, <1>4, RecurrenceAssumption DEF MonthLength

\* The calendar is laid out: the equation of FirstDay has a solution, which is chosen.
LEMMA Laid == LaysTo(FirstDay, LastMonth + 1)
<1>1. ASSUME NEW n \in Nat PROVE \E F : LaysTo(F, n)
  <2> DEFINE Bad == {i \in Nat : ~ \E F : LaysTo(F, i)}
  <2>1. SUFFICES ASSUME Bad # {} PROVE FALSE
    BY <1>1
  <2>2. PICK i \in Bad : \A j \in Bad : i <= j
    BY <2>1, Least
  <2>3. CASE i = 0
    <3>1. PICK F : F = [m \in 0..0 |-> 0]
      OBVIOUS
    <3>2. LaysTo(F, 0)
      BY <3>1 DEF LaysTo
    <3> QED BY <2>3, <3>2
  <2>4. CASE i # 0
    <3>1. PICK F : LaysTo(F, i - 1)
      BY <2>2, <2>4
    <3>2. PICK G : G = [m \in 0..i |-> IF m = i THEN F[m-1] + MonthLength(m-1) ELSE F[m]]
      OBVIOUS
    <3>3. ASSUME NEW m \in 0..i PROVE G[m] = IF m = 0 THEN 0 ELSE G[m-1] + MonthLength(m-1)
      <4>1. \A k \in 0..i - 1 : F[k] = IF k = 0 THEN 0 ELSE F[k-1] + MonthLength(k-1)
        BY <3>1 DEF LaysTo
      <4>2. \A k \in 0..i : G[k] = IF k = i THEN F[k-1] + MonthLength(k-1) ELSE F[k]
        BY <3>2
      <4>3. m # 0 => m - 1 \in 0..i-1 /\ G[m-1] = F[m-1]
        BY <4>2
      <4>4. m # i => m \in 0..i-1
        OBVIOUS
      <4> QED BY <2>4, <4>1, <4>2, <4>3, <4>4
    <3>4. LaysTo(G, i)
      BY <3>2, <3>3 DEF LaysTo
    <3> QED BY <2>2, <3>4
  <2> QED BY <2>3, <2>4
<1>2. \E F : LaysTo(F, LastMonth + 1)
  BY <1>1, RecurrenceAssumption
<1>3. FirstDay = CHOOSE F : LaysTo(F, LastMonth + 1)
  BY DEF FirstDay, LaysTo
<1> QED BY <1>2, <1>3

\* The months, their days, and the days of the calendar.
Months == 0..LastMonth
MonthDays(m) == FirstDay[m]..FirstDay[m+1] - 1
Dates == 0..FirstDay[LastMonth + 1] - 1

\* The first month begins at day 0, and each other one where the one before it ends.
LEMMA FirstDays ==
  /\ FirstDay[0] = 0
  /\ \A m \in Months : FirstDay[m+1] = FirstDay[m] + MonthLength(m)
  /\ \A m \in 0..LastMonth + 1 : FirstDay[m] \in Nat
<1>1. \A m \in 0..LastMonth + 1 : FirstDay[m] = IF m =
          0 THEN 0 ELSE FirstDay[m-1] + MonthLength(m-1)
  BY Laid DEF LaysTo
<1>2. LastMonth \in Nat
  BY RecurrenceAssumption
<1>3. \A m \in Months : FirstDay[m+1] = FirstDay[m] + MonthLength(m)
  <2> SUFFICES ASSUME NEW m \in Months PROVE FirstDay[m+1] = FirstDay[m] + MonthLength(m)
    OBVIOUS
  <2>1. m + 1 \in 0..LastMonth + 1 /\ m + 1 # 0 /\ (m + 1) - 1 = m
    BY <1>2 DEF Months
  <2> QED BY <1>1, <2>1
<1>4. FirstDay[0] = 0
  BY <1>1, <1>2
<1>5. ASSUME NEW m \in 0..LastMonth + 1 PROVE FirstDay[m] \in Nat
  <2> DEFINE Bad == {i \in 0..LastMonth + 1 : FirstDay[i] \notin Nat}
  <2>1. SUFFICES ASSUME Bad # {} PROVE FALSE
    BY <1>5
  <2>2. PICK i \in Bad : \A j \in Bad : i <= j
    <3>1. Bad \subseteq Nat
      BY <1>2
    <3> HIDE DEF Bad
    <3> QED BY <2>1, <3>1, Least
  <2>3. i # 0 /\ i - 1 \in Months /\ i = (i - 1) + 1 /\ FirstDay[i - 1] \in Nat
    BY <1>2, <1>4, <2>2 DEF Months
  <2>4. MonthLength(i - 1) \in Nat
    BY <2>3, <1>2, MonthHasDays DEF Months
  <2>5. FirstDay[i] = FirstDay[i-1] + MonthLength(i-1)
    BY <1>3, <2>3
  <2> QED BY <2>2, <2>3, <2>4, <2>5
<1> QED BY <1>3, <1>4, <1>5

\* A later month begins at a later day.
LEMMA MonthsFollow ==
  ASSUME NEW m \in 0..LastMonth + 1, NEW n \in 0..LastMonth + 1, m < n
  PROVE  FirstDay[m] < FirstDay[n]
<1> DEFINE Bad == {i \in 0..LastMonth + 1 : m < i /\ ~ (FirstDay[m] < FirstDay[i])}
<1>0. LastMonth \in Nat
  BY RecurrenceAssumption
<1>1. SUFFICES ASSUME Bad # {} PROVE FALSE
  OBVIOUS
<1>2. PICK i \in Bad : \A j \in Bad : i <= j
  <2>1. Bad \subseteq Nat
    BY <1>0
  <2> HIDE DEF Bad
  <2> QED BY <1>1, <2>1, Least
<1>3. PICK j : j = i - 1
  OBVIOUS
<1>4. j \in Months /\ m <= j /\ i = j + 1 /\ j \in 0..LastMonth + 1
  BY <1>0, <1>2, <1>3 DEF Months
<1>5. FirstDay[i] = FirstDay[j] + MonthLength(j) /\ MonthLength(j) \in Nat \ {0}
  BY <1>0, <1>4, FirstDays, MonthHasDays DEF Months
<1>6. FirstDay[m] \in Nat /\ FirstDay[j] \in Nat /\ FirstDay[i] \in Nat
  BY <1>2, <1>4, FirstDays
<1>7. m = j \/ FirstDay[m] < FirstDay[j]
  BY <1>2, <1>4
<1>8. FirstDay[m] < FirstDay[i]
  BY <1>5, <1>6, <1>7
<1> QED BY <1>2, <1>8

\* A day of a month is in that month, and its number is counted from its first day.
LEMMA MonthOfIs ==
  ASSUME NEW m \in Months, NEW d \in MonthDays(m)
  PROVE  MonthOf(d) = m /\ DayOf(d) = d - FirstDay[m] + 1
<1>0. LastMonth \in Nat
  BY RecurrenceAssumption
<1>1. ASSUME NEW n \in 0..LastMonth, FirstDay[n] <= d, d < FirstDay[n+1]
      PROVE  n = m
  <2>1. m \in 0..LastMonth + 1 /\ n \in 0..LastMonth + 1 /\ m + 1 \in 0..LastMonth + 1 /\
            n + 1 \in 0..LastMonth + 1
    BY <1>0 DEF Months
  <2>2. d \in Int /\ FirstDay[m] <= d /\ d < FirstDay[m+1]
    BY FirstDays, <2>1 DEF MonthDays
  <2>3. CASE n < m
    <3>1. FirstDay[n+1] <= FirstDay[m]
      <4>1. n + 1 = m \/ n + 1 < m
        BY <2>1, <2>3
      <4> QED BY <4>1, <2>1, MonthsFollow, FirstDays
    <3> QED BY <3>1, <2>1, <2>2, <1>1, FirstDays
  <2>4. CASE m < n
    <3>1. FirstDay[m+1] <= FirstDay[n]
      <4>1. m + 1 = n \/ m + 1 < n
        BY <2>1, <2>4
      <4> QED BY <4>1, <2>1, MonthsFollow, FirstDays
    <3> QED BY <3>1, <2>1, <2>2, <1>1, FirstDays
  <2> QED BY <2>1, <2>3, <2>4
<1>2. m \in 0..LastMonth /\ FirstDay[m] <= d /\ d < FirstDay[m+1]
  <2>1. m \in 0..LastMonth + 1 /\ m + 1 \in 0..LastMonth + 1 /\ m \in 0..LastMonth
    BY <1>0 DEF Months
  <2> QED BY <2>1, FirstDays DEF MonthDays
<1>3. MonthOf(d) = m
  BY <1>1, <1>2 DEF MonthOf
<1> QED BY <1>3 DEF DayOf

\* Every day of the calendar is a day of its month, and is named by both.
LEMMA EveryDayHasAMonth ==
  ASSUME NEW d \in Dates
  PROVE  /\ MonthOf(d) \in Months /\ d \in MonthDays(MonthOf(d))
         /\ DayOf(d) \in 1..MonthLength(MonthOf(d)) /\ d = FirstDay[MonthOf(d)] + DayOf(d) - 1
<1>0. LastMonth \in Nat
  BY RecurrenceAssumption
<1> DEFINE Over == {i \in 0..LastMonth + 1 : d < FirstDay[i]}
<1>1. LastMonth + 1 \in Over
  BY <1>0, FirstDays DEF Dates
<1>2. PICK i \in Over : \A j \in Over : i <= j
  <2>1. Over \subseteq Nat
    BY <1>0
  <2> HIDE DEF Over
  <2> QED BY <1>1, <2>1, Least
<1>3. PICK m : m = i - 1
  OBVIOUS
<1>4. i # 0
  BY <1>2, FirstDays DEF Dates
<1>5. m \in Months /\ m + 1 = i /\ m \in 0..LastMonth + 1 /\ m \in Nat
  BY <1>0, <1>2, <1>3, <1>4 DEF Months
<1>6. d \in Int /\ FirstDay[m] \in Nat /\ FirstDay[i] \in Nat /\ FirstDay[LastMonth + 1] \in Nat
  BY <1>0, <1>2, <1>5, FirstDays DEF Dates
<1>7. ~ (d < FirstDay[m])
  <2>1. m \notin Over
    BY <1>2, <1>3, <1>5
  <2> QED BY <1>5, <2>1
<1>8. d \in MonthDays(m)
  BY <1>2, <1>5, <1>6, <1>7 DEF MonthDays
<1>9. MonthOf(d) = m /\ DayOf(d) = d - FirstDay[m] + 1
  BY <1>5, <1>8, MonthOfIs
<1>10. FirstDay[i] = FirstDay[m] + MonthLength(m) /\ MonthLength(m) \in Nat
  BY <1>5, FirstDays, MonthHasDays
<1> QED BY <1>2, <1>5, <1>6, <1>7, <1>8, <1>9, <1>10

\* A later month begins later.
LEMMA MonthsAscend ==
  ASSUME NEW d \in Dates, NEW e \in Dates, d <= e
  PROVE  MonthOf(d) <= MonthOf(e)
<1>1. PICK m, n : m = MonthOf(d) /\ n = MonthOf(e)
  OBVIOUS
<1>2. m \in Months /\ n \in Months /\ d \in MonthDays(m) /\ e \in MonthDays(n)
  BY <1>1, EveryDayHasAMonth
<1>3. LastMonth \in Nat
  BY RecurrenceAssumption
<1>4. m \in 0..LastMonth + 1 /\ n \in 0..LastMonth + 1 /\ m + 1 \in 0..LastMonth + 1 /\
          n + 1 \in 0..LastMonth + 1
  BY <1>2, <1>3 DEF Months
<1>5. d \in Int /\ e \in Int /\ FirstDay[m] <= d /\ e < FirstDay[n + 1] /\
          FirstDay[m] \in Nat /\ FirstDay[n + 1] \in Nat
  BY <1>2, <1>4, FirstDays DEF MonthDays
<1>6. CASE n < m
  <2>1. FirstDay[n+1] <= FirstDay[m]
    <3>1. n + 1 = m \/ n + 1 < m
      BY <1>4, <1>6
    <3> QED BY <3>1, <1>4, <1>5, MonthsFollow
  <2> QED BY <1>5, <2>1
<1> QED BY <1>1, <1>4, <1>6

-----------------------------------------------------------------------------
(* Weeks: the days a whole number of weeks away.                           *)

\* Remainders of a difference.
LEMMA RestOfDifference ==
  ASSUME NEW L \in Nat \ {0}, NEW a \in Int, NEW b \in Int
  PROVE  ((a % L) - (b % L)) % L = (a - b) % L
<1>1. PICK p, r, q, t : p = a \div L /\ r = a % L /\ q = b \div L /\ t = b % L
  OBVIOUS
<1>2. p \in Int /\ q \in Int /\ r \in 0..L-1 /\ t \in 0..L-1 /\ a = p * L + r /\ b = q * L + t
  BY <1>1, Divided
<1>3. PICK x, y : x = (r - t) \div L /\ y = (r - t) % L
  OBVIOUS
<1>4. x \in Int /\ y \in 0..L-1 /\ r - t = x * L + y
  <2>1. r - t \in Int
    BY <1>2
  <2> QED BY <1>3, <2>1, Divided
<1>5. a - b = (p - q + x) * L + y
  BY <1>2, <1>4
<1>6. p - q + x \in Int
  BY <1>2, <1>4
<1>7. ((p - q + x) * L + y) % L = y
  BY <1>4, <1>6, DividedOnce
<1> QED BY <1>1, <1>3, <1>5, <1>7

\* Two days have the same weekday if and only if whole weeks lie between them.
LEMMA SameRest ==
  ASSUME NEW L \in Nat \ {0}, NEW a \in Int, NEW b \in Int
  PROVE  a % L = b % L <=> \E i \in Int : a = b + i * L
<1>1. PICK p, r, q, t : p = a \div L /\ r = a % L /\ q = b \div L /\ t = b % L
  OBVIOUS
<1>2. p \in Int /\ q \in Int /\ r \in 0..L-1 /\ t \in 0..L-1 /\ a = p * L + r /\ b = q * L + t
  BY <1>1, Divided
<1>3. ASSUME r = t PROVE \E i \in Int : a = b + i * L
  <2>1. p - q \in Int /\ a = b + (p - q) * L
    BY <1>2, <1>3
  <2> QED BY <2>1
<1>4. ASSUME NEW i \in Int, a = b + i * L PROVE r = t
  <2>1. a = (q + i) * L + t /\ q + i \in Int
    BY <1>2, <1>4
  <2>2. a % L = t
    BY <1>2, <2>1, DividedOnce
  <2> QED BY <1>1, <2>2
<1> QED BY <1>1, <1>3, <1>4

\* The days from a to d that are whole weeks before d.
LEMMA WeeksBack ==
  ASSUME NEW L \in Nat \ {0}, NEW a \in Int, NEW d \in Int, a <= d
  PROVE  Cardinality({e \in a..d : e % L = d % L}) = ((d - a) \div L) + 1
<1>1. PICK n, r : n = (d - a) \div L /\ r = (d - a) % L
  OBVIOUS
<1>2. n \in Nat /\ r \in 0..L-1 /\ d - a = n * L + r
  <2>1. d - a \in Int /\ d - a >= 0
    OBVIOUS
  <2>2. n \in Int /\ r \in 0..L-1 /\ d - a = n * L + r
    BY <1>1, <2>1, Divided
  <2>3. n >= 0
    <3>1. SUFFICES ASSUME n <= -1 PROVE FALSE
      BY <2>2
    <3>2. n * L <= -L
      BY <2>2, <3>1
    <3> QED BY <2>1, <2>2, <3>2
  <2> QED BY <2>2, <2>3
<1>3. PICK S : S = {e \in a..d : e % L = d % L}
  OBVIOUS
<1>4. PICK f : f = [i \in 0..n |-> d - i * L]
  OBVIOUS
<1>5. \A i \in 0..n : f[i] \in S
  <2> SUFFICES ASSUME NEW i \in 0..n PROVE f[i] \in S
    OBVIOUS
  <2>1. f[i] = d - i * L /\ i * L \in Nat /\ i * L <= n * L
    BY <1>2, <1>4
  <2>2. f[i] \in a..d
    BY <1>2, <2>1
  <2>3. -i \in Int /\ f[i] = d + (-i) * L
    BY <2>1
  <2>4. f[i] % L = d % L
    <3>1. PICK x, k : x = f[i] /\ k = -i
      OBVIOUS
    <3>2. x \in Int /\ k \in Int /\ x = d + k * L
      BY <2>2, <2>3, <3>1
    <3>3. x % L = d % L
      BY <3>2, SameRest
    <3> QED BY <3>1, <3>3
  <2> QED BY <1>3, <2>2, <2>4
<1>6. \A i, j \in 0..n : f[i] = f[j] => i = j
  <2> SUFFICES ASSUME NEW i \in 0..n, NEW j \in 0..n, f[i] = f[j], i < j PROVE FALSE
    BY <1>2
  <2>1. (j - i) * L >= L
    BY <1>2
  <2>2. f[i] = d - i * L /\ f[j] = d - j * L /\ i \in Int /\ j \in Int
    BY <1>4
  <2>3. (j - i) * L = 0
    <3>1. i * L \in Int /\ j * L \in Int /\ (j - i) * L = j * L - i * L
      BY <2>2
    <3>2. d - i * L = d - j * L
      BY <2>2
    <3> QED BY <3>1, <3>2
  <2> QED BY <2>1, <2>3
<1>7. \A e \in S : \E i \in 0..n : f[i] = e
  <2> SUFFICES ASSUME NEW e \in S PROVE \E i \in 0..n : f[i] = e
    OBVIOUS
  <2>1. e \in Int /\ a <= e /\ e <= d /\ e % L = d % L
    BY <1>3
  <2>2. PICK i \in Int : d = e + i * L
    BY <2>1, SameRest
  <2>3. i >= 0
    <3>1. SUFFICES ASSUME i <= -1 PROVE FALSE
      BY <2>2
    <3>2. i * L <= -L
      BY <3>1
    <3> QED BY <2>1, <2>2, <3>2
  <2>4. i <= n
    <3>1. SUFFICES ASSUME i >= n + 1 PROVE FALSE
      BY <1>2
    <3>2. i * L >= (n + 1) * L
      BY <1>2, <3>1
    <3>3. (n + 1) * L = n * L + L
      BY <1>2
    <3> QED BY <1>2, <2>1, <2>2, <3>2, <3>3
  <2>5. f[i] = e
    BY <1>4, <1>2, <2>1, <2>2, <2>3, <2>4
  <2> QED BY <2>3, <2>4, <2>5, <1>2
<1>8. f \in Bijection(0..n, S)
  <2>1. f \in [0..n -> S]
    BY <1>4, <1>5
  <2> QED BY <1>6, <1>7, <2>1 DEF Bijection, Injection, Surjection, IsInjective
<1>9. IsFiniteSet(0..n) /\ Cardinality(0..n) = n + 1
  BY <1>2, FS_Interval
<1> QED BY <1>1, <1>3, <1>8, <1>9, FS_Bijection DEF ExistsBijection

\* Those from d to b that are whole weeks after it.
LEMMA WeeksAhead ==
  ASSUME NEW L \in Nat \ {0}, NEW b \in Int, NEW d \in Int, d <= b
  PROVE  Cardinality({e \in d..b : e % L = d % L}) = ((b - d) \div L) + 1
<1>1. PICK S, T : S = {e \in (-b)..(-d) : e % L = (-d) % L} /\ T = {e \in d..b : e % L = d % L}
  OBVIOUS
<1>2. Cardinality(S) = (((-d) - (-b)) \div L) + 1
  <2>1. PICK x, y : x = -b /\ y = -d
    OBVIOUS
  <2>2. x \in Int /\ y \in Int /\ x <= y
    BY <2>1
  <2>3. Cardinality({e \in x..y : e % L = y % L}) = ((y - x) \div L) + 1
    BY <2>2, WeeksBack
  <2> QED BY <1>1, <2>1, <2>3
<1>3. (-d) - (-b) = b - d
  OBVIOUS
<1>4. \A e \in Int : e % L = d % L <=> (-e) % L = (-d) % L
  <2> SUFFICES ASSUME NEW e \in Int PROVE e % L = d % L <=> (-e) % L = (-d) % L
    OBVIOUS
  <2>1. \A i \in Int : e = d + i * L <=> -e = -d + (-i) * L
    OBVIOUS
  <2>2. \A i \in Int : -i \in Int /\ -(-i) = i
    OBVIOUS
  <2>3. (\E i \in Int : e = d + i * L) <=> (\E i \in Int : -e = -d + i * L)
    <3>1. ASSUME NEW i \in Int, -e = -d + i * L PROVE e = d + (-i) * L /\ -i \in Int
      BY <3>1
    <3> QED BY <2>1, <2>2, <3>1
  <2>4. PICK x, y : x = -e /\ y = -d
    OBVIOUS
  <2>5. x \in Int /\ y \in Int
    BY <2>4
  <2>6. e % L = d % L <=> \E i \in Int : e = d + i * L
    BY SameRest
  <2>7. x % L = y % L <=> \E i \in Int : x = y + i * L
    BY <2>5, SameRest
  <2> QED BY <2>3, <2>4, <2>6, <2>7
<1>5. PICK f : f = [e \in S |-> -e]
  OBVIOUS
<1>6. f \in Bijection(S, T)
  <2>1. \A e \in S : f[e] \in T /\ f[e] = -e /\ e \in Int
    <3> SUFFICES ASSUME NEW e \in S PROVE f[e] \in T /\ f[e] = -e /\ e \in Int
      OBVIOUS
    <3>1. e \in Int /\ -b <= e /\ e <= -d /\ e % L = (-d) % L /\ f[e] = -e
      BY <1>1, <1>5
    <3>2. -e \in d..b /\ -(-e) = e
      BY <3>1
    <3>3. (-e) % L = d % L
      BY <1>4, <3>1, <3>2
    <3> QED BY <1>1, <3>1, <3>2, <3>3
  <2>2. \A t \in T : -t \in S /\ -(-t) = t
    <3> SUFFICES ASSUME NEW t \in T PROVE -t \in S /\ -(-t) = t
      OBVIOUS
    <3>1. t \in Int /\ d <= t /\ t <= b /\ t % L = d % L
      BY <1>1
    <3>2. -t \in (-b)..(-d) /\ -(-t) = t
      BY <3>1
    <3> QED BY <1>1, <1>4, <3>1, <3>2
  <2>3. \A t \in T : \E e \in S : f[e] = t
    BY <2>1, <2>2
  <2>4. \A i, j \in S : f[i] = f[j] => i = j
    BY <2>1
  <2>5. f \in [S -> T]
    BY <1>5, <2>1
  <2> QED BY <2>3, <2>4, <2>5 DEF Bijection, Injection, Surjection, IsInjective
<1>7. IsFiniteSet(S)
  <2>1. IsFiniteSet((-b)..(-d))
    BY FS_Interval
  <2> QED BY <1>1, <2>1, FS_Subset
<1>8. Cardinality(T) = Cardinality(S)
  BY <1>6, <1>7, FS_Bijection DEF ExistsBijection
<1> QED BY <1>1, <1>2, <1>3, <1>8

-----------------------------------------------------------------------------
(* The days a rule names in a month.                                       *)

\* from_ymd_opt: the month's day of that number, if it has one.
LEMMA DayNamed ==
  ASSUME NEW m \in Months, NEW day \in Int, NEW d \in Int
  PROVE  d \in OnDay(m, day) <=> d \in MonthDays(m) /\ DayOf(d) = day
<1>1. /\ FirstDay[m] \in Nat /\ FirstDay[m+1] = FirstDay[m] + MonthLength(m)
      /\ MonthLength(m) \in Nat
  BY RecurrenceAssumption, FirstDays, MonthHasDays, SMTT(60) DEF Months
<1>2. d \in MonthDays(m) => DayOf(d) = d - FirstDay[m] + 1
  BY MonthOfIs
<1>3. d \in MonthDays(m) <=> FirstDay[m] <= d /\ d <= FirstDay[m+1] - 1
  BY <1>1 DEF MonthDays
<1>4. d \in OnDay(m, day) <=> 1 <= day /\ day <= MonthLength(m) /\ d = FirstDay[m] + day - 1
  BY <1>1 DEF OnDay
<1> QED BY <1>1, <1>2, <1>3, <1>4

\* BYMONTHDAY.
LEMMA MonthDayNamed ==
  ASSUME NEW m \in Months, NEW days, days \subseteq Int \ {0}, NEW d \in Int
  PROVE  d \in UNION {ResolveMonthDay(m, day) : day \in days} <=>
         d \in MonthDays(m) /\ (DayOf(d) \in days \/ DayOf(d) - MonthLength(m) - 1 \in days)
<1>1. MonthLength(m) \in Nat
  BY RecurrenceAssumption, MonthHasDays DEF Months
<1>2. ASSUME NEW day \in days
      PROVE  d \in ResolveMonthDay(m, day) <=>
             d \in MonthDays(m) /\ DayOf(d) = IF day > 0 THEN day ELSE MonthLength(m) + 1 + day
  <2>1. (IF day > 0 THEN day ELSE MonthLength(m) + 1 + day) \in Int
    BY <1>1
  <2> QED BY <2>1, DayNamed DEF ResolveMonthDay
<1>3. d \in MonthDays(m) => DayOf(d) \in Int /\ 1 <= DayOf(d) /\ DayOf(d) <= MonthLength(m)
  <2> SUFFICES ASSUME d \in MonthDays(m) PROVE DayOf(d) \in Int /\ 1 <= DayOf(d) /\
          DayOf(d) <= MonthLength(m)
    OBVIOUS
  <2>1. DayOf(d) = d - FirstDay[m] + 1
    BY MonthOfIs
  <2>2. FirstDay[m] \in Nat /\ FirstDay[m+1] = FirstDay[m] + MonthLength(m)
    BY RecurrenceAssumption, FirstDays DEF Months
  <2> QED BY <1>1, <2>1, <2>2 DEF MonthDays
<1>4. ASSUME NEW day \in days, d \in ResolveMonthDay(m, day)
      PROVE  d \in MonthDays(m) /\ (DayOf(d) \in days \/ DayOf(d) - MonthLength(m) - 1 \in days)
  <2>1. CASE day > 0
    BY <1>2, <1>4, <2>1
  <2>2. CASE ~ (day > 0)
    <3>1. d \in MonthDays(m) /\ DayOf(d) = MonthLength(m) + 1 + day
      BY <1>2, <1>4, <2>2
    <3>2. DayOf(d) - MonthLength(m) - 1 = day
      BY <1>1, <3>1
    <3> QED BY <3>1, <3>2
  <2> QED BY <2>1, <2>2
<1>5. ASSUME d \in MonthDays(m), DayOf(d) \in days
      PROVE  d \in ResolveMonthDay(m, DayOf(d))
  BY <1>2, <1>3, <1>5
<1>6. ASSUME d \in MonthDays(m), DayOf(d) - MonthLength(m) - 1 \in days
      PROVE  d \in ResolveMonthDay(m, DayOf(d) - MonthLength(m) - 1)
  <2>1. PICK day : day = DayOf(d) - MonthLength(m) - 1
    OBVIOUS
  <2>2. ~ (day > 0) /\ DayOf(d) = MonthLength(m) + 1 + day
    BY <1>1, <1>3, <1>6, <2>1
  <2> QED BY <1>2, <1>6, <2>1, <2>2
<1> QED BY <1>4, <1>5, <1>6

\* The days of a week.
Weekdays == 0..WeekLen - 1

\* n weeks after the first day of weekday w at or after a, and as many before the
\* last one at or before b, is the day d.
WeeksAfter(L, a, d, w, n) ==
  d - a = ((w - (a % L)) % L) + n * L <=> d % L = w /\ n = (d - a) \div L
WeeksBefore(L, b, d, w, n) ==
  b - d = (((b % L) - w) % L) + n * L <=> d % L = w /\ n = (b - d) \div L

\* The first day of a weekday at or after a day: how many weeks lie between it and
\* another of them.
LEMMA WeekdayAfter ==
  ASSUME NEW L \in Nat \ {0}, NEW a \in Int, NEW d \in Int, NEW w \in 0..L-1, NEW n \in Int
  PROVE  WeeksAfter(L, a, d, w, n)
<1>1. PICK o, x, y : o = (w - (a % L)) % L /\ x = d - a /\ y = w - a
  OBVIOUS
<1>t. w \in Int /\ x \in Int /\ y \in Int /\ d = x + a /\ w = y + a
  BY <1>1
<1>2. o \in 0..L-1 /\ w % L = w
  <2>1. PICK c : c = a % L
    OBVIOUS
  <2>2. c \in Int
    BY <2>1, Divided
  <2>3. PICK v : v = w - c
    OBVIOUS
  <2>4. v \in Int
    BY <1>t, <2>2, <2>3
  <2>5. v % L \in 0..L-1
    BY <2>4, Divided
  <2>6. w = 0 * L + w /\ (0 * L + w) % L = w
    BY <1>t, DividedOnce
  <2> QED BY <1>1, <2>1, <2>3, <2>5, <2>6
<1>3. o = y % L
  <2>1. ((w % L) - (a % L)) % L = (w - a) % L
    BY <1>t, RestOfDifference
  <2> QED BY <1>1, <1>2, <2>1
<1>4. ASSUME x = o + n * L PROVE d % L = w /\ n = x \div L
  <2>1. (n * L + o) \div L = n /\ (n * L + o) % L = o
    BY <1>2, DividedOnce
  <2>2. x = n * L + o
    BY <1>2, <1>4
  <2>3. x % L = y % L
    BY <1>3, <2>1, <2>2
  <2>5. PICK i \in Int : x = y + i * L
    BY <1>t, <2>3, SameRest
  <2>6. d = w + i * L
    <3>1. i * L \in Int
      OBVIOUS
    <3> QED BY <1>t, <2>5, <3>1
  <2>7. d % L = w % L
    BY <1>t, <2>6, SameRest, ZenonT(60)
  <2> QED BY <1>2, <2>1, <2>2, <2>7
<1>5. ASSUME d % L = w, n = x \div L PROVE x = o + n * L
  <2>0. d % L = w % L
    BY <1>2, <1>5
  <2>1. PICK i \in Int : d = w + i * L
    BY <2>0, <1>t, SameRest
  <2>2. x = y + i * L
    <3>1. i * L \in Int
      OBVIOUS
    <3> QED BY <1>1, <1>t, <2>1, <3>1
  <2>3. x % L = y % L
    BY <1>t, <2>2, SameRest
  <2>4. x = (x \div L) * L + (x % L) /\ x % L \in Int
    BY <1>t, Divided
  <2>5. n * L \in Int
    OBVIOUS
  <2> QED BY <1>3, <1>5, <2>3, <2>4, <2>5
<1> QED BY <1>1, <1>4, <1>5 DEF WeeksAfter

\* The last day of a weekday at or before a day: how many weeks lie between it and
\* another of them.
LEMMA WeekdayBefore ==
  ASSUME NEW L \in Nat \ {0}, NEW b \in Int, NEW d \in Int, NEW w \in 0..L-1, NEW n \in Int
  PROVE  WeeksBefore(L, b, d, w, n)
<1>1. PICK o, x, y : o = ((b % L) - w) % L /\ x = b - d /\ y = b - w
  OBVIOUS
<1>t. w \in Int /\ x \in Int /\ y \in Int /\ d = b - x /\ w = b - y
  BY <1>1
<1>2. o \in 0..L-1 /\ w % L = w
  <2>1. PICK c : c = b % L
    OBVIOUS
  <2>2. c \in Int
    BY <2>1, Divided
  <2>3. PICK v : v = c - w
    OBVIOUS
  <2>4. v \in Int
    BY <1>t, <2>2, <2>3
  <2>5. v % L \in 0..L-1
    BY <2>4, Divided
  <2>6. w = 0 * L + w /\ (0 * L + w) % L = w
    BY <1>t, DividedOnce
  <2> QED BY <1>1, <2>1, <2>3, <2>5, <2>6
<1>3. o = y % L
  <2>1. ((b % L) - (w % L)) % L = (b - w) % L
    BY <1>t, RestOfDifference
  <2> QED BY <1>1, <1>2, <2>1
<1>4. ASSUME x = o + n * L PROVE d % L = w /\ n = x \div L
  <2>1. (n * L + o) \div L = n /\ (n * L + o) % L = o
    BY <1>2, DividedOnce
  <2>2. x = n * L + o
    BY <1>2, <1>4
  <2>3. x % L = y % L
    BY <1>3, <2>1, <2>2
  <2>5. PICK i \in Int : y = x + i * L
    BY <1>t, <2>3, SameRest
  <2>6. d = w + i * L
    <3>1. i * L \in Int
      OBVIOUS
    <3> QED BY <1>t, <2>5, <3>1
  <2>7. d % L = w % L
    BY <1>t, <2>6, SameRest, ZenonT(60)
  <2> QED BY <1>2, <2>1, <2>2, <2>7
<1>5. ASSUME d % L = w, n = x \div L PROVE x = o + n * L
  <2>0. d % L = w % L
    BY <1>2, <1>5
  <2>1. PICK i \in Int : d = w + i * L
    BY <2>0, <1>t, SameRest, ZenonT(60)
  <2>2. y = x + i * L
    <3>1. i * L \in Int
      OBVIOUS
    <3> QED BY <1>1, <1>t, <2>1, <3>1
  <2>3. x % L = y % L
    BY <1>t, <2>2, SameRest
  <2>4. x = (x \div L) * L + (x % L) /\ x % L \in Int
    BY <1>t, Divided
  <2>5. n * L \in Int
    OBVIOUS
  <2> QED BY <1>3, <1>5, <2>3, <2>4, <2>5
<1> QED BY <1>1, <1>4, <1>5 DEF WeeksBefore

\* How many of d's weekday its month has up to d, and from it on.
LEMMA CountAlike ==
  ASSUME NEW m \in Months, NEW d \in MonthDays(m)
  PROVE  /\ Rank(d, Alike(d)) = ((d - FirstDay[m]) \div WeekLen) + 1
         /\ Cardinality({e \in Alike(d) : e >= d}) = ((FirstDay[m+1] - 1 - d) \div WeekLen) + 1
<1>1. FirstDay[m] \in Nat /\ FirstDay[m+1] \in Nat /\ d \in Int
      /\ FirstDay[m] <= d /\ d <= FirstDay[m+1] - 1
  <2>1. m \in 0..LastMonth + 1 /\ m + 1 \in 0..LastMonth + 1
    BY RecurrenceAssumption DEF Months
  <2> QED BY <2>1, FirstDays DEF MonthDays
<1>2. Alike(d) = {e \in FirstDay[m]..FirstDay[m+1] - 1 : e % WeekLen = d % WeekLen}
  BY MonthOfIs DEF Alike, Weekday
<1>3. WeekLen \in Nat \ {0}
  BY RecurrenceAssumption
<1>4. {e \in Alike(d) : e <= d} = {e \in FirstDay[m]..d : e % WeekLen = d % WeekLen}
  BY <1>1, <1>2
<1>5. {e \in Alike(d) : e >= d} = {e \in d..FirstDay[m+1] - 1 : e % WeekLen = d % WeekLen}
  BY <1>1, <1>2
<1>a. PICK a : a = FirstDay[m]
  OBVIOUS
<1>6. Cardinality({e \in a..d : e % WeekLen = d % WeekLen}) = ((d - a) \div WeekLen) + 1
  <2>1. a \in Int /\ a <= d /\ d \in Int
    BY <1>1, <1>a
  <2> QED BY <1>3, <2>1, WeeksBack
<1>7. PICK b : b = FirstDay[m+1] - 1
  OBVIOUS
<1>8. Cardinality({e \in d..b : e % WeekLen = d % WeekLen}) = ((b - d) \div WeekLen) + 1
  <2>1. b \in Int /\ d <= b
    BY <1>1, <1>7
  <2> QED BY <1>1, <1>3, <2>1, WeeksAhead
<1> QED BY <1>4, <1>5, <1>a, <1>6, <1>7, <1>8 DEF Rank

-----------------------------------------------------------------------------
(* An ordinal, and the candidates of a month.                              *)

\* A quotient of a number from 0 on.
LEMMA QuotientFromZero ==
  ASSUME NEW L \in Nat \ {0}, NEW d \in Nat
  PROVE  d \div L \in Nat
<1>1. PICK q, r : q = d \div L /\ r = d % L
  OBVIOUS
<1>2. q \in Int /\ r \in 0..L-1 /\ d = q * L + r
  BY <1>1, Divided
<1>3. SUFFICES ASSUME q <= -1 PROVE FALSE
  BY <1>1, <1>2
<1>4. q * L <= -L
  BY <1>2, <1>3
<1>5. q * L \in Int /\ r < L
  BY <1>2
<1> QED BY <1>2, <1>4, <1>5

\* A day of a month, and the month's bounds.
LEMMA DayOfMonth ==
  ASSUME NEW m \in Months
  PROVE  /\ FirstDay[m] \in Nat /\ FirstDay[m+1] \in Nat /\ MonthLength(m) \in Nat \ {0}
         /\ FirstDay[m+1] = FirstDay[m] + MonthLength(m)
         /\ \A d \in MonthDays(m) :
              /\ d \in Int /\ FirstDay[m] <= d /\ d < FirstDay[m+1]
              /\ MonthOf(d) = m /\ DayOf(d) = d - FirstDay[m] + 1
<1>1. m \in 0..LastMonth + 1 /\ m + 1 \in 0..LastMonth + 1 /\ m \in Nat
  BY RecurrenceAssumption DEF Months
<1> QED BY <1>1, FirstDays, MonthHasDays, MonthOfIs DEF MonthDays

\* BYDAY with an ordinal names the days whose rank in their month it is.
LEMMA NthNamed ==
  ASSUME NEW m \in Months, NEW w \in Weekdays, NEW nth \in Int \ {0}, NEW d \in Int
  PROVE  d \in NthWeekday(m, w, nth) <=> d \in MonthDays(m) /\ Weekday(d) = w /\ IsNth(d, nth)
<1>1. WeekLen \in Nat \ {0}
  BY RecurrenceAssumption
<1>2. PICK a, n, b : a = FirstDay[m] /\ n = MonthLength(m) /\ b = a + n - 1
  OBVIOUS
<1>3. a \in Int /\ n \in Int /\ b \in Int /\ FirstDay[m+1] - 1 = b
  BY <1>2, DayOfMonth
<1>4. ASSUME d \in MonthDays(m)
      PROVE  /\ DayOf(d) = d - a + 1 /\ d - a \in Nat /\ b - d \in Nat
             /\ Rank(d, Alike(d)) = ((d - a) \div WeekLen) + 1
             /\ Cardinality({e \in Alike(d) : e >= d}) = ((b - d) \div WeekLen) + 1
             /\ (d - a) \div WeekLen \in Nat /\ (b - d) \div WeekLen \in Nat
  <2>1. DayOf(d) = d - a + 1 /\ d - a \in Nat /\ b - d \in Nat
    BY <1>2, <1>3, <1>4, DayOfMonth
  <2>2. /\ Rank(d, Alike(d)) = ((d - a) \div WeekLen) + 1
        /\ Cardinality({e \in Alike(d) : e >= d}) = ((FirstDay[m+1] - 1 - d) \div WeekLen) + 1
    BY <1>2, <1>4, CountAlike
  <2>3. PICK x, y : x = d - a /\ y = b - d
    OBVIOUS
  <2>4. x \div WeekLen \in Nat /\ y \div WeekLen \in Nat
    BY <2>1, <2>3, <1>1, QuotientFromZero
  <2> QED BY <1>3, <2>1, <2>2, <2>3, <2>4
<1>5. CASE nth > 0
  <2>1. PICK o, k : o = (w - (a % WeekLen)) % WeekLen /\ k = nth - 1
    OBVIOUS
  <2>2. k \in Int /\ o \in Int /\ k * WeekLen \in Int
    <3>1. PICK c : c = a % WeekLen
      OBVIOUS
    <3>2. c \in Int /\ w \in Int
      BY <3>1, <1>1, <1>3, Divided DEF Weekdays
    <3>3. PICK v : v = w - c
      OBVIOUS
    <3>4. v \in Int
      BY <3>2, <3>3
    <3>5. v % WeekLen \in Int
      BY <1>1, <3>4, Divided
    <3>6. k \in Int
      BY <2>1
    <3> QED BY <1>1, <2>1, <3>1, <3>3, <3>5, <3>6
  <2>3. PICK day : day = 1 + o + k * WeekLen
    OBVIOUS
  <2>4. NthWeekday(m, w, nth) = OnDay(m, day)
    BY <1>2, <1>5, <2>1, <2>3 DEF NthWeekday, Weekday
  <2>5. d \in OnDay(m, day) <=> d \in MonthDays(m) /\ DayOf(d) = day
    <3>1. day \in Int
      BY <2>2, <2>3
    <3> QED BY <3>1, DayNamed
  <2>6. d - a = o + k * WeekLen <=> d % WeekLen = w /\ k = (d - a) \div WeekLen
    <3>1. d - a = ((w - (a % WeekLen)) % WeekLen) + k * WeekLen <=>
              d % WeekLen = w /\ k = (d - a) \div WeekLen
      <4>1. w \in 0..WeekLen - 1
        BY DEF Weekdays
      <4>2. a \in Int /\ b \in Int /\ d \in Int /\ k \in Int
        BY <1>3, <2>2
      <4>3. WeeksAfter(WeekLen, a, d, w, k)
        BY <1>1, <4>1, <4>2, WeekdayAfter
      <4> QED BY <4>3 DEF WeeksAfter
    <3> QED BY <2>1, <3>1
  <2>7. ASSUME d \in MonthDays(m)
        PROVE  DayOf(d) = day <=> Weekday(d) = w /\ IsNth(d, nth)
    <3>1. DayOf(d) = day <=> d - a = o + k * WeekLen
      <4>1. DayOf(d) = d - a + 1 /\ d - a \in Int
        BY <1>4, <2>7
      <4> QED BY <2>2, <2>3, <4>1
    <3>2. IsNth(d, nth) <=> nth = ((d - a) \div WeekLen) + 1
      <4>1. PICK x, y : x = (d - a) \div WeekLen /\ y = (b - d) \div WeekLen
        OBVIOUS
      <4>2. x \in Nat /\ y \in Nat /\ Rank(d, Alike(d)) = x + 1 /\
                Cardinality({e \in Alike(d) : e >= d}) = y + 1
        BY <1>4, <2>7, <4>1
      <4> QED BY <1>5, <4>1, <4>2 DEF IsNth
    <3>3. k = (d - a) \div WeekLen <=> nth = ((d - a) \div WeekLen) + 1
      BY <1>4, <2>7, <2>1
    <3> QED BY <2>6, <3>1, <3>2, <3>3 DEF Weekday
  <2> QED BY <2>4, <2>5, <2>7
<1>6. CASE ~ (nth > 0)
  <2>1. PICK o, k : o = ((b % WeekLen) - w) % WeekLen /\ k = -nth - 1
    OBVIOUS
  <2>2. k \in Int /\ o \in Int /\ k * WeekLen \in Int /\ (nth + 1) * WeekLen = -(k * WeekLen)
    <3>1. PICK c : c = b % WeekLen
      OBVIOUS
    <3>2. c \in Int /\ w \in Int
      BY <3>1, <1>1, <1>3, Divided DEF Weekdays
    <3>3. PICK v : v = c - w
      OBVIOUS
    <3>4. v \in Int
      BY <3>2, <3>3
    <3>5. v % WeekLen \in Int
      BY <1>1, <3>4, Divided
    <3>6. k \in Int /\ nth + 1 = -k
      BY <2>1
    <3>7. (-k) * WeekLen = -(k * WeekLen)
      BY <1>1, <3>6
    <3> QED BY <1>1, <2>1, <3>1, <3>3, <3>5, <3>6, <3>7
  <2>3. PICK day : day = n - o + (nth + 1) * WeekLen
    OBVIOUS
  <2>4. NthWeekday(m, w, nth) = OnDay(m, day)
    BY <1>2, <1>6, <2>1, <2>3 DEF NthWeekday, Weekday
  <2>5. d \in OnDay(m, day) <=> d \in MonthDays(m) /\ DayOf(d) = day
    <3>1. day \in Int
      BY <1>3, <2>2, <2>3
    <3> QED BY <3>1, DayNamed
  <2>6. b - d = o + k * WeekLen <=> d % WeekLen = w /\ k = (b - d) \div WeekLen
    <3>1. b - d = (((b % WeekLen) - w) % WeekLen) + k * WeekLen <=>
              d % WeekLen = w /\ k = (b - d) \div WeekLen
      <4>1. w \in 0..WeekLen - 1
        BY DEF Weekdays
      <4>2. a \in Int /\ b \in Int /\ d \in Int /\ k \in Int
        BY <1>3, <2>2
      <4>3. WeeksBefore(WeekLen, b, d, w, k)
        BY <1>1, <4>1, <4>2, WeekdayBefore
      <4> QED BY <4>3 DEF WeeksBefore
    <3> QED BY <2>1, <3>1
  <2>7. ASSUME d \in MonthDays(m)
        PROVE  DayOf(d) = day <=> Weekday(d) = w /\ IsNth(d, nth)
    <3>1. DayOf(d) = day <=> b - d = o + k * WeekLen
      <4>1. DayOf(d) = d - a + 1 /\ d - a \in Int
        BY <1>4, <2>7
      <4>2. day = n - o - k * WeekLen
        BY <2>2, <2>3, <1>3
      <4> QED BY <1>2, <1>3, <2>2, <4>1, <4>2
    <3>2. IsNth(d, nth) <=> -nth = ((b - d) \div WeekLen) + 1
      <4>1. PICK x, y : x = (d - a) \div WeekLen /\ y = (b - d) \div WeekLen
        OBVIOUS
      <4>2. x \in Nat /\ y \in Nat /\ Rank(d, Alike(d)) = x + 1 /\
                Cardinality({e \in Alike(d) : e >= d}) = y + 1
        BY <1>4, <2>7, <4>1
      <4> QED BY <1>6, <4>1, <4>2 DEF IsNth
    <3>3. k = (b - d) \div WeekLen <=> -nth = ((b - d) \div WeekLen) + 1
      BY <1>4, <2>7, <2>1
    <3> QED BY <2>6, <3>1, <3>2, <3>3 DEF Weekday
  <2> QED BY <2>4, <2>5, <2>7
<1> QED BY <1>5, <1>6

\* Dates are numbers.
LEMMA NamedDaysAreDays ==
  ASSUME NEW m \in Months, NEW day
  PROVE  OnDay(m, day) \subseteq Int
<1>1. FirstDay[m] \in Nat /\ MonthLength(m) \in Nat
  BY DayOfMonth
<1> QED BY <1>1 DEF OnDay

\* The candidates of a month are its days the rule fits.
LEMMA MonthCandidatesFit ==
  ASSUME NEW rule \in RecurrenceRules, Accepts(rule), NEW start \in Dates, NEW m \in Months
  PROVE  MonthCandidates(rule, start, m) = {d \in MonthDays(m) : DayFits(rule, start, d)}
<1>1. FirstDay[m] \in Nat /\ FirstDay[m+1] \in Nat /\ MonthDays(m) \subseteq Int
  BY DayOfMonth DEF MonthDays
<1>2. MonthCandidates(rule, start, m) \subseteq Int
  <2>1. \A days : UNION {ResolveMonthDay(m, day) : day \in days} \subseteq Int
    BY NamedDaysAreDays DEF ResolveMonthDay
  <2>2. \A on \in rule.byDay : EveryWeekday(m, on.weekday) \subseteq Int
    BY <1>1 DEF EveryWeekday
  <2>3. \A on \in rule.byDay : NthWeekday(m, on.weekday, on.nth) \subseteq Int
    BY NamedDaysAreDays DEF NthWeekday
  <2>4. OnDay(m, DayOf(start)) \subseteq Int
    BY NamedDaysAreDays
  <2> QED BY <2>1, <2>2, <2>3, <2>4 DEF MonthCandidates
<1>3. SUFFICES ASSUME NEW d \in Int
               PROVE  d \in MonthCandidates(rule, start, m) <=>
                          d \in MonthDays(m) /\ DayFits(rule, start, d)
  BY <1>1, <1>2
<1>4. d \in MonthDays(m) => MonthOf(d) = m
  BY DayOfMonth
<1>5. CASE rule.byMonthDay # {}
  <2>1. rule.byMonthDay \subseteq Int \ {0}
    BY DEF RecurrenceRules, Accepts
  <2>2. d \in UNION {ResolveMonthDay(m, day) : day \in rule.byMonthDay} <=>
         d \in MonthDays(m) /\ (DayOf(d) \in rule.byMonthDay \/
             DayOf(d) - MonthLength(m) - 1 \in rule.byMonthDay)
    BY <2>1, MonthDayNamed
  <2> QED BY <1>4, <1>5, <2>2 DEF MonthCandidates, DayFits
<1>6. CASE rule.byMonthDay = {} /\ rule.byDay # {}
  <2>1. ASSUME NEW on \in rule.byDay
        PROVE  d \in (IF on.nth = 0 THEN EveryWeekday(m, on.weekday) ELSE NthWeekday(m,
                   on.weekday, on.nth)) <=>
               d \in MonthDays(m) /\ on.weekday = Weekday(d) /\ IsNth(d, on.nth)
    <3>1. on.weekday \in Weekdays /\ on.nth \in Int
      BY DEF RecurrenceRules, Weekdays
    <3>2. PICK w, nth : w = on.weekday /\ nth = on.nth
      OBVIOUS
    <3>3. CASE nth = 0
      BY <3>2, <3>3 DEF EveryWeekday, MonthDays, IsNth
    <3>4. CASE nth # 0
      <4>1. w \in Weekdays /\ nth \in Int \ {0}
        BY <3>1, <3>2, <3>4
      <4>2. d \in NthWeekday(m, w, nth) <=> d \in MonthDays(m) /\ Weekday(d) = w /\ IsNth(d, nth)
        BY <4>1, NthNamed
      <4> QED BY <3>2, <3>4, <4>2
    <3> QED BY <3>3, <3>4
  <2>2. MonthCandidates(rule, start, m) =
          UNION {IF on.nth = 0 THEN EveryWeekday(m, on.weekday) ELSE NthWeekday(m,
              on.weekday, on.nth) : on \in rule.byDay}
    BY <1>6 DEF MonthCandidates
  <2>3. DayFits(rule, start, d) <=> \E on \in rule.byDay : on.weekday = Weekday(d) /\
            IsNth(d, on.nth)
    BY <1>6 DEF DayFits
  <2> QED BY <2>1, <2>2, <2>3
<1>7. CASE rule.byMonthDay = {} /\ rule.byDay = {}
  <2>1. DayOf(start) \in Int
    BY EveryDayHasAMonth
  <2>2. d \in OnDay(m, DayOf(start)) <=> d \in MonthDays(m) /\ DayOf(d) = DayOf(start)
    BY <2>1, DayNamed
  <2> QED BY <1>7, <2>2 DEF MonthCandidates, DayFits
<1> QED BY <1>5, <1>6, <1>7

-----------------------------------------------------------------------------
(* The candidates of a period are its days that the rule fits, and ascend. *)

\* What a rule asks of a day besides its period.
Fits(rule, start, d) ==
  CASE rule.freq = "daily"   -> TRUE
    [] rule.freq = "weekly"  -> IF rule.byDay = {} THEN Weekday(d) = Weekday(start)
                                ELSE \E on \in rule.byDay : on.weekday = Weekday(d)
    [] rule.freq = "monthly" -> DayFits(rule, start, d)
    [] rule.freq = "yearly"  ->
         /\ DayFits(rule, start, d)
         /\ LET month == MonthInYear(MonthOf(d))
            IN IF rule.byMonth = {} THEN month = MonthInYear(MonthOf(start))
                                    ELSE month \in rule.byMonth

\* The days a series is looked for among.
Horizon == 0..FirstDay[LastMonth]

\* The days of a series, and those of its first k periods.
Days(rule, start) == {d \in start..FirstDay[LastMonth] : Recurs(rule, start, d)}
DaysUpto(rule, start, k) ==
  {d \in start..FirstDay[LastMonth] : \E j \in 0..k - 1 : d \in PeriodCandidates(rule, start, j)}

\* The days a series is looked for among are days of the calendar.
LEMMA HorizonIsLaid == Horizon \subseteq Dates /\ FirstDay[LastMonth] \in Nat /\
    Dates \subseteq Nat
<1>1. LastMonth \in Months /\ LastMonth \in Nat
  BY RecurrenceAssumption DEF Months
<1>2. FirstDay[LastMonth] \in Nat /\ FirstDay[LastMonth + 1] \in Nat
      /\ FirstDay[LastMonth] < FirstDay[LastMonth + 1]
  <2>1. FirstDay[LastMonth + 1] = FirstDay[LastMonth] + MonthLength(LastMonth) /\
            MonthLength(LastMonth) \in Nat \ {0}
        /\ FirstDay[LastMonth] \in Nat
    BY <1>1, DayOfMonth
  <2> QED BY <2>1
<1> QED BY <1>2 DEF Horizon, Dates

\* Quotients ascend.
LEMMA QuotientsAscend ==
  ASSUME NEW L \in Nat \ {0}, NEW d \in Int, NEW e \in Int, d <= e
  PROVE  d \div L <= e \div L
<1>1. PICK p, r, q, t : p = d \div L /\ r = d % L /\ q = e \div L /\ t = e % L
  OBVIOUS
<1>2. p \in Int /\ r \in 0..L-1 /\ d = p * L + r /\ q \in Int /\ t \in 0..L-1 /\ e = q * L + t
  BY <1>1, Divided
<1>3. SUFFICES ASSUME p - q >= 1 PROVE FALSE
  BY <1>1, <1>2
<1>4. (p - q) * L >= L
  BY <1>2, <1>3
<1>5. (p - q) * L = p * L - q * L /\ p * L \in Int /\ q * L \in Int
  BY <1>2
<1>6. d - e = (p - q) * L + (r - t) /\ r - t > -L
  BY <1>2, <1>5
<1> QED BY <1>2, <1>4, <1>5, <1>6

\* Every frequency's periods are numbers from 0 and ascend.
LEMMA PeriodsAscend ==
  ASSUME NEW rule \in RecurrenceRules, NEW d \in Dates
  PROVE  /\ Period(rule, d) \in Nat
         /\ \A e \in Dates : d <= e => Period(rule, d) <= Period(rule, e)
<1>1. d \in Nat /\ \A e \in Dates : e \in Nat
  BY HorizonIsLaid
<1>2. WeekLen \in Nat \ {0} /\ MonthsInYear \in Nat \ {0}
  BY RecurrenceAssumption
<1>3. \A e \in Dates : MonthOf(e) \in Nat
  BY EveryDayHasAMonth, RecurrenceAssumption DEF Months
<1>4. \A e \in Dates : d <= e => MonthOf(d) <= MonthOf(e)
  BY MonthsAscend
<1>5. CASE rule.freq = "daily"
  BY <1>1, <1>5 DEF Period
<1>6. CASE rule.freq = "weekly"
  <2>1. d \div WeekLen \in Nat
    BY <1>1, <1>2, QuotientFromZero
  <2>2. \A e \in Dates : d <= e => d \div WeekLen <= e \div WeekLen
    BY <1>1, <1>2, QuotientsAscend
  <2> QED BY <1>6, <2>1, <2>2 DEF Period, WeekOf
<1>7. CASE rule.freq = "monthly"
  BY <1>3, <1>4, <1>7 DEF Period
<1>8. CASE rule.freq = "yearly"
  <2>1. PICK m : m = MonthOf(d)
    OBVIOUS
  <2>2. m \div MonthsInYear \in Nat
    BY <1>2, <1>3, <2>1, QuotientFromZero
  <2>3. ASSUME NEW e \in Dates, d <= e PROVE m \div MonthsInYear <= MonthOf(e) \div MonthsInYear
    <3>1. PICK n : n = MonthOf(e)
      OBVIOUS
    <3>2. n \in Int /\ m \in Int /\ m <= n
      BY <1>3, <1>4, <2>1, <2>3, <3>1
    <3> QED BY <1>2, <3>1, <3>2, QuotientsAscend
  <2> QED BY <1>8, <2>1, <2>2, <2>3 DEF Period, YearOf
<1> QED BY <1>5, <1>6, <1>7, <1>8 DEF RecurrenceRules

\* The days of a month are those that have it.
LEMMA DaysOfMonth ==
  ASSUME NEW m \in 0..LastMonth - 1
  PROVE  m \in Months /\ MonthDays(m) = {d \in Horizon : MonthOf(d) = m}
<1>1. LastMonth \in Nat /\ m \in Months /\ m + 1 \in 0..LastMonth + 1 /\
          LastMonth \in 0..LastMonth + 1
  BY RecurrenceAssumption DEF Months
<1>2. FirstDay[m+1] <= FirstDay[LastMonth]
  <2>1. m + 1 = LastMonth \/ m + 1 < LastMonth
    BY <1>1
  <2>2. FirstDay[m+1] \in Nat
    BY <1>1, FirstDays
  <2> QED BY <1>1, <2>1, <2>2, MonthsFollow, FirstDays
<1>3. ASSUME NEW d \in MonthDays(m) PROVE d \in Horizon /\ MonthOf(d) = m
  <2>1. d \in Int /\ FirstDay[m] <= d /\ d < FirstDay[m+1] /\ FirstDay[m] \in Nat /\
            FirstDay[m+1] \in Nat
        /\ MonthOf(d) = m
    BY <1>1, DayOfMonth
  <2> QED BY <1>2, <2>1, HorizonIsLaid DEF Horizon
<1>4. ASSUME NEW d \in Horizon, MonthOf(d) = m PROVE d \in MonthDays(m)
  BY <1>4, HorizonIsLaid, EveryDayHasAMonth
<1> QED BY <1>1, <1>3, <1>4

\* A multiple of the interval, and one below it.
LEMMA Multiples ==
  ASSUME NEW i \in Nat \ {0}, NEW n \in Nat, NEW k \in 0..n - 1
  PROVE  k * i \in Nat /\ n * i \in Nat /\ k * i + 1 <= n * i
<1>1. k * i \in Nat /\ n * i \in Nat /\ (n - k) * i \in Int
  OBVIOUS
<1>2. (n - k) * i >= 1 * i
  OBVIOUS
<1>3. (n - k) * i = n * i - k * i
  OBVIOUS
<1> QED BY <1>1, <1>2, <1>3

\* The candidates of a period are its days that the rule fits.
LEMMA CandidatesFit ==
  ASSUME NEW rule \in RecurrenceRules, Accepts(rule), NEW start, LaidOut(rule, start),
         NEW k \in 0..MaxPeriods - 1
  PROVE  PeriodCandidates(rule, start, k) =
           {d \in Horizon : /\ Period(rule, d) = Period(rule, start) + k * rule.interval
                            /\ Fits(rule, start, d)}
<1>1. start \in Horizon /\ start \in Dates /\ start \in Nat /\ Period(rule, start) \in Nat
  BY HorizonIsLaid, PeriodsAscend DEF LaidOut, Horizon
<1>2. WeekLen \in Nat \ {0} /\ MonthsInYear \in Nat \ {0} /\ MaxPeriods \in Nat /\
          LastMonth \in Nat
  BY RecurrenceAssumption
<1>3. PICK i, p, P, last : /\ i = rule.interval /\ p = Period(rule, start) /\ P = p + k * i
                           /\ last = p + MaxPeriods * i
  OBVIOUS
<1>4. i \in Nat \ {0}
  BY <1>3 DEF Accepts, RecurrenceRules
<1>5. P \in Nat /\ last \in Nat /\ P + 1 <= last
  <2>1. k * i \in Nat /\ MaxPeriods * i \in Nat /\ k * i + 1 <= MaxPeriods * i
    BY <1>2, <1>4, Multiples
  <2> QED BY <1>1, <1>3, <2>1
<1>6. FirstDay[LastMonth] \in Nat
  BY HorizonIsLaid
<1>7. CASE rule.freq = "daily"
  <2>1. PeriodCandidates(rule, start, k) = {P} /\ p = start
    BY <1>3, <1>7 DEF PeriodCandidates, Period
  <2>2. last <= FirstDay[LastMonth]
    BY <1>3, <1>7 DEF LaidOut
  <2>3. \A d : Fits(rule, start, d) /\ Period(rule, d) = d
    BY <1>7 DEF Fits, Period
  <2>4. P \in Horizon
    BY <1>5, <1>6, <2>2 DEF Horizon
  <2> QED BY <1>3, <2>1, <2>3, <2>4
<1>8. CASE rule.freq = "weekly"
  <2> DEFINE WS == IF rule.byDay = {} THEN {Weekday(start)} ELSE {on.weekday : on \in rule.byDay}
  <2>1. PeriodCandidates(rule, start, k) = {P * WeekLen + w : w \in WS}
    BY <1>3, <1>8 DEF PeriodCandidates, Period
  <2>2. WS \subseteq 0..WeekLen - 1
    <3>1. start % WeekLen \in 0..WeekLen - 1
      BY <1>1, <1>2, Divided
    <3>2. \A on \in rule.byDay : on.weekday \in 0..WeekLen - 1
      BY DEF RecurrenceRules
    <3> QED BY <3>1, <3>2 DEF Weekday
  <2>3. \A d : Fits(rule, start, d) <=> Weekday(d) \in WS
    BY <1>8 DEF Fits
  <2> HIDE DEF WS
  <2>4. last * WeekLen <= FirstDay[LastMonth]
    BY <1>3, <1>8 DEF LaidOut
  <2>5. (P + 1) * WeekLen <= FirstDay[LastMonth] /\
            (P + 1) * WeekLen = P * WeekLen + WeekLen /\ P * WeekLen \in Nat
    <3>1. (P + 1) * WeekLen <= last * WeekLen
      BY <1>2, <1>5
    <3>2. (P + 1) * WeekLen = P * WeekLen + WeekLen /\ P * WeekLen \in Nat /\
              last * WeekLen \in Nat
      BY <1>2, <1>5
    <3> QED BY <1>2, <1>6, <2>4, <3>1, <3>2
  <2>6. ASSUME NEW w \in WS
        PROVE  LET d == P * WeekLen + w IN d \in Horizon /\ Period(rule, d) = P /\
                   Fits(rule, start, d)
    <3>1. w \in 0..WeekLen - 1
      BY <2>2
    <3>2. PICK d : d = P * WeekLen + w
      OBVIOUS
    <3>3. d \div WeekLen = P /\ d % WeekLen = w
      BY <1>2, <1>5, <3>1, <3>2, DividedOnce
    <3>4. d \in Horizon
      BY <1>2, <1>6, <2>5, <3>1, <3>2 DEF Horizon
    <3> QED BY <1>8, <2>3, <3>2, <3>3, <3>4 DEF Period, WeekOf, Weekday
  <2>7. ASSUME NEW d \in Horizon, Period(rule, d) = P, Fits(rule, start, d)
        PROVE  \E w \in WS : d = P * WeekLen + w
    <3>1. d \in Int
      BY <1>6 DEF Horizon
    <3>2. d = (d \div WeekLen) * WeekLen + (d % WeekLen)
      BY <1>2, <3>1, Divided
    <3>3. d \div WeekLen = P /\ d % WeekLen \in WS
      BY <1>8, <2>3, <2>7 DEF Period, WeekOf, Weekday
    <3> QED BY <3>2, <3>3
  <2> QED BY <1>3, <2>1, <2>6, <2>7
<1>9. CASE rule.freq = "monthly"
  <2>1. PeriodCandidates(rule, start, k) = MonthCandidates(rule, start, P)
    BY <1>3, <1>9 DEF PeriodCandidates, Period
  <2>2. P \in 0..LastMonth - 1
    <3>1. last <= LastMonth
      BY <1>3, <1>9 DEF LaidOut
    <3> QED BY <1>2, <1>5, <3>1
  <2>3. MonthCandidates(rule, start, P) = {d \in MonthDays(P) : DayFits(rule, start, d)}
    BY <1>1, <2>2, DaysOfMonth, MonthCandidatesFit
  <2>4. MonthDays(P) = {d \in Horizon : MonthOf(d) = P}
    BY <2>2, DaysOfMonth
  <2>5. \A d : Period(rule, d) = MonthOf(d) /\ (Fits(rule, start, d) <=> DayFits(rule, start, d))
    BY <1>9 DEF Period, Fits
  <2> QED BY <1>3, <2>1, <2>3, <2>4, <2>5
<1>10. CASE rule.freq = "yearly"
  <2> DEFINE BM == IF rule.byMonth = {} THEN {MonthInYear(MonthOf(start))} ELSE rule.byMonth
  <2>1. PeriodCandidates(rule, start, k) =
          UNION {MonthCandidates(rule, start, P * MonthsInYear + month - 1) : month \in BM}
    BY <1>3, <1>10 DEF PeriodCandidates, Period
  <2>2. BM \subseteq 1..MonthsInYear
    <3>1. PICK m : m = MonthOf(start)
      OBVIOUS
    <3>2. m \in Int
      BY <1>1, <3>1, EveryDayHasAMonth DEF Months
    <3>3. m % MonthsInYear \in 0..MonthsInYear - 1
      BY <1>2, <3>2, Divided
    <3>4. MonthInYear(m) \in 1..MonthsInYear
      BY <1>2, <3>3 DEF MonthInYear
    <3>5. rule.byMonth \subseteq 1..MonthsInYear
      BY DEF RecurrenceRules
    <3> QED BY <3>1, <3>4, <3>5
  <2>3. \A d : Fits(rule, start, d) <=> DayFits(rule, start, d) /\ MonthInYear(MonthOf(d)) \in BM
    BY <1>10 DEF Fits
  <2> HIDE DEF BM
  <2>4. last * MonthsInYear <= LastMonth
    BY <1>3, <1>10 DEF LaidOut
  <2>5. (P + 1) * MonthsInYear <= LastMonth /\
            (P + 1) * MonthsInYear = P * MonthsInYear + MonthsInYear
        /\ P * MonthsInYear \in Nat
    <3>1. (P + 1) * MonthsInYear <= last * MonthsInYear
      BY <1>2, <1>5
    <3>2. (P + 1) * MonthsInYear = P * MonthsInYear + MonthsInYear /\
              P * MonthsInYear \in Nat /\ last * MonthsInYear \in Nat
      BY <1>2, <1>5
    <3> QED BY <1>2, <2>4, <3>1, <3>2
  <2>6. ASSUME NEW month \in BM, NEW m, m = P * MonthsInYear + month - 1
        PROVE  /\ m \in 0..LastMonth - 1 /\ m \div MonthsInYear = P /\ MonthInYear(m) = month
               /\ MonthCandidates(rule, start, m) = {d \in Horizon : MonthOf(d) = m /\
                      DayFits(rule, start, d)}
    <3>1. month - 1 \in 0..MonthsInYear - 1 /\ month \in Int
      BY <1>2, <2>2
    <3>2. PICK r : r = month - 1
      OBVIOUS
    <3>3. m = P * MonthsInYear + r
      BY <2>5, <2>6, <3>1, <3>2
    <3>4. (P * MonthsInYear + r) \div MonthsInYear = P /\
              (P * MonthsInYear + r) % MonthsInYear = r
      <4>1. r \in 0..MonthsInYear - 1 /\ P \in Int
        BY <1>5, <3>1, <3>2
      <4> QED BY <1>2, <4>1, DividedOnce
    <3>5. m \in 0..LastMonth - 1
      BY <1>2, <2>5, <2>6, <3>1
    <3>6. MonthInYear(m) = month
      BY <3>1, <3>2, <3>3, <3>4 DEF MonthInYear
    <3>7. MonthCandidates(rule, start, m) = {d \in MonthDays(m) : DayFits(rule, start, d)}
      BY <1>1, <3>5, DaysOfMonth, MonthCandidatesFit
    <3>8. MonthDays(m) = {d \in Horizon : MonthOf(d) = m}
      BY <3>5, DaysOfMonth
    <3> QED BY <3>3, <3>4, <3>5, <3>6, <3>7, <3>8
  <2>7. ASSUME NEW d \in Horizon, Period(rule, d) = P, Fits(rule, start, d)
        PROVE  \E month \in BM : d \in MonthCandidates(rule, start, P * MonthsInYear + month - 1)
    <3>1. PICK n, month : n = MonthOf(d) /\ month = MonthInYear(n)
      OBVIOUS
    <3>2. n \in Int
      BY <3>1, HorizonIsLaid, EveryDayHasAMonth DEF Months
    <3>3. n = (n \div MonthsInYear) * MonthsInYear + (n % MonthsInYear) /\
              n % MonthsInYear \in Int
      BY <1>2, <3>2, Divided
    <3>4. n \div MonthsInYear = P
      BY <1>10, <2>7, <3>1 DEF Period, YearOf
    <3>5. month \in BM /\ DayFits(rule, start, d)
      BY <2>3, <2>7, <3>1
    <3>6. n = P * MonthsInYear + month - 1
      BY <2>5, <3>1, <3>3, <3>4 DEF MonthInYear
    <3> QED BY <2>6, <3>1, <3>5, <3>6
  <2>8. ASSUME NEW month \in BM, NEW d \in MonthCandidates(rule, start,
            P * MonthsInYear + month - 1)
        PROVE  d \in Horizon /\ Period(rule, d) = P /\ Fits(rule, start, d)
    <3>1. PICK m : m = P * MonthsInYear + month - 1
      OBVIOUS
    <3>2. d \in Horizon /\ MonthOf(d) = m /\ DayFits(rule, start, d) /\
              m \div MonthsInYear = P /\ MonthInYear(m) = month
      BY <2>6, <2>8, <3>1
    <3> QED BY <1>10, <2>3, <3>2 DEF Period, YearOf
  <2> QED BY <1>3, <2>1, <2>7, <2>8
<1> QED BY <1>7, <1>8, <1>9, <1>10 DEF RecurrenceRules

\* Candidates are days of the calendar, and a later period's come later.
LEMMA CandidatesAscend ==
  ASSUME NEW rule \in RecurrenceRules, Accepts(rule), NEW start, LaidOut(rule, start),
         NEW k \in 0..MaxPeriods - 1
  PROVE  /\ PeriodCandidates(rule, start, k) \subseteq Horizon
         /\ \A j \in 0..k - 1 : \A d \in PeriodCandidates(rule, start, j) :
              \A e \in PeriodCandidates(rule, start, k) : d < e
<1>1. PeriodCandidates(rule, start, k) \subseteq Horizon
  BY CandidatesFit
<1>2. ASSUME NEW j \in 0..k - 1, NEW d \in PeriodCandidates(rule, start, j),
             NEW e \in PeriodCandidates(rule, start, k)
      PROVE  d < e
  <2>1. PICK i, p : i = rule.interval /\ p = Period(rule, start)
    OBVIOUS
  <2>2. i \in Nat \ {0} /\ MaxPeriods \in Nat /\ k \in Nat
    BY <2>1, RecurrenceAssumption DEF Accepts, RecurrenceRules
  <2>3. p \in Nat
    BY <2>1, HorizonIsLaid, PeriodsAscend DEF LaidOut, Horizon
  <2>4. j \in 0..MaxPeriods - 1
    BY <2>2
  <2>5. Period(rule, d) = p + j * i /\ Period(rule, e) = p + k * i /\ d \in Horizon /\
            e \in Horizon
    BY <2>1, <2>4, CandidatesFit
  <2>6. j * i \in Nat /\ k * i \in Nat /\ j * i + 1 <= k * i
    BY <2>2, Multiples
  <2>7. Period(rule, d) < Period(rule, e) /\ Period(rule, d) \in Nat /\ Period(rule, e) \in Nat
    BY <2>3, <2>5, <2>6
  <2>8. d \in Dates /\ e \in Dates /\ d \in Nat /\ e \in Nat
    BY <2>5, HorizonIsLaid
  <2>9. e <= d => Period(rule, e) <= Period(rule, d)
    BY <2>8, PeriodsAscend
  <2> QED BY <2>7, <2>8, <2>9
<1> QED BY <1>1, <1>2

\* The candidates of the periods walked, from the start on, are the series' days.
LEMMA CandidatesAreTheDays ==
  ASSUME NEW rule \in RecurrenceRules, Accepts(rule), NEW start, LaidOut(rule, start)
  PROVE  DaysUpto(rule, start, MaxPeriods) = Days(rule, start)
<1>1. PICK i, p : i = rule.interval /\ p = Period(rule, start)
  OBVIOUS
<1>2. i \in Nat \ {0} /\ MaxPeriods \in Nat
  BY <1>1, RecurrenceAssumption DEF Accepts, RecurrenceRules
<1>3. p \in Nat /\ start \in Nat /\ start \in Dates /\ FirstDay[LastMonth] \in Nat
  BY <1>1, HorizonIsLaid, PeriodsAscend DEF LaidOut, Horizon
<1>4. SUFFICES ASSUME NEW d \in start..FirstDay[LastMonth]
               PROVE  (\E j \in 0..MaxPeriods - 1 : d \in PeriodCandidates(rule, start,
                          j)) <=> Recurs(rule, start, d)
  BY DEF Days, DaysUpto
<1>5. d \in Horizon /\ d \in Dates /\ d \in Nat /\ d >= start
  BY <1>3, HorizonIsLaid DEF Horizon
<1>6. PICK q : q = Period(rule, d)
  OBVIOUS
<1>7. q \in Nat /\ p <= q
  BY <1>1, <1>3, <1>5, <1>6, PeriodsAscend
<1>8. PICK apart : apart = q - p
  OBVIOUS
<1>9. apart \in Nat
  BY <1>3, <1>7, <1>8
<1>10. Recurs(rule, start, d) <=> apart % i = 0 /\ apart \div i < MaxPeriods /\
           Fits(rule, start, d)
  BY <1>1, <1>5, <1>6, <1>8 DEF Recurs, Fits
<1>11. \A j \in 0..MaxPeriods - 1 : d \in PeriodCandidates(rule, start, j) <=>
           apart = j * i /\ Fits(rule, start, d)
  <2> SUFFICES ASSUME NEW j \in 0..MaxPeriods - 1
               PROVE  d \in PeriodCandidates(rule, start, j) <=>
                          apart = j * i /\ Fits(rule, start, d)
    OBVIOUS
  <2>1. d \in PeriodCandidates(rule, start, j) <=> q = p + j * i /\ Fits(rule, start, d)
    BY <1>1, <1>5, <1>6, CandidatesFit
  <2>2. j * i \in Nat
    BY <1>2, Multiples
  <2> QED BY <1>3, <1>7, <1>8, <2>1, <2>2
<1>12. ASSUME NEW j \in 0..MaxPeriods - 1, apart = j * i PROVE apart % i = 0 /\
           apart \div i < MaxPeriods
  <2>1. (j * i + 0) \div i = j /\ (j * i + 0) % i = 0
    <3>1. j \in Int /\ 0 \in 0..i - 1
      BY <1>2
    <3> QED BY <1>2, <3>1, DividedOnce
  <2>2. apart = j * i + 0
    BY <1>9, <1>12
  <2> QED BY <1>2, <2>1, <2>2
<1>13. ASSUME apart % i = 0, apart \div i < MaxPeriods
           PROVE \E j \in 0..MaxPeriods - 1 : apart = j * i
  <2>1. PICK j : j = apart \div i
    OBVIOUS
  <2>2. j \in Nat
    BY <1>2, <1>9, <2>1, QuotientFromZero
  <2>3. apart = j * i + 0
    BY <1>2, <1>9, <1>13, <2>1, Divided
  <2>4. apart = j * i
    <3>1. j * i \in Int
      BY <1>2, <2>2
    <3> QED BY <2>3, <3>1
  <2>5. j \in 0..MaxPeriods - 1
    BY <1>2, <1>13, <2>1, <2>2
  <2> QED BY <2>4, <2>5
<1> QED BY <1>10, <1>11, <1>12, <1>13

-----------------------------------------------------------------------------
(* Dates in order.                                                         *)

\* Finitely many dates.
FiniteDates(S) == IsFiniteSet(S) /\ S \subseteq Int

\* The rank of a date of a set is a position in it, and ranks ascend.
LEMMA Ranks ==
  ASSUME NEW S, FiniteDates(S)
  PROVE  /\ Cardinality(S) \in Nat
         /\ \A d \in S : Rank(d, S) \in 1..Cardinality(S)
         /\ \A d, e \in S : d < e => Rank(d, S) < Rank(e, S)
         /\ \A d \in Int : Rank(d, S) \in 0..Cardinality(S)
<1>1. Cardinality(S) \in Nat /\ S \subseteq Int /\ IsFiniteSet(S)
  BY FS_CardinalityType DEF FiniteDates
<1>2. ASSUME NEW d \in Int
      PROVE  /\ IsFiniteSet({e \in S : e <= d}) /\ Rank(d, S) \in Nat /\
                    Rank(d, S) <= Cardinality(S)
  <2>1. {e \in S : e <= d} \in SUBSET S
    OBVIOUS
  <2> QED BY <1>1, <2>1, FS_Subset, FS_CardinalityType DEF Rank
<1>3. ASSUME NEW d \in S PROVE Rank(d, S) # 0
  <2>1. d \in {e \in S : e <= d}
    BY <1>1
  <2>2. IsFiniteSet({e \in S : e <= d})
    BY <1>1, <1>2
  <2>3. {e \in S : e <= d} # {}
    BY <2>1
  <2> QED BY <2>2, <2>3, FS_EmptySet DEF Rank
<1>4. ASSUME NEW d \in S, NEW e \in S, d < e PROVE Rank(d, S) < Rank(e, S)
  <2>1. PICK X, Y : X = {x \in S : x <= d} /\ Y = {x \in S : x <= e}
    OBVIOUS
  <2>2. X \in SUBSET Y /\ e \in Y /\ e \notin X
    <3>1. d \in Int /\ e \in Int
      BY <1>1
    <3>2. \A x \in S : x \in Int /\ (x <= d => x <= e)
      BY <1>1, <1>4, <3>1
    <3>3. ~ (e <= d) /\ e <= e
      BY <1>4, <3>1
    <3>4. X \subseteq Y
      BY <2>1, <3>2
    <3>5. e \in Y /\ e \notin X
      BY <2>1, <3>3
    <3> QED BY <3>4, <3>5
  <2>3. IsFiniteSet(Y) /\ Cardinality(Y) \in Nat /\ Cardinality(X) \in Nat
    BY <1>1, <1>2, <2>1 DEF Rank
  <2>4. Cardinality(X) <= Cardinality(Y) /\ (Cardinality(X) = Cardinality(Y) => X = Y)
    BY <2>2, <2>3, FS_Subset
  <2>5. Cardinality(X) < Cardinality(Y)
    BY <2>2, <2>3, <2>4
  <2> QED BY <2>1, <2>5 DEF Rank
<1>5. ASSUME NEW d \in S PROVE Rank(d, S) \in 1..Cardinality(S)
  <2>1. d \in Int
    BY <1>1
  <2>2. Rank(d, S) \in Nat /\ Rank(d, S) <= Cardinality(S) /\ Rank(d, S) # 0
    BY <1>2, <1>3, <2>1
  <2> QED BY <1>1, <2>2
<1>6. ASSUME NEW d \in Int PROVE Rank(d, S) \in 0..Cardinality(S)
  <2>1. Rank(d, S) \in Nat /\ Rank(d, S) <= Cardinality(S)
    BY <1>2
  <2> QED BY <1>1, <2>1
<1> QED BY <1>1, <1>4, <1>5, <1>6

\* Every position of a set of dates is the rank of one of them.
LEMMA RankedAt ==
  ASSUME NEW S, FiniteDates(S), NEW i \in 1..Cardinality(S)
  PROVE  /\ Ascending(S)[i] \in S /\ Rank(Ascending(S)[i], S) = i
         /\ \A d \in S : Rank(d, S) = i => d = Ascending(S)[i]
<1>1. PICK n : n = Cardinality(S)
  OBVIOUS
<1>2. n \in Nat /\ S \subseteq Int /\ IsFiniteSet(S)
  BY <1>1, Ranks DEF FiniteDates
<1>3. PICK f : f = [d \in S |-> Rank(d, S)]
  OBVIOUS
<1>4. \A d, e \in S : f[d] = f[e] => d = e
  <2> SUFFICES ASSUME NEW d \in S, NEW e \in S, f[d] = f[e] PROVE d = e
    OBVIOUS
  <2>1. Rank(d, S) = Rank(e, S) /\ Rank(d, S) \in Int
    BY <1>3, Ranks
  <2>2. ~ (d < e) /\ ~ (e < d)
    BY <2>1, Ranks
  <2> QED BY <1>2, <2>2
<1>5. f \in Injection(S, 1..n)
  <2>1. f \in [S -> 1..n]
    BY <1>1, <1>3, Ranks
  <2> QED BY <1>4, <2>1 DEF Injection, IsInjective
<1>6. IsFiniteSet(1..n) /\ Cardinality(1..n) = n
  BY <1>2, FS_Interval
<1>7. f \in Surjection(S, 1..n)
  BY <1>1, <1>5, <1>6, FS_Injection
<1>8. PICK d \in S : f[d] = i
  BY <1>1, <1>7 DEF Surjection
<1>9. \A e \in S : Rank(e, S) = i => e = d
  BY <1>3, <1>4, <1>8
<1>10. Rank(d, S) = i
  BY <1>3, <1>8
<1>11. Ascending(S)[i] = CHOOSE e \in S : Rank(e, S) = i
  BY DEF Ascending
<1> QED BY <1>9, <1>10, <1>11

\* A sequence of the dates of a set, in order.
LEMMA AscendingDates ==
  ASSUME NEW S, FiniteDates(S)
  PROVE  /\ Ascending(S) \in Seq(Int) /\ Len(Ascending(S)) = Cardinality(S)
         /\ DOMAIN Ascending(S) = 1..Cardinality(S)
         /\ \A d \in S : Ascending(S)[Rank(d, S)] = d
<1>1. Cardinality(S) \in Nat /\ S \subseteq Int
  BY Ranks DEF FiniteDates
<1>2. \A i \in 1..Cardinality(S) : Ascending(S)[i] \in Int
  BY <1>1, RankedAt
<1>3. PICK n : n = Cardinality(S)
  OBVIOUS
<1>4. Ascending(S) = [i \in 1..n |-> Ascending(S)[i]]
  BY <1>3 DEF Ascending
<1>5. Ascending(S) \in Seq(Int) /\ Len(Ascending(S)) = n /\ DOMAIN Ascending(S) = 1..n
  <2>1. PICK q : q = Ascending(S)
    OBVIOUS
  <2>2. q \in [1..n -> Int]
    BY <1>2, <1>3, <1>4, <2>1
  <2> QED BY <1>1, <1>3, <2>1, <2>2
<1>6. \A d \in S : Ascending(S)[Rank(d, S)] = d
  BY Ranks, RankedAt
<1> QED BY <1>3, <1>5, <1>6

\* One more date, above all of a set.
Above(d, S) == d \in Int /\ \A e \in S : e < d

\* A date above all of a set comes last in order, and changes no rank.
LEMMA OneMore ==
  ASSUME NEW S, FiniteDates(S), NEW d, Above(d, S)
  PROVE  /\ FiniteDates(S \cup {d}) /\ Cardinality(S \cup {d}) = Cardinality(S) + 1
         /\ \A e \in S : Rank(e, S \cup {d}) = Rank(e, S)
         /\ Rank(d, S \cup {d}) = Cardinality(S) + 1
         /\ Ascending(S \cup {d}) = Append(Ascending(S), d)
<1>1. d \in Int /\ d \notin S /\ S \subseteq Int /\ IsFiniteSet(S) /\ Cardinality(S) \in Nat
  <2>1. d \in Int /\ \A e \in S : e < d
    BY DEF Above
  <2>2. d \notin S
    BY <2>1
  <2> QED BY <2>1, <2>2, Ranks DEF FiniteDates
<1>2. FiniteDates(S \cup {d}) /\ Cardinality(S \cup {d}) = Cardinality(S) + 1
  BY <1>1, FS_AddElement DEF FiniteDates
<1>3. ASSUME NEW e \in S PROVE Rank(e, S \cup {d}) = Rank(e, S)
  <2>1. {x \in S \cup {d} : x <= e} = {x \in S : x <= e}
    BY <1>1 DEF Above
  <2> QED BY <2>1 DEF Rank
<1>4. Rank(d, S \cup {d}) = Cardinality(S) + 1
  <2>1. \A x \in S \cup {d} : x <= d
    <3>1. \A x \in S : x \in Int /\ x < d
      BY <1>1 DEF Above
    <3>2. \A x \in S : x <= d
      BY <1>1, <3>1
    <3> QED BY <1>1, <3>2
  <2>2. {x \in S \cup {d} : x <= d} = S \cup {d}
    BY <2>1
  <2> QED BY <1>2, <2>2 DEF Rank
<1>5. PICK n, T, p, q : n = Cardinality(S) /\ T = S \cup {d} /\ p = Ascending(S) /\
          q = Ascending(T)
  OBVIOUS
<1>6. p \in Seq(Int) /\ Len(p) = n /\ q \in Seq(Int) /\ Len(q) = n + 1 /\ n \in Nat
  BY <1>1, <1>2, <1>5, AscendingDates
<1>7. ASSUME NEW i \in 1..n PROVE q[i] = p[i]
  <2>1. p[i] \in S /\ Rank(p[i], S) = i
    BY <1>5, RankedAt
  <2>2. p[i] \in T /\ Rank(p[i], T) = i
    BY <1>3, <1>5, <2>1
  <2>3. i \in 1..Cardinality(T)
    BY <1>2, <1>5, <1>6
  <2> QED BY <1>2, <1>5, <2>2, <2>3, RankedAt
<1>8. q[n + 1] = d
  <2>1. n + 1 \in 1..Cardinality(T)
    BY <1>2, <1>5, <1>6
  <2>2. d \in T /\ Rank(d, T) = n + 1
    BY <1>4, <1>5
  <2> QED BY <1>2, <1>5, <2>1, <2>2, RankedAt
<1>9. q = Append(p, d)
  <2>1. Append(p, d) \in Seq(Int) /\ Len(Append(p, d)) = n + 1
    BY <1>1, <1>6
  <2>2. \A i \in 1..n + 1 : Append(p, d)[i] = IF i = n + 1 THEN d ELSE p[i]
    BY <1>6
  <2>3. \A i \in 1..n + 1 : q[i] = Append(p, d)[i]
    BY <1>6, <1>7, <1>8, <2>2
  <2> QED BY <1>6, <2>1, <2>3
<1> QED BY <1>2, <1>3, <1>4, <1>5, <1>9

\* No dates, in order, are the empty sequence.
LEMMA NoDates == FiniteDates({}) /\ Ascending({}) = <<>> /\ Cardinality({}) = 0
<1>1. FiniteDates({}) /\ Cardinality({}) = 0
  BY FS_EmptySet DEF FiniteDates
<1>2. Ascending({}) \in Seq(Int) /\ Len(Ascending({})) = 0
  BY <1>1, AscendingDates
<1> QED BY <1>1, <1>2

-----------------------------------------------------------------------------
(* Folds over a sequence are runs over its positions.                      *)

\* A fold over a sequence is a run over its positions.  The equation a fold of
\* the community modules chooses a solution of has one.
FoldsFrom(F, b, n, step) ==
  F = [s \in SUBSET (1..n) |-> IF s = {} THEN b ELSE step[Max(s)][F[s \ {Max(s)}]]]

\* The greatest of a set of the first i+1 positions, by whether it has the last.
LEMMA LastOfInitial ==
  ASSUME NEW i \in Nat, NEW s \in SUBSET (1..i + 1)
  PROVE  /\ i + 1 \in s => Max(s) = i + 1
         /\ i + 1 \notin s => s \in SUBSET (1..i)
<1>1. \A x \in s : x \in Int /\ 1 <= x /\ x <= i + 1
  OBVIOUS
<1>2. ASSUME i + 1 \in s PROVE Max(s) = i + 1
  <2>1. \A y \in s : i + 1 >= y
    BY <1>1
  <2>2. \A x \in s : (\A y \in s : x >= y) => x = i + 1
    BY <1>1, <1>2
  <2> QED BY <1>2, <2>1, <2>2 DEF Max
<1>3. ASSUME i + 1 \notin s PROVE s \in SUBSET (1..i)
  BY <1>1, <1>3
<1> QED BY <1>2, <1>3

\* A set of positions has a greatest.
LEMMA GreatestIn ==
  ASSUME NEW i \in Nat, NEW s \in SUBSET (1..i), s # {}
  PROVE  Max(s) \in s
<1> DEFINE Bad == {j \in Nat : \E t \in SUBSET (1..j) : t # {} /\ Max(t) \notin t}
<1>1. SUFFICES ASSUME Bad # {} PROVE FALSE
  OBVIOUS
<1>2. PICK j \in Bad : \A k \in Bad : j <= k
  <2>1. Bad \subseteq Nat
    OBVIOUS
  <2> HIDE DEF Bad
  <2> QED BY <1>1, <2>1, Least
<1>3. PICK t \in SUBSET (1..j) : t # {} /\ Max(t) \notin t
  BY <1>2
<1>4. j # 0
  <2>1. 1..0 = {}
    OBVIOUS
  <2> QED BY <1>3, <2>1
<1>5. PICK k : k = j - 1
  OBVIOUS
<1>6. k \in Nat /\ j = k + 1 /\ k \notin Bad
  BY <1>2, <1>4, <1>5, SMTT(60)
<1>7. j \in t => Max(t) = j
  BY <1>3, <1>6, LastOfInitial
<1>8. j \notin t => t \in SUBSET (1..k)
  BY <1>3, <1>6, LastOfInitial
<1> QED BY <1>3, <1>6, <1>7, <1>8

\* A fold's equation has a solution over values W.
HasFold(W, b, n, step) == \E F \in [SUBSET (1..n) -> W] : FoldsFrom(F, b, n, step)

\* A fold of n steps, each a function on the same values, has a solution.
LEMMA FoldExists ==
  ASSUME NEW n \in Nat, NEW W, NEW b \in W, NEW step \in [1..n -> [W -> W]]
  PROVE  HasFold(W, b, n, step)
<1> DEFINE Bad == {i \in 0..n : ~ HasFold(W, b, i, step)}
<1>1. SUFFICES ASSUME Bad # {} PROVE FALSE
  <2>1. n \in 0..n
    OBVIOUS
  <2> QED BY <2>1
<1>2. PICK i \in Bad : \A j \in Bad : i <= j
  <2>1. Bad \subseteq Nat
    OBVIOUS
  <2> HIDE DEF Bad
  <2> QED BY <1>1, <2>1, Least
<1>3. i # 0
  <2>1. PICK F : F = [s \in SUBSET (1..0) |-> b]
    OBVIOUS
  <2>2. SUBSET (1..0) = {{}}
    OBVIOUS
  <2>3. FoldsFrom(F, b, 0, step) /\ F \in [SUBSET (1..0) -> W]
    BY <2>1, <2>2 DEF FoldsFrom
  <2> QED BY <1>2, <2>3 DEF HasFold
<1>4. PICK k : k = i - 1
  OBVIOUS
<1>5. k \in Nat /\ i = k + 1 /\ k \in 0..n /\ i \in 1..n /\ HasFold(W, b, k, step)
  BY <1>2, <1>3, <1>4
<1>6. PICK F \in [SUBSET (1..k) -> W] : FoldsFrom(F, b, k, step)
  BY <1>5 DEF HasFold
<1>7. PICK G : G = [s \in SUBSET (1..i) |-> IF i \in s THEN step[i][F[s \ {i}]] ELSE F[s]]
  OBVIOUS
<1>8. ASSUME NEW s \in SUBSET (1..i)
      PROVE  /\ i \in s => s \ {i} \in SUBSET (1..k) /\ Max(s) = i
             /\ i \notin s => s \in SUBSET (1..k)
  <2>1. s \in SUBSET (1..k + 1) /\ s \ {i} \in SUBSET (1..k + 1) /\ i \notin s \ {i}
    BY <1>5
  <2> QED BY <1>5, <2>1, LastOfInitial
<1>9. G \in [SUBSET (1..i) -> W]
  BY <1>5, <1>7, <1>8
<1>10. ASSUME NEW s \in SUBSET (1..i)
       PROVE  G[s] = IF s = {} THEN b ELSE step[Max(s)][G[s \ {Max(s)}]]
  <2>1. \A t \in SUBSET (1..k) : F[t] = IF t = {} THEN b ELSE step[Max(t)][F[t \ {Max(t)}]]
    BY <1>6 DEF FoldsFrom
  <2>2. CASE i \in s
    <3>1. s \ {i} \in SUBSET (1..i) /\ i \notin s \ {i}
      OBVIOUS
    <3>2. G[s \ {i}] = F[s \ {i}]
      BY <1>7, <3>1
    <3> QED BY <1>7, <1>8, <2>2, <3>2
  <2>3. CASE i \notin s
    <3>1. s \in SUBSET (1..k) /\ G[s] = F[s]
      BY <1>7, <1>8, <2>3
    <3>2. s # {} => s \ {Max(s)} \in SUBSET (1..i) /\ i \notin s \ {Max(s)}
      BY <2>3
    <3>3. s # {} => G[s \ {Max(s)}] = F[s \ {Max(s)}]
      BY <1>7, <3>2
    <3> QED BY <2>1, <3>1, <3>3
  <2> QED BY <2>2, <2>3
<1>11. FoldsFrom(G, b, i, step)
  BY <1>7, <1>10 DEF FoldsFrom
<1> QED BY <1>2, <1>9, <1>11 DEF HasFold

\* From a fold to the run over positions.
FoldsOn(F, W, b, n, step) ==
  /\ F[{}] = b
  /\ \A s \in SUBSET (1..n) : s # {} /\ F[s \ {Max(s)}] \in W =>
         F[s] = step[Max(s)][F[s \ {Max(s)}]]
RunsOver(T, W, b, n, step) ==
  /\ T \in [0..n -> W] /\ T[0] = b
  /\ \A i \in 1..n : T[i] = step[i][T[i-1]]

\* The result of a fold is the last of a run of its steps.
LEMMA FoldRuns ==
  ASSUME NEW n \in Nat, NEW W, NEW b \in W, NEW step \in [1..n -> [W -> W]], NEW F,
      FoldsOn(F, W, b, n, step)
  PROVE  \E T : RunsOver(T, W, b, n, step) /\ T[n] = F[1..n]
<1>1. PICK T : T = [i \in 0..n |-> F[1..i]]
  OBVIOUS
<1>3. T[0] = b
  <2>1. 1..0 = {} /\ 0 \in 0..n
    OBVIOUS
  <2>2. F[{}] = b
    BY DEF FoldsOn
  <2> QED BY <1>1, <2>1, <2>2
<1>4. ASSUME NEW i \in 1..n, T[i-1] \in W PROVE T[i] = step[i][T[i-1]] /\ T[i] \in W
  <2>1. PICK k : k = i - 1
    OBVIOUS
  <2>2. k \in Nat /\ i = k + 1 /\ k \in 0..n /\ i \in 0..n
    BY <2>1
  <2>3. 1..i \in SUBSET (1..k + 1) /\ k + 1 \in 1..i /\ 1..i \in SUBSET (1..n) /\ 1..i # {}
    <3>1. \A x \in 1..i : x \in 1..k + 1 /\ x \in 1..n
      BY <2>2
    <3>2. k + 1 \in 1..i
      BY <2>2
    <3> QED BY <3>1, <3>2
  <2>4. Max(1..i) = i
    BY <2>2, <2>3, LastOfInitial
  <2>5. (1..i) \ {i} = 1..k
    BY <2>2
  <2>6. F[1..k] \in W /\ T[i-1] = F[1..k]
    BY <1>1, <1>4, <2>1, <2>2
  <2>7. F[1..i] = step[i][F[1..k]]
    BY <2>3, <2>4, <2>5, <2>6 DEF FoldsOn
  <2> QED BY <1>1, <2>2, <2>6, <2>7
<1>5. \A i \in 0..n : T[i] \in W
  <2> DEFINE Bad == {i \in 0..n : T[i] \notin W}
  <2>1. SUFFICES ASSUME Bad # {} PROVE FALSE
    OBVIOUS
  <2>2. PICK i \in Bad : \A j \in Bad : i <= j
    <3>1. Bad \subseteq Nat
      OBVIOUS
    <3> HIDE DEF Bad
    <3> QED BY <2>1, <3>1, Least
  <2>3. i # 0
    BY <1>3, <2>2
  <2>4. i \in 1..n /\ i - 1 \in 0..n /\ T[i-1] \in W
    BY <2>2, <2>3
  <2> QED BY <1>4, <2>2, <2>4
<1>6. \A i \in 1..n : T[i] = step[i][T[i-1]]
  <2> SUFFICES ASSUME NEW i \in 1..n PROVE T[i] = step[i][T[i-1]]
    OBVIOUS
  <2>1. i - 1 \in 0..n
    OBVIOUS
  <2> QED BY <1>4, <1>5, <2>1
<1>7. T \in [0..n -> W] /\ T[n] = F[1..n]
  <2>1. n \in 0..n
    OBVIOUS
  <2> QED BY <1>1, <1>5, <2>1
<1> QED BY <1>3, <1>6, <1>7 DEF RunsOver

\* A walk: what is found, how many were counted, and whether it ended.
WalkStates == [found : Seq(Int), produced : Nat, done : BOOLEAN]

\* A candidate taken leaves a walk a walk.
LEMMA TakeWalks ==
  ASSUME NEW rule, NEW start, NEW from \in Int, NEW limit \in Nat, NEW w \in WalkStates, NEW d \in Int
  PROVE  Take(rule, start, from, limit, w, d) \in WalkStates
<1>1. w.found \in Seq(Int) /\ w.produced \in Nat
  BY DEF WalkStates
<1>2. CASE w.done \/ d < start
  BY <1>2 DEF Take
<1>3. CASE ~ (w.done \/ d < start) /\ ((rule.until # Never /\
          d > rule.until) \/ (rule.count # Never /\ w.produced = rule.count))
  BY <1>3 DEF Take, WalkStates
<1>4. CASE ~ (w.done \/ d < start) /\ ~ ((rule.until # Never /\
          d > rule.until) \/ (rule.count # Never /\ w.produced = rule.count))
  <2>1. PICK found : found = IF d >= from THEN Append(w.found, d) ELSE w.found
    OBVIOUS
  <2>2. found \in Seq(Int)
    BY <1>1, <2>1
  <2>3. Take(rule, start, from, limit, w, d) = [found |-> found,
            produced |-> w.produced + 1, done |-> Len(found) >= limit]
    BY <1>4, <2>1 DEF Take
  <2>4. (Len(found) >= limit) \in BOOLEAN
    OBVIOUS
  <2> QED BY <1>1, <2>2, <2>3, <2>4 DEF WalkStates
<1> QED BY <1>2, <1>3, <1>4

\* A run over the candidates of a period, and over the periods.
TurnRun(T, rule, start, from, limit, w, k) ==
  LET q == Ascending(PeriodCandidates(rule, start, k))
      n == Cardinality(PeriodCandidates(rule, start, k))
  IN /\ T \in [0..n -> WalkStates] /\ T[0] = w
     /\ \A i \in 1..n : T[i] = Take(rule, start, from, limit, T[i-1], q[i])
     /\ T[n] = Turn(rule, start, from, limit, w, k)
ExpandRun(T, rule, start, from, limit) ==
  /\ T \in [0..MaxPeriods -> WalkStates]
  /\ T[0] = [found |-> <<>>, produced |-> 0, done |-> limit = 0]
  /\ \A i \in 1..MaxPeriods : T[i] = Turn(rule, start, from, limit, T[i-1], i - 1)
  /\ T[MaxPeriods].found = Expand(rule, start, from, limit)

\* The walk of one period is a run over its candidates, in order.
LEMMA TurnRuns ==
  ASSUME NEW rule, NEW start, NEW from \in Int, NEW limit \in Nat, NEW w \in WalkStates, NEW k \in Nat,
         FiniteDates(PeriodCandidates(rule, start, k))
  PROVE  /\ Turn(rule, start, from, limit, w, k) \in WalkStates
         /\ \E T : TurnRun(T, rule, start, from, limit, w, k)
<1>1. PICK q, n : q = Ascending(PeriodCandidates(rule, start, k)) /\
          n = Cardinality(PeriodCandidates(rule, start, k))
  OBVIOUS
<1>2. n \in Nat /\ DOMAIN q = 1..n /\ \A i \in 1..n : q[i] \in Int
  BY <1>1, Ranks, RankedAt, AscendingDates DEF FiniteDates
<1>3. PICK step : step = [i \in 1..n |-> [v \in WalkStates |-> Take(rule, start, from, limit, v,
          q[i])]]
  OBVIOUS
<1>4. step \in [1..n -> [WalkStates -> WalkStates]]
  BY <1>2, <1>3, TakeWalks
<1>5. \A i \in 1..n, v \in WalkStates : step[i][v] = Take(rule, start, from, limit, v, q[i])
  BY <1>3
<1> DEFINE Eq(F) == F = [s \in SUBSET (1..n) |-> IF s = {} THEN w
                        ELSE Take(rule, start, from, limit, F[s \ {Max(s)}], q[Max(s)])]
<1>6. PICK G : G = CHOOSE F : Eq(F)
  OBVIOUS
<1>7. Turn(rule, start, from, limit, w, k) = G[1..n]
  BY <1>1, <1>2, <1>6 DEF Turn, FoldLeft, MapThenFoldSet
<1>8. PICK F \in [SUBSET (1..n) -> WalkStates] : FoldsFrom(F, w, n, step)
  BY <1>2, <1>4, FoldExists DEF HasFold
<1>9. Eq(F)
  <2>1. ASSUME NEW s \in SUBSET (1..n), s # {}
        PROVE  step[Max(s)][F[s \ {Max(s)}]] = Take(rule, start, from, limit,
                   F[s \ {Max(s)}], q[Max(s)])
    <3>1. Max(s) \in 1..n
      BY <1>2, <2>1, GreatestIn
    <3>2. s \ {Max(s)} \in SUBSET (1..n)
      OBVIOUS
    <3>3. F[s \ {Max(s)}] \in WalkStates
      BY <3>2
    <3> QED BY <1>5, <3>1, <3>3
  <2>2. F = [s \in SUBSET (1..n) |-> IF s = {} THEN w ELSE step[Max(s)][F[s \ {Max(s)}]]]
    BY <1>8 DEF FoldsFrom
  <2> QED BY <2>1, <2>2
<1>10. Eq(G)
  BY <1>6, <1>9
<1>11. G[{}] = w
  BY <1>10
<1>12. ASSUME NEW s \in SUBSET (1..n), s # {}, G[s \ {Max(s)}] \in WalkStates
       PROVE  G[s] = step[Max(s)][G[s \ {Max(s)}]]
  <2>1. G[s] = Take(rule, start, from, limit, G[s \ {Max(s)}], q[Max(s)])
    BY <1>10, <1>12
  <2>2. Max(s) \in 1..n
    BY <1>2, <1>12, GreatestIn
  <2> QED BY <1>5, <1>12, <2>1, <2>2
<1> HIDE DEF Eq
<1>13. PICK T : RunsOver(T, WalkStates, w, n, step) /\ T[n] = G[1..n]
  <2>1. FoldsOn(G, WalkStates, w, n, step)
    BY <1>11, <1>12 DEF FoldsOn
  <2> QED BY <1>2, <1>4, <2>1, FoldRuns
<1>14. \A i \in 1..n : T[i] = Take(rule, start, from, limit, T[i-1], q[i])
  <2> SUFFICES ASSUME NEW i \in 1..n PROVE T[i] = Take(rule, start, from, limit, T[i-1], q[i])
    OBVIOUS
  <2>1. i - 1 \in 0..n
    BY <1>2
  <2> QED BY <1>5, <1>13, <2>1 DEF RunsOver
<1>15. Turn(rule, start, from, limit, w, k) \in WalkStates
  <2>1. n \in 0..n
    BY <1>2
  <2> QED BY <1>7, <1>13, <2>1 DEF RunsOver
<1>16. TurnRun(T, rule, start, from, limit, w, k)
  BY <1>1, <1>7, <1>13, <1>14 DEF RunsOver, TurnRun
<1> QED BY <1>15, <1>16

\* And the whole expansion.
LEMMA ExpandRuns ==
  ASSUME NEW rule, NEW start, NEW from \in Int, NEW limit \in Nat,
         \A k \in 0..MaxPeriods - 1 : FiniteDates(PeriodCandidates(rule, start, k))
  PROVE  \E T : ExpandRun(T, rule, start, from, limit)
<1>1. PICK n, w : n = MaxPeriods /\ w = [found |-> <<>>, produced |-> 0, done |-> limit = 0]
  OBVIOUS
<1>2. n \in Nat /\ w \in WalkStates
  <2>1. <<>> \in Seq(Int) /\ (limit = 0) \in BOOLEAN
    OBVIOUS
  <2> QED BY <1>1, <2>1, RecurrenceAssumption DEF WalkStates
<1>3. PICK step : step = [i \in 1..n |-> [v \in WalkStates |-> Turn(rule, start, from, limit, v,
          i - 1)]]
  OBVIOUS
<1>4. step \in [1..n -> [WalkStates -> WalkStates]]
  <2>1. \A i \in 1..n, v \in WalkStates : Turn(rule, start, from, limit, v, i - 1) \in WalkStates
    <3> SUFFICES ASSUME NEW i \in 1..n, NEW v \in WalkStates PROVE Turn(rule, start, from, limit,
            v, i - 1) \in WalkStates
      OBVIOUS
    <3>1. PICK k : k = i - 1
      OBVIOUS
    <3>2. k \in 0..MaxPeriods - 1
      BY <1>1, <1>2, <3>1
    <3>3. FiniteDates(PeriodCandidates(rule, start, k))
      BY <3>2
    <3>4. k \in Nat
      BY <3>2
    <3> QED BY <3>1, <3>3, <3>4, TurnRuns
  <2> QED BY <1>3, <2>1
<1>5. \A i \in 1..n, v \in WalkStates : step[i][v] = Turn(rule, start, from, limit, v, i - 1)
  BY <1>3
<1>q. PICK q : q = [k \in 1..n |-> k - 1]
  OBVIOUS
<1> DEFINE Eq(F) == F = [s \in SUBSET (DOMAIN q) |-> IF s = {} THEN w
                        ELSE Turn(rule, start, from, limit, F[s \ {Max(s)}], q[Max(s)])]
<1>6. PICK G : G = CHOOSE F : Eq(F)
  OBVIOUS
<1>d. DOMAIN q = 1..n
  BY <1>q
<1>7. Expand(rule, start, from, limit) = G[1..n].found
  <2>1. q = [k \in 1..MaxPeriods |-> k - 1]
    BY <1>1, <1>q
  <2>2. FoldLeft(LAMBDA v, k : Turn(rule, start, from, limit, v, k), w, q) = G[DOMAIN q]
    BY <1>6 DEF FoldLeft, MapThenFoldSet
  <2> QED BY <1>1, <1>d, <2>1, <2>2 DEF Expand
<1>8. PICK F \in [SUBSET (1..n) -> WalkStates] : FoldsFrom(F, w, n, step)
  BY <1>2, <1>4, FoldExists DEF HasFold
<1>9. Eq(F)
  <2>1. ASSUME NEW s \in SUBSET (1..n), s # {}
        PROVE  step[Max(s)][F[s \ {Max(s)}]] = Turn(rule, start, from, limit,
                   F[s \ {Max(s)}], q[Max(s)])
    <3>1. Max(s) \in 1..n
      BY <1>2, <2>1, GreatestIn
    <3>2. s \ {Max(s)} \in SUBSET (1..n)
      OBVIOUS
    <3>3. F[s \ {Max(s)}] \in WalkStates
      BY <3>2
    <3> QED BY <1>5, <1>q, <3>1, <3>3
  <2>2. F = [s \in SUBSET (1..n) |-> IF s = {} THEN w ELSE step[Max(s)][F[s \ {Max(s)}]]]
    BY <1>8 DEF FoldsFrom
  <2> QED BY <1>d, <2>1, <2>2
<1>10. Eq(G)
  BY <1>6, <1>9
<1>11. G[{}] = w
  BY <1>10
<1>12. ASSUME NEW s \in SUBSET (1..n), s # {}, G[s \ {Max(s)}] \in WalkStates
       PROVE  G[s] = step[Max(s)][G[s \ {Max(s)}]]
  <2>1. G[s] = Turn(rule, start, from, limit, G[s \ {Max(s)}], q[Max(s)])
    BY <1>10, <1>12, <1>d
  <2>2. Max(s) \in 1..n
    BY <1>2, <1>12, GreatestIn
  <2> QED BY <1>5, <1>q, <1>12, <2>1, <2>2
<1> HIDE DEF Eq
<1>13. PICK T : RunsOver(T, WalkStates, w, n, step) /\ T[n] = G[1..n]
  <2>1. FoldsOn(G, WalkStates, w, n, step)
    BY <1>11, <1>12 DEF FoldsOn
  <2> QED BY <1>2, <1>4, <2>1, FoldRuns
<1>14. \A i \in 1..n : T[i] = Turn(rule, start, from, limit, T[i-1], i - 1)
  <2> SUFFICES ASSUME NEW i \in 1..n PROVE T[i] = Turn(rule, start, from, limit, T[i-1], i - 1)
    OBVIOUS
  <2>1. i - 1 \in 0..n
    BY <1>2
  <2> QED BY <1>5, <1>13, <2>1 DEF RunsOver
<1>15. ExpandRun(T, rule, start, from, limit)
  BY <1>1, <1>7, <1>13, <1>14 DEF RunsOver, ExpandRun
<1> QED BY <1>15

\* A run over the dates found.
RetainRun(T, p, n, exdates) ==
  /\ T \in [0..n -> Seq(Int)] /\ T[0] = <<>>
  /\ \A i \in 1..n : T[i] = IF p[i] \in exdates THEN T[i-1] ELSE Append(T[i-1], p[i])
  /\ T[n] = Retained(p, exdates)

\* Dropping dates from a sequence of them.
LEMMA RetainRuns ==
  ASSUME NEW n, n \in Nat, NEW p, p \in [1..n -> Int], NEW exdates
  PROVE  \E T : RetainRun(T, p, n, exdates)
<1>1. PICK w : w = <<>>
  OBVIOUS
<1>2. w \in Seq(Int)
  BY <1>1
<1>3. PICK step : step = [i \in 1..n |-> [v \in Seq(Int) |-> IF p[i] \in exdates THEN v ELSE Append(v, p[i])]]
  OBVIOUS
<1>4. step \in [1..n -> [Seq(Int) -> Seq(Int)]]
  BY <1>3
<1>5. \A i \in 1..n, v \in Seq(Int) : step[i][v] = IF p[i] \in exdates THEN v ELSE Append(v, p[i])
  BY <1>3
<1> DEFINE Eq(F) == F = [s \in SUBSET (DOMAIN p) |-> IF s = {} THEN w
                        ELSE IF p[Max(s)] \in exdates THEN F[s \ {Max(s)}] ELSE Append(F[s \ {Max(s)}], p[Max(s)])]
<1>6. PICK G : G = CHOOSE F : Eq(F)
  OBVIOUS
<1>d. DOMAIN p = 1..n
  OBVIOUS
<1>7. Retained(p, exdates) = G[1..n]
  <2>1. Retained(p, exdates) = G[DOMAIN p]
    BY <1>1, <1>6 DEF Retained, FoldLeft, MapThenFoldSet
  <2> QED BY <1>d, <2>1
<1>8. PICK F \in [SUBSET (1..n) -> Seq(Int)] : FoldsFrom(F, w, n, step)
  BY <1>2, <1>4, FoldExists DEF HasFold
<1>9. Eq(F)
  <2>1. ASSUME NEW s \in SUBSET (1..n), s # {}
        PROVE  step[Max(s)][F[s \ {Max(s)}]] =
                 IF p[Max(s)] \in exdates THEN F[s \ {Max(s)}] ELSE Append(F[s \ {Max(s)}],
                     p[Max(s)])
    <3>1. Max(s) \in 1..n
      BY <2>1, GreatestIn
    <3>2. s \ {Max(s)} \in SUBSET (1..n)
      OBVIOUS
    <3>3. F[s \ {Max(s)}] \in Seq(Int)
      BY <3>2
    <3> QED BY <1>5, <3>1, <3>3
  <2>2. F = [s \in SUBSET (1..n) |-> IF s = {} THEN w ELSE step[Max(s)][F[s \ {Max(s)}]]]
    BY <1>8 DEF FoldsFrom
  <2> QED BY <1>d, <2>1, <2>2
<1>10. Eq(G)
  BY <1>6, <1>9
<1>11. G[{}] = w
  BY <1>10
<1>12. ASSUME NEW s \in SUBSET (1..n), s # {}, G[s \ {Max(s)}] \in Seq(Int)
       PROVE  G[s] = step[Max(s)][G[s \ {Max(s)}]]
  <2>1. G[s] = IF p[Max(s)] \in exdates THEN G[s \ {Max(s)}] ELSE Append(G[s \ {Max(s)}],
            p[Max(s)])
    BY <1>10, <1>12, <1>d
  <2>2. Max(s) \in 1..n
    BY <1>12, GreatestIn
  <2> QED BY <1>5, <1>12, <2>1, <2>2
<1> HIDE DEF Eq
<1>13. PICK T : RunsOver(T, Seq(Int), w, n, step) /\ T[n] = G[1..n]
  <2>1. FoldsOn(G, Seq(Int), w, n, step)
    BY <1>11, <1>12 DEF FoldsOn
  <2>2. PICK W, m : W = Seq(Int) /\ m = n
    OBVIOUS
  <2>3. FoldsOn(G, W, w, m, step) /\ w \in W /\ step \in [1..m -> [W -> W]] /\ m \in Nat
    BY <1>2, <1>4, <2>1, <2>2
  <2>4. \E T : RunsOver(T, W, w, m, step) /\ T[m] = G[1..m]
    BY ONLY SMTT(30), <2>3, FoldRuns
  <2> QED BY <2>2, <2>4
<1>14. \A i \in 1..n : T[i] = IF p[i] \in exdates THEN T[i-1] ELSE Append(T[i-1], p[i])
  <2> SUFFICES ASSUME NEW i \in 1..n PROVE T[i] =
          IF p[i] \in exdates THEN T[i-1] ELSE Append(T[i-1], p[i])
    OBVIOUS
  <2>1. i - 1 \in 0..n
    OBVIOUS
  <2> QED BY <1>5, <1>13, <2>1 DEF RunsOver
<1>15. RetainRun(T, p, n, exdates)
  BY <1>1, <1>7, <1>13, <1>14 DEF RunsOver, RetainRun
<1> QED BY <1>15

-----------------------------------------------------------------------------
(* The walk: what it has found is the first of what it was asked for.      *)

\* The dates of A that UNTIL and COUNT let in, those of them asked for, and the
\* first n of a set.
LetIn(rule, A) ==
  {d \in A : (rule.until # Never => d <= rule.until) /\ (rule.count # Never =>
      Rank(d, A) <= rule.count)}
AskedFor(rule, from, A) == {d \in LetIn(rule, A) : d >= from}
FirstOf(n, S) == {d \in S : Rank(d, S) <= n}

\* A walk that is done stays where it is: no later date is listed.
Ended(rule, from, limit, A) ==
  \/ rule.until # Never /\ \E a \in A : a > rule.until
  \/ rule.count # Never /\ Cardinality(A) >= rule.count
  \/ Cardinality(AskedFor(rule, from, A)) >= limit

\* What a walk knows of the candidates A it has taken.
Walked(rule, from, limit, w, A) ==
  /\ w.found = Ascending(FirstOf(limit, AskedFor(rule, from, A)))
  /\ w.done => Ended(rule, from, limit, A)
  /\ ~ w.done => /\ w.produced = Cardinality(A) /\ LetIn(rule, A) = A
                 /\ rule.count # Never => Cardinality(A) <= rule.count
                 /\ Cardinality(AskedFor(rule, from, A)) < limit

\* Some of finitely many dates are no more dates.
LEMMA SubsetDates ==
  ASSUME NEW S, FiniteDates(S), NEW T, T \subseteq S
  PROVE  FiniteDates(T) /\ Cardinality(T) <= Cardinality(S)
BY FS_Subset DEF FiniteDates

\* The first n of a set with one more date above: the same, once there are n.
LEMMA FirstMore ==
  ASSUME NEW S, FiniteDates(S), NEW d, Above(d, S), NEW n \in Nat
  PROVE  /\ Cardinality(S) <= n => FirstOf(n, S) = S
         /\ Cardinality(S) >= n => FirstOf(n, S \cup {d}) = FirstOf(n, S)
<1>1. Cardinality(S) \in Nat /\ \A e \in S : Rank(e, S) \in 1..Cardinality(S)
  BY Ranks
<1>2. /\ \A e \in S : Rank(e, S \cup {d}) = Rank(e, S)
      /\ Rank(d, S \cup {d}) = Cardinality(S) + 1
  BY OneMore
<1>3. ASSUME Cardinality(S) <= n PROVE FirstOf(n, S) = S
  <2>1. \A e \in S : Rank(e, S) <= n
    BY <1>1, <1>3
  <2> QED BY <2>1 DEF FirstOf
<1>4. ASSUME Cardinality(S) >= n PROVE FirstOf(n, S \cup {d}) = FirstOf(n, S)
  <2>1. ~ (Rank(d, S \cup {d}) <= n)
    BY <1>1, <1>2, <1>4
  <2> QED BY <1>2, <2>1 DEF FirstOf
<1> QED BY <1>3, <1>4

\* One more day of a series: it is let in or it is not.
Enters(rule, A, d) ==
  /\ rule.until # Never => d <= rule.until
  /\ rule.count # Never => Cardinality(A) + 1 <= rule.count

\* One more day of a series is asked for if it enters and is not before the window.
LEMMA AskedMore ==
  ASSUME NEW rule, NEW from, NEW A, FiniteDates(A), NEW d, Above(d, A)
  PROVE  /\ LetIn(rule, A \cup {d}) = IF Enters(rule, A, d) THEN LetIn(rule,
                A) \cup {d} ELSE LetIn(rule, A)
         /\ AskedFor(rule, from, A \cup {d}) = IF Enters(rule, A, d) /\
                d >= from THEN AskedFor(rule, from, A) \cup {d}
                                            ELSE AskedFor(rule, from, A)
         /\ FiniteDates(AskedFor(rule, from, A)) /\ Above(d, AskedFor(rule, from, A))
<1>1. /\ \A e \in A : Rank(e, A \cup {d}) = Rank(e, A)
      /\ Rank(d, A \cup {d}) = Cardinality(A) + 1
  BY OneMore
<1>2. AskedFor(rule, from, A) \subseteq A
  BY DEF AskedFor, LetIn
<1>3. FiniteDates(AskedFor(rule, from, A)) /\ Above(d, AskedFor(rule, from, A))
  BY <1>2, SubsetDates DEF Above
<1>4. LetIn(rule, A \cup {d}) = IF Enters(rule, A, d) THEN LetIn(rule,
          A) \cup {d} ELSE LetIn(rule, A)
  BY <1>1 DEF LetIn, Enters
<1>5. AskedFor(rule, from, A \cup {d}) = IF Enters(rule, A, d) /\
          d >= from THEN AskedFor(rule, from, A) \cup {d}
                                     ELSE AskedFor(rule, from, A)
  BY <1>4 DEF AskedFor
<1> QED BY <1>3, <1>4, <1>5

\* Taking a candidate above every one before it keeps the walk's account: what is
\* found is the first asked for, and a walk that is done has a reason to be.
LEMMA TakeKeeps ==
  ASSUME NEW rule \in RecurrenceRules, NEW start \in Int, NEW from \in Int, NEW limit \in Nat,
         NEW A, FiniteDates(A), NEW d, Above(d, A),
         NEW w \in WalkStates, Walked(rule, from, limit, w, A)
  PROVE  Walked(rule, from, limit, Take(rule, start, from, limit, w, d),
             IF d < start THEN A ELSE A \cup {d})
<1>1. d \in Int /\ Cardinality(A) \in Nat /\ Cardinality(A \cup {d}) = Cardinality(A) + 1
  BY Ranks, OneMore DEF Above
<1>2. rule.until \in Int /\ rule.count \in Nat \cup {Never}
  BY DEF RecurrenceRules
<1>3. PICK B, v, D, E :
        /\ B = A \cup {d} /\ v = Take(rule, start, from, limit, w, d)
        /\ D = AskedFor(rule, from, A) /\ E = AskedFor(rule, from, B)
  OBVIOUS
<1>4. /\ LetIn(rule, B) = IF Enters(rule, A, d) THEN LetIn(rule, A) \cup {d} ELSE LetIn(rule, A)
      /\ E = IF Enters(rule, A, d) /\ d >= from THEN D \cup {d} ELSE D
      /\ FiniteDates(D) /\ Above(d, D)
  BY <1>3, AskedMore
<1>5. Cardinality(D) \in Nat /\ (Enters(rule, A, d) /\ d >= from =>
          Cardinality(E) = Cardinality(D) + 1 /\ FiniteDates(E))
  BY <1>4, Ranks, OneMore
<1>6. Walked(rule, from, limit, w, A)
  OBVIOUS
<1>7. CASE d < start
  <2>1. Take(rule, start, from, limit, w, d) = w
    BY <1>7 DEF Take
  <2> QED BY <1>6, <1>7, <2>1
<1>8. CASE ~ (d < start) /\ w.done
  <2>1. v = w
    BY <1>3, <1>8 DEF Take
  <2>2. Ended(rule, from, limit, A)
    BY <1>6, <1>8 DEF Walked
  <2>3. FirstOf(limit, E) = FirstOf(limit, D)
    <3>1. CASE E = D
      BY <3>1
    <3>2. CASE Enters(rule, A, d) /\ d >= from
      <4>1. Cardinality(D) >= limit
        <5>1. ASSUME rule.until # Never, NEW a \in A, a > rule.until PROVE FALSE
          <6>1. a \in Int /\ a < d
            BY DEF Above, FiniteDates
          <6> QED BY <1>1, <1>2, <3>2, <5>1, <6>1 DEF Enters
        <5>2. ASSUME rule.count # Never, Cardinality(A) >= rule.count PROVE FALSE
          <6>1. rule.count \in Nat /\ Cardinality(A) + 1 <= rule.count
            BY <1>2, <3>2, <5>2 DEF Enters
          <6> QED BY <1>1, <5>2, <6>1
        <5> QED BY <1>3, <2>2, <5>1, <5>2 DEF Ended
      <4> QED BY <1>4, <3>2, <4>1, FirstMore
    <3> QED BY <1>4, <3>1, <3>2
  <2>4. Ended(rule, from, limit, B)
    <3>1. Cardinality(D) <= Cardinality(E)
      BY <1>4, <1>5
    <3>2. Cardinality(E) \in Nat
      BY <1>4, <1>5
    <3> QED BY <1>1, <1>2, <1>3, <1>5, <2>2, <3>1, <3>2 DEF Ended
  <2>5. v.found = Ascending(FirstOf(limit, E)) /\ v.done
    BY <1>3, <1>6, <1>8, <2>1, <2>3 DEF Walked
  <2>6. Walked(rule, from, limit, v, B)
    BY <1>3, <2>4, <2>5 DEF Walked
  <2> QED BY <1>3, <1>8, <2>6
<1>9. CASE ~ (d < start) /\ ~ w.done
  <2>1. /\ w.produced = Cardinality(A) /\ LetIn(rule, A) = A
        /\ rule.count # Never => Cardinality(A) <= rule.count
        /\ Cardinality(D) < limit /\ w.found = Ascending(FirstOf(limit, D))
    BY <1>3, <1>6, <1>9 DEF Walked
  <2>2. CASE (rule.until # Never /\ d > rule.until) \/ (rule.count # Never /\
            w.produced = rule.count)
    <3>1. v = [w EXCEPT !.done = TRUE]
      BY <1>3, <1>9, <2>2 DEF Take
    <3>2. v.found = w.found /\ v.done
      BY <3>1 DEF WalkStates
    <3>3. ~ Enters(rule, A, d)
      <4>1. ASSUME Enters(rule, A, d), rule.count # Never, w.produced = rule.count PROVE FALSE
        <5>1. rule.count = Cardinality(A) /\ Cardinality(A) + 1 <= rule.count
          BY <2>1, <4>1 DEF Enters
        <5> QED BY <1>1, <5>1
      <4>2. ASSUME Enters(rule, A, d), rule.until # Never, d > rule.until PROVE FALSE
        <5>1. d <= rule.until
          BY <4>2 DEF Enters
        <5> QED BY <1>1, <1>2, <4>2, <5>1
      <4> QED BY <2>2, <4>1, <4>2
    <3>4. E = D
      BY <1>4, <3>3
    <3>5. Ended(rule, from, limit, B)
      BY <1>1, <1>2, <1>3, <2>1, <2>2 DEF Ended
    <3>6. Walked(rule, from, limit, v, B)
      BY <1>3, <2>1, <3>2, <3>4, <3>5 DEF Walked
    <3> QED BY <1>3, <1>9, <3>6
  <2>3. CASE ~ ((rule.until # Never /\ d > rule.until) \/ (rule.count # Never /\
            w.produced = rule.count))
    <3>1. PICK found : found = IF d >= from THEN Append(w.found, d) ELSE w.found
      OBVIOUS
    <3>2. v = [found |-> found, produced |-> w.produced + 1, done |-> Len(found) >= limit]
      BY <1>3, <1>9, <2>3, <3>1 DEF Take
    <3>3. Enters(rule, A, d)
      <4>1. ASSUME rule.count # Never PROVE Cardinality(A) + 1 <= rule.count
        <5>1. rule.count \in Nat /\ Cardinality(A) <= rule.count /\ Cardinality(A) # rule.count
          BY <1>2, <2>1, <2>3, <4>1
        <5> QED BY <1>1, <5>1
      <4>2. ASSUME rule.until # Never PROVE d <= rule.until
        <5>1. ~ (d > rule.until)
          BY <2>3, <4>2
        <5> QED BY <1>1, <1>2, <5>1
      <4> QED BY <4>1, <4>2 DEF Enters
    <3>4. LetIn(rule, B) = B
      BY <1>3, <1>4, <2>1, <3>3
    <3>5. rule.count # Never => Cardinality(B) <= rule.count
      BY <1>1, <1>3, <3>3 DEF Enters
    <3>6. FirstOf(limit, D) = D
      <4>1. Cardinality(D) <= limit
        BY <1>5, <2>1
      <4> QED BY <1>4, <4>1, FirstMore
    <3>7. Cardinality(E) \in Nat /\ Cardinality(E) <= limit /\ FiniteDates(E) /\
              found = Ascending(E)
      <4>1. CASE d >= from
        <5>1. E = D \cup {d} /\ Cardinality(E) = Cardinality(D) + 1 /\ FiniteDates(E)
          BY <1>4, <1>5, <3>3, <4>1
        <5>2. Ascending(E) = Append(Ascending(D), d)
          BY <1>4, <5>1, OneMore
        <5>3. found = Ascending(E)
          BY <2>1, <3>1, <3>6, <4>1, <5>2
        <5>4. Cardinality(E) \in Nat /\ Cardinality(E) <= limit
          BY <1>5, <2>1, <5>1
        <5> QED BY <5>1, <5>3, <5>4
      <4>2. CASE ~ (d >= from)
        BY <1>4, <1>5, <2>1, <3>1, <3>6, <4>2
      <4> QED BY <4>1, <4>2
    <3>8. Len(found) = Cardinality(E)
      BY <3>7, AscendingDates
    <3>9. FirstOf(limit, E) = E
      <4>1. \A e \in E : Rank(e, E) \in 1..Cardinality(E)
        BY <3>7, Ranks
      <4>2. \A e \in E : Rank(e, E) <= limit
        BY <3>7, <4>1
      <4> QED BY <4>2 DEF FirstOf
    <3>10. /\ v.found = Ascending(E) /\ v.produced = Cardinality(B) /\
                  v.done = (Cardinality(E) >= limit)
      BY <1>1, <1>3, <2>1, <3>2, <3>7, <3>8
    <3>11. Walked(rule, from, limit, v, B)
      <4>1. v.found = Ascending(FirstOf(limit, AskedFor(rule, from, B)))
        BY <1>3, <3>9, <3>10
      <4>2. v.done => Cardinality(E) >= limit
        BY <3>10
      <4>3. ~ v.done => Cardinality(E) < limit
        <5>1. ~ v.done => ~ (Cardinality(E) >= limit)
          BY <3>10
        <5>2. ~ (Cardinality(E) >= limit) => Cardinality(E) < limit
          BY <3>7
        <5> QED BY <5>1, <5>2
      <4> QED BY <1>3, <3>4, <3>5, <3>10, <4>1, <4>2, <4>3 DEF Walked, Ended
    <3> QED BY <1>3, <1>9, <3>11
  <2> QED BY <2>2, <2>3
<1> QED BY <1>7, <1>8, <1>9

-----------------------------------------------------------------------------
(* A period's walk, and the expansion.                                     *)

\* Every set of days within the horizon is finite.
LEMMA HorizonFinite == \A S : S \subseteq Horizon => FiniteDates(S)
<1>1. IsFiniteSet(Horizon) /\ Horizon \subseteq Int
  BY HorizonIsLaid, FS_Interval DEF Horizon
<1> QED BY <1>1, FS_Subset DEF FiniteDates

\* The walk of one period.
LEMMA TurnKeeps ==
  ASSUME NEW rule \in RecurrenceRules, Accepts(rule), NEW start, LaidOut(rule, start),
         NEW from \in Int, NEW limit \in Nat, NEW k \in 0..MaxPeriods - 1, NEW w \in WalkStates,
         Walked(rule, from, limit, w, DaysUpto(rule, start, k))
  PROVE  Walked(rule, from, limit, Turn(rule, start, from, limit, w, k), DaysUpto(rule,
             start, k + 1))
<1>1. PICK A, C, n, q : /\ A = DaysUpto(rule, start, k) /\ C = PeriodCandidates(rule, start, k)
                        /\ n = Cardinality(C) /\ q = Ascending(C)
  OBVIOUS
<1>2. start \in Int /\ start \in Horizon /\ MaxPeriods \in Nat /\ FirstDay[LastMonth] \in Nat
  BY HorizonIsLaid, RecurrenceAssumption DEF LaidOut, Horizon
<1>3. C \subseteq Horizon /\ FiniteDates(C) /\ C \subseteq Int
  BY <1>1, CandidatesAscend, HorizonFinite DEF FiniteDates
<1>4. A \subseteq Horizon /\ \A e \in A : e \in Int /\ \A d \in C : e < d
  <2>1. A \subseteq Horizon
    BY <1>1, <1>2 DEF DaysUpto, Horizon
  <2>2. ASSUME NEW e \in A, NEW d \in C PROVE e < d
    <3>1. PICK j \in 0..k - 1 : e \in PeriodCandidates(rule, start, j)
      BY <1>1 DEF DaysUpto
    <3> QED BY <1>1, <3>1, CandidatesAscend
  <2> QED BY <2>1, <2>2, <1>2 DEF Horizon
<1>5. n \in Nat /\ \A d \in C : Rank(d, C) \in 1..n
  BY <1>1, <1>3, Ranks
<1>t. PICK T : TurnRun(T, rule, start, from, limit, w, k)
  <2>1. k \in Nat /\ FiniteDates(PeriodCandidates(rule, start, k))
    BY <1>1, <1>3
  <2> QED BY <2>1, TurnRuns
<1>6. /\ T \in [0..n -> WalkStates] /\ T[0] = w
      /\ \A i \in 1..n : T[i] = Take(rule, start, from, limit, T[i-1], q[i])
      /\ T[n] = Turn(rule, start, from, limit, w, k)
  BY <1>1, <1>t DEF TurnRun
<1> DEFINE B(i) == A \cup {d \in C : d >= start /\ Rank(d, C) <= i}
<1>7. B(0) = A
  BY <1>5
<1>8. B(n) = DaysUpto(rule, start, k + 1)
  <2>1. B(n) = A \cup {d \in C : d >= start}
    BY <1>5
  <2>2. \A j : j \in 0..(k + 1) - 1 <=> j \in 0..k - 1 \/ j = k
    BY <1>2
  <2>3. \A d \in C : d >= start <=> d \in start..FirstDay[LastMonth]
    BY <1>2, <1>3 DEF Horizon
  <2> QED BY <1>1, <2>1, <2>2, <2>3 DEF DaysUpto
<1>9. ASSUME NEW i \in 1..n, Walked(rule, from, limit, T[i-1], B(i-1))
          PROVE Walked(rule, from, limit, T[i], B(i))
  <2>1. PICK j, d, S : j = i - 1 /\ d = q[i] /\ S = B(j)
    OBVIOUS
  <2>2. d \in C /\ Rank(d, C) = i /\ \A e \in C : Rank(e, C) = i => e = d
    BY <1>1, <1>3, <2>1, RankedAt
  <2>3. j \in Nat /\ i = j + 1 /\ j \in 0..n /\ i \in 0..n
    BY <1>5, <2>1
  <2>4. \A e \in C : e \in Int /\ (Rank(e, C) <= i <=> Rank(e, C) <= j \/ e = d)
    BY <1>3, <1>5, <2>2, <2>3
  <2>5. B(i) = IF d < start THEN S ELSE S \cup {d}
    <3>1. d \in Int
      BY <2>2, <2>4
    <3>2. d >= start <=> ~ (d < start)
      BY <1>2, <3>1
    <3>3. \A e : e \in B(i) <=> e \in A \/ (e \in C /\ e >= start /\ (Rank(e, C) <= j \/ e = d))
      BY <2>4
    <3>4. \A e : e \in S <=> e \in A \/ (e \in C /\ e >= start /\ Rank(e, C) <= j)
      BY <2>1
    <3>5. \A e : e \in B(i) <=> e \in (IF d < start THEN S ELSE S \cup {d})
      BY <2>2, <3>2, <3>3, <3>4
    <3> HIDE DEF B
    <3> QED BY <3>5
  <2>6. FiniteDates(S)
    <3>1. S \subseteq Horizon
      BY <1>3, <1>4, <2>1
    <3> QED BY <3>1, HorizonFinite
  <2>7. Above(d, S)
    <3>1. \A e \in C : Rank(e, C) <= j => e < d
      <4> SUFFICES ASSUME NEW e \in C, Rank(e, C) <= j PROVE e < d
        OBVIOUS
      <4>1. e \in Int /\ d \in Int /\ Rank(e, C) \in Int
        BY <1>5, <2>2, <2>4
      <4>2. ~ (d < e)
        <5>1. d < e => Rank(d, C) < Rank(e, C)
          BY <1>3, <2>2, Ranks
        <5> QED BY <2>2, <2>3, <4>1, <5>1
      <4>3. d # e
        BY <2>2, <2>3, <4>1
      <4> QED BY <4>1, <4>2, <4>3
    <3>2. d \in Int
      BY <2>2, <2>4
    <3> QED BY <1>4, <2>1, <2>2, <3>1, <3>2 DEF Above
  <2>8. T[j] \in WalkStates /\ Walked(rule, from, limit, T[j], S)
    BY <1>6, <1>9, <2>1, <2>3
  <2>9. PICK v : v = T[j]
    OBVIOUS
  <2>10. Walked(rule, from, limit, Take(rule, start, from, limit, v, d),
             IF d < start THEN S ELSE S \cup {d})
    BY <1>2, <2>6, <2>7, <2>8, <2>9, TakeKeeps
  <2>11. T[i] = Take(rule, start, from, limit, v, d)
    BY <1>6, <2>1, <2>9
  <2> HIDE DEF B
  <2> QED BY <2>5, <2>10, <2>11
<1> HIDE DEF B
<1>10. \A i \in 0..n : Walked(rule, from, limit, T[i], B(i))
  <2> DEFINE Bad == {i \in 0..n : ~ Walked(rule, from, limit, T[i], B(i))}
  <2>1. SUFFICES ASSUME Bad # {} PROVE FALSE
    OBVIOUS
  <2>2. PICK i \in Bad : \A j \in Bad : i <= j
    <3>1. Bad \subseteq Nat
      OBVIOUS
    <3> HIDE DEF Bad
    <3> QED BY <2>1, <3>1, Least
  <2>3. i # 0
    BY <1>1, <1>6, <1>7, <2>2
  <2>4. i \in 1..n /\ i - 1 \in 0..n /\ Walked(rule, from, limit, T[i-1], B(i-1))
    BY <1>5, <2>2, <2>3
  <2> QED BY <1>9, <2>2, <2>4
<1>11. n \in 0..n
  BY <1>5
<1> QED BY <1>6, <1>8, <1>10, <1>11

\* The walk of all of them: an expansion is the series.
THEOREM ExpansionIsTheSeries ==
  ASSUME NEW rule \in RecurrenceRules, Accepts(rule), NEW start, LaidOut(rule, start),
         NEW from \in Int, NEW limit \in Nat
  PROVE  /\ FiniteDates(Series(rule, start))
         /\ Expand(rule, start, from, limit) =
              Ascending(FirstOf(limit, {d \in Series(rule, start) : d >= from}))
<1>1. MaxPeriods \in Nat
  BY RecurrenceAssumption
<1>2. \A k \in 0..MaxPeriods - 1 : FiniteDates(PeriodCandidates(rule, start, k))
  BY CandidatesAscend, HorizonFinite
<1>t. PICK T : ExpandRun(T, rule, start, from, limit)
  BY <1>2, ExpandRuns
<1>3. /\ T \in [0..MaxPeriods -> WalkStates]
      /\ T[0] = [found |-> <<>>, produced |-> 0, done |-> limit = 0]
      /\ \A i \in 1..MaxPeriods : T[i] = Turn(rule, start, from, limit, T[i-1], i - 1)
      /\ T[MaxPeriods].found = Expand(rule, start, from, limit)
  BY <1>t DEF ExpandRun
<1>4. Walked(rule, from, limit, T[0], DaysUpto(rule, start, 0))
  <2>1. DaysUpto(rule, start, 0) = {}
    BY DEF DaysUpto
  <2>2. LetIn(rule, {}) = {} /\ AskedFor(rule, from, {}) = {} /\ FirstOf(limit, {}) = {}
    BY DEF LetIn, AskedFor, FirstOf
  <2>3. rule.count # Never => 0 <= rule.count
    BY DEF RecurrenceRules
  <2>4. T[0].found = <<>> /\ T[0].produced = 0 /\ T[0].done = (limit = 0)
    BY <1>3
  <2>5. limit = 0 => 0 >= limit
    OBVIOUS
  <2>6. limit # 0 => 0 < limit
    OBVIOUS
  <2> QED BY <2>1, <2>2, <2>3, <2>4, <2>5, <2>6, NoDates DEF Walked, Ended
<1>5. ASSUME NEW i \in 1..MaxPeriods, Walked(rule, from, limit, T[i-1], DaysUpto(rule,
          start, i - 1))
      PROVE  Walked(rule, from, limit, T[i], DaysUpto(rule, start, i))
  <2>1. PICK k, v : k = i - 1 /\ v = T[k]
    OBVIOUS
  <2>2. k \in 0..MaxPeriods - 1 /\ k \in 0..MaxPeriods /\ i = k + 1
    BY <1>1, <2>1
  <2>3. v \in WalkStates /\ Walked(rule, from, limit, v, DaysUpto(rule, start, k))
    BY <1>3, <1>5, <2>1, <2>2
  <2>4. Walked(rule, from, limit, Turn(rule, start, from, limit, v, k), DaysUpto(rule,
            start, k + 1))
    BY <2>2, <2>3, TurnKeeps
  <2> QED BY <1>3, <2>1, <2>2, <2>4
<1>6. \A i \in 0..MaxPeriods : Walked(rule, from, limit, T[i], DaysUpto(rule, start, i))
  <2> DEFINE Bad == {i \in 0..MaxPeriods : ~ Walked(rule, from, limit, T[i], DaysUpto(rule,
          start, i))}
  <2>1. SUFFICES ASSUME Bad # {} PROVE FALSE
    OBVIOUS
  <2>2. PICK i \in Bad : \A j \in Bad : i <= j
    <3>1. Bad \subseteq Nat
      BY <1>1
    <3> HIDE DEF Bad
    <3> QED BY <2>1, <3>1, Least
  <2>3. i # 0
    BY <1>4, <2>2
  <2>4. i \in 1..MaxPeriods /\ i - 1 \in 0..MaxPeriods /\
            Walked(rule, from, limit, T[i-1], DaysUpto(rule, start, i - 1))
    BY <1>1, <2>2, <2>3
  <2> QED BY <1>5, <2>2, <2>4
<1>7. Walked(rule, from, limit, T[MaxPeriods], Days(rule, start))
  <2>1. MaxPeriods \in 0..MaxPeriods
    BY <1>1
  <2> QED BY <1>6, <2>1, CandidatesAreTheDays
<1>8. Series(rule, start) = LetIn(rule, Days(rule, start))
  <2>1. rule.freq # "once"
    BY DEF RecurrenceRules
  <2> QED BY <2>1 DEF Series, LetIn, Days
<1>9. FiniteDates(Series(rule, start))
  <2>1. Days(rule, start) \subseteq Horizon
    BY HorizonIsLaid DEF Days, Horizon, LaidOut
  <2>2. Series(rule, start) \subseteq Horizon
    BY <1>8, <2>1 DEF LetIn
  <2> QED BY <2>2, HorizonFinite
<1>10. AskedFor(rule, from, Days(rule, start)) = {d \in Series(rule, start) : d >= from}
  BY <1>8 DEF AskedFor
<1> QED BY <1>3, <1>7, <1>9, <1>10 DEF Walked

-----------------------------------------------------------------------------
(* Excluded dates, and the limit.                                          *)

\* What is left of a set's dates, in order, without the excluded ones.
LEMMA RetainedDates ==
  ASSUME NEW X, FiniteDates(X), NEW exdates
  PROVE  Retained(Ascending(X), exdates) = Ascending(X \ exdates)
<1>1. PICK n, p : n = Cardinality(X) /\ p = Ascending(X)
  OBVIOUS
<1>2. n \in Nat /\ X \subseteq Int /\ \A d \in X : Rank(d, X) \in 1..n
  BY <1>1, Ranks DEF FiniteDates
<1>3. p \in [1..n -> Int]
  <2>1. p \in Seq(Int) /\ Len(p) = n
    BY <1>1, AscendingDates
  <2> QED BY <2>1
<1>4. PICK T : RetainRun(T, p, n, exdates)
  BY <1>2, <1>3, RetainRuns
<1>5. /\ T[0] = <<>> /\ T[n] = Retained(p, exdates)
      /\ \A i \in 1..n : T[i] = IF p[i] \in exdates THEN T[i-1] ELSE Append(T[i-1], p[i])
  BY <1>4 DEF RetainRun
<1> DEFINE Kept(i) == {e \in X \ exdates : Rank(e, X) <= i}
<1>6. Kept(0) = {} /\ Kept(n) = X \ exdates
  <2>1. ASSUME NEW e \in X PROVE Rank(e, X) <= n /\ ~ (Rank(e, X) <= 0)
    <3>1. PICK r \in 1..n : r = Rank(e, X)
      BY <1>2
    <3> QED BY <1>2, <3>1
  <2> QED BY <2>1
<1>7. ASSUME NEW i \in 1..n, T[i-1] = Ascending(Kept(i-1)) PROVE T[i] = Ascending(Kept(i))
  <2>1. PICK j, d, S : j = i - 1 /\ d = p[i] /\ S = Kept(j)
    OBVIOUS
  <2>2. d \in X /\ Rank(d, X) = i /\ \A e \in X : Rank(e, X) = i => e = d
    BY <1>1, <2>1, RankedAt
  <2>3. j \in Nat /\ i = j + 1 /\ \A e \in X : Rank(e, X) <= i <=> Rank(e, X) <= j \/ e = d
    BY <1>2, <2>1, <2>2
  <2>4. Kept(i) = IF d \in exdates THEN S ELSE S \cup {d}
    BY <2>1, <2>2, <2>3
  <2>5. FiniteDates(S)
    BY <2>1, SubsetDates
  <2>6. Above(d, S)
    <3>1. ASSUME NEW e \in S PROVE e < d
      <4>1. e \in X /\ e \in Int /\ d \in Int /\ Rank(e, X) <= j /\ Rank(e, X) \in Int
        BY <1>2, <2>1, <2>2
      <4>2. d < e => Rank(d, X) < Rank(e, X)
        BY <2>2, <4>1, Ranks
      <4>3. ~ (d < e) /\ d # e
        BY <2>2, <2>3, <4>1, <4>2
      <4> QED BY <4>1, <4>3
    <3> QED BY <1>2, <2>2, <3>1 DEF Above
  <2>7. Ascending(S \cup {d}) = Append(Ascending(S), d)
    BY <2>5, <2>6, OneMore
  <2>8. T[i] = IF d \in exdates THEN Ascending(S) ELSE Append(Ascending(S), d)
    BY <1>5, <1>7, <2>1
  <2> HIDE DEF Kept
  <2> QED BY <2>4, <2>7, <2>8
<1> HIDE DEF Kept
<1>8. \A i \in 0..n : T[i] = Ascending(Kept(i))
  <2> DEFINE Bad == {i \in 0..n : T[i] # Ascending(Kept(i))}
  <2>1. SUFFICES ASSUME Bad # {} PROVE FALSE
    OBVIOUS
  <2>2. PICK i \in Bad : \A j \in Bad : i <= j
    <3>1. Bad \subseteq Nat
      OBVIOUS
    <3> HIDE DEF Bad
    <3> QED BY <2>1, <3>1, Least
  <2>3. i # 0
    BY <1>5, <1>6, <2>2, NoDates
  <2>4. i \in 1..n /\ i - 1 \in 0..n /\ T[i-1] = Ascending(Kept(i-1))
    BY <1>2, <2>2, <2>3
  <2> QED BY <1>7, <2>2, <2>4
<1>9. n \in 0..n
  BY <1>2
<1> QED BY <1>1, <1>5, <1>6, <1>8, <1>9

\* The first n dates of a set, in order, are the beginning of its dates in order.
LEMMA FirstDates ==
  ASSUME NEW S, FiniteDates(S), NEW n \in Nat, n <= Cardinality(S)
  PROVE  Ascending(FirstOf(n, S)) = SubSeq(Ascending(S), 1, n)
<1>1. PICK F, m : F = FirstOf(n, S) /\ m = Cardinality(F)
  OBVIOUS
<1>2. F \subseteq S /\ FiniteDates(F) /\ S \subseteq Int /\ m \in Nat /\ Cardinality(S) \in Nat
  <2>1. F \subseteq S
    BY <1>1 DEF FirstOf
  <2>2. FiniteDates(F)
    BY <2>1, SubsetDates
  <2> QED BY <1>1, <2>1, <2>2, Ranks DEF FiniteDates
<1>3. ASSUME NEW e \in F PROVE Rank(e, F) = Rank(e, S)
  <2>1. e \in S /\ e \in Int /\ Rank(e, S) <= n
    BY <1>1, <1>2 DEF FirstOf
  <2>2. ASSUME NEW x \in S, x <= e PROVE x \in F
    <3>1. x = e \/ x < e
      BY <1>2, <2>1, <2>2
    <3>2. Rank(x, S) <= Rank(e, S)
      <4>1. x < e => Rank(x, S) < Rank(e, S)
        BY <2>1, Ranks
      <4>2. Rank(x, S) \in Int /\ Rank(e, S) \in Int
        BY <2>1, Ranks
      <4> QED BY <3>1, <4>1, <4>2
    <3>3. Rank(x, S) \in Int /\ Rank(e, S) \in Int
      BY <2>1, Ranks
    <3>4. Rank(x, S) <= n
      BY <2>1, <3>2, <3>3
    <3> QED BY <1>1, <3>4 DEF FirstOf
  <2>3. {x \in F : x <= e} = {x \in S : x <= e}
    BY <1>2, <2>2
  <2> QED BY <2>3 DEF Rank
<1>4. ASSUME NEW i \in 1..n PROVE /\ Ascending(S)[i] \in F /\ Rank(Ascending(S)[i], F) = i
                                  /\ i <= m /\ Ascending(F)[i] = Ascending(S)[i]
  <2>1. PICK a : a = Ascending(S)[i]
    OBVIOUS
  <2>2. i \in 1..Cardinality(S)
    BY <1>2
  <2>3. a \in S /\ Rank(a, S) = i
    BY <2>1, <2>2, RankedAt
  <2>4. a \in F
    BY <1>1, <2>3 DEF FirstOf
  <2>5. Rank(a, F) = i
    BY <1>3, <2>3, <2>4
  <2>6. i \in 1..Cardinality(F)
    BY <1>2, <2>4, <2>5, Ranks
  <2>7. a = Ascending(F)[i]
    BY <1>2, <2>4, <2>5, <2>6, RankedAt
  <2> QED BY <1>1, <1>2, <2>1, <2>4, <2>5, <2>6, <2>7
<1>5. m = n
  <2>1. n <= m
    <3>1. n # 0 => n \in 1..n
      OBVIOUS
    <3> QED BY <1>2, <1>4, <3>1
  <2>2. m <= n
    <3>1. CASE m = 0
      BY <3>1
    <3>2. CASE m # 0
      <4>1. m \in 1..Cardinality(F)
        BY <1>1, <1>2, <3>2
      <4>2. PICK a : a = Ascending(F)[m]
        OBVIOUS
      <4>3. a \in F /\ Rank(a, F) = m
        BY <1>2, <4>1, <4>2, RankedAt
      <4>4. Rank(a, S) = m
        BY <1>3, <4>3
      <4> QED BY <1>1, <4>3, <4>4 DEF FirstOf
    <3> QED BY <3>1, <3>2
  <2> QED BY <1>2, <2>1, <2>2
<1>6. PICK p, q : p = Ascending(S) /\ q = Ascending(F)
  OBVIOUS
<1>7. p \in Seq(Int) /\ q \in Seq(Int) /\ Len(p) = Cardinality(S) /\ Len(q) = n
  BY <1>1, <1>2, <1>5, <1>6, AscendingDates
<1>8. q = SubSeq(p, 1, n)
  <2>1. SubSeq(p, 1, n) \in Seq(Int) /\ Len(SubSeq(p, 1, n)) = n
    BY <1>2, <1>7
  <2>2. \A i \in 1..n : SubSeq(p, 1, n)[i] = p[i]
    BY <1>2, <1>7
  <2>3. \A i \in 1..n : q[i] = p[i]
    BY <1>4, <1>6
  <2> QED BY <1>7, <2>1, <2>2, <2>3
<1> QED BY <1>1, <1>6, <1>8

\* The first n of the dates that are left are among the first n, and as many
\* more as there are excluded, of all of them.
LEMMA FirstLeft ==
  ASSUME NEW D, FiniteDates(D), NEW exdates, IsFiniteSet(exdates), NEW n \in Nat
  PROVE  FirstOf(n, FirstOf(n + Cardinality(exdates), D) \ exdates) = FirstOf(n, D \ exdates)
<1>1. PICK x, X, K, M : /\ x = Cardinality(exdates) /\ X = FirstOf(n + x, D)
                        /\ K = X \ exdates /\ M = D \ exdates
  OBVIOUS
<1>2. x \in Nat /\ D \subseteq Int /\ X \subseteq D /\ K \subseteq M /\ M \subseteq D
  BY <1>1, FS_CardinalityType DEF FiniteDates, FirstOf
<1>3. FiniteDates(M) /\ FiniteDates(K)
  BY <1>2, SubsetDates
<1>4. \A e \in D : Rank(e, D) \in Nat
  BY Ranks
<1>5. ASSUME NEW e \in K PROVE Rank(e, K) = Rank(e, M)
  <2>1. e \in D /\ e \in Int /\ Rank(e, D) <= n + x
    BY <1>1, <1>2 DEF FirstOf
  <2>2. ASSUME NEW d \in M, d <= e PROVE d \in K
    <3>1. d \in D /\ d \in Int /\ (d = e \/ d < e)
      BY <1>2, <2>1, <2>2
    <3>2. d < e => Rank(d, D) < Rank(e, D)
      BY <2>1, <3>1, Ranks
    <3>3. Rank(d, D) <= n + x
      <4>1. Rank(d, D) \in Nat /\ Rank(e, D) \in Nat
        BY <1>4, <2>1, <3>1
      <4> QED BY <1>2, <2>1, <3>1, <3>2, <4>1
    <3> QED BY <1>1, <3>1, <3>3 DEF FirstOf
  <2>3. {d \in K : d <= e} = {d \in M : d <= e}
    BY <1>2, <2>2
  <2> QED BY <2>3 DEF Rank
<1>6. ASSUME NEW e \in M, Rank(e, M) <= n PROVE e \in K
  <2>1. PICK P, Q, R : P = {d \in D : d <= e} /\ Q = {d \in M : d <= e} /\ R = Q \cup exdates
    OBVIOUS
  <2>2. P \subseteq R /\ Q \subseteq M
    BY <1>1, <2>1
  <2>3. IsFiniteSet(Q) /\ Cardinality(Q) \in Nat /\ Cardinality(Q) <= n
    <3>1. FiniteDates(Q)
      BY <1>3, <2>2, SubsetDates
    <3> QED BY <1>6, <2>1, <3>1, Ranks DEF Rank, FiniteDates
  <2>4. IsFiniteSet(R) /\ Cardinality(R) = Cardinality(Q) + x - Cardinality(Q \cap exdates)
    BY <1>1, <2>1, <2>3, FS_Union
  <2>5. Cardinality(Q \cap exdates) \in Nat
    <3>1. Q \cap exdates \in SUBSET Q
      OBVIOUS
    <3> QED BY <2>3, <3>1, FS_Subset, FS_CardinalityType
  <2>6. Cardinality(P) <= Cardinality(R)
    BY <2>2, <2>4, FS_Subset
  <2>7. Cardinality(P) \in Nat
    BY <1>2, <1>4, <2>1 DEF Rank
  <2>8. Cardinality(P) <= n + x
    BY <1>2, <2>3, <2>4, <2>5, <2>6, <2>7
  <2>9. Rank(e, D) <= n + x
    BY <2>1, <2>8 DEF Rank
  <2> QED BY <1>1, <1>2, <2>9 DEF FirstOf
<1>7. FirstOf(n, K) = FirstOf(n, M)
  BY <1>2, <1>5, <1>6 DEF FirstOf
<1> QED BY <1>1, <1>7

\* A rule an event may have: none, or one that recurs and was accepted, from a
\* start the walk stays on the calendar from.
Expandable(rule, start) ==
  \/ rule.freq = "once" /\ start \in Int
  \/ rule \in RecurrenceRules /\ Accepts(rule) /\ LaidOut(rule, start)

\* What is listed of an event is the first of its series that are due.
THEOREM OccurrencesAreThose ==
  ASSUME NEW rule, NEW start, Expandable(rule, start), NEW exdates, IsFiniteSet(exdates),
         NEW from \in Int, NEW limit \in Nat
  PROVE  OccurrencesFor(rule, start, exdates, from, limit) =
           Ascending(FirstOf(limit, {d \in Series(rule, start) \ exdates : d >= from}))
<1>1. PICK D, x, X : /\ D = {d \in Series(rule, start) : d >= from} /\ x = Cardinality(exdates)
                     /\ X = FirstOf(limit + x, D)
  OBVIOUS
<1>2. x \in Nat /\ limit + x \in Nat
  BY <1>1, FS_CardinalityType
<1> DEFINE found == IF rule.freq = "once" THEN IF start >= from THEN <<start>> ELSE <<>>
                    ELSE Expand(rule, start, from, limit + x)
<1>3. FiniteDates(D) /\ \E Y : FiniteDates(Y) /\ found = Ascending(Y) /\
          FirstOf(limit, Y \ exdates) = FirstOf(limit, D \ exdates)
  <2>1. CASE rule.freq = "once"
    <3>1. start \in Int
      <4>1. rule \notin RecurrenceRules
        BY <2>1 DEF RecurrenceRules
      <4> QED BY <4>1 DEF Expandable
    <3>2. D = IF start >= from THEN {start} ELSE {}
      BY <1>1, <2>1 DEF Series
    <3>3. Above(start, {})
      BY <3>1 DEF Above
    <3>4. FiniteDates({start}) /\ Ascending({start}) = <<start>>
      <4>1. FiniteDates({} \cup {start}) /\ Ascending({} \cup {start}) = Append(<<>>, start)
        BY <3>3, NoDates, OneMore
      <4>2. {} \cup {start} = {start} /\ Append(<<>>, start) = <<start>>
        BY <3>1
      <4> QED BY <4>1, <4>2
    <3> QED BY <2>1, <3>2, <3>4, NoDates
  <2>2. CASE rule.freq # "once"
    <3>1. rule \in RecurrenceRules /\ Accepts(rule) /\ LaidOut(rule, start)
      BY <2>2 DEF Expandable
    <3>2. PICK n : n = limit + x
      OBVIOUS
    <3>3. FiniteDates(Series(rule, start)) /\
              Expand(rule, start, from, n) = Ascending(FirstOf(n, D))
      BY <1>1, <1>2, <3>1, <3>2, ExpansionIsTheSeries
    <3>4. FiniteDates(D)
      BY <1>1, <3>3, SubsetDates
    <3>5. FiniteDates(X)
      BY <1>1, <3>4, SubsetDates DEF FirstOf
    <3>6. FirstOf(limit, X \ exdates) = FirstOf(limit, D \ exdates)
      BY <1>1, <3>4, FirstLeft
    <3> QED BY <1>1, <2>2, <3>2, <3>3, <3>4, <3>5, <3>6
  <2> QED BY <2>1, <2>2
<1>4. PICK Y : FiniteDates(Y) /\ found = Ascending(Y) /\
          FirstOf(limit, Y \ exdates) = FirstOf(limit, D \ exdates)
  BY <1>3
<1>5. PICK K, kept : K = Y \ exdates /\ kept = Retained(found, exdates)
  OBVIOUS
<1>6. kept = Ascending(K) /\ FiniteDates(K)
  <2> HIDE DEF found
  <2>1. K \subseteq Y
    BY <1>5
  <2> QED BY <1>4, <1>5, <2>1, RetainedDates, SubsetDates
<1>7. OccurrencesFor(rule, start, exdates, from,
          limit) = IF Len(kept) > limit THEN SubSeq(kept, 1, limit) ELSE kept
  BY <1>1, <1>5 DEF OccurrencesFor
<1>8. D \ exdates = {d \in Series(rule, start) \ exdates : d >= from}
  BY <1>1
<1>9. Len(kept) = Cardinality(K) /\ Cardinality(K) \in Nat
  BY <1>6, AscendingDates, Ranks
<1> HIDE DEF found
<1>10. CASE Len(kept) > limit
  <2>1. Ascending(FirstOf(limit, K)) = SubSeq(Ascending(K), 1, limit)
    BY <1>6, <1>9, <1>10, FirstDates
  <2> QED BY <1>4, <1>5, <1>6, <1>7, <1>8, <1>10, <2>1
<1>11. CASE ~ (Len(kept) > limit)
  <2>1. FirstOf(limit, K) = K
    <3>1. \A e \in K : Rank(e, K) \in 1..Cardinality(K)
      BY <1>6, Ranks
    <3>2. \A e \in K : Rank(e, K) <= limit
      BY <1>9, <1>11, <3>1
    <3> QED BY <3>2 DEF FirstOf
  <2> QED BY <1>4, <1>5, <1>6, <1>7, <1>8, <1>11, <2>1
<1> QED BY <1>10, <1>11
=============================================================================
