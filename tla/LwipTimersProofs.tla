--------------------------- MODULE LwipTimersProofs ---------------------------
(***************************************************************************)
(* lwIP's list of time differences, for every interval, clock and length   *)
(* of wait: its entries stay well formed, no timer is lost or doubled, and *)
(* every step of the TCP/IP thread is a step of the set of timers that the *)
(* list stands for.                                                        *)
(***************************************************************************)
EXTENDS LwipTimers, FiniteSetTheorems, SequenceTheorems, TLAPS

Entries == [h : Timers, time : Nat]

-------------------------------------------------------------------------------
\* A set of numbers has a least one: of the intervals 0 .. n, as sets, one is minimal.
LEMMA LeastOf ==
  ASSUME NEW S \in SUBSET Nat, NEW k \in S
  PROVE  \E m \in S : \A n \in S : m <= n
  <1> DEFINE T == {0 .. n : n \in S}
             R == StrictSubsetOrdering(Nat)
  <1>1. IsWellFoundedOn(R, FiniteSubsetsOf(Nat))
    BY FS_StrictSubsetOrderingWellFounded
  <1>2. T \subseteq FiniteSubsetsOf(Nat)
    <2>1. \A n \in S : 0 .. n \subseteq Nat /\ IsFiniteSet(0 .. n)
      BY FS_Interval
    <2> QED
      BY <2>1 DEF FiniteSubsetsOf
  <1>3. T # {}
    OBVIOUS
  <1> HIDE DEF R, T
  <1>4. \E x \in T : \A y \in T : ~ (<<y, x>> \in R)
    BY <1>1, <1>2, <1>3, WFMin
  <1>5. PICK m \in S : \A n \in S : ~ (<<0 .. n, 0 .. m>> \in R)
    BY <1>4 DEF T
  <1>6. ASSUME NEW n \in S, n < m
        PROVE  FALSE
    <2>1. 0 .. n \subseteq 0 .. m /\ 0 .. n # 0 .. m
      BY <1>6
    <2>2. 0 .. n \in SUBSET Nat /\ 0 .. m \in SUBSET Nat
      OBVIOUS
    <2> QED
      BY <2>1, <2>2, <1>5 DEF R, StrictSubsetOrdering
  <1> QED
    BY <1>6

\* Induction, for a set of numbers.
LEMMA InductionOn ==
  ASSUME NEW S, 0 \in S, \A n \in Nat : n \in S => n + 1 \in S
  PROVE  Nat \subseteq S
  <1> SUFFICES ASSUME NEW k \in Nat \ S
               PROVE  FALSE
    OBVIOUS
  <1>1. PICK m \in Nat \ S : \A n \in Nat \ S : m <= n
    BY LeastOf
  <1>2. m # 0 /\ m - 1 \in Nat /\ m - 1 \notin Nat \ S
    BY <1>1
  <1> QED
    BY <1>1, <1>2

-------------------------------------------------------------------------------
\* The recursion of SumUpTo is well defined for every list.
LEMMA SumRecursion ==
  ASSUME NEW list \in Seq(Entries)
  PROVE  /\ SumUpTo(list, 0) = 0
         /\ \A i \in 1 .. Len(list) : SumUpTo(list, i) = SumUpTo(list, i - 1) + list[i].time
  <1> DEFINE IsSum(f, n) == f = [i \in 0 .. n |-> IF i = 0 THEN 0 ELSE f[i - 1] + list[i].time]
             S == {n \in Nat : \E f : IsSum(f, n)}
  <1>1. 0 \in S
    <2> DEFINE g == [i \in 0 .. 0 |-> 0]
    <2>1. IsSum(g, 0)
      OBVIOUS
    <2> QED
      BY <2>1
  <1>2. ASSUME NEW n \in Nat, n \in S
        PROVE  n + 1 \in S
    <2>1. PICK f : IsSum(f, n)
      BY <1>2
    <2> DEFINE g == [i \in 0 .. n + 1 |-> IF i <= n THEN f[i] ELSE f[n] + list[n + 1].time]
    <2>2. ASSUME NEW i \in 0 .. n + 1
          PROVE  g[i] = IF i = 0 THEN 0 ELSE g[i - 1] + list[i].time
      <3>1. CASE i <= n
        BY <2>1, <3>1
      <3>2. CASE i = n + 1
        BY <3>2
      <3> QED
        BY <3>1, <3>2
    <2>3. g = [i \in 0 .. n + 1 |-> g[i]]
      OBVIOUS
    <2> HIDE DEF g
    <2>4. IsSum(g, n + 1)
      BY <2>2, <2>3
    <2> HIDE DEF IsSum
    <2>5. n + 1 \in Nat /\ \E x : IsSum(x, n + 1)
      BY <2>4
    <2> QED
      BY <2>5
  <1>3. Nat \subseteq S
    <2> HIDE DEF S
    <2> QED
      BY <1>1, <1>2, InductionOn
  <1> DEFINE n == Len(list)
             sum == CHOOSE f : IsSum(f, n)
  <1>4. n \in Nat
    OBVIOUS
  <1>5. IsSum(sum, n)
    <2>1. \E f : IsSum(f, n)
      BY <1>3, <1>4
    <2> HIDE DEF IsSum
    <2> QED
      BY <2>1
  <1>6. \A i : SumUpTo(list, i) = sum[i]
    BY DEF SumUpTo
  <1> HIDE DEF sum
  <1>7. \A i \in 0 .. n : sum[i] = IF i = 0 THEN 0 ELSE sum[i - 1] + list[i].time
    BY <1>5
  <1>8. sum[0] = 0 /\ \A i \in 1 .. n : sum[i] = sum[i - 1] + list[i].time
    BY <1>4, <1>7
  <1> QED
    BY <1>6, <1>8

LEMMA EntryType ==
  ASSUME NEW list \in Seq(Entries), NEW i \in 1 .. Len(list)
  PROVE  list[i] \in Entries /\ list[i].h \in Timers /\ list[i].time \in Nat
  <1>1. list[i] \in Entries
    OBVIOUS
  <1>2. \A e \in Entries : e.h \in Timers /\ e.time \in Nat
    BY DEF Entries
  <1> QED
    BY <1>1, <1>2

LEMMA SumType ==
  ASSUME NEW list \in Seq(Entries)
  PROVE  \A i \in 0 .. Len(list) : SumUpTo(list, i) \in Nat
  <1> DEFINE S == {n \in Nat : n <= Len(list) => SumUpTo(list, n) \in Nat}
  <1>1. 0 \in S
    BY SumRecursion
  <1>2. ASSUME NEW n \in Nat, n \in S
        PROVE  n + 1 \in S
    <2> SUFFICES ASSUME n + 1 <= Len(list)
                 PROVE  SumUpTo(list, n + 1) \in Nat
      OBVIOUS
    <2>1. n + 1 \in 1 .. Len(list) /\ (n + 1) - 1 = n
      OBVIOUS
    <2>2. SumUpTo(list, n) \in Nat
      BY <1>2, <2>1
    <2>3. SumUpTo(list, n + 1) = SumUpTo(list, n) + list[n + 1].time
      BY <2>1, SumRecursion
    <2> QED
      BY <2>1, <2>2, <2>3, EntryType
  <1> HIDE DEF S
  <1>3. Nat \subseteq S
    BY <1>1, <1>2, InductionOn
  <1> QED
    BY <1>3 DEF S

\* Entries later in the list are due no earlier.
LEMMA SumGrows ==
  ASSUME NEW list \in Seq(Entries), NEW i \in 0 .. Len(list)
  PROVE  \A j \in i .. Len(list) : SumUpTo(list, i) <= SumUpTo(list, j)
  <1> DEFINE S == {n \in Nat : i + n <= Len(list) => SumUpTo(list, i) <= SumUpTo(list, i + n)}
  <1>1. 0 \in S
    BY SumType
  <1>2. ASSUME NEW n \in Nat, n \in S
        PROVE  n + 1 \in S
    <2> SUFFICES ASSUME i + (n + 1) <= Len(list)
                 PROVE  SumUpTo(list, i) <= SumUpTo(list, i + (n + 1))
      OBVIOUS
    <2> DEFINE m == i + n
    <2>1. m + 1 \in 1 .. Len(list) /\ (m + 1) - 1 = m /\ m \in 0 .. Len(list) /\ i + (n + 1) = m + 1
      OBVIOUS
    <2>2. SumUpTo(list, i) <= SumUpTo(list, m)
      BY <1>2, <2>1
    <2> HIDE DEF m
    <2>3. SumUpTo(list, m + 1) = SumUpTo(list, m) + list[m + 1].time
      BY <2>1, SumRecursion
    <2>4. SumUpTo(list, i) \in Nat /\ SumUpTo(list, m) \in Nat /\ list[m + 1].time \in Nat
      BY <2>1, SumType, EntryType
    <2> QED
      BY <2>1, <2>2, <2>3, <2>4
  <1> HIDE DEF S
  <1>3. Nat \subseteq S
    BY <1>1, <1>2, InductionOn
  <1>4. ASSUME NEW j \in i .. Len(list)
        PROVE  SumUpTo(list, i) <= SumUpTo(list, j)
    <2>1. j - i \in Nat /\ i + (j - i) = j
      OBVIOUS
    <2> QED
      BY <1>3, <2>1 DEF S
  <1> QED
    BY <1>4

\* M has behind its b-th entry the times that L has behind its a-th, up to the q-th and p-th.
SameTimes(L, a, p, M, b, q) ==
  /\ a \in 0 .. Len(L) /\ p \in a .. Len(L) /\ b \in 0 .. Len(M) /\ q \in b .. Len(M)
  /\ p - a = q - b
  /\ \A i \in 1 .. p - a : M[b + i].time = L[a + i].time

LEMMA SumShift ==
  ASSUME NEW L \in Seq(Entries), NEW M \in Seq(Entries), NEW a, NEW p, NEW b, NEW q,
         SameTimes(L, a, p, M, b, q)
  PROVE  SumUpTo(M, q) - SumUpTo(M, b) = SumUpTo(L, p) - SumUpTo(L, a)
  <1> DEFINE n == p - a
             Grew(i) == SumUpTo(M, b + i) - SumUpTo(M, b) = SumUpTo(L, a + i) - SumUpTo(L, a)
             S == {i \in Nat : i <= n => Grew(i)}
  <1>0. /\ a \in Nat /\ b \in Nat /\ n \in Nat /\ a + n = p /\ b + n = q /\ p <= Len(L) /\ q <= Len(M)
        /\ \A i \in 1 .. n : M[b + i].time = L[a + i].time
        /\ a \in 0 .. Len(L) /\ b \in 0 .. Len(M)
    BY DEF SameTimes
  <1> HIDE DEF n
  <1>4. SumUpTo(L, a) \in Nat /\ SumUpTo(M, b) \in Nat
    BY <1>0, SumType
  <1>1. 0 \in S
    BY <1>0, <1>4
  <1>2. ASSUME NEW i \in Nat, i \in S
        PROVE  i + 1 \in S
    <2> SUFFICES ASSUME i + 1 <= n
                 PROVE  Grew(i + 1)
      OBVIOUS
    <2>1. PICK x \in 0 .. Len(L), y \in 0 .. Len(M) : x = a + i /\ y = b + i
      BY <1>0
    <2>2. /\ x + 1 \in 1 .. Len(L) /\ (x + 1) - 1 = x /\ a + (i + 1) = x + 1
          /\ y + 1 \in 1 .. Len(M) /\ (y + 1) - 1 = y /\ b + (i + 1) = y + 1
          /\ i + 1 \in 1 .. n /\ i <= n
      BY <1>0, <2>1
    <2>3. SumUpTo(M, y) - SumUpTo(M, b) = SumUpTo(L, x) - SumUpTo(L, a)
      BY <1>2, <2>1, <2>2
    <2>4. M[y + 1].time = L[x + 1].time
      BY <1>0, <2>2
    <2>5. SumUpTo(L, x + 1) = SumUpTo(L, x) + L[x + 1].time
          /\ SumUpTo(M, y + 1) = SumUpTo(M, y) + M[y + 1].time
      BY <2>2, SumRecursion
    <2>6. SumUpTo(L, x) \in Nat /\ SumUpTo(M, y) \in Nat /\ L[x + 1].time \in Nat
      BY <2>2, SumType, EntryType
    <2>7. SumUpTo(M, y + 1) - SumUpTo(M, b) = SumUpTo(L, x + 1) - SumUpTo(L, a)
      <3>1. PICK u \in Nat, v \in Nat, s \in Nat, t \in Nat, d \in Nat :
              /\ u = SumUpTo(M, y) /\ v = SumUpTo(M, b)
              /\ s = SumUpTo(L, x) /\ t = SumUpTo(L, a) /\ d = L[x + 1].time
        BY <1>4, <2>6
      <3>2. u - v = s - t
        BY <2>3, <3>1
      <3>3. SumUpTo(M, y + 1) = u + d /\ SumUpTo(L, x + 1) = s + d
        BY <2>4, <2>5, <3>1
      <3>4. (u + d) - v = (s + d) - t
        BY <3>2
      <3> QED
        BY <3>1, <3>3, <3>4
    <2> QED
      BY <2>2, <2>7
  <1>3. Nat \subseteq S
    <2> HIDE DEF S
    <2> QED
      BY <1>1, <1>2, InductionOn
  <1>5. Grew(n)
    BY <1>0, <1>3
  <1> QED
    BY <1>0, <1>5

-------------------------------------------------------------------------------
\* Where sys_timeout puts an entry: behind all that are due no later.
Place(list, ms) == Cardinality({i \in 1 .. Len(list) : SumUpTo(list, i) <= ms})

LEMMA PlaceCuts ==
  ASSUME NEW list \in Seq(Entries), NEW ms \in Nat
  PROVE  /\ Place(list, ms) \in 0 .. Len(list)
         /\ SumUpTo(list, Place(list, ms)) <= ms
         /\ Place(list, ms) < Len(list) => ms < SumUpTo(list, Place(list, ms) + 1)
  <1> DEFINE n == Len(list)
             Due == {i \in 1 .. n : SumUpTo(list, i) <= ms}
             Y == {i \in 1 .. n + 1 : i = n + 1 \/ ms < SumUpTo(list, i)}
  <1>1. n \in Nat
    OBVIOUS
  <1>2. PICK m \in Y : \A i \in Y : m <= i
    <2>1. Y \in SUBSET Nat /\ n + 1 \in Y
      BY <1>1
    <2> HIDE DEF Y
    <2> QED
      BY <2>1, LeastOf
  <1>3. m \in 1 .. n + 1
    OBVIOUS
  <1>4. ASSUME NEW i \in 1 .. n
        PROVE  i \in Due <=> i < m
    <2>1. SumUpTo(list, i) \in Nat
      BY SumType
    <2>2. CASE i < m
      <3>1. i \notin Y
        BY <1>2, <1>3, <2>2
      <3> QED
        BY <2>1, <2>2, <3>1
    <2>3. CASE m <= i
      <3>1. m \in 0 .. n /\ i \in m .. n /\ m # n + 1
        BY <1>1, <1>3, <2>3
      <3>2. ms < SumUpTo(list, m) /\ SumUpTo(list, m) \in Nat
        BY <3>1, SumType
      <3>3. SumUpTo(list, m) <= SumUpTo(list, i)
        BY <3>1, SumGrows
      <3> QED
        BY <1>3, <2>1, <2>3, <3>2, <3>3
    <2> QED
      BY <1>3, <2>2, <2>3
  <1>5. Due = 1 .. (m - 1)
    <2>1. Due \subseteq 1 .. n
      OBVIOUS
    <2> HIDE DEF Due
    <2>2. 1 .. (m - 1) \subseteq 1 .. n
      BY <1>1, <1>3
    <2>3. \A i \in 1 .. n : i < m <=> i \in 1 .. (m - 1)
      BY <1>1, <1>3
    <2>4. \A i \in 1 .. n : i \in Due <=> i \in 1 .. (m - 1)
      BY <1>4, <2>3
    <2> QED
      BY <2>1, <2>2, <2>4
  <1>6. Place(list, ms) = m - 1
    <2>1. Cardinality(1 .. (m - 1)) = m - 1
      BY <1>1, <1>3, FS_Interval
    <2> QED
      BY <1>5, <2>1 DEF Place
  <1>7. SumUpTo(list, m - 1) <= ms
    <2>1. CASE m = 1
      BY <2>1, SumRecursion
    <2>2. CASE m # 1
      <3>1. m - 1 \in 1 .. n /\ m - 1 < m
        BY <1>1, <1>3, <2>2
      <3>2. m - 1 \in Due
        BY <1>4, <3>1
      <3> QED
        BY <3>2
    <2> QED
      BY <2>1, <2>2
  <1>8. m - 1 < n => ms < SumUpTo(list, (m - 1) + 1)
    <2>1. (m - 1) + 1 = m
      BY <1>3
    <2>2. m < n + 1 => ms < SumUpTo(list, m)
      BY <1>1, <1>3
    <2> QED
      BY <1>1, <1>3, <2>1, <2>2
  <1> HIDE DEF Due, Y
  <1> QED
    BY <1>1, <1>3, <1>6, <1>7, <1>8

\* Where the elements of a concatenation are.
LEMMA Joined ==
  ASSUME NEW s \in Seq(Entries), NEW t \in Seq(Entries)
  PROVE  /\ s \o t \in Seq(Entries) /\ Len(s \o t) = Len(s) + Len(t)
         /\ \A i \in 1 .. Len(s) : (s \o t)[i] = s[i]
         /\ \A i \in 1 .. Len(t) : (s \o t)[Len(s) + i] = t[i]
  OBVIOUS

\* The entries of the list sys_timeout makes.
LEMMA InsertedEntries ==
  ASSUME NEW list \in Seq(Entries), NEW h \in Timers, NEW k, k = Place(list, Interval[h]),
         NEW R, R = sys_timeout(list, h)
  PROVE  LET time == Interval[h] - SumUpTo(list, k)
         IN  /\ R \in Seq(Entries)
             /\ Len(R) = Len(list) + 1
             /\ \A i \in 1 .. k : R[i] = list[i]
             /\ R[k + 1] = [h |-> h, time |-> time]
             /\ k < Len(list) => R[k + 2] = [h |-> list[k + 1].h, time |-> list[k + 1].time - time]
             /\ \A i \in k + 2 .. Len(list) : R[i + 1] = list[i]
  <1> DEFINE n == Len(list)
             ms == Interval[h]
             time == ms - SumUpTo(list, k)
             A == SubSeq(list, 1, k)
             B == <<[h |-> h, time |-> time]>>
             rest == SubSeq(list, k + 1, n)
             C == IF rest = << >> THEN << >>
                  ELSE <<[Head(rest) EXCEPT !.time = @ - time]>> \o Tail(rest)
             first == [h |-> list[k + 1].h, time |-> list[k + 1].time - time]
  <1>1. ms \in Nat /\ n \in Nat
    BY TimersAssumption
  <1>2. /\ k \in 0 .. n /\ SumUpTo(list, k) <= ms
        /\ k < n => ms < SumUpTo(list, k + 1)
    <2> HIDE DEF ms
    <2>1. k = Place(list, ms)
      BY DEF ms
    <2> QED
      BY <1>1, <2>1, PlaceCuts
  <1>3. time \in Nat
    <2>1. SumUpTo(list, k) \in Nat
      BY <1>2, SumType
    <2> QED
      BY <1>1, <1>2, <2>1
  <1>4. R = (A \o B) \o C
    BY DEF sys_timeout, Place
  <1>5. A \in Seq(Entries) /\ Len(A) = k /\ \A i \in 1 .. k : A[i] = list[i]
    <2>1. \A i \in 1 .. k : list[i] \in Entries
      BY <1>1, <1>2, EntryType
    <2>2. /\ SubSeq(list, 1, k) \in Seq(Entries)
          /\ Len(SubSeq(list, 1, k)) = IF 1 <= k THEN k - 1 + 1 ELSE 0
          /\ \A i \in 1 .. k - 1 + 1 : SubSeq(list, 1, k)[i] = list[1 + i - 1]
      BY <1>1, <1>2, <2>1, SubSeqProperties
    <2> QED
      BY <1>1, <1>2, <2>2
  <1>6. B \in Seq(Entries) /\ Len(B) = 1 /\ B[1] = [h |-> h, time |-> time]
    <2> HIDE DEF time
    <2>1. [h |-> h, time |-> time] \in Entries
      BY <1>3 DEF Entries
    <2> QED
      BY <2>1
  <1>7. rest \in Seq(Entries) /\ Len(rest) = n - k /\ \A i \in 1 .. n - k : rest[i] = list[k + i]
    <2>1. \A i \in k + 1 .. n : list[i] \in Entries
      BY <1>1, <1>2, EntryType
    <2>2. /\ SubSeq(list, k + 1, n) \in Seq(Entries)
          /\ Len(SubSeq(list, k + 1, n)) = IF k + 1 <= n THEN n - (k + 1) + 1 ELSE 0
          /\ \A i \in 1 .. n - (k + 1) + 1 : SubSeq(list, k + 1, n)[i] = list[(k + 1) + i - 1]
      BY <1>1, <1>2, <2>1, SubSeqProperties
    <2>3. n - (k + 1) + 1 = n - k /\ \A i \in 1 .. n - k : (k + 1) + i - 1 = k + i
      BY <1>1, <1>2
    <2>4. Len(SubSeq(list, k + 1, n)) = n - k
      BY <1>1, <1>2, <2>2
    <2>5. \A i \in 1 .. n - k : SubSeq(list, k + 1, n)[i] = list[k + i]
      BY <2>2, <2>3
    <2> QED
      BY <2>2, <2>4, <2>5
  <1>8. k < n => first \in Entries
    <2> SUFFICES ASSUME k < n
                 PROVE  first \in Entries
      OBVIOUS
    <2>1. k + 1 \in 1 .. n /\ (k + 1) - 1 = k /\ k \in 0 .. n
      BY <1>1, <1>2
    <2>2. SumUpTo(list, k + 1) = SumUpTo(list, k) + list[k + 1].time
          /\ SumUpTo(list, k) \in Nat /\ list[k + 1].time \in Nat /\ list[k + 1].h \in Timers
      BY <2>1, SumRecursion, SumType, EntryType
    <2>3. list[k + 1].time - time \in Nat
      BY <1>1, <1>2, <2>2
    <2> HIDE DEF time
    <2> QED
      BY <2>2, <2>3 DEF Entries
  <1>9. C \in Seq(Entries) /\ Len(C) = n - k
        /\ (k < n => C[1] = first) /\ \A i \in 2 .. n - k : C[i] = list[k + i]
    <2> HIDE DEF rest, time
    <2>1. CASE rest = << >>
      <3>1. n - k = 0 /\ C = << >>
        BY <1>7, <2>1
      <3> QED
        BY <1>1, <1>2, <3>1
    <2>2. CASE rest # << >>
      <3> DEFINE D == <<[Head(rest) EXCEPT !.time = @ - time]>>
      <3>1. k < n /\ Head(rest) = rest[1] /\ rest[1] = list[k + 1] /\ rest[1] \in Entries
        BY <1>1, <1>2, <1>7, <2>2
      <3>2. Tail(rest) \in Seq(Entries) /\ Len(Tail(rest)) = n - k - 1
            /\ \A i \in 1 .. n - k - 1 : Tail(rest)[i] = rest[i + 1]
        BY <1>1, <1>2, <1>7, <2>2, HeadTailProperties
      <3>3. [Head(rest) EXCEPT !.time = @ - time] = first
        <4>1. \A e \in Entries : [e EXCEPT !.time = @ - time] = [h |-> e.h, time |-> e.time - time]
          BY DEF Entries
        <4> QED
          BY <3>1, <4>1
      <3>4. D \in Seq(Entries) /\ Len(D) = 1 /\ D[1] = first
        <4> HIDE DEF first
        <4> QED
          BY <1>8, <3>1, <3>3
      <3>5. C = D \o Tail(rest)
        BY <2>2
      <3> HIDE DEF D, C, first
      <3>6. /\ C \in Seq(Entries) /\ Len(C) = Len(D) + Len(Tail(rest))
            /\ \A i \in 1 .. Len(D) + Len(Tail(rest)) :
                 C[i] = IF i <= Len(D) THEN D[i] ELSE Tail(rest)[i - Len(D)]
        <4>1. PICK Y \in Seq(Entries), X \in Seq(Entries) : Y = Tail(rest) /\ X = D
          BY <3>2, <3>4
        <4>2. /\ X \o Y \in Seq(Entries) /\ Len(X \o Y) = Len(X) + Len(Y)
              /\ \A i \in 1 .. Len(X) + Len(Y) :
                   (X \o Y)[i] = IF i <= Len(X) THEN X[i] ELSE Y[i - Len(X)]
          BY ConcatProperties
        <4> QED
          BY <3>5, <4>1, <4>2, Zenon
      <3>7. Len(C) = n - k
        BY <1>1, <1>2, <3>2, <3>4, <3>6
      <3>8. C[1] = first
        BY <1>1, <1>2, <3>1, <3>2, <3>4, <3>6
      <3>9. ASSUME NEW i \in 2 .. n - k
            PROVE  C[i] = list[k + i]
        <4>1. i - 1 \in 1 .. n - k - 1 /\ (i - 1) + 1 = i /\ i \in 1 .. n - k
              /\ i \in 1 .. Len(D) + Len(Tail(rest)) /\ ~ i <= Len(D)
          BY <1>1, <1>2, <3>2, <3>4
        <4>2. C[i] = Tail(rest)[i - 1]
          BY <3>4, <3>6, <4>1
        <4> QED
          BY <1>7, <3>2, <4>1, <4>2
      <3> QED
        BY <3>6, <3>7, <3>8, <3>9
    <2> QED
      BY <2>1, <2>2
  <1> HIDE DEF A, B, C, rest, first, time
  <1> DEFINE E == A \o B
  <1>10. /\ E \in Seq(Entries) /\ Len(E) = k + 1
         /\ \A i \in 1 .. k : E[i] = A[i]
         /\ E[k + 1] = B[1]
    <2>1. A \in Seq(Entries) /\ B \in Seq(Entries) /\ Len(A) = k /\ Len(B) = 1
      BY <1>5, <1>6
    <2>2. A \o B \in Seq(Entries)
      BY <2>1, Joined
    <2>3. Len(A \o B) = Len(A) + Len(B)
      BY <2>1, Joined
    <2>4. \A i \in 1 .. k : (A \o B)[i] = A[i]
      BY <2>1, Joined
    <2>5. \A i \in 1 .. 1 : (A \o B)[k + i] = B[i]
      BY <2>1, Joined
    <2> QED
      BY <1>2, <2>1, <2>2, <2>3, <2>4, <2>5
  <1> HIDE DEF E
  <1>11. /\ E \o C \in Seq(Entries) /\ Len(E \o C) = (k + 1) + (n - k)
         /\ \A i \in 1 .. k + 1 : (E \o C)[i] = E[i]
         /\ \A i \in 1 .. n - k : (E \o C)[(k + 1) + i] = C[i]
    <2>1. E \in Seq(Entries) /\ C \in Seq(Entries) /\ Len(E) = k + 1 /\ Len(C) = n - k
      BY <1>9, <1>10
    <2>2. E \o C \in Seq(Entries)
      BY <2>1, Joined
    <2>3. Len(E \o C) = Len(E) + Len(C)
      BY <2>1, Joined
    <2>4. \A i \in 1 .. k + 1 : (E \o C)[i] = E[i]
      BY <2>1, Joined
    <2>5. \A i \in 1 .. n - k : (E \o C)[(k + 1) + i] = C[i]
      BY <2>1, Joined
    <2> QED
      BY <1>1, <1>2, <2>1, <2>2, <2>3, <2>4, <2>5
  <1>12. R = E \o C
    BY <1>4 DEF E
  <1>13. R \in Seq(Entries) /\ Len(R) = n + 1
    <2>1. (k + 1) + (n - k) = n + 1
      BY <1>1, <1>2
    <2> QED
      BY <1>11, <1>12, <2>1
  <1>14. ASSUME NEW i \in 1 .. k
         PROVE  R[i] = list[i]
    <2>1. i \in 1 .. k + 1
      BY <1>1, <1>2
    <2> QED
      BY <1>5, <1>10, <1>11, <1>12, <2>1
  <1>15. R[k + 1] = [h |-> h, time |-> time]
    <2>1. k + 1 \in 1 .. k + 1
      BY <1>1, <1>2
    <2> QED
      BY <1>6, <1>10, <1>11, <1>12, <2>1
  <1>16. k < n => R[k + 2] = first
    <2>1. k < n => 1 \in 1 .. n - k /\ (k + 1) + 1 = k + 2
      BY <1>1, <1>2
    <2> QED
      BY <1>9, <1>11, <1>12, <2>1
  <1>17. ASSUME NEW i \in k + 2 .. n
         PROVE  R[i + 1] = list[i]
    <2>0. n \in Nat /\ k \in 0 .. n
      BY <1>1, <1>2
    <2>1. i - k \in 2 .. n - k /\ i - k \in 1 .. n - k
          /\ (k + 1) + (i - k) = i + 1 /\ k + (i - k) = i
      <3> HIDE DEF n
      <3> QED
        BY <2>0
    <2>2. C[i - k] = list[k + (i - k)]
      BY <1>9, <2>1
    <2>3. (E \o C)[(k + 1) + (i - k)] = C[i - k]
      BY <1>11, <2>1
    <2> QED
      BY <1>12, <2>1, <2>2, <2>3
  <1> QED
    BY <1>13, <1>14, <1>15, <1>16, <1>17 DEF first, time

\* Where sys_timeout leaves the entries, and when they are due.
InsertedAt(k, list, h, R) ==
  /\ R \in Seq(Entries) /\ Len(R) = Len(list) + 1
  /\ \A i \in 1 .. k : R[i].h = list[i].h /\ SumUpTo(R, i) = SumUpTo(list, i)
  /\ R[k + 1].h = h /\ SumUpTo(R, k + 1) = Interval[h]
  /\ \A i \in k + 1 .. Len(list) : R[i + 1].h = list[i].h /\ SumUpTo(R, i + 1) = SumUpTo(list, i)

LEMMA InsertedPlaces ==
  ASSUME NEW list \in Seq(Entries), NEW h \in Timers, NEW R, R = sys_timeout(list, h)
  PROVE  \E k \in 0 .. Len(list) : InsertedAt(k, list, h, R)
  <1> DEFINE n == Len(list)
             ms == Interval[h]
             k == Place(list, ms)
             time == ms - SumUpTo(list, k)
             first == [h |-> list[k + 1].h, time |-> list[k + 1].time - time]
  <1>1. ms \in Nat /\ n \in Nat
    BY TimersAssumption
  <1>2. k \in 0 .. n
    <2> HIDE DEF ms
    <2> QED
      BY <1>1, PlaceCuts
  <1>3. /\ R \in Seq(Entries)
        /\ Len(R) = n + 1
        /\ \A i \in 1 .. k : R[i] = list[i]
        /\ R[k + 1] = [h |-> h, time |-> time]
        /\ k < n => R[k + 2] = first
        /\ \A i \in k + 2 .. n : R[i + 1] = list[i]
    BY InsertedEntries
  <1> HIDE DEF first, time, k
  <1>4. ASSUME NEW i \in 0 .. k
        PROVE  SumUpTo(R, i) = SumUpTo(list, i)
    <2>1. SameTimes(list, 0, i, R, 0, i)
      <3>1. i \in 0 .. Len(list) /\ i \in 0 .. Len(R) /\ i - 0 = i /\ i \in Nat
        BY <1>1, <1>2, <1>3
      <3>2. \A j \in 1 .. i : R[0 + j].time = list[0 + j].time
        <4>1. \A j \in 1 .. i : 0 + j = j /\ j \in 1 .. k
          BY <1>1, <1>2
        <4> QED
          BY <1>3, <4>1
      <3> QED
        BY <1>1, <1>3, <3>1, <3>2 DEF SameTimes
    <2>2. SumUpTo(R, i) - SumUpTo(R, 0) = SumUpTo(list, i) - SumUpTo(list, 0)
      BY <1>3, <2>1, SumShift
    <2>3. SumUpTo(R, 0) = 0 /\ SumUpTo(list, 0) = 0
      BY <1>3, SumRecursion
    <2>4. i \in 0 .. Len(list) /\ i \in 0 .. Len(R)
      BY <1>1, <1>2, <1>3
    <2>5. SumUpTo(R, i) \in Nat /\ SumUpTo(list, i) \in Nat
      BY <1>3, <2>4, SumType
    <2> QED
      BY <2>2, <2>3, <2>5
  <1>5. SumUpTo(list, k) \in Nat
    BY <1>2, SumType
  <1>6. SumUpTo(R, k + 1) = ms
    <2>1. k + 1 \in 1 .. Len(R) /\ (k + 1) - 1 = k /\ k \in 0 .. k
      BY <1>1, <1>2, <1>3
    <2>2. SumUpTo(R, k + 1) = SumUpTo(R, k) + R[k + 1].time
      BY <1>3, <2>1, SumRecursion
    <2>3. R[k + 1].time = ms - SumUpTo(list, k)
      BY <1>3 DEF time
    <2>4. SumUpTo(R, k) = SumUpTo(list, k)
      BY <1>4, <2>1
    <2> HIDE DEF ms
    <2> QED
      BY <1>1, <1>5, <2>2, <2>3, <2>4
  <1>7. ASSUME k < n, NEW i \in k + 1 .. n
        PROVE  SumUpTo(R, i + 1) = SumUpTo(list, i)
    <2>1. /\ k + 2 \in 1 .. Len(R) /\ (k + 2) - 1 = k + 1
          /\ k + 1 \in 1 .. n /\ (k + 1) - 1 = k /\ k + 1 \in 0 .. n
      BY <1>1, <1>2, <1>3, <1>7
    <2>2. SumUpTo(R, k + 2) = ms + R[k + 2].time
      BY <1>3, <1>6, <2>1, SumRecursion
    <2>3. SumUpTo(list, k + 1) = SumUpTo(list, k) + list[k + 1].time /\ list[k + 1].time \in Nat
      BY <2>1, SumRecursion, EntryType
    <2>4. R[k + 2].time = list[k + 1].time - (ms - SumUpTo(list, k))
      BY <1>3, <1>7 DEF first, time
    <2>5. SumUpTo(R, k + 2) = SumUpTo(list, k + 1)
      <3> HIDE DEF ms
      <3> QED
        BY <1>1, <1>5, <2>2, <2>3, <2>4
    <2>6. PICK a \in 0 .. n, b \in 0 .. Len(R) : a = k + 1 /\ b = k + 2
      BY <1>1, <1>2, <1>3, <2>1
    <2>7. SameTimes(list, a, i, R, b, i + 1)
      <3>1. /\ i \in a .. n /\ i + 1 \in b .. Len(R) /\ i - a = (i + 1) - b
        BY <1>1, <1>2, <1>3, <1>7, <2>6
      <3>2. ASSUME NEW j \in 1 .. i - a
            PROVE  R[b + j].time = list[a + j].time
        <4>1. a + j \in k + 2 .. n /\ (a + j) + 1 = b + j
          BY <1>1, <1>2, <1>7, <2>6
        <4> QED
          BY <1>3, <4>1
      <3> QED
        BY <2>6, <3>1, <3>2 DEF SameTimes
    <2>8. SumUpTo(R, i + 1) - SumUpTo(R, b) = SumUpTo(list, i) - SumUpTo(list, a)
      BY <1>3, <2>7, SumShift
    <2>9. SumUpTo(R, b) = SumUpTo(list, a)
      BY <2>5, <2>6
    <2>10. i \in 0 .. n /\ i + 1 \in 0 .. Len(R)
      BY <1>1, <1>2, <1>3, <1>7
    <2>11. SumUpTo(list, i) \in Nat /\ SumUpTo(R, i + 1) \in Nat /\ SumUpTo(list, a) \in Nat
      BY <1>3, <2>6, <2>10, SumType
    <2> QED
      BY <2>8, <2>9, <2>11
  <1>8. \A i \in 1 .. k : R[i].h = list[i].h /\ SumUpTo(R, i) = SumUpTo(list, i)
    BY <1>2, <1>3, <1>4
  <1>9. R[k + 1].h = h
    BY <1>3
  <1>10. ASSUME NEW i \in k + 1 .. n
         PROVE  R[i + 1].h = list[i].h /\ SumUpTo(R, i + 1) = SumUpTo(list, i)
    <2>1. k < n
      BY <1>1, <1>2, <1>10
    <2>2. SumUpTo(R, i + 1) = SumUpTo(list, i)
      BY <1>7, <1>10, <2>1
    <2>3. CASE i = k + 1
      <3>1. i + 1 = k + 2
        BY <1>2, <2>3
      <3>2. R[k + 2].h = list[k + 1].h
        BY <1>3, <2>1 DEF first
      <3> QED
        BY <2>2, <2>3, <3>1, <3>2
    <2>4. CASE i # k + 1
      <3>1. i \in k + 2 .. n
        BY <1>1, <1>2, <1>10, <2>4
      <3> QED
        BY <1>3, <2>2, <3>1
    <2> QED
      BY <2>3, <2>4
  <1>11. InsertedAt(k, list, h, R)
    BY <1>3, <1>6, <1>8, <1>9, <1>10 DEF InsertedAt
  <1> QED
    BY <1>2, <1>11

-------------------------------------------------------------------------------
\* A list as the set of timers it stands for.
Has(list, g, t) == \E i \in 1 .. Len(list) : list[i].h = g /\ SumUpTo(list, i) = t
Holds(list, g) == \E i \in 1 .. Len(list) : list[i].h = g
Distinct(list) == \A i, j \in 1 .. Len(list) : list[i].h = list[j].h => i = j

\* sys_timeout adds the timer, due after its interval, and changes no other.
LEMMA InsertedView ==
  ASSUME NEW list \in Seq(Entries), NEW h \in Timers
  PROVE  LET R == sys_timeout(list, h)
         IN  /\ R \in Seq(Entries) /\ R # << >>
             /\ \A g, t : Has(R, g, t) <=> (g = h /\ t = Interval[h]) \/ Has(list, g, t)
             /\ \A g : Holds(R, g) <=> g = h \/ Holds(list, g)
             /\ Distinct(list) /\ ~ Holds(list, h) => Distinct(R)
  <1> DEFINE n == Len(list)
  <1>0. PICK R : R = sys_timeout(list, h)
    OBVIOUS
  <1>1. PICK k \in 0 .. n : InsertedAt(k, list, h, R)
    BY <1>0, InsertedPlaces
  <1>2. n \in Nat /\ R \in Seq(Entries) /\ Len(R) = n + 1
    BY <1>1 DEF InsertedAt
  <1>3. /\ \A i \in 1 .. k : R[i].h = list[i].h /\ SumUpTo(R, i) = SumUpTo(list, i)
        /\ R[k + 1].h = h /\ SumUpTo(R, k + 1) = Interval[h]
        /\ \A i \in k + 1 .. n : R[i + 1].h = list[i].h /\ SumUpTo(R, i + 1) = SumUpTo(list, i)
    BY <1>1 DEF InsertedAt
  <1> DEFINE Old(i) == IF i <= k THEN i ELSE i - 1
  <1>4. ASSUME NEW i \in 1 .. n + 1, i # k + 1
        PROVE  Old(i) \in 1 .. n /\ R[i].h = list[Old(i)].h /\ SumUpTo(R, i) = SumUpTo(list, Old(i))
    <2>1. CASE i <= k
      BY <1>2, <1>3, <2>1
    <2>2. CASE ~ i <= k
      <3>1. i - 1 \in k + 1 .. n /\ (i - 1) + 1 = i /\ i - 1 \in 1 .. n
        BY <1>2, <1>3, <1>4, <2>2
      <3> QED
        BY <1>3, <2>2, <3>1
    <2> QED
      BY <2>1, <2>2
  <1>5. ASSUME NEW i \in 1 .. n
        PROVE  \E j \in 1 .. n + 1 : R[j].h = list[i].h /\ SumUpTo(R, j) = SumUpTo(list, i)
    <2>1. CASE i <= k
      <3>1. i \in 1 .. k /\ i \in 1 .. n + 1
        BY <1>2, <2>1
      <3> QED
        BY <1>3, <3>1
    <2>2. CASE ~ i <= k
      <3>1. i \in k + 1 .. n /\ i + 1 \in 1 .. n + 1
        BY <1>2, <2>2
      <3> QED
        BY <1>3, <3>1
    <2> QED
      BY <2>1, <2>2
  <1>6. k + 1 \in 1 .. n + 1
    BY <1>2
  <1>7. ASSUME NEW g, NEW t
        PROVE  Has(R, g, t) <=> (g = h /\ t = Interval[h]) \/ Has(list, g, t)
    <2>1. Has(R, g, t) => (g = h /\ t = Interval[h]) \/ Has(list, g, t)
      <3> SUFFICES ASSUME NEW i \in 1 .. n + 1, R[i].h = g, SumUpTo(R, i) = t
                   PROVE  (g = h /\ t = Interval[h]) \/ Has(list, g, t)
        BY <1>2 DEF Has
      <3>1. CASE i = k + 1
        BY <1>3, <3>1
      <3>2. CASE i # k + 1
        BY <1>4, <3>2 DEF Has
      <3> QED
        BY <3>1, <3>2
    <2>2. g = h /\ t = Interval[h] => Has(R, g, t)
      BY <1>2, <1>3, <1>6 DEF Has
    <2>3. Has(list, g, t) => Has(R, g, t)
      BY <1>2, <1>5 DEF Has
    <2> QED
      BY <2>1, <2>2, <2>3
  <1>8. ASSUME NEW g
        PROVE  Holds(R, g) <=> g = h \/ Holds(list, g)
    <2>1. Holds(R, g) => g = h \/ Holds(list, g)
      <3> SUFFICES ASSUME NEW i \in 1 .. n + 1, R[i].h = g
                   PROVE  g = h \/ Holds(list, g)
        BY <1>2 DEF Holds
      <3>1. CASE i = k + 1
        BY <1>3, <3>1
      <3>2. CASE i # k + 1
        BY <1>4, <3>2 DEF Holds
      <3> QED
        BY <3>1, <3>2
    <2>2. g = h => Holds(R, g)
      BY <1>2, <1>3, <1>6 DEF Holds
    <2>3. Holds(list, g) => Holds(R, g)
      BY <1>2, <1>5 DEF Holds
    <2> QED
      BY <2>1, <2>2, <2>3
  <1>9. ASSUME Distinct(list), ~ Holds(list, h)
        PROVE  Distinct(R)
    <2> SUFFICES ASSUME NEW i \in 1 .. n + 1, NEW j \in 1 .. n + 1, R[i].h = R[j].h
                 PROVE  i = j
      BY <1>2 DEF Distinct
    <2>1. ASSUME NEW a \in 1 .. n + 1, a # k + 1
          PROVE  R[a].h # h
      BY <1>4, <1>9, <2>1 DEF Holds
    <2>2. CASE i = k + 1 \/ j = k + 1
      BY <1>3, <2>1, <2>2
    <2>3. CASE i # k + 1 /\ j # k + 1
      <3>1. Old(i) \in 1 .. n /\ Old(j) \in 1 .. n /\ list[Old(i)].h = list[Old(j)].h
        BY <1>4, <2>3
      <3>2. Old(i) = Old(j)
        <4> HIDE DEF Old
        <4> QED
          BY <1>9, <3>1 DEF Distinct
      <3> QED
        BY <1>2, <2>3, <3>2
    <2> QED
      BY <2>2, <2>3
  <1>10. R # << >>
    <2>1. Len(R) # 0
      BY <1>2
    <2> QED
      BY <2>1
  <1>11. /\ R \in Seq(Entries) /\ R # << >>
         /\ \A g, t : Has(R, g, t) <=> (g = h /\ t = Interval[h]) \/ Has(list, g, t)
         /\ \A g : Holds(R, g) <=> g = h \/ Holds(list, g)
         /\ Distinct(list) /\ ~ Holds(list, h) => Distinct(R)
    BY <1>2, <1>7, <1>8, <1>9, <1>10
  <1> QED
    BY <1>0, <1>11

\* When a timer of the list is due.
Due(list, g) ==
  IF Holds(list, g) THEN SumUpTo(list, CHOOSE i \in 1 .. Len(list) : list[i].h = g) ELSE -1

LEMMA DueIs ==
  ASSUME NEW list \in Seq(Entries), Distinct(list), NEW g, NEW t, Has(list, g, t)
  PROVE  Holds(list, g) /\ Due(list, g) = t /\ t \in Nat
  <1>1. PICK i \in 1 .. Len(list) : list[i].h = g /\ SumUpTo(list, i) = t
    BY DEF Has
  <1>2. Holds(list, g)
    BY <1>1 DEF Holds
  <1>3. PICK j \in 1 .. Len(list) : j = (CHOOSE k \in 1 .. Len(list) : list[k].h = g) /\ list[j].h = g
    BY <1>1
  <1>4. i = j
    BY <1>1, <1>3 DEF Distinct
  <1>5. i \in 0 .. Len(list)
    OBVIOUS
  <1> QED
    BY <1>1, <1>2, <1>3, <1>4, <1>5, SumType DEF Due

LEMMA DueHas ==
  ASSUME NEW list \in Seq(Entries), Distinct(list), NEW g, Holds(list, g)
  PROVE  Has(list, g, Due(list, g)) /\ Due(list, g) \in Nat
  <1>1. PICK i \in 1 .. Len(list) : list[i].h = g
    BY DEF Holds
  <1>2. PICK t : t = SumUpTo(list, i)
    OBVIOUS
  <1>3. Has(list, g, t)
    BY <1>1, <1>2 DEF Has
  <1> QED
    BY <1>3, DueIs

\* What inserting a timer that is not in the list does to all of them.
LEMMA DueInserted ==
  ASSUME NEW list \in Seq(Entries), Distinct(list), NEW h \in Timers, ~ Holds(list, h),
         NEW R, R = sys_timeout(list, h)
  PROVE  /\ R \in Seq(Entries) /\ R # << >> /\ Distinct(R)
         /\ Due(R, h) = Interval[h]
         /\ \A g : Holds(R, g) <=> g = h \/ Holds(list, g)
         /\ \A g : g # h => Due(R, g) = Due(list, g)
  <1>1. /\ R \in Seq(Entries) /\ R # << >>
        /\ \A g, t : Has(R, g, t) <=> (g = h /\ t = Interval[h]) \/ Has(list, g, t)
        /\ \A g : Holds(R, g) <=> g = h \/ Holds(list, g)
        /\ Distinct(R)
    BY InsertedView
  <1>2. Due(R, h) = Interval[h]
    BY <1>1, DueIs
  <1>3. ASSUME NEW g, g # h
        PROVE  Due(R, g) = Due(list, g)
    <2>1. CASE Holds(list, g)
      <3>1. Has(list, g, Due(list, g))
        BY <2>1, DueHas
      <3>2. Has(R, g, Due(list, g))
        BY <1>1, <3>1
      <3> QED
        BY <1>1, <3>2, DueIs
    <2>2. CASE ~ Holds(list, g)
      BY <1>1, <1>3, <2>2 DEF Due
    <2> QED
      BY <2>1, <2>2
  <1> QED
    BY <1>1, <1>2, <1>3

-------------------------------------------------------------------------------
\* The first entry is due first.
LEMMA FirstIsNext ==
  ASSUME NEW list \in Seq(Entries), list # << >>, Distinct(list)
  PROVE  /\ list[1].h \in Timers /\ list[1].time \in Nat
         /\ Holds(list, list[1].h) /\ Due(list, list[1].h) = list[1].time
         /\ \A g : Holds(list, g) => list[1].time <= Due(list, g)
  <1>1. Len(list) \in Nat /\ 1 \in 1 .. Len(list) /\ 1 \in 0 .. Len(list)
    BY EmptySeq, LenProperties
  <1>2. list[1].h \in Timers /\ list[1].time \in Nat
    BY <1>1, EntryType
  <1>3. SumUpTo(list, 1) = list[1].time
    <2>1. SumUpTo(list, 1) = SumUpTo(list, 1 - 1) + list[1].time /\ SumUpTo(list, 0) = 0
      BY <1>1, SumRecursion
    <2> QED
      BY <1>2, <2>1
  <1>4. Has(list, list[1].h, list[1].time)
    BY <1>1, <1>3 DEF Has
  <1>5. ASSUME NEW g, Holds(list, g)
        PROVE  list[1].time <= Due(list, g)
    <2>1. Has(list, g, Due(list, g))
      BY <1>5, DueHas
    <2>2. PICK i \in 1 .. Len(list) : SumUpTo(list, i) = Due(list, g)
      BY <2>1 DEF Has
    <2>3. SumUpTo(list, 1) <= SumUpTo(list, i)
      BY <1>1, SumGrows
    <2> QED
      BY <1>3, <2>2, <2>3
  <1> QED
    BY <1>2, <1>4, <1>5, DueIs

\* Without its first entry, the list is the other timers with that much less left.
LEMMA DueTail ==
  ASSUME NEW list \in Seq(Entries), list # << >>, Distinct(list), NEW R, R = Tail(list)
  PROVE  /\ R \in Seq(Entries) /\ Distinct(R)
         /\ \A g : Holds(R, g) <=> g # list[1].h /\ Holds(list, g)
         /\ \A g : Holds(R, g) => Due(R, g) = Due(list, g) - list[1].time
  <1> DEFINE n == Len(list)
             time == list[1].time
  <1>1. n \in Nat /\ 1 \in 1 .. n /\ 1 \in 0 .. n
    BY EmptySeq, LenProperties
  <1>2. R \in Seq(Entries) /\ Len(R) = n - 1 /\ \A i \in 1 .. n - 1 : R[i] = list[i + 1]
    BY HeadTailProperties
  <1>3. time \in Nat
    BY <1>1, EntryType
  <1> HIDE DEF time
  <1>4. ASSUME NEW i \in 1 .. n - 1
        PROVE  SumUpTo(R, i) = SumUpTo(list, i + 1) - time
    <2>1. SameTimes(list, 1, i + 1, R, 0, i)
      <3>1. i + 1 \in 1 .. Len(list) /\ i \in 0 .. Len(R) /\ 0 \in 0 .. Len(R) /\ (i + 1) - 1 = i - 0
        BY <1>1, <1>2
      <3>2. ASSUME NEW j \in 1 .. (i + 1) - 1
            PROVE  R[0 + j].time = list[1 + j].time
        <4>1. j \in 1 .. n - 1 /\ 0 + j = j /\ 1 + j = j + 1
          BY <1>1
        <4> QED
          BY <1>2, <4>1
      <3> QED
        BY <1>1, <3>1, <3>2 DEF SameTimes
    <2>2. SumUpTo(R, i) - SumUpTo(R, 0) = SumUpTo(list, i + 1) - SumUpTo(list, 1)
      <3>1. PICK S \in Seq(Entries), p \in {i + 1} : S = R /\ p = i + 1
        BY <1>2
      <3>2. SameTimes(list, 1, p, S, 0, i)
        BY <2>1, <3>1
      <3>3. SumUpTo(S, i) - SumUpTo(S, 0) = SumUpTo(list, p) - SumUpTo(list, 1)
        BY <3>2, SumShift
      <3> QED
        BY <3>1, <3>3
    <2>3. SumUpTo(R, 0) = 0 /\ SumUpTo(list, 0) = 0
          /\ SumUpTo(list, 1) = SumUpTo(list, 1 - 1) + list[1].time
      BY <1>1, <1>2, SumRecursion
    <2>4. i \in 0 .. Len(R) /\ i + 1 \in 0 .. n
      BY <1>1, <1>2
    <2>5. SumUpTo(R, i) \in Nat /\ SumUpTo(list, i + 1) \in Nat
      BY <1>2, <2>4, SumType
    <2>6. SumUpTo(list, 1) = time
      BY <1>3, <2>3 DEF time
    <2> QED
      BY <1>3, <2>2, <2>3, <2>5, <2>6
  <1>5. \A i \in 1 .. n - 1 : i + 1 \in 1 .. n /\ i + 1 # 1
    BY <1>1
  <1>6. ASSUME NEW g
        PROVE  Holds(R, g) <=> g # list[1].h /\ Holds(list, g)
    <2>1. ASSUME Holds(R, g)
          PROVE  g # list[1].h /\ Holds(list, g)
      <3>1. PICK i \in 1 .. n - 1 : list[i + 1].h = g
        BY <1>2, <2>1 DEF Holds
      <3> QED
        BY <1>1, <1>5, <3>1 DEF Holds, Distinct
    <2>2. ASSUME g # list[1].h, Holds(list, g)
          PROVE  Holds(R, g)
      <3>1. PICK i \in 1 .. n : list[i].h = g
        BY <2>2 DEF Holds
      <3>2. i - 1 \in 1 .. n - 1 /\ (i - 1) + 1 = i
        BY <1>1, <2>2, <3>1
      <3>3. R[i - 1].h = g
        BY <1>2, <3>1, <3>2
      <3> QED
        BY <1>2, <3>2, <3>3 DEF Holds
    <2> QED
      BY <2>1, <2>2
  <1>7. Distinct(R)
    <2> SUFFICES ASSUME NEW i \in 1 .. n - 1, NEW j \in 1 .. n - 1, R[i].h = R[j].h
                 PROVE  i = j
      BY <1>2 DEF Distinct
    <2>1. list[i + 1].h = list[j + 1].h
      BY <1>2
    <2>2. i + 1 = j + 1
      BY <1>5, <2>1 DEF Distinct
    <2> QED
      BY <2>2
  <1>8. ASSUME NEW g, Holds(R, g)
        PROVE  Due(R, g) = Due(list, g) - time
    <2>1. PICK i \in 1 .. n - 1 : R[i].h = g
      BY <1>2, <1>8 DEF Holds
    <2>2. PICK t, u : t = SumUpTo(R, i) /\ u = SumUpTo(list, i + 1)
      OBVIOUS
    <2>3. Has(R, g, t) /\ Has(list, g, u)
      BY <1>2, <1>5, <2>1, <2>2 DEF Has
    <2>4. Due(R, g) = t /\ Due(list, g) = u
      BY <1>2, <1>7, <2>3, DueIs
    <2> QED
      BY <1>4, <2>2, <2>4
  <1> QED
    BY <1>2, <1>6, <1>7, <1>8 DEF time

\* With less left to its first entry, every timer of the list has that much less left.
FirstLeft(x, list, R) ==
  x \in 0 .. list[1].time /\ R = <<[list[1] EXCEPT !.time = x]>> \o Tail(list)

LEMMA DueLess ==
  ASSUME NEW list \in Seq(Entries), list # << >>, Distinct(list),
         NEW x, NEW R, FirstLeft(x, list, R)
  PROVE  /\ R \in Seq(Entries) /\ R # << >> /\ Distinct(R)
         /\ \A g : Holds(R, g) <=> Holds(list, g)
         /\ \A g : Holds(R, g) => Due(R, g) = Due(list, g) - (list[1].time - x)
  <1> DEFINE n == Len(list)
             time == list[1].time
             first == [list[1] EXCEPT !.time = x]
  <1>0. x \in 0 .. time /\ R = <<first>> \o Tail(list)
    BY DEF FirstLeft
  <1>1. n \in Nat /\ 1 \in 1 .. n /\ 1 \in 0 .. n
    BY EmptySeq, LenProperties
  <1>2. list[1] \in Entries /\ time \in Nat /\ x \in Nat /\ x <= time
    BY <1>0, <1>1, EntryType
  <1>3. first \in Entries /\ first.h = list[1].h /\ first.time = x
    <2>1. \A e \in Entries : [e EXCEPT !.time = x] \in Entries
            /\ [e EXCEPT !.time = x].h = e.h /\ [e EXCEPT !.time = x].time = x
      BY <1>2 DEF Entries
    <2> QED
      BY <1>2, <2>1
  <1> HIDE DEF first, time
  <1>4. /\ Tail(list) \in Seq(Entries) /\ Len(Tail(list)) = n - 1
        /\ \A i \in 1 .. n - 1 : Tail(list)[i] = list[i + 1]
    BY HeadTailProperties
  <1>5. <<first>> \in Seq(Entries) /\ Len(<<first>>) = 1 /\ <<first>>[1] = first
    BY <1>3
  <1>6. PICK A \in Seq(Entries), B \in Seq(Entries) : A = <<first>> /\ B = Tail(list)
    BY <1>4, <1>5
  <1>7. R = A \o B
    BY <1>0, <1>6
  <1>8. R \in Seq(Entries)
    BY <1>7, Joined
  <1>9. /\ Len(R) = n
        /\ \A i \in 1 .. Len(A) : R[i] = A[i]
        /\ \A i \in 1 .. Len(B) : R[Len(A) + i] = B[i]
    <2>1. /\ Len(A \o B) = Len(A) + Len(B)
          /\ \A i \in 1 .. Len(A) : (A \o B)[i] = A[i]
          /\ \A i \in 1 .. Len(B) : (A \o B)[Len(A) + i] = B[i]
      BY Joined
    <2>2. Len(A) = 1 /\ Len(B) = n - 1
      BY <1>4, <1>5, <1>6
    <2>3. Len(R) = n
      BY <1>1, <1>7, <2>1, <2>2
    <2>4. \A i \in 1 .. Len(A) : R[i] = A[i]
      BY <1>7, <2>1
    <2>5. \A i \in 1 .. Len(B) : R[Len(A) + i] = B[i]
      BY <1>7, <2>1
    <2> QED
      BY <2>3, <2>4, <2>5
  <1>10. R[1] = first
    <2>1. 1 \in 1 .. Len(A)
      BY <1>5, <1>6
    <2>2. R[1] = A[1]
      BY <1>9, <2>1
    <2> QED
      BY <1>5, <1>6, <2>2
  <1>11. ASSUME NEW i \in 2 .. n
         PROVE  R[i] = list[i]
    <2>1. i - 1 \in 1 .. Len(B) /\ i - 1 \in 1 .. n - 1 /\ 1 + (i - 1) = i /\ (i - 1) + 1 = i /\ Len(A) = 1
      BY <1>1, <1>4, <1>5, <1>6
    <2>2. R[Len(A) + (i - 1)] = B[i - 1]
      BY <1>9, <2>1
    <2> QED
      BY <1>4, <1>6, <2>1, <2>2
  <1>12. ASSUME NEW i \in 1 .. n
         PROVE  R[i].h = list[i].h
    <2>1. i = 1 \/ i \in 2 .. n
      OBVIOUS
    <2> QED
      BY <1>3, <1>10, <1>11, <2>1
  <1>13. ASSUME NEW i \in 1 .. n
         PROVE  SumUpTo(R, i) = SumUpTo(list, i) - (time - x)
    <2>1. SameTimes(list, 1, i, R, 1, i)
      <3>1. i \in 1 .. Len(list) /\ i \in 1 .. Len(R) /\ 1 \in 0 .. Len(R) /\ 1 \in 0 .. Len(list)
        BY <1>1, <1>9
      <3>2. ASSUME NEW j \in 1 .. i - 1
            PROVE  R[1 + j].time = list[1 + j].time
        <4>1. 1 + j \in 2 .. n
          BY <1>1
        <4> QED
          BY <1>11, <4>1
      <3> QED
        BY <1>1, <3>1, <3>2 DEF SameTimes
    <2>2. SumUpTo(R, i) - SumUpTo(R, 1) = SumUpTo(list, i) - SumUpTo(list, 1)
      <3>1. PICK S \in Seq(Entries) : S = R
        BY <1>8
      <3>2. SameTimes(list, 1, i, S, 1, i)
        BY <2>1, <3>1
      <3>3. SumUpTo(S, i) - SumUpTo(S, 1) = SumUpTo(list, i) - SumUpTo(list, 1)
        BY <3>2, SumShift
      <3> QED
        BY <3>1, <3>3
    <2>3. 1 \in 1 .. Len(R)
      BY <1>1, <1>9
    <2>4. /\ SumUpTo(R, 0) = 0 /\ SumUpTo(list, 0) = 0
          /\ SumUpTo(list, 1) = SumUpTo(list, 1 - 1) + list[1].time
          /\ SumUpTo(R, 1) = SumUpTo(R, 1 - 1) + R[1].time
      BY <1>1, <1>8, <2>3, SumRecursion
    <2>5. SumUpTo(list, 1) = time /\ SumUpTo(R, 1) = x
      <3>1. list[1].time = time /\ R[1].time = x
        BY <1>3, <1>10 DEF time
      <3>2. SumUpTo(list, 1) = SumUpTo(list, 0) + time /\ SumUpTo(R, 1) = SumUpTo(R, 0) + x
        BY <2>4, <3>1
      <3> QED
        BY <1>2, <2>4, <3>2
    <2>6. i \in 0 .. Len(R) /\ i \in 0 .. n
      BY <1>1, <1>9
    <2>7. SumUpTo(R, i) \in Nat /\ SumUpTo(list, i) \in Nat
      BY <1>8, <2>6, SumType
    <2> QED
      BY <1>2, <2>2, <2>5, <2>7
  <1>14. \A g : Holds(R, g) <=> Holds(list, g)
    BY <1>9, <1>12 DEF Holds
  <1>15. Distinct(R)
    BY <1>9, <1>12 DEF Distinct
  <1>16. ASSUME NEW g, Holds(R, g)
         PROVE  Due(R, g) = Due(list, g) - (time - x)
    <2>1. PICK i \in 1 .. n : R[i].h = g
      BY <1>9, <1>16 DEF Holds
    <2>2. PICK t, u : t = SumUpTo(R, i) /\ u = SumUpTo(list, i)
      OBVIOUS
    <2>3. Has(R, g, t) /\ Has(list, g, u)
      BY <1>9, <1>12, <2>1, <2>2 DEF Has
    <2>4. Due(R, g) = t /\ Due(list, g) = u
      BY <1>8, <1>15, <2>3, DueIs
    <2> QED
      BY <1>13, <2>2, <2>4
  <1>17. R # << >>
    <2>1. Len(R) # 0
      BY <1>1, <1>9
    <2> QED
      BY <2>1
  <1> QED
    BY <1>8, <1>14, <1>15, <1>16, <1>17 DEF time

-------------------------------------------------------------------------------
\* No timer is due later than a whole interval from now.
DueInv == \A g \in Timers : Holds(timeouts, g) => Due(timeouts, g) <= Interval[g]

IInv == TypeOK /\ TimersRun /\ DueInv

LEMMA InvViews ==
  ASSUME IInv
  PROVE  /\ timeouts \in Seq(Entries) /\ timeouts # << >> /\ Distinct(timeouts)
         /\ \A h \in Timers \ {TcpTimer} : Holds(timeouts, h)
         /\ Holds(timeouts, TcpTimer) <=> tcpActive
         /\ \A g \in Timers : Holds(timeouts, g) => Due(timeouts, g) <= Interval[g]
  <1>1. PICK h \in Timers : h # TcpTimer
    BY TimersAssumption
  <1>2. timeouts \in Seq(Entries)
    BY DEF IInv, TypeOK, Entries
  <1>3. /\ Distinct(timeouts) /\ \A g \in Timers \ {TcpTimer} : Holds(timeouts, g)
        /\ Holds(timeouts, TcpTimer) <=> tcpActive
    BY DEF IInv, TimersRun, InList, Distinct, Holds
  <1>4. timeouts # << >>
    <2>1. Holds(timeouts, h)
      BY <1>1, <1>3
    <2>2. PICK i : i \in 1 .. Len(timeouts)
      BY <2>1 DEF Holds
    <2> QED
      BY <2>2
  <1> QED
    BY <1>2, <1>3, <1>4 DEF IInv, DueInv

\* What must be shown of a next list.
ListOK(list, active) ==
  /\ list \in Seq(Entries) /\ Distinct(list)
  /\ \A h \in Timers \ {TcpTimer} : Holds(list, h)
  /\ Holds(list, TcpTimer) <=> active
  /\ \A g \in Timers : Holds(list, g) => Due(list, g) <= Interval[g]

LEMMA ListOKSuffices ==
  ASSUME ListOK(timeouts', tcpActive'), tcpActive' \in BOOLEAN, pcbs' \in BOOLEAN,
         pc' \in {"fetch", "handle"}, lived' \in [Timers -> Nat], pcbs' => tcpActive'
  PROVE  IInv'
  <1>1. TypeOK'
    BY DEF ListOK, TypeOK, Entries
  <1>2. TimersRun'
    BY DEF ListOK, TimersRun, InList, Distinct, Holds
  <1> QED
    BY <1>1, <1>2 DEF IInv, DueInv, ListOK

\* The clock arithmetic.
LEMMA Conversions ==
  /\ \A ms \in Nat : Ticks(ms) \in Nat
  /\ \A n \in Nat : Millis(n) \in Nat
  /\ \A t0 \in ClockValues, ticks \in Nat : TimeNeeded(t0, ticks) \in Nat \ {0}
  <1>1. \A a \in Nat, b \in Nat \ {0} : a \div b \in Nat /\ a % b \in Nat
    OBVIOUS
  <1>2. \A a \in Nat : a * TicksPerSec \in Nat /\ a * 1000 \in Nat
    BY ClockAssumption
  <1>3. ASSUME NEW ms \in Nat
        PROVE  Ticks(ms) \in Nat
    <2>1. (ms * TicksPerSec) \div 1000 \in Nat
      BY <1>1, <1>2
    <2> QED
      BY <2>1 DEF Ticks
  <1>4. \A n \in Nat : Millis(n) \in Nat
    BY <1>1, <1>2, ClockAssumption DEF Millis
  <1>5. ASSUME NEW t0 \in ClockValues, NEW ticks \in Nat
        PROVE  TimeNeeded(t0, ticks) \in Nat \ {0}
    <2>1. PICK w \in Nat \ {0} : w = WordMax + 1
      BY ClockAssumption
    <2>2. t0 \in Nat /\ t0 <= WordMax /\ WordMax \in Nat
      BY ClockAssumption
    <2> DEFINE new == (t0 + ticks) % w
               diff == IF new > t0 THEN new - t0 ELSE (WordMax - t0) + new
    <2>3. new \in Nat
      BY <1>1, <2>2
    <2> HIDE DEF new
    <2>4. diff \in Nat
      BY <2>2, <2>3
    <2> HIDE DEF diff
    <2>5. (diff * 1000) % w \in Nat
      BY <1>1, <1>2, <2>4
    <2>6. ((diff * 1000) % w) \div TicksPerSec \in Nat
      BY <1>1, <2>5, ClockAssumption
    <2>7. TimeNeeded(t0, ticks) = ((diff * 1000) % w) \div TicksPerSec + 1
      BY <2>1 DEF TimeNeeded, new, diff
    <2> QED
      BY <2>6, <2>7
  <1> QED
    BY <1>3, <1>4, <1>5

LEMMA GrownType ==
  ASSUME lived \in [Timers -> Nat], NEW ms \in Nat
  PROVE  Grown(ms) \in [Timers -> Nat]
  <1>1. Millis(1) \in Nat
    BY Conversions
  <1>2. \A h \in Timers : lived[h] \in Nat /\ Interval[h] \in Nat
    BY TimersAssumption
  <1> QED
    BY <1>1, <1>2 DEF Grown

-------------------------------------------------------------------------------
\* sys_timeouts_init arms the timers of IP reassembly and ARP.
LEMMA InitInv ==
  ASSUME Init
  PROVE  IInv /\ \A t \in Timers : Holds(timeouts, t) => Due(timeouts, t) = Interval[t]
  <1>1. PICK g \in Timers \ {TcpTimer}, h \in Timers \ {TcpTimer} :
          g # h /\ timeouts = sys_timeout(sys_timeout(<< >>, g), h)
    BY DEF Init
  <1>2. PICK E : E = << >>
    OBVIOUS
  <1>3. E \in Seq(Entries) /\ Distinct(E) /\ \A t : ~ Holds(E, t)
    BY <1>2 DEF Distinct, Holds
  <1>4. PICK L : L = sys_timeout(E, g)
    OBVIOUS
  <1>5. /\ L \in Seq(Entries) /\ Distinct(L) /\ Due(L, g) = Interval[g]
        /\ \A t : Holds(L, t) <=> t = g \/ Holds(E, t)
    BY <1>3, <1>4, DueInserted
  <1>6. \A t : Holds(L, t) <=> t = g
    BY <1>3, <1>5
  <1>7. PICK M : M = sys_timeout(L, h)
    OBVIOUS
  <1>8. /\ M \in Seq(Entries) /\ Distinct(M) /\ Due(M, h) = Interval[h]
        /\ \A t : Holds(M, t) <=> t = h \/ Holds(L, t)
        /\ \A t : t # h => Due(M, t) = Due(L, t)
    BY <1>1, <1>5, <1>6, <1>7, DueInserted
  <1>9. timeouts = M
    BY <1>1, <1>2, <1>4, <1>7
  <1>10. Interval \in [Timers -> Nat]
    BY TimersAssumption
  <1>11. TypeOK
    BY <1>8, <1>9 DEF TypeOK, Init, Entries
  <1>12. TimersRun
    <2>1. \A t \in Timers : t = g \/ t = h \/ t = TcpTimer
      BY <1>1, TimersAssumption
    <2>2. Distinct(timeouts) /\ \A t : Holds(timeouts, t) <=> t = g \/ t = h
      BY <1>6, <1>8, <1>9
    <2> QED
      BY <1>1, <2>1, <2>2 DEF TimersRun, InList, Distinct, Holds, Init
  <1>13. ASSUME NEW t \in Timers, Holds(timeouts, t)
         PROVE  Due(timeouts, t) = Interval[t]
    BY <1>5, <1>6, <1>8, <1>9, <1>13
  <1>14. DueInv
    BY <1>10, <1>13 DEF DueInv
  <1> QED
    BY <1>11, <1>12, <1>13, <1>14 DEF IInv

\* A message comes: every timer has the same time less.
LEMMA FetchStep ==
  ASSUME IInv, NEW t0 \in ClockValues, NEW ticks \in 0 .. Ticks(Head(timeouts).time),
         FetchMessage(t0, ticks)
  PROVE  /\ IInv'
         /\ \E d \in Nat \ {0} :
              /\ d <= timeouts[1].time
              /\ \A g : Holds(timeouts', g) <=> Holds(timeouts, g)
              /\ \A g : Holds(timeouts, g) => Due(timeouts', g) = Due(timeouts, g) - d
  <1>1. /\ timeouts \in Seq(Entries) /\ timeouts # << >> /\ Distinct(timeouts)
        /\ \A h \in Timers \ {TcpTimer} : Holds(timeouts, h)
        /\ Holds(timeouts, TcpTimer) <=> tcpActive
        /\ \A g \in Timers : Holds(timeouts, g) => Due(timeouts, g) <= Interval[g]
    BY InvViews
  <1>2. Head(timeouts) = timeouts[1]
    BY <1>1
  <1>3. timeouts[1].time \in Nat /\ Ticks(timeouts[1].time) \in Nat /\ ticks \in Nat
    <2>1. timeouts[1].time \in Nat
      BY <1>1, FirstIsNext
    <2>2. Ticks(timeouts[1].time) \in Nat
      BY <2>1, Conversions
    <2> QED
      BY <1>2, <2>1, <2>2
  <1>4. TimeNeeded(t0, ticks) \in Nat \ {0} /\ Millis(ticks) \in Nat
    BY <1>3, Conversions
  <1>5. PICK x : x = IF TimeNeeded(t0, ticks) < timeouts[1].time
                     THEN timeouts[1].time - TimeNeeded(t0, ticks) ELSE 0
    OBVIOUS
  <1>6. timeouts[1].time > 0
    BY <1>2 DEF FetchMessage
  <1>7. x \in 0 .. timeouts[1].time /\ x # timeouts[1].time
    BY <1>3, <1>4, <1>5, <1>6
  <1>8. timeouts' = <<[timeouts[1] EXCEPT !.time = x]>> \o Tail(timeouts)
    BY <1>2, <1>5 DEF FetchMessage
  <1>9. /\ timeouts' \in Seq(Entries) /\ Distinct(timeouts')
        /\ \A g : Holds(timeouts', g) <=> Holds(timeouts, g)
        /\ \A g : Holds(timeouts', g) => Due(timeouts', g) = Due(timeouts, g) - (timeouts[1].time - x)
    <2>1. PICK L \in Seq(Entries), R \in {timeouts'} : L = timeouts /\ R = timeouts'
      BY <1>1
    <2>2. L # << >> /\ Distinct(L) /\ FirstLeft(x, L, R)
      BY <1>1, <1>7, <1>8, <2>1 DEF FirstLeft
    <2>3. /\ R \in Seq(Entries) /\ Distinct(R)
          /\ \A g : Holds(R, g) <=> Holds(L, g)
          /\ \A g : Holds(R, g) => Due(R, g) = Due(L, g) - (L[1].time - x)
      BY <2>2, DueLess
    <2> QED
      BY <2>1, <2>3
  <1>10. PICK d : d = timeouts[1].time - x
    OBVIOUS
  <1>11. d \in Nat \ {0} /\ d <= timeouts[1].time
    BY <1>3, <1>7, <1>10
  <1>12. ListOK(timeouts', tcpActive')
    <2>1. ASSUME NEW g \in Timers, Holds(timeouts', g)
          PROVE  Due(timeouts', g) <= Interval[g]
      <3>1. Due(timeouts, g) \in Nat /\ Due(timeouts, g) <= Interval[g] /\ Interval[g] \in Nat
        BY <1>1, <1>9, <2>1, DueHas, TimersAssumption
      <3> QED
        BY <1>9, <1>10, <1>11, <2>1, <3>1
    <2>2. tcpActive' = tcpActive
      BY DEF FetchMessage
    <2> QED
      BY <1>1, <1>9, <2>1, <2>2 DEF ListOK
  <1>13. IInv'
    <2>1. lived' \in [Timers -> Nat]
      <3>1. lived' = Grown(Millis(ticks))
        BY DEF FetchMessage
      <3>2. lived \in [Timers -> Nat]
        BY DEF IInv, TypeOK
      <3> QED
        BY <1>4, <3>1, <3>2, GrownType
    <2>2. tcpActive' \in BOOLEAN /\ pcbs' \in BOOLEAN /\ pc' \in {"fetch", "handle"}
          /\ (pcbs' => tcpActive')
      BY DEF IInv, TypeOK, TimersRun, FetchMessage
    <2> QED
      BY <1>12, <2>1, <2>2, ListOKSuffices
  <1> QED
    BY <1>9, <1>10, <1>11, <1>13

\* The first timer's time is up: all have that much less, and it is armed anew or gone.
LEMMA ExpireStep ==
  ASSUME IInv, Expire
  PROVE  /\ IInv'
         /\ \A g : g # timeouts[1].h => (Holds(timeouts', g) <=> Holds(timeouts, g))
         /\ \A g : g # timeouts[1].h /\ Holds(timeouts, g) =>
              Due(timeouts', g) = Due(timeouts, g) - timeouts[1].time
         /\ \/ ~ Holds(timeouts', timeouts[1].h)
            \/ /\ Holds(timeouts', timeouts[1].h)
               /\ Due(timeouts', timeouts[1].h) = Interval[timeouts[1].h]
  <1>1. PICK L \in Seq(Entries), h \in {timeouts[1].h}, time \in {timeouts[1].time} : L = timeouts /\ h = L[1].h /\ time = L[1].time
    BY InvViews
  <1>2. /\ L # << >> /\ Distinct(L)
        /\ \A g \in Timers \ {TcpTimer} : Holds(L, g)
        /\ Holds(L, TcpTimer) <=> tcpActive
        /\ \A g \in Timers : Holds(L, g) => Due(L, g) <= Interval[g]
    BY <1>1, InvViews
  <1>3. h \in Timers /\ time \in Nat /\ Holds(L, h)
    BY <1>1, <1>2, FirstIsNext
  <1>4. PICK R : R = Tail(L)
    OBVIOUS
  <1>5. /\ R \in Seq(Entries) /\ Distinct(R)
        /\ \A g : Holds(R, g) <=> g # h /\ Holds(L, g)
        /\ \A g : Holds(R, g) => Due(R, g) = Due(L, g) - time
    BY <1>1, <1>2, <1>4, DueTail
  <1>6. PICK M : M = sys_timeout(R, h)
    OBVIOUS
  <1>7. /\ M \in Seq(Entries) /\ Distinct(M) /\ Due(M, h) = Interval[h]
        /\ \A g : Holds(M, g) <=> g = h \/ Holds(R, g)
        /\ \A g : g # h => Due(M, g) = Due(R, g)
    BY <1>3, <1>5, <1>6, DueInserted
  <1>8. Head(timeouts) = L[1] /\ Tail(timeouts) = R
    BY <1>1, <1>2, <1>4
  <1>9. \/ h # TcpTimer /\ timeouts' = M /\ tcpActive' = tcpActive /\ pcbs' = pcbs
        \/ h = TcpTimer /\ timeouts' = M /\ tcpActive' = TRUE /\ pcbs' = TRUE
        \/ h = TcpTimer /\ timeouts' = R /\ tcpActive' = FALSE /\ pcbs' = FALSE
    <2>1. pcbs \in BOOLEAN
      BY DEF IInv, TypeOK
    <2>2. \/ h # TcpTimer /\ timeouts' = M /\ tcpActive' = tcpActive /\ pcbs' = pcbs
          \/ /\ h = TcpTimer /\ pcbs' \in {FALSE, pcbs} /\ tcpActive' = pcbs'
             /\ timeouts' = IF pcbs' THEN M ELSE R
      BY <1>1, <1>6, <1>8 DEF Expire
    <2>3. pcbs' \in {FALSE, pcbs} => pcbs' = TRUE \/ pcbs' = FALSE
      BY <2>1
    <2> QED
      BY <2>2, <2>3
  <1>10. ASSUME NEW g \in Timers, Holds(R, g)
         PROVE  Due(R, g) <= Interval[g]
    <2>1. Holds(L, g) /\ Due(L, g) \in Nat /\ Due(L, g) <= Interval[g] /\ Interval[g] \in Nat
      BY <1>2, <1>5, <1>10, DueHas, TimersAssumption
    <2> QED
      BY <1>3, <1>5, <1>10, <2>1
  <1>11. ListOK(timeouts', tcpActive')
    <2>1. ASSUME NEW g \in Timers, Holds(M, g)
          PROVE  Due(M, g) <= Interval[g]
      <3>1. CASE g = h
        BY <1>3, <1>7, <3>1, TimersAssumption
      <3>2. CASE g # h
        BY <1>7, <1>10, <2>1, <3>2
      <3> QED
        BY <3>1, <3>2
    <2>2. CASE timeouts' = M /\ (h = TcpTimer => tcpActive') /\ (h # TcpTimer => tcpActive' = tcpActive)
      BY <1>2, <1>3, <1>5, <1>7, <2>1, <2>2 DEF ListOK
    <2>3. CASE h = TcpTimer /\ timeouts' = R /\ tcpActive' = FALSE
      BY <1>2, <1>5, <1>10, <2>3 DEF ListOK
    <2> QED
      BY <1>9, <2>2, <2>3
  <1>12. IInv'
    <2>1. lived' \in [Timers -> Nat]
      <3>1. PICK ms \in Nat : lived' = [Grown(ms) EXCEPT ![h] = 0]
        <4>1. \A n \in Nat : Millis(Ticks(n)) \in Nat /\ Millis(0) \in Nat
          BY Conversions
        <4>2. lived' = [Grown(Millis(IF time > 0 THEN Ticks(time) ELSE 0)) EXCEPT ![h] = 0]
          BY <1>1, <1>8 DEF Expire
        <4> QED
          BY <1>3, <4>1, <4>2
      <3>2. lived \in [Timers -> Nat]
        BY DEF IInv, TypeOK
      <3>3. Grown(ms) \in [Timers -> Nat]
        BY <3>2, GrownType
      <3> QED
        BY <3>1, <3>3
    <2>2. tcpActive' \in BOOLEAN /\ pcbs' \in BOOLEAN /\ (pcbs' => tcpActive')
      <3>1. tcpActive \in BOOLEAN /\ pcbs \in BOOLEAN /\ (pcbs => tcpActive)
        BY DEF IInv, TypeOK, TimersRun
      <3>2. \/ tcpActive' = tcpActive /\ pcbs' = pcbs
            \/ tcpActive' = TRUE /\ pcbs' = TRUE
            \/ tcpActive' = FALSE /\ pcbs' = FALSE
        BY <1>9, Zenon
      <3>3. CASE tcpActive' = tcpActive /\ pcbs' = pcbs
        BY <3>1, <3>3
      <3>4. CASE tcpActive' = TRUE /\ pcbs' = TRUE
        BY <3>4
      <3>5. CASE tcpActive' = FALSE /\ pcbs' = FALSE
        BY <3>5
      <3> QED
        BY <3>2, <3>3, <3>4, <3>5
    <2>3. pc' \in {"fetch", "handle"}
      BY DEF IInv, TypeOK, Expire
    <2> QED
      BY <1>11, <2>1, <2>2, <2>3, ListOKSuffices
  <1>13. timeouts' = M \/ timeouts' = R
    BY <1>9
  <1>14. \A g : g # h => (Holds(timeouts', g) <=> Holds(L, g))
    BY <1>5, <1>7, <1>13
  <1>15. ASSUME NEW g, g # h, Holds(L, g)
         PROVE  Due(timeouts', g) = Due(L, g) - time
    <2>1. Holds(R, g)
      BY <1>5, <1>15
    <2> QED
      BY <1>5, <1>7, <1>13, <1>15, <2>1
  <1>16. ~ Holds(timeouts', h) \/ (Holds(timeouts', h) /\ Due(timeouts', h) = Interval[h])
    BY <1>5, <1>7, <1>13
  <1> QED
    BY <1>1, <1>12, <1>14, <1>15, <1>16

\* A message is handled: TCP's timer is started if it is off, and nothing else.
LEMMA HandleStep ==
  ASSUME IInv, HandleMessage
  PROVE  /\ IInv'
         /\ \/ timeouts' = timeouts
            \/ /\ ~ Holds(timeouts, TcpTimer)
               /\ \A g : Holds(timeouts', g) <=> g = TcpTimer \/ Holds(timeouts, g)
               /\ Due(timeouts', TcpTimer) = Interval[TcpTimer]
               /\ \A g : g # TcpTimer => Due(timeouts', g) = Due(timeouts, g)
  <1>1. PICK L \in Seq(Entries) : L = timeouts
    BY InvViews
  <1>2. /\ Distinct(L)
        /\ \A g \in Timers \ {TcpTimer} : Holds(L, g)
        /\ Holds(L, TcpTimer) <=> tcpActive
        /\ \A g \in Timers : Holds(L, g) => Due(L, g) <= Interval[g]
    BY <1>1, InvViews
  <1>3. TcpTimer \in Timers
    BY TimersAssumption
  <1>4. pc' \in {"fetch", "handle"}
    BY DEF HandleMessage
  <1>5. CASE /\ timeouts' = timeouts /\ lived' = lived
             /\ tcpActive' = tcpActive /\ pcbs' \in BOOLEAN /\ (pcbs' => tcpActive)
    <2>1. tcpActive' = tcpActive /\ pcbs' \in BOOLEAN /\ tcpActive \in BOOLEAN /\ (pcbs' => tcpActive)
      BY <1>5 DEF IInv, TypeOK
    <2>2. ListOK(timeouts', tcpActive')
      BY <1>1, <1>2, <1>5, <2>1 DEF ListOK
    <2>3. lived' \in [Timers -> Nat]
      BY <1>5 DEF IInv, TypeOK
    <2>4. IInv'
      BY <1>4, <2>1, <2>2, <2>3, ListOKSuffices
    <2> QED
      BY <1>5, <2>4
  <1>6. CASE /\ tcpActive = FALSE /\ timeouts' = sys_timeout(timeouts, TcpTimer)
             /\ tcpActive' = TRUE /\ pcbs' = TRUE /\ lived' = [lived EXCEPT ![TcpTimer] = 0]
    <2>1. PICK M : M = sys_timeout(L, TcpTimer)
      OBVIOUS
    <2>2. ~ Holds(L, TcpTimer)
      BY <1>2, <1>6
    <2>3. /\ M \in Seq(Entries) /\ Distinct(M) /\ Due(M, TcpTimer) = Interval[TcpTimer]
          /\ \A g : Holds(M, g) <=> g = TcpTimer \/ Holds(L, g)
          /\ \A g : g # TcpTimer => Due(M, g) = Due(L, g)
      BY <1>2, <1>3, <2>1, <2>2, DueInserted
    <2>4. timeouts' = M
      BY <1>1, <1>6, <2>1
    <2>5. ASSUME NEW g \in Timers, Holds(M, g)
          PROVE  Due(M, g) <= Interval[g]
      <3>1. CASE g = TcpTimer
        BY <2>3, <3>1, TimersAssumption
      <3>2. CASE g # TcpTimer
        BY <1>2, <2>3, <2>5, <3>2
      <3> QED
        BY <3>1, <3>2
    <2>6. ListOK(timeouts', tcpActive')
      BY <1>2, <1>6, <2>3, <2>4, <2>5 DEF ListOK
    <2>7. lived' \in [Timers -> Nat]
      BY <1>6 DEF IInv, TypeOK
    <2>8. tcpActive' \in BOOLEAN /\ pcbs' \in BOOLEAN /\ (pcbs' => tcpActive')
      BY <1>6
    <2>9. IInv'
      BY <1>4, <2>6, <2>7, <2>8, ListOKSuffices
    <2> QED
      BY <1>1, <2>2, <2>3, <2>4, <2>9
  <1>7. \/ /\ timeouts' = timeouts /\ lived' = lived
           /\ tcpActive' = tcpActive /\ pcbs' \in BOOLEAN /\ (pcbs' => tcpActive)
        \/ /\ tcpActive = FALSE /\ timeouts' = sys_timeout(timeouts, TcpTimer)
           /\ tcpActive' = TRUE /\ pcbs' = TRUE /\ lived' = [lived EXCEPT ![TcpTimer] = 0]
    <2>1. tcpActive \in BOOLEAN /\ pcbs \in BOOLEAN /\ (pcbs => tcpActive)
      BY DEF IInv, TypeOK, TimersRun
    <2>2. CASE UNCHANGED <<timeouts, tcpActive, pcbs, lived>>
      BY <2>1, <2>2
    <2>3. CASE pcbs' = FALSE /\ UNCHANGED <<timeouts, tcpActive, lived>>
      BY <2>1, <2>3
    <2>4. CASE /\ pcbs' = TRUE /\ tcpActive' = TRUE
               /\ IF tcpActive THEN UNCHANGED <<timeouts, lived>>
                  ELSE /\ timeouts' = sys_timeout(timeouts, TcpTimer)
                       /\ lived' = [lived EXCEPT ![TcpTimer] = 0]
      BY <2>1, <2>4
    <2> QED
      BY <2>2, <2>3, <2>4 DEF HandleMessage
  <1> QED
    BY <1>5, <1>6, <1>7

\* Every step keeps the invariant.
LEMMA NextInv ==
  ASSUME IInv, [Next]_vars
  PROVE  IInv'
  <1>1. CASE Next
    BY <1>1, FetchStep, ExpireStep, HandleStep DEF Next
  <1>2. CASE UNCHANGED vars
    BY <1>2 DEF vars, IInv, TypeOK, TimersRun, InList, DueInv, Holds, Due
  <1> QED
    BY <1>1, <1>2

\* The list of timeouts is a list of timers and times: no difference gets negative when an
\* entry is put in between or a wait is taken off (sys_timeout, sys_timeouts_mbox_fetch).
THEOREM TimersTypeOK == Spec => []TypeOK
  <1>1. IInv => TypeOK
    BY DEF IInv
  <1> QED
    BY <1>1, InitInv, NextInv, PTL DEF Spec

\* No timer is lost or in the list twice, and TCP's runs while there are connections: the flag
\* tcpip_tcp_timer_active and the list agree, though three functions keep them in step.
THEOREM TimersAreKept == Spec => []TimersRun
  <1>1. IInv => TimersRun
    BY DEF IInv
  <1> QED
    BY <1>1, InitInv, NextInv, PTL DEF Spec

-------------------------------------------------------------------------------
LEMMA LeftIsDue ==
  /\ [h \in Timers |-> LeftOf(h)] = [h \in Timers |-> Due(timeouts, h)]
  /\ [h \in Timers |-> LeftOf(h)]' = [h \in Timers |-> Due(timeouts', h)]
  BY DEF LeftOf, InList, Due, Holds

\* Of the three timers one has the longest interval.
LEMMA LongestInterval ==
  LET most == Interval[CHOOSE h \in Timers : \A k \in Timers : Interval[h] >= Interval[k]]
  IN  most \in Nat /\ \A g \in Timers : Interval[g] <= most
  <1>1. PICK ip \in Timers, arp \in Timers : Timers = {ip, arp, TcpTimer}
    BY TimersAssumption
  <1>2. PICK a \in Nat, b \in Nat, c \in Nat :
          a = Interval[ip] /\ b = Interval[arp] /\ c = Interval[TcpTimer]
    BY <1>1, TimersAssumption
  <1>3. (a >= b /\ a >= c) \/ (b >= a /\ b >= c) \/ (c >= a /\ c >= b)
    OBVIOUS
  <1>4. a >= a /\ b >= b /\ c >= c
    OBVIOUS
  <1>5. \E h \in Timers : \A k \in Timers : Interval[h] >= Interval[k]
    BY <1>1, <1>2, <1>3, <1>4
  <1>6. PICK m \in Timers : /\ m = CHOOSE h \in Timers : \A k \in Timers : Interval[h] >= Interval[k]
                            /\ \A k \in Timers : Interval[m] >= Interval[k]
    BY <1>5
  <1>7. \A k \in Timers : Interval[k] \in Nat
    BY TimersAssumption
  <1> QED
    BY <1>6, <1>7

\* Each step of the thread is a step of the set of timers.
LEMMA StepIsSetStep ==
  ASSUME IInv, [Next]_vars
  PROVE  [Set!Next]_([h \in Timers |-> LeftOf(h)])
  <1> DEFINE old == [h \in Timers |-> Due(timeouts, h)]
             new == [h \in Timers |-> Due(timeouts', h)]
  <1>1. PICK L \in Seq(Entries), M \in {timeouts'} : L = timeouts /\ M = timeouts'
    BY InvViews
  <1>2. L # << >> /\ Distinct(L) /\ \A g \in Timers : Holds(L, g) => Due(L, g) <= Interval[g]
    BY <1>1, InvViews
  <1>3. \A g : Holds(L, g) => Due(L, g) \in Nat
    BY <1>2, DueHas
  <1>4. \A g : ~ Holds(L, g) => Due(L, g) = -1
    BY DEF Due
  <1>5. \A g : ~ Holds(M, g) => Due(M, g) = -1
    BY DEF Due
  <1>6. /\ L[1].h \in Timers /\ L[1].time \in Nat
        /\ Holds(L, L[1].h) /\ Due(L, L[1].h) = L[1].time
        /\ \A g : Holds(L, g) => L[1].time <= Due(L, g)
    BY <1>2, FirstIsNext
  <1>7. \A g \in Timers : Holds(L, g) <=> Due(L, g) # -1
    BY <1>3, <1>4
  <1>8. old = [h \in Timers |-> LeftOf(h)] /\ new = [h \in Timers |-> LeftOf(h)]'
    BY LeftIsDue
  <1>9. ASSUME NEW t0 \in ClockValues, NEW ticks \in 0 .. Ticks(Head(timeouts).time),
               FetchMessage(t0, ticks)
        PROVE  Set!Next
    <2>1. PICK d \in Nat \ {0} :
            /\ d <= L[1].time
            /\ \A g : Holds(M, g) <=> Holds(L, g)
            /\ \A g : Holds(L, g) => Due(M, g) = Due(L, g) - d
      BY <1>1, <1>9, FetchStep
    <2>2. d <= Interval[L[1].h] /\ Interval[L[1].h] \in Nat
      <3>1. L[1].time <= Interval[L[1].h]
        BY <1>2, <1>6
      <3>2. Interval[L[1].h] \in Nat
        BY <1>6, TimersAssumption
      <3> QED
        BY <1>6, <2>1, <3>1, <3>2
    <2>3. PICK most : most = Interval[CHOOSE h \in Timers : \A g \in Timers : Interval[h] >= Interval[g]]
      OBVIOUS
    <2>4. d \in 1 .. most
      <3>1. most \in Nat /\ Interval[L[1].h] <= most
        BY <1>6, <2>3, LongestInterval
      <3> QED
        BY <2>1, <2>2, <3>1
    <2>5. ASSUME NEW g \in Timers
          PROVE  old[g] # -1 => d <= old[g]
      <3>1. Due(L, g) # -1 => d <= Due(L, g)
        BY <1>3, <1>6, <1>7, <2>1
      <3> QED
        BY <1>1, <3>1
    <2>6. new = [g \in Timers |-> IF old[g] = -1 THEN -1 ELSE old[g] - d]
      <3>1. ASSUME NEW g \in Timers
            PROVE  Due(M, g) = IF Due(L, g) = -1 THEN -1 ELSE Due(L, g) - d
        BY <1>5, <1>7, <2>1
      <3> QED
        BY <1>1, <3>1
    <2> HIDE DEF old, new
    <2> QED
      BY <1>8, <2>3, <2>4, <2>5, <2>6 DEF Set!Next, Set!Elapse, Set!Armed, Set!Passed
  <1>10. ASSUME Expire
         PROVE  Set!Next
    <2>1. PICK h \in Timers : h = L[1].h /\ old[h] = L[1].time /\ old[h] # -1
      BY <1>1, <1>6
    <2>2. /\ \A g : g # h => (Holds(M, g) <=> Holds(L, g))
          /\ \A g : g # h /\ Holds(L, g) => Due(M, g) = Due(L, g) - L[1].time
          /\ \/ ~ Holds(M, h)
             \/ Holds(M, h) /\ Due(M, h) = Interval[h]
      BY <1>1, <1>10, <2>1, ExpireStep
    <2>3. ASSUME NEW g \in Timers
          PROVE  old[g] # -1 => old[h] <= old[g]
      <3>1. Due(L, g) # -1 => L[1].time <= Due(L, g)
        BY <1>6, <1>7
      <3> QED
        BY <1>1, <2>1, <3>1
    <2>4. ASSUME NEW g \in Timers, g # h
          PROVE  new[g] = IF old[g] = -1 THEN -1 ELSE old[g] - old[h]
      <3>1. Due(M, g) = IF Due(L, g) = -1 THEN -1 ELSE Due(L, g) - L[1].time
        BY <1>5, <1>7, <2>2, <2>4
      <3> QED
        BY <1>1, <2>1, <3>1
    <2>5. new[h] = -1 \/ new[h] = Interval[h]
      BY <1>1, <1>5, <2>2
    <2>6. new = [g \in Timers |-> new[g]]
      OBVIOUS
    <2> HIDE DEF old, new
    <2> DEFINE passed == [g \in Timers |-> IF old[g] = -1 THEN -1 ELSE old[g] - old[h]]
    <2>7. new = [passed EXCEPT ![h] = -1] \/ new = [passed EXCEPT ![h] = Interval[h]]
      BY <2>4, <2>5, <2>6
    <2>8. Set!Fire(h)
      BY <1>8, <2>1, <2>3, <2>7 DEF Set!Fire, Set!Armed, Set!Passed
    <2> QED
      BY <2>8 DEF Set!Next
  <1>11. ASSUME HandleMessage
         PROVE  Set!Next \/ new = old
    <2>1. CASE M = L
      BY <1>1, <2>1
    <2>2. CASE /\ ~ Holds(L, TcpTimer)
               /\ Due(M, TcpTimer) = Interval[TcpTimer]
               /\ \A g : g # TcpTimer => Due(M, g) = Due(L, g)
      <3>1. TcpTimer \in Timers
        BY TimersAssumption
      <3>2. old[TcpTimer] = -1
        BY <1>1, <1>4, <2>2, <3>1
      <3>3. new = [old EXCEPT ![TcpTimer] = Interval[TcpTimer]]
        BY <1>1, <2>2, <3>1
      <3> HIDE DEF old, new
      <3>4. Set!Arm(TcpTimer)
        BY <1>8, <3>2, <3>3 DEF Set!Arm
      <3> QED
        BY <3>1, <3>4 DEF Set!Next
    <2> QED
      BY <1>1, <1>11, <2>1, <2>2, HandleStep
  <1>12. CASE UNCHANGED vars
    <2>1. new = old
      BY <1>12 DEF vars
    <2> QED
      BY <1>8, <2>1
  <1> HIDE DEF old, new
  <1> QED
    BY <1>8, <1>9, <1>10, <1>11, <1>12 DEF Next

LEMMA InitIsSetInit ==
  ASSUME Init
  PROVE  Set!Init
  <1>1. [h \in Timers |-> LeftOf(h)] = [h \in Timers |-> Due(timeouts, h)]
    BY LeftIsDue
  <1>2. ASSUME NEW t \in Timers
        PROVE  Due(timeouts, t) \in {-1, Interval[t]}
    BY InitInv DEF Due
  <1> QED
    BY <1>1, <1>2 DEF Set!Init

\* The list of differences is a set of timers that all see the same time: of all the timers a
\* step of the thread changes only the one it arms or fires, by any other only time passes.
THEOREM ListImplementsSet == Spec => KeepsTimerSet
  BY InitInv, InitIsSetInit, NextInv, StepIsSetStep, PTL DEF Spec, KeepsTimerSet, Set!Spec

-------------------------------------------------------------------------------
\* What can be proved of the firing of a timer without fairness. Those due at once:
DueNow == {g \in Timers : LeftOf(g) = 0}

Fires(h) == Expire /\ Head(timeouts).h = h

\* A timer stays in the list, and its time comes nearer; or one that was due at once before it
\* is out of the way; or the message is done with and the thread back at its wait.
Nearer(h) ==
  /\ InList(h)'
  /\ \/ LeftOf(h)' < LeftOf(h)
     \/ LeftOf(h)' = LeftOf(h) /\ DueNow' \subseteq DueNow /\ DueNow' # DueNow
     \/ LeftOf(h)' = LeftOf(h) /\ DueNow' = DueNow /\ pc = "handle" /\ pc' = "fetch"

\* Every armed timer has at most its interval left, and no step leaves it where it was.
TimeLeftBounded == \A h \in Timers : InList(h) => LeftOf(h) \in 0 .. Interval[h]

EveryStepCounts == [][\A h \in Timers : InList(h) => Fires(h) \/ Nearer(h)]_vars

LEMMA ViewsOfATimer ==
  ASSUME NEW h \in Timers
  PROVE  /\ LeftOf(h) = Due(timeouts, h) /\ LeftOf(h)' = Due(timeouts', h)
         /\ InList(h) <=> Holds(timeouts, h)
         /\ InList(h)' <=> Holds(timeouts', h)
  BY DEF LeftOf, InList, Due, Holds

\* The same of those due at once.
LEMMA ViewsOfDueNow ==
  /\ DueNow = {g \in Timers : Due(timeouts, g) = 0}
  /\ DueNow' = {g \in Timers : Due(timeouts', g) = 0}
  BY ViewsOfATimer DEF DueNow

\* Each step of the thread, for a timer in the list.
LEMMA StepCounts ==
  ASSUME IInv, Next, NEW h \in Timers, InList(h)
  PROVE  Fires(h) \/ Nearer(h)
  <1>1. PICK L \in Seq(Entries), M \in {timeouts'} : L = timeouts /\ M = timeouts'
    BY InvViews
  <1>2. L # << >> /\ Distinct(L) /\ Head(L) = L[1]
    BY <1>1, InvViews
  <1>3. \A g : Holds(L, g) => Due(L, g) \in Nat
    BY <1>2, DueHas
  <1>4. \A g : (~ Holds(L, g) => Due(L, g) = -1) /\ (~ Holds(M, g) => Due(M, g) = -1)
    BY DEF Due
  <1>5. /\ L[1].h \in Timers /\ L[1].time \in Nat
        /\ Holds(L, L[1].h) /\ Due(L, L[1].h) = L[1].time
        /\ \A g : Holds(L, g) => L[1].time <= Due(L, g)
    BY <1>2, FirstIsNext
  <1>6. \A g \in Timers : Interval[g] \in Nat \ {0}
    BY TimersAssumption
  <1>7. /\ LeftOf(h) = Due(L, h) /\ LeftOf(h)' = Due(M, h) /\ Holds(L, h)
        /\ InList(h)' <=> Holds(M, h)
    BY <1>1, ViewsOfATimer
  <1>8. DueNow = {g \in Timers : Due(L, g) = 0} /\ DueNow' = {g \in Timers : Due(M, g) = 0}
    BY <1>1, ViewsOfDueNow
  <1>9. ASSUME NEW t0 \in ClockValues, NEW ticks \in 0 .. Ticks(Head(timeouts).time),
               FetchMessage(t0, ticks)
        PROVE  Nearer(h)
    <2>1. PICK d \in Nat \ {0} : Holds(M, h) /\ Due(M, h) = Due(L, h) - d
      BY <1>1, <1>7, <1>9, FetchStep
    <2>2. Due(M, h) < Due(L, h)
      BY <1>3, <1>7, <2>1
    <2> QED
      BY <1>7, <2>1, <2>2 DEF Nearer
  <1>10. ASSUME Expire, L[1].h # h
         PROVE  Nearer(h)
    <2>1. PICK f \in Timers : f = L[1].h
      BY <1>5
    <2>2. /\ \A g : g # f => (Holds(M, g) <=> Holds(L, g))
          /\ \A g : g # f /\ Holds(L, g) => Due(M, g) = Due(L, g) - L[1].time
          /\ \/ ~ Holds(M, f)
             \/ Holds(M, f) /\ Due(M, f) = Interval[f]
      BY <1>1, <1>10, <2>1, ExpireStep
    <2>3. Holds(M, h) /\ Due(M, h) = Due(L, h) - L[1].time
      BY <1>7, <1>10, <2>1, <2>2
    <2>4. CASE L[1].time > 0
      <3>1. Due(M, h) < Due(L, h)
        BY <1>3, <1>5, <1>7, <2>3, <2>4
      <3> QED
        BY <1>7, <2>3, <3>1 DEF Nearer
    <2>5. CASE L[1].time = 0
      <3>1. Due(M, h) = Due(L, h)
        BY <1>3, <1>7, <2>3, <2>5
      <3>2. f \in DueNow /\ f \notin DueNow'
        BY <1>4, <1>5, <1>6, <1>8, <2>1, <2>2, <2>5
      <3>3. ASSUME NEW g \in DueNow' PROVE g \in DueNow
        <4>1. g \in Timers /\ g # f /\ Due(M, g) = 0 /\ Holds(M, g)
          BY <1>4, <1>8, <3>2, <3>3
        <4>2. Holds(L, g) /\ 0 = Due(L, g) - 0
          BY <2>2, <2>5, <4>1
        <4>3. Due(L, g) = 0
          BY <1>3, <4>2
        <4> QED
          BY <1>8, <4>1, <4>3
      <3> QED
        BY <1>7, <2>3, <3>1, <3>2, <3>3 DEF Nearer
    <2> QED
      BY <1>5, <2>4, <2>5
  <1>11. ASSUME HandleMessage
         PROVE  Nearer(h)
    <2>1. pc = "handle" /\ pc' = "fetch"
      BY <1>11 DEF HandleMessage
    <2>2. CASE M = L
      BY <1>7, <1>8, <2>1, <2>2 DEF Nearer
    <2>3. CASE /\ ~ Holds(L, TcpTimer)
               /\ \A g : Holds(M, g) <=> g = TcpTimer \/ Holds(L, g)
               /\ Due(M, TcpTimer) = Interval[TcpTimer]
               /\ \A g : g # TcpTimer => Due(M, g) = Due(L, g)
      <3>1. TcpTimer \in Timers /\ h # TcpTimer
        BY <1>7, <2>3, TimersAssumption
      <3>2. Holds(M, h) /\ Due(M, h) = Due(L, h)
        BY <1>7, <2>3, <3>1
      <3>3. Due(L, TcpTimer) # 0 /\ Due(M, TcpTimer) # 0
        BY <1>4, <1>6, <2>3, <3>1
      <3>4. DueNow' = DueNow
        BY <1>8, <2>3, <3>3
      <3> QED
        BY <1>7, <2>1, <3>2, <3>4 DEF Nearer
    <2> QED
      BY <1>1, <1>11, <2>2, <2>3, HandleStep
  <1>12. ASSUME Expire, L[1].h = h
         PROVE  Fires(h)
    BY <1>1, <1>2, <1>12 DEF Fires
  <1> QED
    BY <1>9, <1>10, <1>11, <1>12 DEF Next

\* The safety half of EveryTimerFires, for all intervals, ticks and clock values: whatever messages
\* come, sys_timeouts_mbox_fetch takes at least a millisecond off for each, so that every step of
\* the thread fires a timer or brings it nearer, and there are only so many before its interval is up.
THEOREM EveryTimerRunsDown == Spec => []TimeLeftBounded /\ EveryStepCounts
  <1>1. IInv => TimeLeftBounded
    <2> SUFFICES ASSUME IInv, NEW h \in Timers, InList(h)
                 PROVE  LeftOf(h) \in 0 .. Interval[h]
      BY DEF TimeLeftBounded
    <2>1. /\ timeouts \in Seq(Entries) /\ Distinct(timeouts) /\ Holds(timeouts, h)
          /\ Due(timeouts, h) <= Interval[h]
      BY InvViews, ViewsOfATimer
    <2>2. Due(timeouts, h) \in Nat /\ Interval[h] \in Nat
      BY <2>1, DueHas, TimersAssumption
    <2>3. LeftOf(h) = Due(timeouts, h)
      BY ViewsOfATimer
    <2> QED
      BY <2>1, <2>2, <2>3
  <1>2. IInv /\ [Next]_vars => [\A h \in Timers : InList(h) => Fires(h) \/ Nearer(h)]_vars
    BY StepCounts
  <1> QED
    BY <1>1, <1>2, InitInv, NextInv, PTL DEF Spec, EveryStepCounts

===============================================================================
