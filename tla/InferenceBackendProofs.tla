----------------------- MODULE InferenceBackendProofs -----------------------
(***************************************************************************)
(* What a status tells, for any number of request threads, payloads and    *)
(* locations, any capacity, any size of the store and any length of run.   *)
(* The properties speak of the last answer; to be inductive they need to   *)
(* know what the store and every snapshot under way contain (HoldsLast),   *)
(* and of which location a result told of is.  That results are added in   *)
(* the order their requests allow (Numbers) makes recent() list later ones *)
(* first: Rank falls from place to place, so each rank has one result.     *)
(***************************************************************************)
EXTENDS InferenceBackend, FiniteSetTheorems, WellFoundedInduction, TLAPS

(* The congestion level.                                                   *)
LEMMA Products ==
  ASSUME NEW s \in Int, NEW capacity \in Nat
  PROVE  /\ s * capacity \in Int
         /\ s <= 349 => s * capacity <= 349 * capacity
         /\ s <= 699 => s * capacity <= 699 * capacity
         /\ s >= 350 => s * capacity >= 350 * capacity
         /\ s >= 700 => s * capacity >= 700 * capacity
  OBVIOUS

(* Rounding the score to one decimal moves the limits of the levels by at  *)
(* most 0.05 percent points, for every number of people and every capacity *)
(* (scoring.py:52-53, 67).                                                 *)
THEOREM RoundedLevel ==
  ASSUME NEW count \in Nat, NEW capacity \in Nat \ {0},
         NEW s \in RoundedScores(count, capacity)
  PROVE  \E shift \in -1..1 : Level(s) = DocumentedLevel(count, capacity, shift)
<1>1. CASE count >= capacity
  <2>1. s = 1000
    BY <1>1 DEF RoundedScores, MaxScore
  <2>2. 2000 * count + 0 * capacity >= 1400 * capacity /\ 2000 * count + 0 * capacity >= 700 * capacity
    BY <1>1
  <2>3. Level(s) = DocumentedLevel(count, capacity, 0)
    BY <2>1, <2>2 DEF Level, DocumentedLevel
  <2> QED
    BY <2>3
<1>2. CASE count < capacity
  <2>1. (1000 * count) \div capacity \in Int
    OBVIOUS
  <2>2. s \in Int
    BY <1>2, <2>1 DEF RoundedScores
  <2>3. PICK p \in Int : p = s * capacity
    BY <2>2, Products
  <2>4. /\ 2 * (1000 * count - p) <= capacity
        /\ 2 * (p - 1000 * count) <= capacity
    BY <1>2, <2>3 DEF RoundedScores
  <2>5. CASE s < 350
    <3>1. p <= 349 * capacity
      BY <2>2, <2>3, <2>5, Products
    <3>2. 2000 * count + (-1) * capacity < 700 * capacity
      BY <2>4, <3>1
    <3>3. Level(s) = DocumentedLevel(count, capacity, -1)
      BY <2>2, <2>5, <3>2 DEF Level, DocumentedLevel
    <3> QED
      BY <3>3
  <2>6. CASE s >= 350 /\ s < 700
    <3>1. p >= 350 * capacity /\ p <= 699 * capacity
      BY <2>2, <2>3, <2>6, Products
    <3>2. CASE 2000 * count < 700 * capacity
      <4>1. 2000 * count + 1 * capacity >= 700 * capacity /\ 2000 * count + 1 * capacity < 1400 * capacity
        BY <2>4, <3>1, <3>2
      <4>2. Level(s) = DocumentedLevel(count, capacity, 1)
        BY <2>2, <2>6, <4>1 DEF Level, DocumentedLevel
      <4> QED
        BY <4>2
    <3>3. CASE 2000 * count >= 700 * capacity
      <4>1. 2000 * count + 0 * capacity >= 700 * capacity /\ 2000 * count + 0 * capacity < 1400 * capacity
        BY <2>4, <3>1, <3>3
      <4>2. Level(s) = DocumentedLevel(count, capacity, 0)
        BY <2>2, <2>6, <4>1 DEF Level, DocumentedLevel
      <4> QED
        BY <4>2
    <3> QED
      BY <3>2, <3>3
  <2>7. CASE s >= 700
    <3>1. p >= 700 * capacity
      BY <2>2, <2>3, <2>7, Products
    <3>2. 2000 * count + 1 * capacity >= 1400 * capacity /\ 2000 * count + 1 * capacity >= 700 * capacity
      BY <2>4, <3>1
    <3>3. Level(s) = DocumentedLevel(count, capacity, 1)
      BY <2>2, <2>7, <3>2 DEF Level, DocumentedLevel
    <3> QED
      BY <3>3
  <2> QED
    BY <2>2, <2>5, <2>6, <2>7
<1> QED
  BY <1>1, <1>2
-----------------------------------------------------------------------------
(* The latest result in the window.                                        *)
\* Every non-empty set of naturals has a least element.
LEMMA LeastNat ==
  ASSUME NEW T \in SUBSET Nat, T # {}
  PROVE  \E n \in T : \A m \in T : n <= m
<1> DEFINE R == OpToRel(<, Nat)
<1>1. IsWellFoundedOn(R, Nat)
  BY NatLessThanWellFounded
<1>2. \A x, y \in Nat : x < y => <<x, y>> \in R
  BY DEF OpToRel
<1> HIDE DEF R
<1>3. PICK n \in T : \A m \in T : <<m, n>> \notin R
  BY <1>1, WFMin
<1>4. \A m \in T : n <= m
  <2> SUFFICES ASSUME NEW m \in T PROVE n <= m
    OBVIOUS
  <2>1. n \in Nat /\ m \in Nat
    OBVIOUS
  <2>2. ~(m < n)
    BY <1>2, <1>3, <2>1, Zenon
  <2> QED
    BY <2>1, <2>2
<1> QED
  BY <1>4

LEMMA LatestIsLatest ==
  ASSUME NEW s \in Seq(Result), NEW l, NEW start, Candidates(s, l, start) # {}
  PROVE  \E i \in Candidates(s, l, start) :
             /\ Latest(s, l, start) = s[i]
             /\ \A j \in Candidates(s, l, start) : s[j].received_at <= s[i].received_at
<1> DEFINE C == Candidates(s, l, start)
<1>1. C \subseteq 1..Len(s) /\ 1..Len(s) \subseteq Nat
  BY DEF Candidates
<1>2. MaxClock \in Nat /\ \A i \in C : s[i].received_at \in 0..MaxClock
  <2>1. \A i \in 1..Len(s) : s[i] \in Result
    OBVIOUS
  <2>2. \A r \in Result : r.received_at \in 0..MaxClock
    BY DEF Result
  <2> QED
    BY <1>1, <2>1, <2>2, BackendAssumption DEF BackendAssumption
<1> HIDE DEF C
<1>3. PICK i \in C : \A j \in C : s[j].received_at <= s[i].received_at
  <2> DEFINE Ages == {MaxClock - s[j].received_at : j \in C}
  <2>1. Ages \in SUBSET Nat
    BY <1>2
  <2>2. Ages # {}
    BY DEF C
  <2>3. PICK n \in Ages : \A m \in Ages : n <= m
    <3> HIDE DEF Ages
    <3> QED
      BY <2>1, <2>2, LeastNat
  <2>4. PICK i \in C : n = MaxClock - s[i].received_at
    BY <2>3
  <2>5. \A j \in C : MaxClock - s[i].received_at <= MaxClock - s[j].received_at
    BY <2>3, <2>4
  <2>6. \A j \in C : s[j].received_at <= s[i].received_at
    BY <1>2, <2>5
  <2> QED
    BY <2>6
<1>4. PICK k \in C : /\ s[k].received_at = s[i].received_at
                     /\ \A j \in C : s[j].received_at = s[i].received_at => k <= j
  <2> DEFINE Best == {j \in C : s[j].received_at = s[i].received_at}
  <2>1. Best \in SUBSET Nat /\ Best # {}
    BY <1>1
  <2>2. PICK k \in Best : \A j \in Best : k <= j
    <3> HIDE DEF Best
    <3> QED
      BY <2>1, LeastNat
  <2> QED
    BY <2>2
<1>5. \A j \in C : /\ s[j].received_at <= s[k].received_at
                   /\ s[j].received_at = s[k].received_at => k <= j
  BY <1>3, <1>4
<1>6. PICK m \in C : /\ m = CHOOSE x \in C : \A j \in C :
                                /\ s[j].received_at <= s[x].received_at
                                /\ s[j].received_at = s[x].received_at => x <= j
                     /\ \A j \in C : s[j].received_at <= s[m].received_at
  BY <1>5
<1> QED
  BY <1>6 DEF C, Latest
-----------------------------------------------------------------------------
(* The order of recent().  Ranks number the matching results from the end: *)
(* every rank is taken, by one result, and later results have lower ranks. *)
LEMMA RankType ==
  ASSUME NEW n \in Nat, NEW m \in SUBSET (1..n)
  PROVE  /\ IsFiniteSet(m) /\ Cardinality(m) \in Nat
         /\ \A i \in m : Rank(m, i) \in 1..Cardinality(m)
<1>1. IsFiniteSet(m) /\ Cardinality(m) \in Nat
  <2>1. IsFiniteSet(1..n)
    BY FS_Interval
  <2>2. IsFiniteSet(m)
    BY <2>1, FS_Subset
  <2> QED
    BY <2>2, FS_CardinalityType
<1>2. ASSUME NEW i \in m
      PROVE  Rank(m, i) \in 1..Cardinality(m)
  <2> DEFINE up == {j \in m : j >= i}
  <2>1. up \in SUBSET m /\ i \in up
    <3>1. i \in Nat
      OBVIOUS
    <3> QED
      BY <3>1
  <2> HIDE DEF up
  <2>2. IsFiniteSet(up) /\ Cardinality(up) \in Nat /\ Cardinality(up) <= Cardinality(m)
    BY <1>1, <2>1, FS_Subset, FS_CardinalityType
  <2>3. Cardinality(up) # 0
    BY <2>1, <2>2, FS_EmptySet
  <2>4. Cardinality(up) \in 1..Cardinality(m)
    BY <1>1, <2>2, <2>3
  <2> QED
    BY <2>4 DEF up, Rank
<1> QED
  BY <1>1, <1>2

LEMMA RankFalls ==
  ASSUME NEW n \in Nat, NEW m \in SUBSET (1..n), NEW i \in m, NEW k \in m, i < k
  PROVE  Rank(m, i) > Rank(m, k)
<1> DEFINE up == {j \in m : j >= i}
           above == {j \in m : j >= k}
<1>1. above \in SUBSET up /\ i \in up /\ i \notin above /\ up \in SUBSET m
  <2>1. i \in Nat /\ k \in Nat /\ \A j \in m : j \in Nat
    OBVIOUS
  <2>2. /\ \A j \in m : j >= k => j >= i
        /\ i >= i /\ ~(i >= k)
    BY <2>1
  <2> QED
    BY <2>2, Zenon
<1> HIDE DEF up, above
<1>2. IsFiniteSet(up) /\ IsFiniteSet(above)
  BY <1>1, RankType, FS_Subset
<1>3. /\ Cardinality(up) \in Nat /\ Cardinality(above) \in Nat
      /\ Cardinality(above) <= Cardinality(up)
      /\ Cardinality(up) = Cardinality(above) => up = above
  BY <1>1, <1>2, FS_Subset, FS_CardinalityType
<1>4. Cardinality(up) > Cardinality(above)
  BY <1>1, <1>3
<1> QED
  BY <1>4 DEF up, above, Rank

LEMMA RankInjective ==
  ASSUME NEW n \in Nat, NEW m \in SUBSET (1..n), NEW i \in m, NEW j \in m,
         Rank(m, i) = Rank(m, j)
  PROVE  i = j
<1>1. i \in Nat /\ j \in Nat
  OBVIOUS
<1>2. Rank(m, i) \in Int
  <2>1. Cardinality(m) \in Nat /\ Rank(m, i) \in 1..Cardinality(m)
    BY RankType
  <2> QED
    BY <2>1
<1>3. ~(i < j)
  <2> SUFFICES ASSUME i < j PROVE FALSE
    OBVIOUS
  <2>1. Rank(m, i) > Rank(m, j)
    BY RankFalls
  <2> QED
    BY <1>2, <2>1
<1>4. ~(j < i)
  <2> SUFFICES ASSUME j < i PROVE FALSE
    OBVIOUS
  <2>1. Rank(m, j) > Rank(m, i)
    BY RankFalls
  <2> QED
    BY <1>2, <2>1
<1> QED
  BY <1>1, <1>3, <1>4

LEMMA RankOnto ==
  ASSUME NEW n \in Nat, NEW m \in SUBSET (1..n), NEW k \in 1..Cardinality(m)
  PROVE  \E i \in m : Rank(m, i) = k
<1> DEFINE c == Cardinality(m)
           f == [i \in m |-> Rank(m, i)]
<1>1. c \in Nat /\ IsFiniteSet(m)
  BY RankType
<1>2. IsFiniteSet(1..c) /\ Cardinality(1..c) = c
  BY <1>1, FS_Interval
<1>3. f \in [m -> 1..c]
  BY RankType
<1>4. ASSUME NEW i \in m, NEW j \in m, i # j
      PROVE  Rank(m, i) # Rank(m, j)
  BY <1>4, RankInjective
<1>5. f \in Injection(m, 1..c)
  BY <1>3, <1>4 DEF Injection, IsInjective
<1>6. f \in Surjection(m, 1..c)
  <2> HIDE DEF f
  <2> QED
    BY <1>1, <1>2, <1>5, FS_Injection
<1> QED
  BY <1>6 DEF Surjection

\* An entry of recent() is the matching result with that rank; every matching
\* result with a lower rank is listed at its rank.
LEMMA RecentIsByRank ==
  ASSUME NEW s \in Seq(Result), NEW l, NEW n, NEW limit \in Nat
  PROVE  LET m == Matching(s, l, n)
         IN  \A k \in DOMAIN Recent(s, l, n, limit) :
                 /\ k \in Nat
                 /\ \E i \in m : Rank(m, i) = k /\ Recent(s, l, n, limit)[k] = s[i]
                 /\ \A i \in m : Rank(m, i) < k =>
                        /\ Rank(m, i) \in 1..(k - 1)
                        /\ Recent(s, l, n, limit)[Rank(m, i)] = s[i]
<1> DEFINE m == Matching(s, l, n)
           last == Min({limit, Cardinality(m)})
           list == [k \in 1..last |-> s[CHOOSE i \in m : Rank(m, i) = k]]
<1>1. m \in SUBSET (1..Len(s)) /\ Len(s) \in Nat
  BY DEF Matching
<1> HIDE DEF m
<1>2. Cardinality(m) \in Nat
  BY <1>1, RankType
<1>3. last \in Nat /\ last <= Cardinality(m)
  <2> DEFINE S == {limit, Cardinality(m)}
  <2>1. \E x \in S : \A y \in S : x <= y
    BY <1>2
  <2>2. last \in S /\ \A y \in S : last <= y
    BY <2>1 DEF Min
  <2> QED
    BY <1>2, <2>2
<1> HIDE DEF last
<1>4. ASSUME NEW k \in 1..last
      PROVE  \E i \in m : Rank(m, i) = k /\ list[k] = s[i]
  <2>1. k \in 1..Cardinality(m)
    BY <1>2, <1>3
  <2>2. \E i \in m : Rank(m, i) = k
    BY <1>1, <2>1, RankOnto
  <2> QED
    BY <2>2
<1>5. ASSUME NEW i \in m, NEW j \in m, Rank(m, i) = Rank(m, j)
      PROVE  i = j
  BY <1>1, <1>5, RankInjective
<1>6. ASSUME NEW k \in 1..last, NEW i \in m, Rank(m, i) < k
      PROVE  Rank(m, i) \in 1..(k - 1) /\ list[Rank(m, i)] = s[i]
  <2>0. Rank(m, i) \in 1..Cardinality(m)
    BY <1>1, RankType
  <2>1. Rank(m, i) \in 1..(k - 1) /\ Rank(m, i) \in 1..last
    BY <1>2, <1>3, <1>6, <2>0
  <2>2. PICK j \in m : Rank(m, j) = Rank(m, i) /\ list[Rank(m, i)] = s[j]
    BY <1>4, <2>1
  <2> QED
    BY <1>5, <2>1, <2>2
<1>7. Recent(s, l, n, limit) = list /\ DOMAIN list = 1..last
  BY DEF Recent, m, last
<1> HIDE DEF list
<1>8. \A k \in DOMAIN list :
          /\ k \in Nat
          /\ \E i \in m : Rank(m, i) = k /\ list[k] = s[i]
          /\ \A i \in m : Rank(m, i) < k =>
                 Rank(m, i) \in 1..(k - 1) /\ list[Rank(m, i)] = s[i]
  BY <1>3, <1>4, <1>6, <1>7
<1> QED
  BY <1>7, <1>8 DEF m
-----------------------------------------------------------------------------
(* The inductive invariant.                                                *)

\* s is the last MaxResults of the first n results of the history h.
HoldsLast(s, n, h) ==
    /\ s \in Seq(Result)
    /\ n \in 0..Len(h)
    /\ Len(s) = IF n < MaxResults THEN n ELSE MaxResults
    /\ \A j \in 1..Len(s) : s[j] = h[n - Len(s) + j]

Store == /\ clock \in 0..MaxClock
         /\ added \in Seq(Result)
         /\ posts \in 0..MaxPosts
         /\ HoldsLast(results, Len(added), added)

\* A result that a status of l may have told of.
ToldOf(r, l) == r # NoResult => r \in Result /\ r.location_id = l /\ Configured(l)

\* No result is received twice, and none is added before it was received.
Numbered(q) ==
    q.op = "post" => /\ q.result.number <= posts
                     /\ q.result.after <= Len(added)
                     /\ \A i \in 1..Len(added) : added[i].number # q.result.number

Numbers ==
    /\ \A i \in 1..Len(added) : added[i].number <= posts /\ added[i].after < i
    /\ \A i, j \in 1..Len(added) : added[i].number = added[j].number => i = j
    /\ \A t \in Threads : Numbered(request[t])
    /\ \A t, u \in Threads :
           /\ request[t].op = "post" /\ request[u].op = "post"
           /\ request[t].result.number = request[u].result.number
           => t = u

StatusOK(q, h) ==
    q.op = "status" => /\ q.location \in Locations
                       /\ q.window \in Nat
                       /\ HoldsLast(q.results, q.known, h)
                       /\ ToldOf(q.told, q.location)

Requests == \A t \in Threads : request[t] \in Request /\ StatusOK(request[t], added)

Told == told \in [Locations -> Result \cup {NoResult}] /\ \A l \in Locations : ToldOf(told[l], l)

Answer == answer.op \in {"none", "created", "rejected", "status", "recent"}

IInv == Store /\ (DOMAIN request = Threads /\ Requests) /\ Numbers /\ Told /\ Answer
        /\ NoDataIsTrue /\ StatusMovesForward /\ LevelNearRatio /\ RecentListsLaterFirst

\* Which request is which.
LEMMA RequestCases ==
  ASSUME NEW q \in Request
  PROVE  /\ q.op = "post" => q.result \in Result
         /\ q.op = "status" => /\ q.location \in Locations
                               /\ q.window \in 1..3600
                               /\ q.results \in Seq(Result)
                               /\ q.known \in 0..MaxPosts
                               /\ q.told \in Result \cup {NoResult}
<1> DEFINE Windows == 1..3600
           Known == 0..MaxPosts
           Post0 == [op : {"post"}, result : Result]
           Status0 == [op : {"status"}, location : Locations, window : Windows,
                       results : Seq(Result), known : Known, told : Result \cup {NoResult}]
<1>1. q = Idle \/ q \in Post0 \/ q \in Status0
  BY DEF Request
<1>2. Idle.op = "none"
  BY DEF Idle
<1> HIDE DEF Windows, Known
<1>3. \A x \in Post0 : x.op = "post" /\ x.result \in Result
  OBVIOUS
<1>4. \A x \in Status0 : /\ x.op = "status" /\ x.location \in Locations
                         /\ x.window \in Windows /\ x.results \in Seq(Result)
                         /\ x.known \in Known /\ x.told \in Result \cup {NoResult}
  OBVIOUS
<1>5. "none" # "post" /\ "none" # "status" /\ "post" # "status"
  OBVIOUS
<1> HIDE DEF Post0, Status0
<1>6. /\ q.op = "post" => q.result \in Result
      /\ q.op = "status" => /\ q.location \in Locations
                            /\ q.window \in Windows
                            /\ q.results \in Seq(Result)
                            /\ q.known \in Known
                            /\ q.told \in Result \cup {NoResult}
  BY <1>1, <1>2, <1>3, <1>4, <1>5, Zenon
<1> QED
  BY <1>6 DEF Windows, Known

\* The history fields of results that were added.
LEMMA HistoryFields ==
  ASSUME NEW h \in Seq(Result)
  PROVE  \A i \in 1..Len(h) : h[i].number \in 1..MaxPosts /\ h[i].after \in 0..MaxPosts
<1>1. \A i \in 1..Len(h) : h[i] \in Result
  OBVIOUS
<1>2. \A r \in Result : r.number \in 1..MaxPosts /\ r.after \in 0..MaxPosts
  BY DEF Result
<1> QED
  BY <1>1, <1>2

\* Every result added was received, and each received number is used once.
LEMMA AddedAtMostPosts ==
  ASSUME added \in Seq(Result), posts \in 0..MaxPosts, Numbers
  PROVE  Len(added) <= posts
<1> DEFINE f == [i \in 1..Len(added) |-> added[i].number]
<1>1. Len(added) \in Nat /\ posts \in Nat
  OBVIOUS
<1>2. \A i \in 1..Len(added) : added[i].number \in 1..posts
  <2>1. \A i \in 1..Len(added) : added[i].number \in 1..MaxPosts
    BY HistoryFields
  <2> QED
    BY <1>1, <2>1 DEF Numbers
<1>3. f \in Injection(1..Len(added), 1..posts)
  BY <1>2 DEF Injection, IsInjective, Numbers
<1> HIDE DEF f
<1>4. Cardinality(1..Len(added)) <= Cardinality(1..posts)
  <2>1. IsFiniteSet(1..posts)
    BY <1>1, FS_Interval
  <2> QED
    BY <1>3, <2>1, FS_Injection
<1>5. \A k \in Nat : Cardinality(1..k) = k
  <2> SUFFICES ASSUME NEW k \in Nat PROVE Cardinality(1..k) = k
    OBVIOUS
  <2>1. Cardinality(1..k) = IF 1 > k THEN 0 ELSE k - 1 + 1
    BY FS_Interval
  <2> QED
    BY <2>1
<1> QED
  BY <1>1, <1>4, <1>5

LEMMA HeldIsInSnapshot ==
  ASSUME added \in Seq(Result), NEW s, NEW n, HoldsLast(s, n, added), NEW r, HeldAmong(n, r)
  PROVE  \E j \in 1..Len(s) : s[j] = r
<1>1. PICK i \in 1..Len(added) : added[i] = r /\ i <= n /\ i > n - MaxResults
  BY DEF HeldAmong
<1>2. MaxResults \in Nat \ {0} /\ n \in Nat /\ Len(s) \in Nat
  BY BackendAssumption DEF BackendAssumption, HoldsLast
<1>3. i - (n - Len(s)) \in 1..Len(s)
  BY <1>1, <1>2 DEF HoldsLast
<1>4. s[i - (n - Len(s))] = added[n - Len(s) + (i - (n - Len(s)))]
  BY <1>3 DEF HoldsLast
<1>5. n - Len(s) + (i - (n - Len(s))) = i
  BY <1>1, <1>2
<1> QED
  BY <1>1, <1>3, <1>4, <1>5

LEMMA AppendedHoldsLast ==
  ASSUME added \in Seq(Result), HoldsLast(results, Len(added), added), NEW r \in Result,
         results' = Appended(results, r), added' = Append(added, r)
  PROVE  HoldsLast(results', Len(added'), added') /\ added' \in Seq(Result)
<1>1. /\ MaxResults \in Nat /\ MaxResults > 0 /\ Len(added) \in Nat /\ results \in Seq(Result)
      /\ Len(results) \in Nat
      /\ Len(results) = IF Len(added) < MaxResults THEN Len(added) ELSE MaxResults
      /\ \A j \in 1..Len(results) : results[j] = added[Len(added) - Len(results) + j]
  <2>1. MaxResults \in Nat /\ MaxResults > 0
    BY BackendAssumption DEF BackendAssumption
  <2>2. results \in Seq(Result) /\ Len(results) \in Nat /\ Len(added) \in Nat
    BY DEF HoldsLast
  <2> QED
    BY <2>1, <2>2 DEF HoldsLast
<1>2. /\ added' \in Seq(Result) /\ Len(added') = Len(added) + 1
      /\ \A i \in 1..Len(added) : added'[i] = added[i]
      /\ added'[Len(added) + 1] = r
  OBVIOUS
<1>3. CASE Len(results) < MaxResults
  <2>1. /\ results' \in Seq(Result) /\ Len(results') = Len(results) + 1
        /\ \A i \in 1..Len(results) : results'[i] = results[i]
        /\ results'[Len(results) + 1] = r
    BY <1>1, <1>3 DEF Appended
  <2>2. Len(results) = Len(added)
    BY <1>1, <1>3
  <2>3. \A j \in 1..Len(results') : results'[j] = added'[Len(added') - Len(results') + j]
    <3>0. \A j \in 1..Len(results') : Len(added') - Len(results') + j = j
      <4>1. Len(added') = Len(results') /\ Len(results') \in Nat
        BY <1>1, <1>2, <2>1, <2>2
      <4> QED
        BY <4>1
    <3> SUFFICES ASSUME NEW j \in 1..Len(results')
                 PROVE  results'[j] = added'[j]
      BY <3>0, Zenon
    <3>1. CASE j = Len(results')
      BY <1>2, <2>1, <2>2, <3>1
    <3>2. CASE j # Len(results')
      <4>1. j \in 1..Len(results)
        BY <1>1, <2>1, <3>2
      <4>2. Len(added) - Len(results) + j = j
        BY <1>1, <2>2, <4>1
      <4>3. results[j] = added[Len(added) - Len(results) + j]
        BY <1>1, <4>1
      <4> QED
        BY <1>2, <2>1, <2>2, <4>1, <4>2, <4>3
    <3> QED
      BY <3>1, <3>2
  <2>4. Len(results') = IF Len(added') < MaxResults THEN Len(added') ELSE MaxResults
    BY <1>1, <1>2, <1>3, <2>1, <2>2
  <2>5. Len(added') \in 0..Len(added')
    BY <1>1, <1>2
  <2> QED
    BY <1>2, <2>1, <2>3, <2>4, <2>5 DEF HoldsLast
<1>4. CASE ~(Len(results) < MaxResults)
  <2>1. Len(results) = MaxResults /\ Len(added) >= MaxResults /\ results # <<>>
    BY <1>1, <1>4
  <2>2. /\ Tail(results) \in Seq(Result) /\ Len(Tail(results)) = MaxResults - 1
        /\ \A i \in 1..(MaxResults - 1) : Tail(results)[i] = results[i + 1]
    BY <1>1, <2>1
  <2>3. results' = Append(Tail(results), r)
    BY <1>4 DEF Appended
  <2>4. /\ results' \in Seq(Result) /\ Len(results') = MaxResults
        /\ \A i \in 1..(MaxResults - 1) : results'[i] = results[i + 1]
        /\ results'[MaxResults] = r
    BY <1>1, <2>2, <2>3
  <2>5. ASSUME NEW j \in 1..MaxResults
        PROVE  results'[j] = added'[Len(added') - MaxResults + j]
    <3>1. CASE j = MaxResults
      <4>1. Len(added') - MaxResults + j = Len(added) + 1
        BY <1>1, <1>2, <3>1
      <4> QED
        BY <1>2, <2>4, <3>1, <4>1
    <3>2. CASE j # MaxResults
      <4>1. /\ j \in 1..(MaxResults - 1) /\ j + 1 \in 1..Len(results)
            /\ Len(added) - MaxResults + (j + 1) \in 1..Len(added)
            /\ Len(added') - MaxResults + j = Len(added) - MaxResults + (j + 1)
        BY <1>1, <1>2, <2>1, <3>2
      <4>2. results'[j] = results[j + 1] /\ results[j + 1] = added[Len(added) - MaxResults + (j + 1)]
        BY <1>1, <2>1, <2>4, <4>1
      <4> QED
        BY <1>2, <4>1, <4>2
    <3> QED
      BY <3>1, <3>2
  <2>6. Len(added') \in 0..Len(added') /\ ~(Len(added') < MaxResults)
    BY <1>1, <1>2, <2>1
  <2> QED
    BY <1>2, <2>4, <2>5, <2>6 DEF HoldsLast
<1> QED
  BY <1>3, <1>4

LEMMA SnapshotStays ==
  ASSUME added \in Seq(Result), NEW r \in Result, added' = Append(added, r),
         NEW s, NEW n, HoldsLast(s, n, added)
  PROVE  HoldsLast(s, n, added')
<1>1. /\ Len(added') = Len(added) + 1 /\ Len(added) \in Nat
      /\ \A i \in 1..Len(added) : added'[i] = added[i]
  OBVIOUS
<1>2. s \in Seq(Result) /\ n \in Nat /\ n <= Len(added) /\ MaxResults \in Nat
      /\ Len(s) \in Nat /\ (Len(s) = IF n < MaxResults THEN n ELSE MaxResults)
      /\ \A j \in 1..Len(s) : s[j] = added[n - Len(s) + j]
  BY BackendAssumption DEF BackendAssumption, HoldsLast
<1>3. \A j \in 1..Len(s) : n - Len(s) + j \in 1..Len(added)
  BY <1>1, <1>2
<1>4. \A j \in 1..Len(s) : s[j] = added'[n - Len(s) + j]
  BY <1>1, <1>2, <1>3
<1>5. n \in 0..Len(added')
  BY <1>1, <1>2
<1> QED
  BY <1>2, <1>4, <1>5 DEF HoldsLast

\* An answer that is neither a status nor a list satisfies the properties of both.
LEMMA OtherAnswers ==
  ASSUME answer'.op \in {"none", "created", "rejected"}
  PROVE  /\ Answer' /\ NoDataIsTrue' /\ StatusMovesForward' /\ LevelNearRatio'
         /\ RecentListsLaterFirst'
  BY DEF Answer, NoDataIsTrue, StatusMovesForward, LevelNearRatio, RecentListsLaterFirst

\* Nothing but the clock, the answer and requests that end or begin.
LEMMA RequestsStay ==
  ASSUME Requests, Numbers, UNCHANGED <<request, added, posts>>
  PROVE  Requests' /\ Numbers'
  BY DEF Requests, Numbers, Numbered

\* A thread begins or ends a request that holds no new result.
LEMMA NumbersStay ==
  ASSUME Numbers, UNCHANGED <<added, posts>>, DOMAIN request = Threads,
         NEW t \in Threads, NEW q, q.op # "post", request' = [request EXCEPT ![t] = q]
  PROVE  Numbers'
<1>1. \A u \in Threads : request'[u] = IF u = t THEN q ELSE request[u]
  OBVIOUS
<1>2. \A u \in Threads : Numbered(request[u])' /\ (request'[u].op = "post" => u # t)
  BY <1>1 DEF Numbers, Numbered
<1> QED
  BY <1>1, <1>2 DEF Numbers

LEMMA InitOK == Init => IInv
<1> SUFFICES ASSUME Init PROVE IInv
  OBVIOUS
<1>1. MaxResults \in Nat /\ MaxResults > 0 /\ MaxClock \in Nat /\ MaxPosts \in Nat
  BY BackendAssumption DEF BackendAssumption
<1>2. HoldsLast(<<>>, 0, <<>>)
  BY <1>1 DEF Init, HoldsLast
<1>3. Store
  BY <1>1, <1>2 DEF Init, Store
<1>4. DOMAIN request = Threads /\ Requests
  BY DEF Init, Requests, Request, StatusOK, Idle
<1>5. Numbers
  BY DEF Init, Numbers, Numbered, Idle
<1>6. Told
  BY DEF Init, Told, ToldOf
<1>7. /\ Answer /\ NoDataIsTrue /\ StatusMovesForward /\ LevelNearRatio
      /\ RecentListsLaterFirst
  BY DEF Init, Idle, Answer, NoDataIsTrue, StatusMovesForward, LevelNearRatio,
         RecentListsLaterFirst
<1> QED
  BY <1>3, <1>4, <1>5, <1>6, <1>7 DEF IInv

LEMMA TickStep == IInv /\ Tick => IInv'
<1> SUFFICES ASSUME IInv, Tick PROVE IInv'
  OBVIOUS
<1>1. clock' \in 0..MaxClock
  BY BackendAssumption DEF BackendAssumption, IInv, Store, Tick
<1>2. Store'
  BY <1>1 DEF IInv, Store, Tick
<1>3. Requests' /\ Numbers' /\ DOMAIN request' = Threads
  BY RequestsStay DEF IInv, Tick
<1>4. Told'
  BY DEF IInv, Told, ToldOf, Tick
<1>5. answer'.op = "none"
  BY DEF Tick, Idle
<1> QED
  BY <1>2, <1>3, <1>4, <1>5, OtherAnswers DEF IInv

LEMMA ReceiveStep ==
  ASSUME IInv, NEW t \in Threads, NEW p \in Payloads, ReceiveResult(t, p)
  PROVE  IInv'
<1> DEFINE new == [node_id |-> p.node_id, location_id |-> p.location_id,
                   people_count |-> p.people_count, received_at |-> clock,
                   number |-> posts + 1, after |-> Len(added)]
<1>1. p.location_id \in Locations /\ p.people_count \in Nat
  BY BackendAssumption DEF BackendAssumption, ReceiveResult, ValidPayload
<1>2. /\ clock \in 0..MaxClock /\ posts \in Nat /\ Len(added) \in Nat
      /\ posts + 1 \in 1..MaxPosts /\ posts' = posts + 1 /\ added' = added
  BY BackendAssumption DEF BackendAssumption, IInv, Store, ReceiveResult
<1>3. Len(added) \in 0..MaxPosts
  <2>1. Len(added) <= posts
    BY AddedAtMostPosts DEF IInv, Store
  <2>2. MaxPosts \in Nat /\ posts <= MaxPosts
    BY BackendAssumption DEF BackendAssumption, IInv, Store
  <2> QED
    BY <1>2, <2>1, <2>2
<1>4. new \in Result /\ new.number = posts + 1 /\ new.after = Len(added)
  BY <1>1, <1>2, <1>3 DEF Result
<1> DEFINE q == [op |-> "post", result |-> new]
<1>5. request' = [request EXCEPT ![t] = q] /\ DOMAIN request = Threads
  BY DEF ReceiveResult, IInv
<1> HIDE DEF new
<1>6. q \in Request /\ q.op = "post" /\ q.result = new
  BY <1>4 DEF Request
<1> HIDE DEF q
<1>7. \A u \in Threads : request'[u] = IF u = t THEN q ELSE request[u]
  BY <1>5
<1>8. Requests' /\ DOMAIN request' = Threads
  <2>1. q \in Request /\ StatusOK(q, added)
    BY <1>6 DEF StatusOK
  <2> QED
    BY <1>2, <1>5, <1>7, <2>1 DEF IInv, Requests
<1>9. Numbers'
  <2>1. \A i \in 1..Len(added) : /\ added[i].number <= posts /\ added[i].number \in Int
                                /\ added[i].after < i
    BY HistoryFields DEF IInv, Store, Numbers
  <2>2. \A u \in Threads : u # t /\ request[u].op = "post" =>
            /\ request[u].result.number <= posts /\ request[u].result.number \in Int
            /\ Numbered(request[u])
    <3> SUFFICES ASSUME NEW u \in Threads, request[u].op = "post"
                 PROVE  /\ request[u].result.number <= posts
                        /\ request[u].result.number \in Int
                        /\ Numbered(request[u])
      OBVIOUS
    <3>1. request[u].result \in Result /\ Numbered(request[u])
      <4>1. request[u] \in Request /\ Numbered(request[u])
        BY DEF IInv, Requests, Numbers
      <4> QED
        BY <4>1, RequestCases
    <3> QED
      BY <3>1 DEF Numbered, Result
  <2>3. \A i \in 1..Len(added) : added[i].number # posts + 1 /\ added[i].number <= posts + 1
    BY <1>2, <2>1
  <2>4. \A u \in Threads : u # t /\ request[u].op = "post" =>
            /\ request[u].result.number <= posts + 1 /\ request[u].result.number # posts + 1
    BY <1>2, <2>2
  <2>5. \A u \in Threads : Numbered(request[u])'
    <3> SUFFICES ASSUME NEW u \in Threads, request'[u].op = "post"
                 PROVE  /\ request'[u].result.number <= posts + 1
                        /\ request'[u].result.after <= Len(added)
                        /\ \A i \in 1..Len(added) :
                               added[i].number # request'[u].result.number
      BY <1>2 DEF Numbered
    <3>1. CASE u = t
      BY <1>2, <1>4, <1>6, <1>7, <2>3, <3>1
    <3>2. CASE u # t
      BY <1>7, <2>2, <2>4, <3>2 DEF Numbered
    <3> QED
      BY <3>1, <3>2
  <2>6. ASSUME NEW u \in Threads, NEW v \in Threads,
               request'[u].op = "post", request'[v].op = "post",
               request'[u].result.number = request'[v].result.number
        PROVE  u = v
    <3>1. CASE u = t \/ v = t
      BY <1>4, <1>6, <1>7, <2>4, <2>6, <3>1
    <3>2. CASE u # t /\ v # t
      BY <1>7, <2>6, <3>2 DEF IInv, Numbers
    <3> QED
      BY <3>1, <3>2
  <2> QED
    BY <1>2, <2>1, <2>3, <2>5, <2>6 DEF IInv, Numbers
<1>10. Store' /\ Told'
  BY <1>2 DEF IInv, Store, Told, ToldOf, ReceiveResult
<1>11. answer'.op = "none"
  BY DEF ReceiveResult, Idle
<1> QED
  BY <1>8, <1>9, <1>10, <1>11, OtherAnswers DEF IInv

LEMMA AddStep ==
  ASSUME IInv, NEW t \in Threads, AddResult(t)
  PROVE  IInv'
<1> DEFINE new == request[t].result
<1>1. new \in Result /\ Numbered(request[t]) /\ request[t].op = "post"
  <2>1. request[t] \in Request /\ Numbered(request[t]) /\ request[t].op = "post"
    BY DEF IInv, Requests, Numbers, AddResult
  <2> QED
    BY <2>1, RequestCases
<1>2. added \in Seq(Result) /\ HoldsLast(results, Len(added), added)
  BY DEF IInv, Store
<1>3. results' = Appended(results, new) /\ added' = Append(added, new) /\ posts' = posts
  BY DEF AddResult
<1>4. new.number \in Int /\ new.after \in Int /\ new.number <= posts /\ new.after <= Len(added)
      /\ \A i \in 1..Len(added) : added[i].number # new.number
  BY <1>1 DEF Numbered, Result
<1> HIDE DEF new
<1>5. HoldsLast(results', Len(added'), added') /\ added' \in Seq(Result)
  BY <1>1, <1>2, <1>3, AppendedHoldsLast
<1>6. Store'
  BY <1>5 DEF IInv, Store, AddResult
<1>7. /\ request' = [request EXCEPT ![t] = Idle] /\ DOMAIN request = Threads
      /\ \A u \in Threads : request'[u] = IF u = t THEN Idle ELSE request[u]
  BY DEF IInv, AddResult
<1>8. Requests' /\ DOMAIN request' = Threads
  <2>1. Idle \in Request /\ StatusOK(Idle, added')
    BY DEF Request, StatusOK, Idle
  <2>2. ASSUME NEW u \in Threads, u # t
        PROVE  request'[u] \in Request /\ StatusOK(request'[u], added')
    <3>1. request[u] \in Request /\ StatusOK(request[u], added) /\ request'[u] = request[u]
      BY <1>7, <2>2 DEF IInv, Requests
    <3>2. request[u].op = "status" => HoldsLast(request[u].results, request[u].known, added')
      BY <1>1, <1>2, <1>3, <3>1, SnapshotStays DEF StatusOK
    <3> QED
      BY <3>1, <3>2 DEF StatusOK
  <2> QED
    BY <1>7, <2>1, <2>2 DEF Requests
<1>9. Numbers'
  <2>1. /\ Len(added) \in Nat /\ Len(added') = Len(added) + 1
        /\ \A i \in 1..Len(added) : added'[i] = added[i]
        /\ added'[Len(added) + 1] = new
    BY <1>1, <1>2, <1>3
  <2>2. \A i \in 1..Len(added') : i \in 1..Len(added) \/ i = Len(added) + 1
    BY <2>1
  <2>3. \A i \in 1..Len(added') : added'[i].number <= posts /\ added'[i].after < i
    <3>1. new.after < Len(added) + 1
      BY <1>4, <2>1
    <3> QED
      BY <1>4, <2>1, <2>2, <3>1 DEF IInv, Numbers
  <2>4. ASSUME NEW i \in 1..Len(added'), NEW j \in 1..Len(added'),
               added'[i].number = added'[j].number
        PROVE  i = j
    <3>1. CASE i \in 1..Len(added) /\ j \in 1..Len(added)
      BY <2>1, <2>4, <3>1 DEF IInv, Numbers
    <3>2. CASE i = Len(added) + 1 \/ j = Len(added) + 1
      BY <1>4, <2>1, <2>2, <2>4, <3>2
    <3> QED
      BY <2>2, <3>1, <3>2
  <2>5. ASSUME NEW u \in Threads, request'[u].op = "post"
        PROVE  u # t /\ request'[u] = request[u]
    BY <1>7, <2>5 DEF Idle
  <2>6. ASSUME NEW u \in Threads
        PROVE  Numbered(request[u])'
    <3> SUFFICES ASSUME request'[u].op = "post"
                 PROVE  /\ request[u].result.number <= posts
                        /\ request[u].result.after <= Len(added) + 1
                        /\ \A i \in 1..Len(added') :
                               added'[i].number # request[u].result.number
      BY <1>3, <2>1, <2>5 DEF Numbered
    <3>1. u # t /\ request'[u] = request[u] /\ request[u].op = "post"
      BY <2>5
    <3>2. Numbered(request[u]) /\ request[u].result \in Result
      <4>1. request[u] \in Request /\ Numbered(request[u])
        BY DEF IInv, Requests, Numbers
      <4> QED
        BY <3>1, <4>1, RequestCases
    <3>3. request[u].result.number # new.number
      BY <1>1, <3>1 DEF IInv, Numbers, new
    <3>4. request[u].result.after <= Len(added) + 1
      BY <2>1, <3>1, <3>2 DEF Numbered, Result
    <3> QED
      BY <2>1, <2>2, <3>1, <3>2, <3>3, <3>4 DEF Numbered
  <2>7. ASSUME NEW u \in Threads, NEW v \in Threads,
               request'[u].op = "post", request'[v].op = "post",
               request'[u].result.number = request'[v].result.number
        PROVE  u = v
    BY <2>5, <2>7 DEF IInv, Numbers
  <2> QED
    BY <1>3, <2>3, <2>4, <2>6, <2>7 DEF Numbers
<1>10. Told'
  BY DEF IInv, Told, ToldOf, AddResult
<1>11. answer'.op = "created"
  BY DEF AddResult
<1> QED
  BY <1>6, <1>8, <1>9, <1>10, <1>11, OtherAnswers DEF IInv

\* parsed_window: what max() and min() make of the window of a query.
LEMMA ClampWindow ==
  ASSUME NEW x \in Int
  PROVE  Clamp(x, 1, 3600) \in 1..3600 /\ Clamp(x, 1, 3600) \in Nat
BY DEF Clamp

LEMMA ReadStep ==
  ASSUME IInv, NEW t \in Threads, NEW query \in StatusQueries, ReadForStatus(t, query)
  PROVE  IInv'
<1> DEFINE l == query.location
           w == Clamp(query.window, 1, 3600)
           new == [op |-> "status", location |-> l, window |-> w,
                   results |-> results, known |-> Len(added), told |-> told[l]]
<1>1. l \in Locations /\ w \in 1..3600 /\ w \in Nat
  <2>1. l \in Locations
    BY BackendAssumption DEF BackendAssumption
  <2>2. PICK x \in Int : x = query.window
    BY BackendAssumption DEF BackendAssumption
  <2>3. w = Clamp(x, 1, 3600)
    BY <2>2
  <2>4. Clamp(x, 1, 3600) \in 1..3600 /\ Clamp(x, 1, 3600) \in Nat
    BY ClampWindow
  <2>5. w \in 1..3600 /\ w \in Nat
    <3> HIDE DEF w
    <3> QED
      BY <2>3, <2>4
  <2> HIDE DEF l, w
  <2> QED
    BY <2>1, <2>5
<1>2. request' = [request EXCEPT ![t] = new]
  BY DEF ReadForStatus
<1> HIDE DEF l, w
<1>3. StatusOK(new, added) /\ new \in Request /\ new.op # "post"
  <2>1. /\ HoldsLast(results, Len(added), added) /\ results \in Seq(Result)
        /\ ToldOf(told[l], l) /\ told[l] \in Result \cup {NoResult}
    BY <1>1 DEF IInv, Store, HoldsLast, Told
  <2>2. StatusOK(new, added)
    BY <1>1, <2>1 DEF StatusOK
  <2>3. Len(added) <= posts
    BY AddedAtMostPosts DEF IInv, Store
  <2>4. posts \in 0..MaxPosts /\ MaxPosts \in Nat /\ Len(added) \in Nat
    BY BackendAssumption DEF BackendAssumption, IInv, Store
  <2>5. Len(added) \in 0..MaxPosts
    BY <2>3, <2>4
  <2>6. new \in [op : {"status"}, location : Locations, window : 1..3600,
                results : Seq(Result), known : 0..MaxPosts, told : Result \cup {NoResult}]
    BY <1>1, <2>1, <2>5
  <2> QED
    BY <2>2, <2>6 DEF Request
<1>4. request' = [request EXCEPT ![t] = new] /\ DOMAIN request = Threads
      /\ UNCHANGED <<added, posts>>
  <2>1. DOMAIN request = Threads
    BY DEF IInv
  <2>2. UNCHANGED <<added, posts>>
    BY DEF ReadForStatus
  <2> QED
    BY <1>2, <2>1, <2>2, Zenon
<1> HIDE DEF new
<1>5. request'[t] = new /\ \A u \in Threads : u # t => request'[u] = request[u]
  BY <1>4
<1>6. Requests' /\ DOMAIN request' = Threads
  BY <1>3, <1>4, <1>5 DEF IInv, Requests
<1>7. Numbers'
  BY <1>3, <1>4, NumbersStay DEF IInv
<1>8. Store' /\ Told'
  BY DEF IInv, Store, Told, ToldOf, ReadForStatus
<1>9. answer'.op = "none"
  BY DEF ReadForStatus, Idle
<1> QED
  BY <1>6, <1>7, <1>8, <1>9, OtherAnswers DEF IInv

\* A result the request knows of is in its snapshot; if it is of the queried
\* location and in the window, it is a candidate.
LEMMA HeldIsCandidate ==
  ASSUME added \in Seq(Result), NEW s, NEW n, HoldsLast(s, n, added), NEW r, HeldAmong(n, r),
         NEW start \in Int, r \in Result, r.received_at >= start
  PROVE  \E j \in Candidates(s, r.location_id, start) : s[j] = r
<1>1. PICK j \in 1..Len(s) : s[j] = r
  BY HeldIsInSnapshot
<1>2. s \in Seq(Result)
  BY DEF HoldsLast
<1>3. j \in DOMAIN s
  BY <1>1, <1>2
<1> QED
  BY <1>1, <1>3 DEF Candidates, InWindow

LEMMA WithoutDataStep ==
  ASSUME IInv, NEW t \in Threads, AnswerWithoutData(t)
  PROVE  IInv'
<1> DEFINE q == request[t]
           start == clock - q.window
<1>1. /\ q.op = "status" /\ q.location \in Locations /\ q.window \in Nat
      /\ HoldsLast(q.results, q.known, added) /\ ToldOf(q.told, q.location)
      /\ (Configured(q.location) => Candidates(q.results, q.location, start) = {})
  BY DEF IInv, Requests, StatusOK, AnswerWithoutData, HasData
<1>2. /\ added \in Seq(Result) /\ clock \in Nat /\ start \in Int
  BY <1>1 DEF IInv, Store
<1>3. /\ answer'.op = "status" /\ answer'.location = q.location /\ answer'.window = q.window
      /\ answer'.now = clock /\ answer'.known = q.known /\ answer'.told = q.told
      /\ answer'.body.status = (IF Configured(q.location) THEN "NO_DATA" ELSE "LOCATION_NOT_CONFIGURED")
  BY DEF AnswerWithoutData, StatusAnswer
<1>4. UNCHANGED <<clock, results, posts, added, told>> /\ request' = [request EXCEPT ![t] = Idle]
  BY DEF AnswerWithoutData
<1>5. Store' /\ Told' /\ Requests' /\ Numbers' /\ DOMAIN request' = Threads
  <2>1. Store' /\ Told'
    BY <1>4 DEF IInv, Store, Told
  <2>2. Idle \in Request /\ StatusOK(Idle, added) /\ Idle.op # "post"
    BY DEF Request, StatusOK, Idle
  <2>3. Numbers'
    BY <1>4, <2>2, NumbersStay DEF IInv
  <2> QED
    BY <1>4, <2>1, <2>2, <2>3 DEF IInv, Requests
<1> HIDE DEF q
<1>6. \A r \in Result : Configured(q.location) /\ r.location_id = q.location
                        /\ HeldAmong(q.known, r) => r.received_at < start
  <2> SUFFICES ASSUME NEW r \in Result, Configured(q.location), r.location_id = q.location,
                      HeldAmong(q.known, r)
               PROVE  r.received_at < start
    OBVIOUS
  <2>1. r.received_at \in Int
    BY DEF Result
  <2>2. ~(r.received_at >= start)
    <3> HIDE DEF start
    <3> QED
      BY <1>1, <1>2, HeldIsCandidate
  <2> QED
    BY <1>2, <2>1, <2>2
<1>7. \A n, r : HeldAmong(n, r)' <=> HeldAmong(n, r)
  BY <1>4 DEF HeldAmong
<1>8. NoDataIsTrue'
  <2> SUFFICES ASSUME NEW i \in DOMAIN added, Configured(q.location),
                      added[i].location_id = q.location, HeldAmong(q.known, added[i])
               PROVE  added[i].received_at < start
    BY <1>3, <1>4, <1>7 DEF NoDataIsTrue
  <2>1. added[i] \in Result
    BY <1>2
  <2> QED
    BY <1>6, <2>1
<1>9. StatusMovesForward'
  <2> SUFFICES ASSUME q.told # NoResult, HeldAmong(q.known, q.told)
               PROVE  Configured(q.location) /\ q.told.received_at < start
    BY <1>3, <1>4, <1>7 DEF StatusMovesForward
  <2>1. q.told \in Result /\ q.told.location_id = q.location /\ Configured(q.location)
    BY <1>1 DEF ToldOf
  <2> QED
    BY <1>6, <2>1
<1>10. LevelNearRatio' /\ Answer' /\ RecentListsLaterFirst'
  BY <1>3 DEF LevelNearRatio, Answer, RecentListsLaterFirst
<1> QED
  BY <1>5, <1>8, <1>9, <1>10 DEF IInv

LEMMA WithDataStep ==
  ASSUME IInv, NEW t \in Threads, AnswerWithData(t)
  PROVE  IInv'
<1> DEFINE q == request[t]
           start == clock - q.window
           r == Latest(q.results, q.location, start)
<1>1. /\ q.op = "status" /\ q.location \in Locations /\ q.window \in Nat
      /\ HoldsLast(q.results, q.known, added) /\ ToldOf(q.told, q.location)
      /\ Configured(q.location)
      /\ Candidates(q.results, q.location, start) # {}
  BY DEF IInv, Requests, StatusOK, AnswerWithData, HasData
<1>2. /\ added \in Seq(Result) /\ clock \in Nat /\ start \in Int
  BY <1>1 DEF IInv, Store
<1>3. PICK score \in RoundedScores(r.people_count, Capacity[q.location]) :
          answer' = StatusAnswer(q, [status |-> "OK", result |-> r, score |-> score,
                                     level |-> Level(score)])
  BY DEF AnswerWithData
<1>4. /\ answer'.op = "status" /\ answer'.location = q.location /\ answer'.window = q.window
      /\ answer'.now = clock /\ answer'.known = q.known /\ answer'.told = q.told
      /\ answer'.body.status = "OK" /\ answer'.body.result = r
      /\ answer'.body.level = Level(score)
  BY <1>3 DEF StatusAnswer
<1>5. /\ UNCHANGED <<clock, results, posts, added>> /\ request' = [request EXCEPT ![t] = Idle]
      /\ told' = [told EXCEPT ![q.location] =
             IF @ # NoResult /\ @.received_at >= r.received_at THEN @ ELSE r]
  BY DEF AnswerWithData
<1> HIDE DEF q, start
<1>6. /\ r \in Result /\ r.location_id = q.location /\ r.received_at >= start
      /\ \A j \in Candidates(q.results, q.location, start) :
             q.results[j].received_at <= r.received_at
  <2>1. q.results \in Seq(Result)
    BY <1>1 DEF HoldsLast
  <2>2. PICK i \in Candidates(q.results, q.location, start) :
            /\ r = q.results[i]
            /\ \A j \in Candidates(q.results, q.location, start) :
                   q.results[j].received_at <= q.results[i].received_at
    BY <1>1, <2>1, LatestIsLatest
  <2>3. i \in DOMAIN q.results /\ InWindow(q.results[i], q.location, start)
    BY DEF Candidates
  <2>4. q.results[i] \in Result
    BY <2>1, <2>3
  <2> QED
    BY <2>2, <2>3, <2>4 DEF InWindow
<1> HIDE DEF r
<1>7. Store' /\ Told' /\ Requests' /\ Numbers' /\ DOMAIN request' = Threads
  <2>1. Store'
    BY <1>5 DEF IInv, Store
  <2>2. Idle \in Request /\ StatusOK(Idle, added) /\ Idle.op # "post"
    BY DEF Request, StatusOK, Idle
  <2>3. DOMAIN request = Threads /\ Numbers
        /\ \A u \in Threads : request[u] \in Request /\ StatusOK(request[u], added)
    BY DEF IInv, Requests
  <2>4. Requests' /\ Numbers' /\ DOMAIN request' = Threads
    <3>1. Numbers'
      BY <1>5, <2>2, <2>3, NumbersStay
    <3> QED
      BY <1>5, <2>2, <2>3, <3>1 DEF Requests
  <2>5. ToldOf(r, q.location)
    BY <1>1, <1>6 DEF ToldOf
  <2>6. told \in [Locations -> Result \cup {NoResult}] /\ \A l \in Locations : ToldOf(told[l], l)
    BY DEF IInv, Told
  <2>7. Told'
    BY <1>1, <1>5, <1>6, <2>5, <2>6 DEF Told
  <2> QED
    BY <2>1, <2>4, <2>7
<1>8. NoDataIsTrue'
  BY <1>4 DEF NoDataIsTrue
<1>9. StatusMovesForward'
  <2>1. \A n, x : HeldAmong(n, x)' <=> HeldAmong(n, x)
    BY <1>5 DEF HeldAmong
  <2> SUFFICES ASSUME q.told # NoResult, HeldAmong(q.known, q.told)
               PROVE  r.received_at >= q.told.received_at
    BY <1>4, <2>1 DEF StatusMovesForward
  <2>2. q.told \in Result /\ q.told.location_id = q.location
    BY <1>1 DEF ToldOf
  <2>3. q.told.received_at \in Int /\ r.received_at \in Int
    BY <1>6, <2>2 DEF Result
  <2>4. CASE q.told.received_at >= start
    <3>1. PICK j \in Candidates(q.results, q.location, start) : q.results[j] = q.told
      BY <1>1, <1>2, <2>2, <2>4, HeldIsCandidate
    <3> QED
      BY <1>6, <2>3, <3>1
  <2>5. CASE ~(q.told.received_at >= start)
    BY <1>2, <1>6, <2>3, <2>5
  <2> QED
    BY <2>4, <2>5
<1>10. LevelNearRatio'
  <2>1. r.people_count \in Nat
    BY <1>6 DEF Result
  <2>2. Capacity[q.location] \in Nat \ {0}
    BY <1>1, BackendAssumption DEF BackendAssumption, Configured
  <2>3. \E shift \in -1..1 :
            Level(score) = DocumentedLevel(r.people_count, Capacity[q.location], shift)
    BY <1>3, <2>1, <2>2, RoundedLevel
  <2> QED
    BY <1>4, <2>3 DEF LevelNearRatio
<1>11. Answer' /\ RecentListsLaterFirst'
  BY <1>4 DEF Answer, RecentListsLaterFirst
<1> QED
  BY <1>7, <1>8, <1>9, <1>10, <1>11 DEF IInv

\* A result acknowledged before another was received, and still in the store, is at an
\* earlier place of it, so its rank among those the filters let through is higher.
LEMMA RecentStep ==
  ASSUME IInv, NEW t \in Threads, NEW query \in RecentQueries, AnswerRecent(t, query)
  PROVE  IInv'
<1> DEFINE limit == Clamp(query.limit, 1, 100)
           list == Recent(results, query.location, query.node, limit)
           m == Matching(results, query.location, query.node)
           shift == Len(added) - Len(results)
<1>1. UNCHANGED <<clock, results, request, posts, added, told>>
  BY DEF AnswerRecent
<1>2. /\ answer'.op = "recent" /\ answer'.location = query.location
      /\ answer'.node = query.node /\ answer'.known = Len(added) /\ answer'.list = list
  BY DEF AnswerRecent
<1>3. Store' /\ Told' /\ Requests' /\ Numbers' /\ DOMAIN request' = Threads
  BY <1>1, RequestsStay DEF IInv, Store, Told
<1>4. Answer' /\ NoDataIsTrue' /\ StatusMovesForward' /\ LevelNearRatio'
  BY <1>2 DEF Answer, NoDataIsTrue, StatusMovesForward, LevelNearRatio
<1>5. /\ added \in Seq(Result) /\ results \in Seq(Result) /\ Numbers
      /\ \A p \in 1..Len(results) : results[p] = added[shift + p]
      /\ Len(results) = IF Len(added) < MaxResults THEN Len(added) ELSE MaxResults
  BY DEF IInv, Store, HoldsLast
<1>6. /\ Len(added) \in Nat /\ Len(results) \in Nat /\ shift \in Nat /\ limit \in Nat
      /\ MaxResults \in Nat
  BY <1>5, BackendAssumption DEF BackendAssumption, Clamp
<1>7. m \in SUBSET (1..Len(results))
  BY <1>5 DEF Matching
<1> HIDE DEF limit, list, m
<1>8. \A k \in DOMAIN list :
          /\ k \in Nat
          /\ \E p \in m : Rank(m, p) = k /\ list[k] = results[p]
          /\ \A p \in m : Rank(m, p) < k =>
                 Rank(m, p) \in 1..(k - 1) /\ list[Rank(m, p)] = results[p]
  BY <1>5, <1>6, RecentIsByRank DEF list, m
<1>9. ASSUME NEW i \in 1..Len(added), NEW k \in DOMAIN list,
             i > Len(added) - MaxResults, Matches(added[i], query.location, query.node),
             NEW j \in 1..added[i].after, added[j] = list[k]
      PROVE  \E n \in 1..(k - 1) : list[n] = added[i]
  <2>1. i - shift \in m /\ results[i - shift] = added[i]
    <3>1. i - shift \in 1..Len(results) /\ shift + (i - shift) = i
      BY <1>5, <1>6, <1>9
    <3>2. results[i - shift] = added[i]
      BY <1>5, <3>1
    <3> QED
      BY <1>5, <1>9, <3>1, <3>2 DEF m, Matching
  <2>2. j \in 1..Len(added) /\ j < i
    <3>1. added[i].after < i /\ added[i].after \in Int
      BY <1>5, HistoryFields DEF Numbers
    <3> QED
      BY <1>6, <3>1
  <2>3. PICK p \in m : Rank(m, p) = k /\ list[k] = results[p]
    BY <1>8
  <2>4. p \in 1..Len(results) /\ shift + p \in 1..Len(added) /\ added[shift + p] = added[j]
    <3>1. p \in 1..Len(results)
      BY <1>7
    <3>2. results[p] = added[shift + p]
      BY <1>5, <3>1
    <3>3. shift + p \in 1..Len(added)
      BY <1>6, <3>1
    <3> QED
      BY <1>9, <2>3, <3>1, <3>2, <3>3
  <2>5. shift + p = j
    BY <1>5, <2>2, <2>4 DEF Numbers
  <2>6. p < i - shift
    BY <1>6, <2>2, <2>4, <2>5
  <2>7. Rank(m, p) > Rank(m, i - shift)
    BY <1>6, <1>7, <2>1, <2>3, <2>6, RankFalls
  <2>8. Rank(m, i - shift) < k
    <3>1. \A x \in m : Rank(m, x) \in 1..Cardinality(m)
      BY <1>6, <1>7, RankType
    <3>2. Cardinality(m) \in Nat
      BY <1>6, <1>7, RankType
    <3> QED
      BY <2>1, <2>3, <2>7, <3>1, <3>2
  <2> QED
    BY <1>8, <2>1, <2>8
<1>10. RecentListsLaterFirst'
  <2> SUFFICES ASSUME NEW i \in DOMAIN added, NEW k \in DOMAIN list,
                      HeldAmong(Len(added), added[i]),
                      Matches(added[i], query.location, query.node),
                      NEW j \in 1..added[i].after, added[j] = list[k]
               PROVE  \E n \in 1..(k - 1) : list[n] = added[i]
    BY <1>1, <1>2 DEF RecentListsLaterFirst, HeldAmong
  <2>1. PICK h \in DOMAIN added : added[h] = added[i] /\ h > Len(added) - MaxResults
    BY DEF HeldAmong
  <2>2. i \in 1..Len(added) /\ h \in 1..Len(added)
    BY <1>5
  <2>3. h = i
    BY <1>5, <2>1, <2>2 DEF Numbers
  <2> QED
    BY <1>9, <2>1, <2>2, <2>3
<1> QED
  BY <1>3, <1>4, <1>10 DEF IInv

LEMMA RejectStep ==
  ASSUME IInv, NEW t \in Threads, NEW p \in Payloads, RejectPayload(t, p)
  PROVE  IInv'
<1>1. UNCHANGED <<clock, results, request, posts, added, told>> /\ answer'.op = "rejected"
  BY DEF RejectPayload
<1>2. Store' /\ Told' /\ Requests' /\ Numbers' /\ DOMAIN request' = Threads
  BY <1>1, RequestsStay DEF IInv, Store, Told
<1> QED
  BY <1>1, <1>2, OtherAnswers DEF IInv

(* The invariant holds throughout every run.                               *)
THEOREM Invariance == Spec => []IInv
<1>1. IInv /\ [Next]_vars => IInv'
  <2> SUFFICES ASSUME IInv, [Next]_vars PROVE IInv'
    OBVIOUS
  <2>1. CASE Tick
    BY <2>1, TickStep
  <2>2. CASE \E t \in Threads : Post(t)
    <3>1. PICK t \in Threads : Post(t)
      BY <2>2
    <3>2. CASE \E p \in Payloads : ReceiveResult(t, p)
      BY <3>2, ReceiveStep
    <3>3. CASE \E p \in Payloads : RejectPayload(t, p)
      BY <3>3, RejectStep
    <3>4. CASE AddResult(t)
      BY <3>4, AddStep
    <3> QED
      BY <3>1, <3>2, <3>3, <3>4 DEF Post
  <2>3. CASE \E t \in Threads : Get(t)
    <3>1. PICK t \in Threads : Get(t)
      BY <2>3
    <3>2. CASE \E query \in StatusQueries : ReadForStatus(t, query)
      BY <3>2, ReadStep
    <3>3. CASE AnswerWithoutData(t)
      BY <3>3, WithoutDataStep
    <3>4. CASE AnswerWithData(t)
      BY <3>4, WithDataStep
    <3>5. CASE \E query \in RecentQueries : AnswerRecent(t, query)
      BY <3>5, RecentStep
    <3> QED
      BY <3>1, <3>2, <3>3, <3>4, <3>5 DEF Get
  <2>4. CASE UNCHANGED vars
    <3>1. UNCHANGED <<clock, results, request, answer, posts, added, told>>
      BY <2>4 DEF vars
    <3>2. Store' /\ Told' /\ Answer' /\ DOMAIN request' = Threads /\ Requests' /\ Numbers'
      BY <3>1, RequestsStay DEF IInv, Store, Told, Answer
    <3>3. /\ NoDataIsTrue' /\ StatusMovesForward' /\ LevelNearRatio'
          /\ RecentListsLaterFirst'
      BY <3>1 DEF IInv, NoDataIsTrue, StatusMovesForward, LevelNearRatio,
                  RecentListsLaterFirst, HeldAmong
    <3> QED
      BY <3>2, <3>3 DEF IInv
  <2> QED
    BY <2>1, <2>2, <2>3, <2>4 DEF Next
<1> QED
  BY <1>1, InitOK, PTL DEF Spec

(* NO_DATA is never told of a location that has a result in the window,    *)
(* acknowledged before the request and not evicted by max_results others,  *)
(* although the clock is read after the store.                             *)
THEOREM NoData == Spec => []NoDataIsTrue
<1>1. IInv => NoDataIsTrue
  BY DEF IInv
<1> QED
  BY <1>1, Invariance, PTL

(* The status of a location does not go back in time, although results are *)
(* stored in another order than they were stamped in.                      *)
THEOREM Forward == Spec => []StatusMovesForward
<1>1. IInv => StatusMovesForward
  BY DEF IInv
<1> QED
  BY <1>1, Invariance, PTL

(* Every level that is told is that of a ratio at most 0.05 percent points *)
(* away from the ratio of people to capacity.                              *)
THEOREM NearRatio == Spec => []LevelNearRatio
<1>1. IInv => LevelNearRatio
  BY DEF IInv
<1> QED
  BY <1>1, Invariance, PTL

(* recent() never lists a result before one that was received after it was *)
(* acknowledged and that is still in the store, whatever the filters, the  *)
(* limit and the number of request threads.                                *)
THEOREM LaterFirst == Spec => []RecentListsLaterFirst
<1>1. IInv => RecentListsLaterFirst
  BY DEF IInv
<1> QED
  BY <1>1, Invariance, PTL

\* The store is the end of the history.
LEMMA StoreIsSuffix ==
  ASSUME added \in Seq(Result), HoldsLast(results, Len(added), added)
  PROVE  IsSuffix(results, added)
<1> DEFINE back == Reverse(results)
           all == Reverse(added)
           n == Len(results)
<1>1. /\ results \in Seq(Result) /\ n \in Nat /\ Len(added) \in Nat /\ n <= Len(added)
      /\ \A j \in 1..n : results[j] = added[Len(added) - n + j]
  <2>1. results \in Seq(Result) /\ n = IF Len(added) < MaxResults THEN Len(added) ELSE MaxResults
    BY DEF HoldsLast
  <2>2. n \in Nat /\ Len(added) \in Nat /\ MaxResults \in Nat
    BY <2>1, BackendAssumption DEF BackendAssumption
  <2>3. n <= Len(added)
    BY <2>1, <2>2
  <2> QED
    BY <2>1, <2>2, <2>3 DEF HoldsLast
<1>2. /\ back \in Seq(Result) /\ Len(back) = n
      /\ \A i \in 1..n : back[i] = results[(n - i) + 1]
  BY <1>1 DEF Reverse
<1>3. /\ all \in Seq(Result) /\ Len(all) = Len(added)
      /\ \A i \in 1..Len(added) : all[i] = added[(Len(added) - i) + 1]
  BY <1>1 DEF Reverse
<1>4. \A i \in 1..n : back[i] = all[i]
  <2> SUFFICES ASSUME NEW i \in 1..n PROVE back[i] = all[i]
    OBVIOUS
  <2>1. /\ (n - i) + 1 \in 1..n /\ i \in 1..Len(added)
        /\ Len(added) - n + ((n - i) + 1) = (Len(added) - i) + 1
    BY <1>1
  <2> QED
    BY <1>1, <1>2, <1>3, <2>1
<1> HIDE DEF back, all
<1>5. SubSeq(back, 1, Len(back)) = SubSeq(all, 1, Len(back))
  BY <1>1, <1>2, <1>3, <1>4
<1> QED
  BY <1>1, <1>2, <1>3, <1>5 DEF IsSuffix, IsPrefix, back, all

(* Every reachable state is well typed: the store is never larger than     *)
(* max_results and holds the results added last, each received before.     *)
THEOREM Typing == Spec => []TypeOK
<1>1. IInv => TypeOK
  <2> SUFFICES ASSUME IInv PROVE TypeOK
    OBVIOUS
  <2>1. /\ clock \in 0..MaxClock /\ posts \in 0..MaxPosts /\ added \in Seq(Result)
        /\ results \in Seq(Result)
        /\ told \in [Locations -> Result \cup {NoResult}]
    BY DEF IInv, Store, HoldsLast, Told
  <2>2. Len(results) <= MaxResults
    BY BackendAssumption DEF BackendAssumption, IInv, Store, HoldsLast
  <2>3. IsSuffix(results, added) /\ Len(added) <= posts
    BY StoreIsSuffix, AddedAtMostPosts DEF IInv, Store
  <2>4. \A t \in Threads : request[t] \in Request
    BY DEF IInv, Requests
  <2>5. answer.op \in {"none", "created", "rejected", "status", "recent"}
    BY DEF IInv, Answer
  <2> QED
    BY <2>1, <2>2, <2>3, <2>4, <2>5 DEF TypeOK
<1> QED
  BY <1>1, Invariance, PTL
=============================================================================
