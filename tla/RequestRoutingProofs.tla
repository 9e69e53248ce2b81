------------------------ MODULE RequestRoutingProofs ------------------------
(***************************************************************************)
(* Proofs about which model answers: the routing of a session's prompts    *)
(* (src/src/session.rs), the seat that the routers of a machine poll and   *)
(* the requests of one adapter process (src/src/usage_cache.rs,            *)
(* llm_proxy.rs), for any number of sessions, candidates, routers, polls,  *)
(* turns and requests and any budget.                                      *)
(***************************************************************************)
EXTENDS SessionRouting, RequestProxy, FiniteSetTheorems, SequenceTheorems, TLAPS

-----------------------------------------------------------------------------
(* Rankings *)

\* before[c] are the members of S that come before c in a strict total order.
TotalOrder(S, before) ==
    /\ before \in [S -> SUBSET S]
    /\ \A c \in S : c \notin before[c]
    /\ \A c, d \in S : d \in before[c] => before[d] \subseteq before[c]
    /\ \A c, d \in S : c # d => c \in before[d] \/ d \in before[c]

\* Every place of a finite order is taken, by one member.
LEMMA PlacesTaken ==
    ASSUME NEW S, IsFiniteSet(S), NEW before, TotalOrder(S, before)
    PROVE  /\ Cardinality(S) \in Nat
           /\ \A c \in S : IsFiniteSet(before[c]) /\ Cardinality(before[c]) \in 0..(Cardinality(S) - 1)
           /\ \A c, d \in S : d \in before[c] <=> Cardinality(before[d]) < Cardinality(before[c])
           /\ \A n \in 0..(Cardinality(S) - 1) : \E c \in S : Cardinality(before[c]) = n
<1> DEFINE rank == [c \in S |-> Cardinality(before[c])]
           Ranks == 0..(Cardinality(S) - 1)
<1>1. Cardinality(S) \in Nat
  BY FS_CardinalityType
<1>2. ASSUME NEW c \in S
      PROVE  IsFiniteSet(before[c]) /\ Cardinality(before[c]) \in Ranks
  <2>1. before[c] \in SUBSET S /\ before[c] # S
    BY DEF TotalOrder
  <2>2. IsFiniteSet(before[c]) /\ Cardinality(before[c]) <= Cardinality(S) /\ Cardinality(before[c]) # Cardinality(S)
    BY <2>1, FS_Subset
  <2>3. Cardinality(before[c]) \in Nat
    BY <2>2, FS_CardinalityType
  <2> QED
    BY <1>1, <2>2, <2>3
<1>3. ASSUME NEW c \in S, NEW d \in S, d \in before[c]
      PROVE  Cardinality(before[d]) < Cardinality(before[c])
  <2>1. before[d] \in SUBSET before[c] /\ before[d] # before[c]
    BY <1>3 DEF TotalOrder
  <2>2. Cardinality(before[d]) <= Cardinality(before[c]) /\ Cardinality(before[d]) # Cardinality(before[c])
    BY <1>2, <2>1, FS_Subset
  <2> QED
    BY <1>1, <1>2, <2>2
<1>4. ASSUME NEW c \in S, NEW d \in S, Cardinality(before[d]) < Cardinality(before[c])
      PROVE  d \in before[c]
  <2>1. c # d
    BY <1>1, <1>2, <1>4
  <2>2. c \notin before[d]
    BY <1>1, <1>2, <1>3, <1>4
  <2> QED
    BY <2>1, <2>2 DEF TotalOrder
<1>5. rank \in Injection(S, Ranks)
  <2>1. rank \in [S -> Ranks]
    BY <1>2
  <2>2. ASSUME NEW c \in S, NEW d \in S, rank[c] = rank[d]
        PROVE  c = d
    <3>1. c \notin before[d] /\ d \notin before[c]
      BY <1>1, <1>2, <1>3, <2>2
    <3> QED
      BY <3>1 DEF TotalOrder
  <2> HIDE DEF rank
  <2> QED
    BY <2>1, <2>2 DEF Injection, IsInjective
<1>6. IsFiniteSet(Ranks) /\ Cardinality(Ranks) = Cardinality(S)
  BY <1>1, FS_Interval
<1>7. rank \in Surjection(S, Ranks)
  <2> HIDE DEF rank, Ranks
  <2> QED
    BY <1>5, <1>6, FS_Injection
<1>8. ASSUME NEW n \in Ranks
      PROVE  \E c \in S : Cardinality(before[c]) = n
  <2>1. \E c \in S : rank[c] = n
    <3> HIDE DEF rank, Ranks
    <3> QED
      BY <1>7 DEF Surjection
  <2> QED
    BY <2>1
<1> QED
  BY <1>1, <1>2, <1>3, <1>4, <1>8

\* Sorting by a total order puts every member in one place, the earlier of two first.
LEMMA SortedInOrder ==
    ASSUME NEW S, IsFiniteSet(S), NEW before, TotalOrder(S, before)
    PROVE  /\ Sorted(S, before) \in Seq(S)
           /\ Len(Sorted(S, before)) = Cardinality(S)
           /\ \A c \in S : \E i \in 1..Cardinality(S) : Sorted(S, before)[i] = c
           /\ \A i, j \in 1..Cardinality(S) :
                 i < j <=> Sorted(S, before)[i] \in before[Sorted(S, before)[j]]
<1> DEFINE n == Cardinality(S)
           r == Sorted(S, before)
<1>1. n \in Nat /\ \A c \in S : Cardinality(before[c]) \in 0..(n - 1)
  BY PlacesTaken
<1>2. ASSUME NEW i \in 1..n
      PROVE  r[i] \in S /\ Cardinality(before[r[i]]) = i - 1
  <2>1. r[i] = CHOOSE c \in S : Cardinality(before[c]) = i - 1
    BY DEF Sorted
  <2>2. \E c \in S : Cardinality(before[c]) = i - 1
    BY <1>1, PlacesTaken
  <2> QED
    BY <2>1, <2>2
<1>3. r \in [1..n -> S]
  BY <1>2 DEF Sorted
<1>4. r \in Seq(S) /\ Len(r) = n
  <2> HIDE DEF r, n
  <2> QED
    BY <1>1, <1>3
<1>5. ASSUME NEW c \in S
      PROVE  \E i \in 1..n : r[i] = c
  <2> DEFINE i == Cardinality(before[c]) + 1
  <2>1. i \in 1..n
    BY <1>1
  <2>2. r[i] \in S /\ Cardinality(before[r[i]]) = Cardinality(before[c])
    BY <1>1, <1>2, <2>1
  <2>3. r[i] \notin before[c] /\ c \notin before[r[i]]
    BY <1>1, <2>2, PlacesTaken
  <2>4. r[i] = c
    BY <2>2, <2>3 DEF TotalOrder
  <2> QED
    BY <2>1, <2>4
<1>6. \A i, j \in 1..n : i < j <=> r[i] \in before[r[j]]
  BY <1>1, <1>2, PlacesTaken
<1> QED
  BY <1>4, <1>5, <1>6

-----------------------------------------------------------------------------
RatedView == [quality : Int, cost : Nat \ {0}, headroom : Int, plan : Int, overage : BOOLEAN,
              preference : Int, tier : Int, index : Int]

\* Every candidate of S has a view, and its own place in the configuration.
Rated(v, S) ==
    /\ \A c \in S : v[c] \in RatedView
    /\ \A c, d \in S : v[c].index = v[d].index => c = d

\* A quotient that is less than another which is not above a third.
LEMMA Quotients ==
    ASSUME NEW a \in Nat \ {0}, NEW b \in Nat \ {0}, NEW x \in Nat \ {0},
           NEW p \in Nat \ {0}, NEW q \in Nat \ {0}, NEW r \in Nat \ {0}
    PROVE  /\ a * q < b * p /\ b * r < x * q => a * r < x * p
           /\ ~(b * p < a * q) /\ ~(x * q < b * r) => ~(x * p < a * r)
<1>1. ASSUME NEW i \in Int, NEW j \in Int, NEW k \in Nat \ {0}
      PROVE  i < j <=> i * k < j * k
  BY SMTT(30)
<1>2. ASSUME NEW i \in Nat, NEW j \in Nat, NEW k \in Nat
      PROVE  (i * j) * k = (i * k) * j /\ i * j \in Nat
  BY SMTT(30)
<1>3. /\ a * q \in Nat /\ b * p \in Nat /\ b * r \in Nat /\ x * q \in Nat /\ a * r \in Nat /\ x * p \in Nat
  BY <1>2
<1>4. a * q < b * p <=> (a * q) * r < (b * p) * r
  BY <1>1, <1>3
<1>5. b * r < x * q <=> (b * r) * p < (x * q) * p
  BY <1>1, <1>3
<1>6. a * r < x * p <=> (a * r) * q < (x * p) * q
  BY <1>1, <1>3
<1>7. b * p < a * q <=> (b * p) * r < (a * q) * r
  BY <1>1, <1>3
<1>8. x * q < b * r <=> (x * q) * p < (b * r) * p
  BY <1>1, <1>3
<1>9. x * p < a * r <=> (x * p) * q < (a * r) * q
  BY <1>1, <1>3
<1>10. /\ (a * q) * r = (a * r) * q /\ (b * p) * r = (b * r) * p /\ (x * q) * p = (x * p) * q
       /\ (a * q) * r \in Nat /\ (b * p) * r \in Nat /\ (x * q) * p \in Nat
  BY <1>2, <1>3
<1> DEFINE u == (a * q) * r
           w == (b * p) * r
           z == (x * q) * p
<1>11. /\ a * q < b * p <=> u < w
       /\ b * r < x * q <=> w < z
       /\ a * r < x * p <=> u < z
       /\ b * p < a * q <=> w < u
       /\ x * q < b * r <=> z < w
       /\ x * p < a * r <=> z < u
       /\ u \in Nat /\ w \in Nat /\ z \in Nat
  BY <1>4, <1>5, <1>6, <1>7, <1>8, <1>9, <1>10
<1> HIDE DEF u, w, z
<1>12. u < w /\ w < z => u < z
  BY <1>11
<1>13. ~(w < u) /\ ~(z < w) => ~(z < u)
  BY <1>11
<1> QED
  BY <1>11, <1>12, <1>13

\* Cheaper is a strict weak order.
LEMMA CheaperOrder ==
    ASSUME NEW v, NEW S, Rated(v, S), NEW c \in S, NEW d \in S, NEW e \in S
    PROVE  /\ ~Cheaper(v, c, c)
           /\ Cheaper(v, c, d) => ~Cheaper(v, d, c)
           /\ Cheaper(v, c, d) /\ Cheaper(v, d, e) => Cheaper(v, c, e)
           /\ ~Cheaper(v, d, c) /\ ~Cheaper(v, e, d) => ~Cheaper(v, e, c)
<1> DEFINE cost(x) == v[x].cost
           room(x) == High(v[x].headroom, 1)
<1>1. ASSUME NEW x \in S
      PROVE  cost(x) \in Nat \ {0} /\ room(x) \in Nat \ {0}
  BY DEF Rated, RatedView, High
<1>2. \A x, y \in S : Cheaper(v, x, y) <=> cost(x) * room(y) < cost(y) * room(x)
  BY DEF Cheaper
<1> HIDE DEF cost, room
<1>3. ASSUME NEW x \in S, NEW y \in S
      PROVE  cost(x) * room(y) \in Nat
  BY <1>1, SMTT(30)
<1>4. ~Cheaper(v, c, c) /\ (Cheaper(v, c, d) => ~Cheaper(v, d, c))
  BY <1>2, <1>3
<1>5. Cheaper(v, c, d) /\ Cheaper(v, d, e) => Cheaper(v, c, e)
  <2>1. cost(c) * room(d) < cost(d) * room(c) /\ cost(d) * room(e) < cost(e) * room(d)
          => cost(c) * room(e) < cost(e) * room(c)
    BY <1>1, Quotients
  <2> QED
    BY <1>2, <2>1
<1>6. ~Cheaper(v, d, c) /\ ~Cheaper(v, e, d) => ~Cheaper(v, e, c)
  <2>1. ~(cost(d) * room(c) < cost(c) * room(d)) /\ ~(cost(e) * room(d) < cost(d) * room(e))
          => ~(cost(e) * room(c) < cost(c) * room(e))
    BY <1>1, Quotients
  <2> QED
    BY <1>2, <2>1
<1> QED
  BY <1>4, <1>5, <1>6

ScoreBefore(v, score, S) ==
    [d \in S |-> {c \in S :
        \/ score[c] > score[d]
        \/ /\ score[c] = score[d]
           /\ Cheaper(v, c, d) \/ (~Cheaper(v, d, c) /\ v[c].index < v[d].index)}]

CostBefore(v, S) ==
    [d \in S |-> {c \in S :
        \/ Cheaper(v, c, d)
        \/ /\ ~Cheaper(v, d, c)
           /\ \/ v[c].preference > v[d].preference
              \/ v[c].preference = v[d].preference /\ v[c].index < v[d].index}]

IndexBefore(v, S) == [d \in S |-> {c \in S : v[c].index < v[d].index}]

LEMMA ScoreOrders ==
    ASSUME NEW v, NEW S, Rated(v, S), NEW score \in [S -> Int]
    PROVE  TotalOrder(S, ScoreBefore(v, score, S))
<1> DEFINE before == ScoreBefore(v, score, S)
<1>1. before \in [S -> SUBSET S]
  BY DEF ScoreBefore
<1>2. \A c, d \in S : c \in before[d] <=>
        \/ score[c] > score[d]
        \/ /\ score[c] = score[d]
           /\ Cheaper(v, c, d) \/ (~Cheaper(v, d, c) /\ v[c].index < v[d].index)
  BY DEF ScoreBefore
<1> HIDE DEF before
<1>3. \A c \in S : score[c] \in Int /\ v[c].index \in Int
  BY DEF Rated, RatedView
<1>4. ASSUME NEW c \in S
      PROVE  c \notin before[c]
  BY <1>2, <1>3, CheaperOrder
<1>5. ASSUME NEW c \in S, NEW d \in S, d \in before[c], NEW e \in before[d]
      PROVE  e \in before[c]
  <2>1. e \in S
    BY <1>1
  <2>2. /\ Cheaper(v, e, d) => ~Cheaper(v, d, e)
        /\ Cheaper(v, e, d) /\ Cheaper(v, d, c) => Cheaper(v, e, c)
        /\ Cheaper(v, c, e) /\ Cheaper(v, e, d) => Cheaper(v, c, d)
        /\ Cheaper(v, d, c) /\ Cheaper(v, c, e) => Cheaper(v, d, e)
        /\ ~Cheaper(v, d, e) /\ ~Cheaper(v, c, d) => ~Cheaper(v, c, e)
        /\ ~Cheaper(v, e, c) /\ ~Cheaper(v, c, d) => ~Cheaper(v, e, d)
        /\ ~Cheaper(v, d, e) /\ ~Cheaper(v, e, c) => ~Cheaper(v, d, c)
        /\ Cheaper(v, d, c) => ~Cheaper(v, c, d)
    BY <2>1, CheaperOrder
  <2> QED
    BY <1>2, <1>3, <1>5, <2>1, <2>2
<1>6. ASSUME NEW c \in S, NEW d \in S, c # d
      PROVE  c \in before[d] \/ d \in before[c]
  <2>1. v[c].index # v[d].index
    BY <1>6 DEF Rated
  <2> QED
    BY <1>2, <1>3, <2>1
<1>7. TotalOrder(S, before)
  <2>1. \A c, d \in S : d \in before[c] => before[d] \subseteq before[c]
    BY <1>5
  <2> QED
    BY <1>1, <1>4, <2>1, <1>6 DEF TotalOrder
<1> QED
  BY <1>7 DEF before

LEMMA CostOrders ==
    ASSUME NEW v, NEW S, Rated(v, S)
    PROVE  TotalOrder(S, CostBefore(v, S))
<1> DEFINE before == CostBefore(v, S)
<1>1. before \in [S -> SUBSET S]
  BY DEF CostBefore
<1>2. \A c, d \in S : c \in before[d] <=>
        \/ Cheaper(v, c, d)
        \/ /\ ~Cheaper(v, d, c)
           /\ \/ v[c].preference > v[d].preference
              \/ v[c].preference = v[d].preference /\ v[c].index < v[d].index
  BY DEF CostBefore
<1> HIDE DEF before
<1>3. \A c \in S : v[c].preference \in Int /\ v[c].index \in Int
  BY DEF Rated, RatedView
<1>4. ASSUME NEW c \in S
      PROVE  c \notin before[c]
  BY <1>2, <1>3, CheaperOrder
<1>5. ASSUME NEW c \in S, NEW d \in S, d \in before[c], NEW e \in before[d]
      PROVE  e \in before[c]
  <2>1. e \in S
    BY <1>1
  <2>2. /\ Cheaper(v, e, d) => ~Cheaper(v, d, e)
        /\ Cheaper(v, e, d) /\ Cheaper(v, d, c) => Cheaper(v, e, c)
        /\ Cheaper(v, c, e) /\ Cheaper(v, e, d) => Cheaper(v, c, d)
        /\ Cheaper(v, d, c) /\ Cheaper(v, c, e) => Cheaper(v, d, e)
        /\ ~Cheaper(v, d, e) /\ ~Cheaper(v, c, d) => ~Cheaper(v, c, e)
        /\ ~Cheaper(v, e, c) /\ ~Cheaper(v, c, d) => ~Cheaper(v, e, d)
        /\ ~Cheaper(v, d, e) /\ ~Cheaper(v, e, c) => ~Cheaper(v, d, c)
        /\ Cheaper(v, d, c) => ~Cheaper(v, c, d)
    BY <2>1, CheaperOrder
  <2> QED
    BY <1>2, <1>3, <1>5, <2>1, <2>2
<1>6. ASSUME NEW c \in S, NEW d \in S, c # d
      PROVE  c \in before[d] \/ d \in before[c]
  <2>1. v[c].index # v[d].index
    BY <1>6 DEF Rated
  <2> QED
    BY <1>2, <1>3, <2>1
<1>7. TotalOrder(S, before)
  <2>1. \A c, d \in S : d \in before[c] => before[d] \subseteq before[c]
    BY <1>5
  <2> QED
    BY <1>1, <1>4, <2>1, <1>6 DEF TotalOrder
<1> QED
  BY <1>7 DEF before

LEMMA IndexOrders ==
    ASSUME NEW v, NEW S, Rated(v, S)
    PROVE  TotalOrder(S, IndexBefore(v, S))
<1>1. \A c \in S : v[c].index \in Int
  BY DEF Rated, RatedView
<1>2. \A c, d \in S : c # d => v[c].index # v[d].index
  BY DEF Rated
<1> QED
  BY <1>1, <1>2 DEF TotalOrder, IndexBefore

\* The three orders sort a finite set of candidates.
LEMMA Sorts ==
    ASSUME NEW v, NEW S, IsFiniteSet(S), Rated(v, S)
    PROVE  /\ ByCost(v, S) \in Seq(S)
           /\ ByIndex(v, S) \in Seq(S) /\ Len(ByIndex(v, S)) = Cardinality(S)
           /\ \A score \in [S -> Int] : ByScore(v, score, S) \in Seq(S)
<1>1. ByCost(v, S) = Sorted(S, CostBefore(v, S))
  BY Zenon DEF ByCost, CostBefore
<1>2. ByIndex(v, S) = Sorted(S, IndexBefore(v, S))
  BY Zenon DEF ByIndex, IndexBefore
<1>3. ASSUME NEW score \in [S -> Int]
      PROVE  ByScore(v, score, S) \in Seq(S)
  <2>1. ByScore(v, score, S) = Sorted(S, ScoreBefore(v, score, S))
    BY Zenon DEF ByScore, ScoreBefore
  <2> QED
    BY <2>1, SortedInOrder, ScoreOrders
<1> QED
  BY <1>1, <1>2, <1>3, SortedInOrder, CostOrders, IndexOrders

-----------------------------------------------------------------------------
(* What the strategies rank *)

\* A finite set of numbers has a largest and a smallest.
LEMMA Extremes ==
    ASSUME NEW T \in SUBSET Int, IsFiniteSet(T), T # {}
    PROVE  /\ Sets!Max(T) \in T /\ \A z \in T : Sets!Max(T) >= z
           /\ Sets!Min(T) \in T /\ \A z \in T : Sets!Min(T) =< z
<1> DEFINE above == [x \in T |-> {y \in T : y > x}]
           below == [x \in T |-> {y \in T : y < x}]
<1>1. \A x \in T : above[x] = {y \in T : y > x} /\ below[x] = {y \in T : y < x}
  OBVIOUS
<1>2. above \in [T -> SUBSET T] /\ below \in [T -> SUBSET T]
  OBVIOUS
<1> HIDE DEF above, below
<1>3. \A x \in T : x \in Int
  OBVIOUS
<1>4. \A x \in T : above[x] \subseteq T /\ below[x] \subseteq T
  BY <1>1
<1>5. \A x, y \in T : (y \in above[x] <=> y > x) /\ (y \in below[x] <=> y < x)
  BY <1>1, Zenon
<1>6. TotalOrder(T, above)
  <2>1. ASSUME NEW c \in T
        PROVE  c \notin above[c]
    <3>1. c \in Int
      BY <1>3
    <3> QED
      BY <1>5, <3>1
  <2>2. ASSUME NEW c \in T, NEW d \in T, d \in above[c]
        PROVE  above[d] \subseteq above[c]
    <3>1. ASSUME NEW e \in above[d]
          PROVE  e \in above[c]
      <4>1. e \in T /\ e \in Int /\ d \in Int /\ c \in Int
        BY <1>3, <1>4
      <4> QED
        BY <1>5, <2>2, <4>1
    <3> QED
      BY <3>1
  <2>3. ASSUME NEW c \in T, NEW d \in T, c # d
        PROVE  c \in above[d] \/ d \in above[c]
    <3>1. c \in Int /\ d \in Int
      BY <1>3
    <3> QED
      BY <1>5, <2>3, <3>1
  <2> QED
    BY <1>2, <2>1, <2>2, <2>3 DEF TotalOrder
<1>7. TotalOrder(T, below)
  <2>1. ASSUME NEW c \in T
        PROVE  c \notin below[c]
    <3>1. c \in Int
      BY <1>3
    <3> QED
      BY <1>5, <3>1
  <2>2. ASSUME NEW c \in T, NEW d \in T, d \in below[c]
        PROVE  below[d] \subseteq below[c]
    <3>1. ASSUME NEW e \in below[d]
          PROVE  e \in below[c]
      <4>1. e \in T /\ e \in Int /\ d \in Int /\ c \in Int
        BY <1>3, <1>4
      <4> QED
        BY <1>5, <2>2, <4>1
    <3> QED
      BY <3>1
  <2>3. ASSUME NEW c \in T, NEW d \in T, c # d
        PROVE  c \in below[d] \/ d \in below[c]
    <3>1. c \in Int /\ d \in Int
      BY <1>3
    <3> QED
      BY <1>5, <2>3, <3>1
  <2> QED
    BY <1>2, <2>1, <2>2, <2>3 DEF TotalOrder
<1>8. 0 \in 0..(Cardinality(T) - 1)
  <2>1. Cardinality(T) \in Nat /\ Cardinality(T) # 0
    BY FS_EmptySet, FS_CardinalityType
  <2> QED
    BY <2>1
<1>9. PICK x \in T : Cardinality(above[x]) = 0 /\ IsFiniteSet(above[x])
  BY <1>6, <1>8, PlacesTaken
<1>10. PICK y \in T : Cardinality(below[y]) = 0 /\ IsFiniteSet(below[y])
  BY <1>7, <1>8, PlacesTaken
<1>11. above[x] = {} /\ below[y] = {}
  BY <1>9, <1>10, FS_EmptySet
<1>12. (\A z \in T : x >= z) /\ (\A z \in T : y =< z)
  BY <1>3, <1>1, <1>11
<1> QED
  BY <1>12 DEF Sets!Max, Sets!Min

LEMMA ValuesFinite ==
    ASSUME NEW S, IsFiniteSet(S), NEW f
    PROVE  IsFiniteSet({f[c] : c \in S})
<1> DEFINE T == {f[c] : c \in S}
           g == [c \in S |-> f[c]]
<1>1. g \in [S -> T]
  OBVIOUS
<1>2. \A t \in T : \E c \in S : g[c] = t
  OBVIOUS
<1>3. g \in Surjection(S, T)
  <2> HIDE DEF g, T
  <2> QED
    BY <1>1, <1>2 DEF Surjection
<1> HIDE DEF g, T
<1>4. IsFiniteSet(T)
  BY <1>3, FS_Surjection
<1> QED
  BY <1>4 DEF T

LEMMA CostsBounded ==
    ASSUME NEW v, NEW S, IsFiniteSet(S), S # {}, Rated(v, S)
    PROVE  /\ Sets!Max({v[x].cost : x \in S}) \in Int
           /\ Sets!Min({v[x].cost : x \in S}) \in Int
<1> DEFINE f == [x \in S |-> v[x].cost]
           T == {v[x].cost : x \in S}
<1>1. T = {f[x] : x \in S}
  OBVIOUS
<1>2. IsFiniteSet(T)
  <2> HIDE DEF f, T
  <2> QED
    BY <1>1, ValuesFinite
<1>3. T \in SUBSET Int /\ T # {}
  BY DEF Rated, RatedView
<1> QED
  BY <1>2, <1>3, Extremes

LEMMA CappedRated ==
    ASSUME NEW v, NEW S, IsFiniteSet(S), Rated(v, S), Router.overageWeight \in Int
    PROVE  Rated(Capped(v, S), S)
<1> DEFINE Free == {x \in S : ~v[x].overage /\ v[x].plan > 0}
           f == [x \in S |-> v[x].plan]
           free == {v[c].plan : c \in Free}
           cap == Sets!Max(free)
           w == Router.overageWeight
           unmetered(r) == IF r.plan < 0 THEN [r EXCEPT !.headroom = Low(@, cap)] ELSE r
           paying(r) == IF r.overage THEN [r EXCEPT !.headroom = Low((@ * w) \div 100, cap),
                                                    !.preference = (@ * w) \div 100] ELSE r
<1>1. free # {} => cap \in Int
  <2>1. free = {f[x] : x \in Free}
    OBVIOUS
  <2>2. IsFiniteSet(free)
    <3>1. IsFiniteSet(Free)
      BY FS_Subset
    <3> HIDE DEF free, f, Free
    <3> QED
      BY <2>1, <3>1, ValuesFinite
  <2>3. free \in SUBSET Int
    BY DEF Rated, RatedView
  <2> HIDE DEF free
  <2> QED
    BY <2>2, <2>3, Extremes
<1>2. Capped(v, S) = [c \in S |-> IF free = {} THEN v[c] ELSE paying(unmetered(v[c]))]
  BY Zenon DEF Capped
<1>3. ASSUME NEW r \in RatedView, cap \in Int
      PROVE  unmetered(r) \in RatedView /\ unmetered(r).index = r.index
  <2> HIDE DEF cap
  <2> QED
    BY <1>3 DEF RatedView, Low
<1>4. ASSUME NEW r \in RatedView, cap \in Int
      PROVE  paying(r) \in RatedView /\ paying(r).index = r.index
  <2>1. ASSUME NEW i \in Int
        PROVE  (i * w) \div 100 \in Int
    <3>1. i * w \in Int
      OBVIOUS
    <3> HIDE DEF w
    <3> QED
      BY <3>1
  <2>2. (r.headroom * w) \div 100 \in Int /\ (r.preference * w) \div 100 \in Int
    BY <2>1 DEF RatedView
  <2> HIDE DEF cap, w
  <2>3. Low((r.headroom * w) \div 100, cap) \in Int
    BY <1>4, <2>2 DEF Low
  <2> QED
    BY <2>2, <2>3 DEF RatedView
<1> HIDE DEF free, cap, unmetered, paying
<1>5. ASSUME NEW c \in S
      PROVE  Capped(v, S)[c] \in RatedView /\ Capped(v, S)[c].index = v[c].index
  <2>1. v[c] \in RatedView
    BY DEF Rated
  <2>2. CASE free = {}
    BY <1>2, <2>1, <2>2
  <2>3. CASE free # {}
    <3>1. unmetered(v[c]) \in RatedView /\ unmetered(v[c]).index = v[c].index
      BY <1>1, <1>3, <2>1, <2>3
    <3>2. paying(unmetered(v[c])) \in RatedView /\ paying(unmetered(v[c])).index = v[c].index
      BY <1>1, <1>4, <2>3, <3>1
    <3> QED
      BY <1>2, <2>3, <3>2
  <2> QED
    BY <2>2, <2>3
<1> QED
  BY <1>5 DEF Rated

LEMMA RatedSubset ==
    ASSUME NEW v, NEW S, IsFiniteSet(S), Rated(v, S), NEW P \in SUBSET S
    PROVE  IsFiniteSet(P) /\ Rated(v, P)
BY FS_Subset DEF Rated

LEMMA UtilityInt ==
    ASSUME NEW v, NEW S, IsFiniteSet(S), Rated(v, S), NEW c \in S, NEW profile,
           profile \in Profile, RouterTyped(S)
    PROVE  Utility(v, S, c, profile) \in Int
<1> DEFINE costs == {v[x].cost : x \in S}
           spread == High(Sets!Max(costs) - Sets!Min(costs), 1)
           scarcity == v[c].cost - Sets!Min(costs)
           t == Tradeoff(profile)
           fit == Low(v[c].quality, Demand(profile)) - 5
           surcharge == IF v[c].overage THEN Router.aversion * (100 - profile.complexity) ELSE 0
<1>1. spread \in Int /\ scarcity \in Int
  <2>1. Sets!Max(costs) \in Int /\ Sets!Min(costs) \in Int
    BY CostsBounded
  <2>2. v[c].cost \in Int
    BY DEF Rated, RatedView
  <2> HIDE DEF costs
  <2> QED
    BY <2>1, <2>2 DEF High
<1>2. t \in Int
  <2>1. Router.tradeoff * (100 - profile.complexity) \in Int
    BY DEF RouterTyped, Profile
  <2>2. (Router.tradeoff * (100 - profile.complexity)) \div 100 \in Int
    BY <2>1
  <2> QED
    BY <2>2 DEF Tradeoff, RouterTyped, High, Low
<1>3. fit \in Int
  BY DEF Demand, Low, Rated, RatedView, Profile
<1>4. surcharge \in Int
  BY DEF RouterTyped, Profile
<1>5. v[c].headroom \in Int /\ v[c].preference \in Int
  BY DEF Rated, RatedView
<1>6. Utility(v, S, c, profile)
        = (100 - t) * fit * 200 * spread
          + t * 30 * v[c].headroom * (2 * spread - scarcity)
          + v[c].preference * 6000 * spread
          - surcharge * 60 * spread
  BY Zenon DEF Utility
<1> HIDE DEF costs, spread, scarcity, t, fit, surcharge
<1> QED
  BY <1>1, <1>2, <1>3, <1>4, <1>5, <1>6

\* Gated keeps some of the candidates.
LEMMA AutoRanks ==
    ASSUME NEW v, NEW S, IsFiniteSet(S), Rated(v, S), NEW profile,
           profile \in Profile, RouterTyped(S)
    PROVE  AutoRank(v, S, profile) \in Seq(S)
<1> DEFINE pool == Gated(v, S \cap Router.allowed, profile)
           score == [c \in pool |-> Utility(v, pool, c, profile)]
<1>1. pool \in SUBSET S
  BY DEF Gated
<1>2. AutoRank(v, S, profile) = ByScore(v, score, pool)
  BY Zenon DEF AutoRank
<1> HIDE DEF pool
<1>3. IsFiniteSet(pool) /\ Rated(v, pool) /\ RouterTyped(pool)
  BY <1>1, RatedSubset DEF RouterTyped
<1>4. score \in [pool -> Int]
  BY <1>3, UtilityInt
<1> HIDE DEF score
<1>5. ByScore(v, score, pool) \in Seq(pool)
  BY <1>3, <1>4, Sorts
<1> QED
  BY <1>1, <1>2, <1>5, SeqMonotonic

LEMMA PlannerRanks ==
    ASSUME NEW v, NEW S, IsFiniteSet(S), Rated(v, S), NEW profile, NEW opt,
           profile \in Profile, RouterTyped(S), opt.phase \in {"planning", "implementation"}
    PROVE  Planner(v, S, opt, profile) \in Seq(S)
<1> DEFINE pool == PhasePool(S, opt, profile)
           w == Boosted(v, pool, opt)
<1>1. pool \in SUBSET S
  BY DEF PhasePool
<1>2. Planner(v, S, opt, profile)
        = IF pool = {} THEN AutoRank(v, S, profile) ELSE AutoRank(w, pool, profile)
  BY Zenon DEF Planner
<1> HIDE DEF pool
<1>3. IsFiniteSet(pool) /\ Rated(v, pool) /\ RouterTyped(pool)
  BY <1>1, RatedSubset DEF RouterTyped
<1>4. ASSUME NEW c \in pool
      PROVE  w[c] \in RatedView /\ w[c].index = v[c].index
  <2>1. w[c] = [v[c] EXCEPT !.preference = @ + Router.boost[opt.phase][c]]
    BY DEF Boosted
  <2>2. Router.boost[opt.phase][c] \in Int /\ v[c] \in RatedView
    BY <1>3 DEF RouterTyped, Rated
  <2> HIDE DEF w
  <2> QED
    BY <2>1, <2>2 DEF RatedView
<1>5. Rated(w, pool)
  <2> HIDE DEF w
  <2> QED
    BY <1>3, <1>4 DEF Rated
<1> HIDE DEF w
<1>6. AutoRank(w, pool, profile) \in Seq(pool) /\ AutoRank(v, S, profile) \in Seq(S)
  BY <1>3, <1>5, AutoRanks
<1> QED
  BY <1>1, <1>2, <1>6, SeqMonotonic

LEMMA StaticRanks ==
    ASSUME NEW v, NEW S, IsFiniteSet(S), Rated(v, S), NEW chosen
    PROVE  Static(v, S, chosen) \in Seq(S)
<1> DEFINE exact == IF chosen \in S THEN <<chosen>> ELSE <<>>
           rest == ByIndex(v, S \ {chosen})
<1>1. Static(v, S, chosen) = IF Router.allowFallback THEN exact \o rest ELSE exact
  BY Zenon DEF Static
<1>2. exact \in Seq(S)
  OBVIOUS
<1>3. rest \in Seq(S)
  <2>1. rest \in Seq(S \ {chosen})
    BY RatedSubset, Sorts
  <2> QED
    BY <2>1, SeqMonotonic
<1> HIDE DEF exact, rest
<1> QED
  BY <1>1, <1>2, <1>3, ConcatProperties

LEMMA EscalationRanks ==
    ASSUME NEW v, NEW S, IsFiniteSet(S), Rated(v, S), NEW profile,
           profile \in Profile, RouterTyped(S)
    PROVE  Escalation(v, S, profile) \in Seq(S)
<1> DEFINE floored == {c \in S : v[c].quality >= Router.minStart}
           pool == IF floored = {} THEN S ELSE floored
<1>1. ByCost(v, pool) \in Seq(pool)
  BY RatedSubset, Sorts
<1>2. ByCost(v, pool) \in Seq(S)
  BY <1>1, SeqMonotonic
<1>3. Escalation(v, S, profile)
        = IF Router.initialAuto THEN AutoRank(v, S, profile) ELSE ByCost(v, pool)
  BY Zenon DEF Escalation
<1> HIDE DEF pool
<1> QED
  BY <1>2, <1>3, AutoRanks

LEMMA ParetoCodeRanks ==
    ASSUME NEW v, NEW S, IsFiniteSet(S), Rated(v, S)
    PROVE  ParetoCode(v, S) \in Seq(S)
<1>1. PICK P \in SUBSET S :
        ParetoCode(v, S) = IF S = {} THEN <<>>
                           ELSE SubSeq(ByCost(v, P), 1, Low(3, Len(ByCost(v, P))))
  BY DEF ParetoCode
<1> DEFINE r == ByCost(v, P)
<1>2. r \in Seq(S)
  <2>1. r \in Seq(P)
    BY RatedSubset, Sorts
  <2> QED
    BY <2>1, SeqMonotonic
<1> HIDE DEF r
<1>3. SubSeq(r, 1, Low(3, Len(r))) \in Seq(S)
  BY <1>2 DEF Low
<1> QED
  BY <1>1, <1>3 DEF r

\* Whatever the strategy, a ranking is a sequence of the candidates it was given.
LEMMA RankRanks ==
    ASSUME NEW v, NEW S, IsFiniteSet(S), Rated(v, S), NEW profile, NEW opt,
           profile \in Profile, RouterTyped(S), opt.phase \in {"planning", "implementation"},
           opt.strategy \in {"auto", "planner", "escalation", "pareto-code", "static"}
    PROVE  Rank(v, S, opt, profile) \in Seq(S)
BY AutoRanks, PlannerRanks, StaticRanks, EscalationRanks, ParetoCodeRanks DEF Rank

LEMMA PreferringRanks ==
    ASSUME NEW S, NEW r \in Seq(S), NEW c
    PROVE  Preferring(r, c) \in Seq(S)
<1> DEFINE pos == CHOOSE i \in 1..Len(r) : r[i] = c
<1>1. Preferring(r, c) = IF \E i \in 1..Len(r) : r[i] = c
                         THEN <<c>> \o SubSeq(r, 1, pos - 1) \o SubSeq(r, pos + 1, Len(r)) ELSE r
  BY Zenon DEF Preferring
<1>2. CASE \E i \in 1..Len(r) : r[i] = c
  <2>1. pos \in 1..Len(r) /\ c \in S
    BY <1>2
  <2> HIDE DEF pos
  <2>2. SubSeq(r, 1, pos - 1) \in Seq(S) /\ SubSeq(r, pos + 1, Len(r)) \in Seq(S) /\ <<c>> \in Seq(S)
    BY <2>1, SubSeqProperties
  <2>3. <<c>> \o SubSeq(r, 1, pos - 1) \o SubSeq(r, pos + 1, Len(r)) \in Seq(S)
    BY <2>2, ConcatProperties
  <2> QED
    BY <1>1, <1>2, <2>3
<1> QED
  BY <1>1, <1>2

\* Ranking sorts, cuts and reorders the candidates it was given: what the
\* strategies return, for any pool, view, profile and options, is a sequence of
\* candidates.
LEMMA PoolRated ==
    ASSUME NEW S \in SUBSET Candidates, NEW v \in Views, NEW admit
    PROVE  /\ Prioritized(v, S, admit) \in SUBSET Candidates
           /\ IsFiniteSet(Prioritized(v, S, admit))
           /\ Rated(v, Prioritized(v, S, admit))
           /\ Rated(Capped(v, Prioritized(v, S, admit)), Prioritized(v, S, admit))
           /\ RouterTyped(Prioritized(v, S, admit))
<1> DEFINE pool == Prioritized(v, S, admit)
<1>1. pool \in SUBSET Candidates
  BY DEF Prioritized
<1> HIDE DEF pool
<1>2. Rated(v, Candidates)
  <2>1. \A c \in Candidates : v[c] \in View
    BY RoutingAssumption
  <2>2. View \subseteq RatedView
    BY DEF View, RatedView
  <2> QED
    BY <2>1, <2>2, RoutingAssumption DEF Rated
<1>3. IsFiniteSet(pool) /\ Rated(v, pool)
  BY <1>1, <1>2, RoutingAssumption, RatedSubset
<1>4. RouterTyped(pool) /\ Router.overageWeight \in Int
  BY <1>1, RoutingAssumption DEF RouterTyped
<1>5. Rated(Capped(v, pool), pool)
  BY <1>3, <1>4, CappedRated
<1> QED
  BY <1>1, <1>3, <1>4, <1>5 DEF pool

LEMMA RankedCandidates ==
    ASSUME NEW S \in SUBSET Candidates, NEW v \in Views, NEW opt \in Options,
           NEW p \in Profiles, NEW k \in BOOLEAN
    PROVE  Ranked(S, v, opt, p, k) \in Seq(Candidates)
<1> DEFINE pool == Prioritized(v, S, None)
           role == IF k THEN Role(opt) ELSE opt
           r == Rank(Capped(v, pool), pool, role, p)
<1>1. opt \in Option /\ p \in Profile
  BY RoutingAssumption
<1>2. /\ role.phase \in {"planning", "implementation"}
      /\ role.strategy \in {"auto", "planner", "escalation", "pareto-code", "static"}
  BY <1>1 DEF Role, Option
<1> HIDE DEF role
<1>3. r \in Seq(pool) /\ pool \in SUBSET Candidates
  BY <1>1, <1>2, PoolRated, RankRanks
<1>4. Ranked(S, v, opt, p, k) = Preferring(r, opt.prefer)
  BY Zenon DEF Ranked, role
<1> HIDE DEF r, pool
<1> QED
  BY <1>3, <1>4, PreferringRanks, SeqMonotonic

LEMMA ExactCandidates ==
    ASSUME NEW S \in SUBSET Candidates, NEW v \in Views, NEW opt \in Options, NEW o, NEW user
    PROVE  Exact(S, v, opt, o, user) \in Seq(Candidates)
<1> DEFINE pool == Prioritized(v, S, IF user THEN o ELSE None)
           chosen == IF user THEN o ELSE Target(v, pool, o)
           r == Static(v, pool, chosen)
<1>1. Exact(S, v, opt, o, user) = Preferring(r, opt.prefer)
  BY Zenon DEF Exact
<1> HIDE DEF chosen
<1>2. r \in Seq(pool) /\ pool \in SUBSET Candidates
  BY PoolRated, StaticRanks
<1> HIDE DEF r, pool
<1> QED
  BY <1>1, <1>2, PreferringRanks, SeqMonotonic

LEMMA BuiltCandidates ==
    ASSUME NEW S \in SUBSET Candidates, NEW v \in Views, NEW p \in Profiles
    PROVE  Built(S, v, p) \in Seq(Candidates)
<1> DEFINE pool == Prioritized(v, S, None)
           opt == [phase |-> "implementation", difficulty |-> "none", explicit |-> FALSE]
           middling == [p EXCEPT !.complexity = 50]
           r == Planner(Capped(v, pool), pool, opt, middling)
<1>1. Built(S, v, p) = r
  BY Zenon DEF Built
<1>2. middling \in Profile
  BY RoutingAssumption DEF Profile
<1>3. opt.phase \in {"planning", "implementation"}
  OBVIOUS
<1> HIDE DEF opt, middling
<1>4. r \in Seq(pool) /\ pool \in SUBSET Candidates
  BY <1>2, <1>3, PoolRated, PlannerRanks
<1> HIDE DEF r, pool
<1> QED
  BY <1>1, <1>4, SeqMonotonic

LEMMA ChainsOfCandidates ==
    /\ \A r \in Rankings : r.chain \in Seq(Candidates)
    /\ \A r \in Exacts : r.chain \in Seq(Candidates)
    /\ \A S : Builders(S) \subseteq Candidates
<1>1. \A r \in Rankings : r.chain \in Seq(Candidates)
  BY RankedCandidates DEF Rankings
<1>2. \A r \in Exacts : r.chain \in Seq(Candidates)
  BY ExactCandidates DEF Exacts
<1>3. \A r \in Builds : r.chain \in Seq(Candidates)
  BY BuiltCandidates DEF Builds
<1>4. ASSUME NEW S, NEW b \in Builders(S)
      PROVE  b \in Candidates
  <2>1. PICK r \in Builds : b = Head(r.chain) /\ r.chain # <<>>
    BY <1>4 DEF Builders
  <2> QED
    BY <1>3, <2>1, HeadTailProperties
<1> QED
  BY <1>1, <1>2, <1>4

-----------------------------------------------------------------------------
(* The records of a routed session *)

SesFields == {"cand", "sid", "told", "profile", "picked", "override", "byUser", "switch",
              "recover", "context", "history", "elevated", "skill", "coordinator", "cancelled",
              "prior", "partial", "esc", "escalations"}
TurnFields == {"at", "ask", "tried", "judge", "jsid", "goal", "chain", "named", "sw", "why", "out",
               "refused", "failed", "attempt", "continuing", "recovered", "repaired", "seen",
               "fresh", "asked"}
Choice == Candidates \cup {None}

\* What the steps read of a session's record, of what was saved of it, and of
\* the turn in progress, has its type.
SesTyped(x) ==
    /\ DOMAIN x = SesFields
    /\ x.cand \in Choice /\ x.override \in Choice /\ x.recover \in Choice /\ x.esc \in Choice
    /\ x.switch \in Request
    /\ x.profile \in Profiles \cup {None}
    /\ x.picked \in BOOLEAN /\ x.byUser \in BOOLEAN /\ x.coordinator \in BOOLEAN
SavedTyped(y) ==
    /\ y.cand \in Choice /\ y.profile \in Profiles \cup {None}
    /\ y.user \in BOOLEAN /\ y.coordinator \in BOOLEAN
TurnTyped(t) ==
    /\ DOMAIN t = TurnFields
    /\ t.attempt \in Nat
    /\ t.chain \in Seq(Candidates)
    /\ t.sw \in Request
    /\ t.asked \in Choice

Moving == {"switch", "summary", "open"}
Routing == {"plan", "walk", "pinned", "wait"}

\* A session is pinned from the first pin to its close, and a switch has a target.
PinOK(x, t) ==
    /\ t.at \in {"new", "closed"} => x.cand = None
    /\ t.at \in Moving \cup {"pinned", "send", "running", "settle", "background"} => x.cand # None
    /\ t.at \in Moving => t.sw.to # None
    /\ t.at = "walk" => t.chain # <<>>

\* The model a prompt names is the switch that waits, then the one being made,
\* then the pin of the first attempt.
AskOK(x, t) == t.asked # None =>
    /\ t.at \notin {"classify", "evaluate"}
    /\ t.at = "dispatch" => t.ask = t.asked
    /\ t.at \in {"dispatch", "begin"} =>
        /\ x.cand # None /\ t.attempt = 0
        /\ x.switch = [to |-> t.asked, user |-> TRUE]
    /\ t.at \in Moving /\ t.attempt = 0 =>
        /\ t.sw = [to |-> t.asked, user |-> TRUE]
        /\ t.why = "pending"
    /\ t.at = "send" /\ t.attempt = 0 => x.cand = t.asked
    /\ t.at = "running" /\ t.attempt = 1 => x.cand = t.asked
    /\ t.at \in Routing \cup {"running", "settle", "background"} => t.attempt >= 1
    /\ t.at \in Routing => t.goal # "first"

\* After this failure the next step is a failover, which carries the conversation.
Doomed(x, t) == x.esc = None /\ t.out # "ok" /\ (t.out = "auth" => t.repaired)

\* There is a conversation that a new pin has to be given.
Owed(x, t) == x.prior \/ t.continuing

\* The conversation waits for the next prompt until the pin holds it.
TellOK(x, t) ==
    /\ x.cand = None /\ x.prior /\ t.at \notin {"new", "closed"} => x.history
    /\ t.at \in {"classify", "evaluate", "dispatch"} => ~t.fresh /\ ~t.continuing
    /\ t.at = "begin" /\ x.cand = None => ~t.continuing
    /\ t.at \in Routing /\ Owed(x, t) => x.context \/ x.history
    /\ t.at \in Moving \cup {"begin", "send"} /\ t.fresh /\ Owed(x, t) =>
        x.told \/ x.context \/ x.history
    /\ t.at \in {"running", "background"} /\ t.fresh => x.told
    /\ t.at = "settle" /\ t.fresh => x.told \/ Doomed(x, t)
    /\ t.at \in Moving /\ t.why = "repair" => Doomed(x, t) /\ (t.fresh => x.told)

Sound(x, t) == SesTyped(x) /\ TurnTyped(t) /\ PinOK(x, t) /\ AskOK(x, t) /\ TellOK(x, t)

RoutingInv ==
    /\ DOMAIN ses = Sessions /\ DOMAIN turn = Sessions /\ DOMAIN saved = Sessions
    /\ \A s \in Sessions : Sound(ses[s], turn[s]) /\ SavedTyped(saved[s])

------------------------------------------------------------------------------
\* What a step makes of one session.
Puts(s, x) == IF x = ses[s] THEN Put(s, x) \/ UNCHANGED ses ELSE Put(s, x)

\* Nothing is saved but what was captured of a session.
LEMMA CapturedTypes ==
    ASSUME NEW x, SesTyped(x)
    PROVE  SavedTyped(Captured(x))
  BY DEF SesTyped, SavedTyped, Captured, Choice, Request, NoSwitch

\* A step of one session keeps the invariant if its records stay sound.
LEMMA Local ==
    ASSUME RoutingInv, NEW s \in Sessions, NEW x, NEW t, Sound(x, t),
           Puts(s, x), Go(s, t) \/ (t = turn[s] /\ UNCHANGED turn), Saved(s) \/ UNCHANGED saved
    PROVE  RoutingInv'
<1>1. DOMAIN ses' = Sessions /\ ses'[s] = x /\ \A o \in Sessions \ {s} : ses'[o] = ses[o]
  BY DEF RoutingInv, Puts, Put
<1>2. DOMAIN turn' = Sessions /\ turn'[s] = t /\ \A o \in Sessions \ {s} : turn'[o] = turn[o]
  BY DEF RoutingInv, Go
<1>3. SavedTyped(Captured(x))
  BY CapturedTypes DEF Sound
<1>4. DOMAIN saved' = Sessions /\ \A o \in Sessions : SavedTyped(saved'[o])
  BY <1>1, <1>3 DEF RoutingInv, Saved
<1>5. \A o \in Sessions : Sound(ses'[o], turn'[o])
  BY <1>1, <1>2 DEF RoutingInv
<1> QED
  BY <1>1, <1>2, <1>4, <1>5 DEF RoutingInv

\* Between turns nothing is asked of a session's turn.
LEMMA AtRest ==
    ASSUME NEW x, SesTyped(x), NEW t, DOMAIN t = TurnFields, t.at \in {"idle", "new", "closed"},
           t.asked = None, t.attempt = 0, t.chain = <<>>, t.sw = NoSwitch,
           IF t.at = "idle" THEN x.cand = None /\ x.prior => x.history ELSE x.cand = None
    PROVE  Sound(x, t)
<1>1. TurnTyped(t)
  BY DEF TurnTyped, Choice, NoSwitch, Request
<1> QED
  BY <1>1 DEF Sound, PinOK, AskOK, TellOK, Moving, Routing

LEMMA NoTurnFields ==
    /\ DOMAIN NoTurn = TurnFields /\ NoTurn.at = "idle" /\ NoTurn.asked = None
    /\ NoTurn.attempt = 0 /\ NoTurn.chain = <<>> /\ NoTurn.sw = NoSwitch
    /\ ~NoTurn.fresh /\ ~NoTurn.continuing
  BY DEF NoTurn, TurnFields

\* A turn ends.
LEMMA Ends ==
    ASSUME NEW x, SesTyped(x), x.cand = None /\ x.prior => x.history
    PROVE  Sound(x, NoTurn)
  BY NoTurnFields, AtRest

\* A session is neither loaded nor open.
LEMMA Away ==
    ASSUME NEW x, SesTyped(x), x.cand = None, NEW p \in {"new", "closed"}
    PROVE  Sound(x, [NoTurn EXCEPT !.at = p])
<1> DEFINE t == [NoTurn EXCEPT !.at = p]
<1>1. /\ DOMAIN t = TurnFields /\ t.at = p /\ t.asked = None
      /\ t.attempt = 0 /\ t.chain = <<>> /\ t.sw = NoSwitch
  BY NoTurnFields DEF TurnFields
<1> HIDE DEF t
<1>2. Sound(x, t)
  BY <1>1, AtRest
<1> QED
  BY <1>2 DEF t

LEMMA UnpinnedTypes ==
    /\ SesTyped(Unpinned) /\ Unpinned.cand = None /\ ~Unpinned.prior
  BY DEF Unpinned, SesTyped, SesFields, Choice, Request, NoSwitch

LEMMA RoutingStart == ASSUME Init PROVE RoutingInv
<1>1. \A s \in Sessions : Sound(ses[s], turn[s])
  BY UnpinnedTypes, Away DEF Init
<1>2. \A s \in Sessions : SavedTyped(saved[s])
  BY UnpinnedTypes, CapturedTypes DEF Init
<1> QED
  BY <1>1, <1>2 DEF RoutingInv, Init

------------------------------------------------------------------------------
\* A session's life and the prompt.

LEMMA CreateSound == ASSUME RoutingInv, NEW s \in Sessions, Create(s) PROVE RoutingInv'
<1>1. Sound(Unpinned, NoTurn)
  BY UnpinnedTypes, Ends
<1> QED
  BY <1>1, Local DEF Create, Puts

LEMMA ChooseSound ==
    ASSUME RoutingInv, NEW s \in Sessions, NEW c \in Choices, Choose(s, c) PROVE RoutingInv'
<1> DEFINE x == [ses[s] EXCEPT !.override = c, !.byUser = (c # None)]
<1>1. Sound(ses[s], turn[s]) /\ c \in Choice /\ ~Pinned(s)
      /\ turn[s].at \in {"idle", "classify", "evaluate", "dispatch"}
  BY RoutingAssumption DEF RoutingInv, Choose, Choice
<1>2. SesTyped(x)
  BY <1>1 DEF Sound, SesTyped, SesFields
<1>3. x.cand = ses[s].cand /\ x.prior = ses[s].prior /\ x.history = ses[s].history
      /\ x.told = ses[s].told /\ x.context = ses[s].context /\ x.esc = ses[s].esc
      /\ x.switch = ses[s].switch
  BY <1>1 DEF Sound, SesTyped, SesFields
<1> HIDE DEF x
<1>4. Sound(x, turn[s])
  BY <1>1, <1>2, <1>3 DEF Sound, PinOK, AskOK, TellOK, Pinned, Moving, Routing, Owed
<1>5. Put(s, x) /\ UNCHANGED turn /\ Saved(s)
  BY DEF Choose, x
<1> QED
  BY <1>4, <1>5, Local DEF Puts

LEMMA GoneFields ==
    ASSUME NEW s
    PROVE  SesTyped(Gone(s)) /\ Gone(s).cand = None
  BY UnpinnedTypes DEF Gone, SesTyped, SesFields

\* What the predicates read of a session's record, besides its types.
Alike(x, y) ==
    /\ x.cand = y.cand /\ x.sid = y.sid /\ x.prior = y.prior /\ x.told = y.told
    /\ x.context = y.context /\ x.history = y.history /\ x.esc = y.esc

\* Other fields change, and the switch that waits while no pick does.
LEMMA AlikeSound ==
    ASSUME NEW x, NEW y, NEW t, Sound(y, t), SesTyped(x), Alike(x, y),
           x.switch = y.switch \/ t.asked = None \/ t.at \notin {"dispatch", "begin"}
    PROVE  Sound(x, t)
<1>1. PinOK(x, t) /\ TellOK(x, t)
  BY DEF Sound, PinOK, TellOK, Alike, Owed, Doomed
<1>2. AskOK(x, t)
  BY DEF Sound, AskOK, Alike
<1> QED
  BY <1>1, <1>2 DEF Sound

LEMMA CloseSound == ASSUME RoutingInv, NEW s \in Sessions, Close(s) PROVE RoutingInv'
<1>1. SavedTyped(Captured(ses[s]))
  BY CapturedTypes DEF RoutingInv, Sound
<1>2. Sound(Gone(s), [NoTurn EXCEPT !.at = "closed"])
  BY GoneFields, Away
<1>3. DOMAIN ses' = Sessions /\ ses'[s] = Gone(s) /\ \A o \in Sessions \ {s} : ses'[o] = ses[o]
  BY DEF RoutingInv, Close, Put
<1>4. /\ DOMAIN turn' = Sessions /\ turn'[s] = [NoTurn EXCEPT !.at = "closed"]
      /\ \A o \in Sessions \ {s} : turn'[o] = turn[o]
  BY DEF RoutingInv, Close, Go
<1>5. /\ DOMAIN saved' = Sessions /\ saved'[s] = Captured(ses[s])
      /\ \A o \in Sessions \ {s} : saved'[o] = saved[o]
  BY DEF RoutingInv, Close
<1> QED
  BY <1>1, <1>2, <1>3, <1>4, <1>5 DEF RoutingInv

LEMMA LoadSound == ASSUME RoutingInv, NEW s \in Sessions, Load(s) PROVE RoutingInv'
<1> DEFINE x == Restored(ses[s], s)
<1>1. Sound(ses[s], turn[s]) /\ SavedTyped(saved[s])
  BY DEF RoutingInv
<1>2. SesTyped(x)
  BY <1>1 DEF Sound, SesTyped, SavedTyped, Restored, SesFields
<1>3. x.history
  BY <1>1 DEF Sound, SesTyped, Restored, SesFields
<1>4. Put(s, x) /\ Saved(s) /\ Go(s, NoTurn)
  BY DEF Load
<1> HIDE DEF x
<1>5. Sound(x, NoTurn)
  BY <1>2, <1>3, Ends
<1> QED
  BY <1>4, <1>5, Local DEF Puts

\* What a prompt's directives change: nothing but the switch for a pinned
\* session, or the override for one that is not.
LEMMA PromptFields ==
    ASSUME NEW y, SesTyped(y), NEW s, NEW ask, NEW home \in Choice
    PROVE  LET x == Directed(Returned(s, Parented(y, ask), home), ask)
           IN /\ SesTyped(x) /\ Alike(x, y)
              /\ Named(ask) # None /\ y.cand # None => x.switch = [to |-> ask, user |-> TRUE]
<1> DEFINE p == Parented(y, ask)
           r == Returned(s, p, home)
           x == Directed(r, ask)
<1>1. SesTyped(p) /\ Alike(p, y)
  BY DEF Parented, SesTyped, SesFields, Alike
<1> HIDE DEF p
<1>2. SesTyped(r) /\ Alike(r, p)
  BY <1>1 DEF Returned, SesTyped, SesFields, Alike, Request, Choice
<1> HIDE DEF r
<1>3. Named(ask) # None => ask \in Choice
  BY DEF Named, Choice
<1>4. SesTyped(x) /\ Alike(x, r)
  <2>1. CASE Named(ask) = None
    BY <1>2, <2>1 DEF Directed, Alike
  <2>2. CASE Named(ask) # None /\ r.cand # None
    <3>1. x = [r EXCEPT !.recover = None, !.switch = [to |-> ask, user |-> TRUE]]
      BY <2>2, Zenon DEF Directed, PickBy
    <3> HIDE DEF x
    <3>2. [to |-> ask, user |-> TRUE] \in Request /\ None \in Choice
      BY <1>3, <2>2 DEF Request, Choice
    <3> QED
      BY <1>2, <3>1, <3>2 DEF SesTyped, SesFields, Alike
  <2>3. CASE Named(ask) # None /\ r.cand = None
    <3>1. x = [r EXCEPT !.override = ask, !.byUser = TRUE]
      BY <2>3, Zenon DEF Directed, PickBy
    <3> HIDE DEF x
    <3> QED
      BY <1>2, <1>3, <2>3, <3>1 DEF SesTyped, SesFields, Alike
  <2> QED
    BY <2>1, <2>2, <2>3
<1>5. Named(ask) # None /\ r.cand # None => x.switch = [to |-> ask, user |-> TRUE]
  <2> SUFFICES ASSUME Named(ask) # None /\ r.cand # None
               PROVE  x.switch = [to |-> ask, user |-> TRUE]
    OBVIOUS
  <2>1. x = [r EXCEPT !.recover = None, !.switch = [to |-> ask, user |-> TRUE]]
    BY Zenon DEF Directed, PickBy
  <2> HIDE DEF x
  <2> QED
    BY <1>2, <2>1 DEF SesTyped, SesFields
<1> HIDE DEF x
<1>6. Alike(x, y) /\ r.cand = y.cand
  BY <1>1, <1>2, <1>4 DEF Alike
<1> QED
  BY <1>4, <1>5, <1>6 DEF x, r, p

LEMMA PromptSound ==
    ASSUME RoutingInv, NEW s \in Sessions, NEW ask, Prompt(s, ask) PROVE RoutingInv'
<1> DEFINE p == IF ShouldRun(s, ask) THEN "classify" ELSE "dispatch"
           k == IF Pinned(s) THEN Named(ask) ELSE None
           t == [NoTurn EXCEPT !.at = p, !.ask = ask, !.asked = k]
<1>1. PICK home \in Choice :
        Put(s, Directed(Returned(s, Parented(ses[s], ask), home), ask))
  BY RoutingAssumption DEF Prompt, OrNone, Choice
<1> DEFINE x == Directed(Returned(s, Parented(ses[s], ask), home), ask)
<1>2. Sound(ses[s], turn[s]) /\ turn[s].at = "idle"
  BY DEF RoutingInv, Prompt, At
<1>3. /\ SesTyped(x) /\ Alike(x, ses[s])
      /\ Named(ask) # None /\ ses[s].cand # None => x.switch = [to |-> ask, user |-> TRUE]
  BY <1>2, PromptFields DEF Sound
<1>4. k \in Choice /\ p \in {"classify", "dispatch"} /\ (k # None => p = "dispatch")
      /\ (k # None => ses[s].cand # None /\ k = ask /\ Named(ask) # None)
  BY RoutingAssumption DEF Named, ShouldRun, Pinned, Choice
<1>5. Put(s, x) /\ Go(s, t) /\ Saved(s)
  BY <1>1 DEF Prompt
<1>6. /\ TurnTyped(t) /\ t.at = p /\ t.ask = ask /\ t.asked = k /\ t.attempt = 0
      /\ ~t.fresh /\ ~t.continuing
  <2> HIDE DEF p, k
  <2>1. DOMAIN t = TurnFields /\ t.at = p /\ t.ask = ask /\ t.asked = k
    BY NoTurnFields DEF TurnFields
  <2>2. /\ t.attempt = 0 /\ t.chain = <<>> /\ t.sw = NoSwitch
        /\ ~t.fresh /\ ~t.continuing
    BY NoTurnFields DEF TurnFields
  <2> HIDE DEF t
  <2>3. TurnTyped(t)
    BY <1>4, <2>1, <2>2 DEF TurnTyped, Request, NoSwitch, Choice
  <2> QED
    BY <2>1, <2>2, <2>3
<1>7. k # None => t.ask = t.asked
  BY <1>4, <1>6 DEF Named
<1> HIDE DEF x, t, p, k
<1>8. Sound(x, t)
  BY <1>2, <1>3, <1>4, <1>6, <1>7
     DEF Sound, PinOK, AskOK, TellOK, Alike, Owed, Moving, Routing
<1> QED
  BY <1>5, <1>8, Local DEF Puts

LEMMA SkillFields ==
    ASSUME NEW y, SesTyped(y), NEW P, NEW t \in Choice
    PROVE  SesTyped(SkillBy(P, y, t)) /\ Alike(SkillBy(P, y, t), y)
<1> DEFINE x == SkillBy(P, y, t)
<1>1. \/ x = y
      \/ x = [y EXCEPT !.elevated = TRUE, !.skill = TRUE, !.switch = NoSwitch]
      \/ x = [y EXCEPT !.switch = [to |-> t, user |-> FALSE], !.elevated = TRUE, !.skill = TRUE]
      \/ x = [y EXCEPT !.override = t, !.byUser = FALSE, !.elevated = TRUE, !.skill = TRUE]
  BY Zenon DEF SkillBy
<1>2. NoSwitch \in Request /\ [to |-> t, user |-> FALSE] \in Request
  BY DEF NoSwitch, Request, Choice
<1> HIDE DEF x
<1>3. SesTyped(x) /\ Alike(x, y)
  BY <1>1, <1>2 DEF SesTyped, SesFields, Alike
<1> QED
  BY <1>3 DEF x

LEMMA PhaseFields ==
    ASSUME NEW y, SesTyped(y), NEW t \in Choice
    PROVE  /\ SesTyped(PhaseBy(y, t)) /\ Alike(PhaseBy(y, t), y)
           /\ y.switch # NoSwitch => PhaseBy(y, t).switch = y.switch
<1> DEFINE x == PhaseBy(y, t)
<1>1. \/ x = y
      \/ x = [y EXCEPT !.switch = [to |-> t, user |-> FALSE]] /\ y.switch = NoSwitch
  BY Zenon DEF PhaseBy
<1>2. [to |-> t, user |-> FALSE] \in Request
  BY DEF Request, Choice
<1> HIDE DEF x
<1>3. SesTyped(x) /\ Alike(x, y) /\ (y.switch # NoSwitch => x.switch = y.switch)
  BY <1>1, <1>2 DEF SesTyped, SesFields, Alike
<1> QED
  BY <1>3 DEF x

LEMMA DispatchSound ==
    ASSUME RoutingInv, NEW s \in Sessions, Dispatch(s) PROVE RoutingInv'
<1> DEFINE able == {c \in Candidates : Eligible(proc, c)}
           y == [ses[s] EXCEPT !.cancelled = FALSE]
           t == [turn[s] EXCEPT !.at = "begin", !.ask = None, !.tried = {}]
<1>1. PICK skill \in Choice, builder \in Choice :
        Put(s, CASE turn[s].ask = "skill" -> SkillBy(proc, y, skill)
                 [] PhaseBegins(s) -> PhaseBy(y, builder)
                 [] OTHER -> y)
  <2>1. able \in SUBSET Candidates
    OBVIOUS
  <2>2. OrNone(able \cap SkillPool) \subseteq Choice /\ OrNone(Builders(able)) \subseteq Choice
    BY <2>1, ChainsOfCandidates DEF OrNone, Choice
  <2> HIDE DEF able
  <2>3. \E skill \in OrNone(able \cap SkillPool), builder \in OrNone(Builders(able)) :
            Put(s, CASE turn[s].ask = "skill" -> SkillBy(proc, y, skill)
                     [] PhaseBegins(s) -> PhaseBy(y, builder)
                     [] OTHER -> y)
    BY Zenon DEF Dispatch, able
  <2> HIDE DEF y
  <2> QED
    BY <2>2, <2>3, Zenon
<1> DEFINE x == CASE turn[s].ask = "skill" -> SkillBy(proc, y, skill)
                  [] PhaseBegins(s) -> PhaseBy(y, builder)
                  [] OTHER -> y
<1>2. Put(s, x) /\ Go(s, t) /\ Saved(s) /\ turn[s].at = "dispatch"
  BY <1>1, Zenon DEF Dispatch, At
<1>3. Sound(ses[s], turn[s])
  BY DEF RoutingInv
<1>4. SesTyped(y) /\ Alike(y, ses[s]) /\ y.switch = ses[s].switch
  BY <1>3 DEF Sound, SesTyped, SesFields, Alike
<1> HIDE DEF y
<1>5. \/ x = SkillBy(proc, y, skill) /\ turn[s].ask = "skill"
      \/ x = PhaseBy(y, builder)
      \/ x = y
  <2>1. CASE turn[s].ask = "skill"
    BY <2>1
  <2>2. CASE turn[s].ask # "skill" /\ PhaseBegins(s)
    BY <2>2
  <2>3. CASE turn[s].ask # "skill" /\ ~PhaseBegins(s)
    BY <2>3
  <2> QED
    BY <2>1, <2>2, <2>3
<1> HIDE DEF x
<1>6. SesTyped(x) /\ Alike(x, y)
  <2>1. SesTyped(SkillBy(proc, y, skill)) /\ Alike(SkillBy(proc, y, skill), y)
    BY <1>4, SkillFields
  <2>2. SesTyped(PhaseBy(y, builder)) /\ Alike(PhaseBy(y, builder), y)
    BY <1>4, PhaseFields
  <2>3. Alike(y, y)
    BY DEF Alike
  <2> QED
    BY <1>4, <1>5, <2>1, <2>2, <2>3
<1>7. turn[s].asked # None => x.switch = y.switch
  <2> SUFFICES ASSUME turn[s].asked # None PROVE x.switch = y.switch
    OBVIOUS
  <2>1. turn[s].ask = turn[s].asked /\ turn[s].asked \in Candidates /\ y.switch.to # None
    BY <1>2, <1>3, <1>4 DEF Sound, AskOK, TurnTyped, Choice
  <2>2. turn[s].ask # "skill" /\ y.switch # NoSwitch
    BY <2>1, RoutingAssumption DEF NoSwitch
  <2> QED
    BY <1>4, <1>5, <2>2, PhaseFields
<1>8. /\ DOMAIN t = TurnFields /\ t.at = "begin"
      /\ t.asked = turn[s].asked /\ t.attempt = turn[s].attempt /\ t.chain = turn[s].chain
      /\ t.sw = turn[s].sw /\ t.fresh = turn[s].fresh /\ t.continuing = turn[s].continuing
  BY <1>3 DEF Sound, TurnTyped, TurnFields
<1> HIDE DEF t
<1>9. Sound(x, t)
  BY <1>2, <1>3, <1>4, <1>6, <1>7, <1>8
     DEF Sound, PinOK, AskOK, TellOK, TurnTyped, Alike, Owed, Moving, Routing
<1> QED
  BY <1>2, <1>9, Local DEF Puts

LEMMA CancelSound == ASSUME RoutingInv, NEW s \in Sessions, Cancel(s) PROVE RoutingInv'
<1> DEFINE x == [ses[s] EXCEPT !.cancelled = TRUE]
<1>1. Sound(ses[s], turn[s])
  BY DEF RoutingInv
<1>2. SesTyped(x) /\ Alike(x, ses[s]) /\ x.switch = ses[s].switch
  BY <1>1 DEF Sound, SesTyped, SesFields, Alike
<1>3. Put(s, x) /\ UNCHANGED <<turn, saved>>
  BY DEF Cancel
<1> HIDE DEF x
<1>4. Sound(x, turn[s])
  BY <1>1, <1>2, AlikeSound
<1> QED
  BY <1>3, <1>4, Local DEF Puts

------------------------------------------------------------------------------
\* The pre-classifier.

\* The evaluation goes on, or the session is free of it.
LEMMA EvaluationSound ==
    ASSUME NEW x, NEW t, Sound(x, t), t.at \in {"classify", "evaluate"}, NEW u,
           DOMAIN u = TurnFields, u.at \in {"classify", "evaluate", "dispatch"},
           u.asked = t.asked, u.attempt = t.attempt, u.chain = t.chain, u.sw = t.sw,
           u.fresh = t.fresh, u.continuing = t.continuing
    PROVE  Sound(x, u)
  BY DEF Sound, PinOK, AskOK, TellOK, TurnTyped, Owed, Moving, Routing

LEMMA TriedSound ==
    ASSUME NEW s, Sound(ses[s], turn[s]), turn[s].at \in {"classify", "evaluate"}, NEW c
    PROVE  Sound(ses[s], Tried(s, c))
<1> DEFINE u == Tried(s, c)
<1>1. /\ DOMAIN u = TurnFields /\ u.at = "classify"
      /\ u.asked = turn[s].asked /\ u.attempt = turn[s].attempt /\ u.chain = turn[s].chain
      /\ u.sw = turn[s].sw /\ u.fresh = turn[s].fresh /\ u.continuing = turn[s].continuing
  BY DEF Sound, TurnTyped, TurnFields, Tried
<1> HIDE DEF u
<1>2. Sound(ses[s], u)
  BY <1>1, EvaluationSound
<1> QED
  BY <1>2 DEF u

LEMMA ClassifiedSound ==
    ASSUME RoutingInv, NEW s \in Sessions, turn[s].at \in {"classify", "evaluate"},
           NEW p \in Profiles, Classified(s, p), UNCHANGED saved
    PROVE  RoutingInv'
<1> DEFINE x == [ses[s] EXCEPT !.profile = p]
           u == [turn[s] EXCEPT !.at = "dispatch", !.tried = {}, !.judge = None, !.jsid = 0,
                                !.repaired = FALSE]
<1>1. Sound(ses[s], turn[s])
  BY DEF RoutingInv
<1>2. SesTyped(x) /\ Alike(x, ses[s]) /\ x.switch = ses[s].switch
  BY <1>1 DEF Sound, SesTyped, SesFields, Alike
<1>3. /\ DOMAIN u = TurnFields /\ u.at = "dispatch"
      /\ u.asked = turn[s].asked /\ u.attempt = turn[s].attempt /\ u.chain = turn[s].chain
      /\ u.sw = turn[s].sw /\ u.fresh = turn[s].fresh /\ u.continuing = turn[s].continuing
  BY <1>1 DEF Sound, TurnTyped, TurnFields
<1>4. Put(s, x) /\ Go(s, u)
  BY DEF Classified
<1> HIDE DEF x, u
<1>5. Sound(x, turn[s])
  BY <1>1, <1>2, AlikeSound
<1>6. Sound(x, u)
  BY <1>3, <1>5, EvaluationSound
<1> QED
  BY <1>4, <1>6, Local DEF Puts

LEMMA JudgeFailedSound ==
    ASSUME RoutingInv, NEW s \in Sessions, turn[s].at \in {"classify", "evaluate"},
           NEW c, NEW class, JudgeFailed(s, c, class), UNCHANGED <<ses, saved>>
    PROVE  RoutingInv'
<1>1. Sound(ses[s], turn[s])
  BY DEF RoutingInv
<1> DEFINE u == [turn[s] EXCEPT !.at = "classify", !.judge = c, !.jsid = 0, !.repaired = TRUE]
<1>2. Go(s, u) \/ Go(s, Tried(s, c))
  BY Zenon DEF JudgeFailed
<1>3. /\ DOMAIN u = TurnFields /\ u.at = "classify"
      /\ u.asked = turn[s].asked /\ u.attempt = turn[s].attempt /\ u.chain = turn[s].chain
      /\ u.sw = turn[s].sw /\ u.fresh = turn[s].fresh /\ u.continuing = turn[s].continuing
  BY <1>1 DEF Sound, TurnTyped, TurnFields
<1> HIDE DEF u
<1>4. Sound(ses[s], u) /\ Sound(ses[s], Tried(s, c))
  BY <1>1, <1>3, EvaluationSound, TriedSound
<1> QED
  BY <1>2, <1>4, Local DEF Puts

LEMMA JudgeSound ==
    ASSUME RoutingInv, NEW s \in Sessions, NEW c, NEW how, Judge(s, c, how) PROVE RoutingInv'
<1>1. Sound(ses[s], turn[s]) /\ turn[s].at = "classify" /\ UNCHANGED <<ses, saved>>
  BY DEF RoutingInv, Judge, At
<1> DEFINE P == Readied(c, TRUE)
           u == [turn[s] EXCEPT !.at = "evaluate", !.judge = c, !.jsid = NewId(P, c)]
<1>2. Go(s, u) \/ JudgeFailed(s, c, how)
  BY Zenon DEF Judge
<1>3. /\ DOMAIN u = TurnFields /\ u.at = "evaluate"
      /\ u.asked = turn[s].asked /\ u.attempt = turn[s].attempt /\ u.chain = turn[s].chain
      /\ u.sw = turn[s].sw /\ u.fresh = turn[s].fresh /\ u.continuing = turn[s].continuing
  BY <1>1 DEF Sound, TurnTyped, TurnFields
<1> HIDE DEF u
<1>4. Sound(ses[s], u)
  BY <1>1, <1>3, EvaluationSound
<1> QED
  BY <1>1, <1>2, <1>4, Local, JudgeFailedSound DEF Puts

LEMMA VerdictSound ==
    ASSUME RoutingInv, NEW s \in Sessions, NEW out, Verdict(s, out) PROVE RoutingInv'
<1>1. turn[s].at = "evaluate" /\ UNCHANGED saved
  BY DEF Verdict, At
<1>2. \/ \E p \in Profiles : Classified(s, p)
      \/ JudgeFailed(s, turn[s].judge, out) /\ UNCHANGED ses
  BY Zenon DEF Verdict
<1> QED
  BY <1>1, <1>2, ClassifiedSound, JudgeFailedSound

LEMMA FallbackSound == ASSUME RoutingInv, NEW s \in Sessions, Fallback(s) PROVE RoutingInv'
<1>1. turn[s].at = "classify" /\ UNCHANGED saved /\ \E p \in Profiles : Classified(s, p)
  BY DEF Fallback, At
<1> QED
  BY <1>1, ClassifiedSound

\* The turn ends, whatever else the step does.
LEMMA EndSound ==
    ASSUME RoutingInv, NEW s \in Sessions, turn[s].at \notin {"new", "closed"}, Go(s, NoTurn),
           UNCHANGED <<ses, saved>>
    PROVE  RoutingInv'
<1>1. Sound(ses[s], turn[s])
  BY DEF RoutingInv
<1>2. Sound(ses[s], NoTurn)
  BY <1>1, Ends DEF Sound, TellOK
<1> QED
  BY <1>2, Local DEF Puts

LEMMA WithdrawSound == ASSUME RoutingInv, NEW s \in Sessions, Withdraw(s) PROVE RoutingInv'
  BY EndSound DEF Withdraw, At

------------------------------------------------------------------------------
\* The start of a turn, and the switch.

\* A turn goes on: its attempt, its new pin and what it was asked for stay.
Keeps(u, t) ==
    /\ DOMAIN u = TurnFields
    /\ u.asked = t.asked /\ u.attempt = t.attempt /\ u.chain = t.chain
    /\ u.fresh = t.fresh /\ u.continuing = t.continuing

LEMMA ChainsTyped ==
    ASSUME NEW s, NEW P, NEW excluded
    PROVE  Chains(P, s, excluded) \subseteq Seq(Candidates)
<1>1. ASSUME NEW chain \in Chains(P, s, excluded)
      PROVE  \E r \in Exacts \cup Rankings : chain = r.chain
  BY DEF Chains
<1> QED
  BY <1>1, ChainsOfCandidates

LEMMA EscapeTyped ==
    ASSUME NEW s, SesTyped(ses[s])
    PROVE  /\ OrNone(EscapeTargets(s)) \subseteq Choice
           /\ ses[s].switch # NoSwitch => OrNone(EscapeTargets(s)) = {None}
<1> DEFINE heads == {IF chain = <<>> THEN None ELSE Head(chain) :
                        chain \in Chains(proc, s, {ses[s].cand})}
           strong == {c \in SkillPool \ {ses[s].cand} : Eligible(proc, c)}
<1>1. \A chain \in Chains(proc, s, {ses[s].cand}) : chain # <<>> => Head(chain) \in Candidates
  BY ChainsTyped, HeadTailProperties
<1>2. heads \subseteq Choice
  BY <1>1 DEF Choice
<1>3. strong \subseteq Choice
  BY RoutingAssumption DEF Choice
<1>4. /\ EscapeTargets(s) \in {{}, strong, heads}
      /\ ses[s].switch # NoSwitch => EscapeTargets(s) = {}
  BY Zenon DEF EscapeTargets
<1> HIDE DEF heads, strong
<1> QED
  BY <1>2, <1>3, <1>4 DEF OrNone, Choice

LEMMA MovesTyped ==
    ASSUME NEW s, SesTyped(ses[s]), NEW t \in Choice
    PROVE  /\ Moves(s, t).sw \in Request /\ Moves(s, t).recover \in Choice
           /\ t = None /\ ses[s].switch # NoSwitch => Moves(s, t).sw = ses[s].switch
<1>1. CASE t # None
  <2>1. Moves(s, t) = [sw |-> [to |-> t, user |-> FALSE], recover |-> ses[s].cand]
    BY <1>1, Zenon DEF Moves
  <2> QED
    BY <1>1, <2>1 DEF SesTyped, Request, Choice
<1>2. CASE t = None
  <2> DEFINE waits == ses[s].switch # NoSwitch \/ ses[s].esc # None \/ Recovering(s)
             sw == IF Recovering(s) /\ Revivable(ses[s].recover)
                   THEN [to |-> ses[s].recover, user |-> FALSE] ELSE ses[s].switch
             recover == IF waits THEN ses[s].recover ELSE None
  <2>1. Moves(s, t) = [sw |-> sw, recover |-> recover]
    BY <1>2, Zenon DEF Moves
  <2>2. sw \in Request /\ recover \in Choice
    BY DEF SesTyped, Request, Choice
  <2>3. ses[s].switch # NoSwitch => sw = ses[s].switch
    BY DEF Recovering
  <2> HIDE DEF sw, recover
  <2> QED
    BY <2>1, <2>2, <2>3
<1> QED
  BY <1>1, <1>2

LEMMA BeginSound == ASSUME RoutingInv, NEW s \in Sessions, Begin(s) PROVE RoutingInv'
<1>1. Sound(ses[s], turn[s]) /\ turn[s].at = "begin" /\ UNCHANGED saved
  BY DEF RoutingInv, Begin, At
<1>2. SesTyped(ses[s]) /\ TurnTyped(turn[s])
  BY <1>1 DEF Sound
<1>3. CASE ~Pinned(s)
  <2> DEFINE u == [turn[s] EXCEPT !.at = "plan", !.goal = "first"]
  <2>1. Go(s, u) /\ UNCHANGED ses
    BY <1>3, Zenon DEF Begin
  <2>2. Keeps(u, turn[s]) /\ u.at = "plan" /\ u.sw = turn[s].sw
    BY <1>2 DEF TurnTyped, TurnFields, Keeps
  <2> HIDE DEF u
  <2>3. turn[s].asked = None /\ ~turn[s].continuing
    BY <1>1, <1>3 DEF Sound, AskOK, TellOK, Pinned
  <2>4. Sound(ses[s], u)
    BY <1>1, <1>3, <2>2, <2>3
       DEF Sound, PinOK, AskOK, TellOK, TurnTyped, Keeps, Owed, Moving, Routing, Pinned
  <2> QED
    BY <1>1, <2>1, <2>4, Local DEF Puts
<1>4. CASE Pinned(s)
  <2>1. PICK t \in OrNone(EscapeTargets(s)) :
          LET sw == Moves(s, t).sw
              go == sw.to # None /\ (sw.user \/ ~Blocked(s, sw.to))
          IN /\ Put(s, [ses[s] EXCEPT !.switch = NoSwitch, !.recover = Moves(s, t).recover])
             /\ Go(s, [turn[s] EXCEPT !.at = IF go THEN "switch" ELSE "send",
                                      !.sw = IF go THEN sw ELSE NoSwitch,
                                      !.why = "pending"])
    BY <1>4, Zenon DEF Begin
  <2> DEFINE sw == Moves(s, t).sw
             go == sw.to # None /\ (sw.user \/ ~Blocked(s, sw.to))
             to == IF go THEN sw ELSE NoSwitch
             at == IF go THEN "switch" ELSE "send"
             recover == Moves(s, t).recover
             x == [ses[s] EXCEPT !.switch = NoSwitch, !.recover = recover]
             u == [turn[s] EXCEPT !.at = at, !.sw = to, !.why = "pending"]
  <2>2. Put(s, x) /\ Go(s, u)
    BY <2>1, Zenon
  <2>3. t \in Choice /\ (ses[s].switch # NoSwitch => t = None)
    BY <1>2, <2>1, EscapeTyped
  <2>4. sw \in Request /\ recover \in Choice /\ (ses[s].switch # NoSwitch => sw = ses[s].switch)
    BY <1>2, <2>3, MovesTyped
  <2>5. /\ to \in Request /\ at \in {"switch", "send"} /\ (at = "switch" => to.to # None)
        /\ sw.to # None /\ sw.user => at = "switch" /\ to = sw
    BY <2>4 DEF Request, NoSwitch, Choice
  <2> HIDE DEF sw, recover, go, to, at
  <2>6. SesTyped(x) /\ Alike(x, ses[s])
    BY <1>2, <2>4 DEF SesTyped, SesFields, Alike, Request, NoSwitch, Choice
  <2>7. Keeps(u, turn[s]) /\ u.at = at /\ u.sw = to /\ u.why = "pending"
    BY <1>2 DEF TurnTyped, TurnFields, Keeps
  <2> HIDE DEF x, u
  <2>8. ASSUME turn[s].asked # None
        PROVE  at = "switch" /\ to = [to |-> turn[s].asked, user |-> TRUE] /\ turn[s].attempt = 0
    <3>1. ses[s].switch = [to |-> turn[s].asked, user |-> TRUE] /\ turn[s].attempt = 0
      BY <1>1, <2>8 DEF Sound, AskOK
    <3>2. ses[s].switch # NoSwitch
      BY <3>1, <2>8 DEF NoSwitch
    <3> QED
      BY <2>4, <2>5, <2>8, <3>1, <3>2
  <2>9. AskOK(x, u)
    BY <2>5, <2>7, <2>8 DEF AskOK, Keeps, Moving, Routing
  <2>10. TurnTyped(u)
    BY <1>2, <2>5, <2>7 DEF TurnTyped, Keeps
  <2>11. PinOK(x, u) /\ TellOK(x, u)
    BY <1>1, <1>4, <2>5, <2>6, <2>7
       DEF Sound, PinOK, TellOK, Alike, Keeps, Owed, Moving, Routing, Pinned
  <2> QED
    BY <1>1, <2>2, <2>6, <2>9, <2>10, <2>11, Local DEF Puts, Sound
<1> QED
  BY <1>3, <1>4

\* What follows a switch that was made, or was not.
LEMMA SwitchedFields ==
    ASSUME NEW s, TurnTyped(turn[s])
    PROVE  /\ Keeps(Switched(s), turn[s]) /\ TurnTyped(Switched(s))
           /\ Switched(s).at = "send" /\ Switched(s).sw = NoSwitch
<1> DEFINE u == Switched(s)
<1>1. Keeps(u, turn[s]) /\ u.at = "send" /\ u.sw = NoSwitch
  BY DEF TurnTyped, TurnFields, Keeps, Switched
<1> HIDE DEF u
<1>2. TurnTyped(u)
  BY <1>1 DEF TurnTyped, Keeps, NoSwitch, Request, Choice
<1> QED
  BY <1>1, <1>2 DEF u

LEMMA NotSwitchedFields ==
    ASSUME NEW s, TurnTyped(turn[s])
    PROVE  LET u == NotSwitched(s) IN
           \/ /\ turn[s].why = "repair" /\ u.at = "settle"
              /\ Keeps(u, turn[s]) /\ TurnTyped(u)
              /\ u.why = turn[s].why /\ u.out = turn[s].out /\ u.repaired = turn[s].repaired
           \/ turn[s].why = "pending" /\ turn[s].sw.user /\ u = NoTurn
           \/ /\ ~(turn[s].why = "pending" /\ turn[s].sw.user) /\ u.at = "send"
              /\ Keeps(u, turn[s]) /\ TurnTyped(u)
<1> DEFINE u == NotSwitched(s)
           v == [turn[s] EXCEPT !.at = "settle", !.sw = NoSwitch]
           w == Switched(s)
<1>1. \/ turn[s].why = "repair" /\ u = v
      \/ turn[s].why = "pending" /\ turn[s].sw.user /\ u = NoTurn
      \/ ~(turn[s].why = "pending" /\ turn[s].sw.user) /\ u = w
  <2>1. CASE turn[s].why = "repair"
    BY <2>1 DEF NotSwitched
  <2>2. CASE turn[s].why = "pending" /\ turn[s].sw.user
    BY <2>2 DEF NotSwitched
  <2>3. CASE turn[s].why # "repair" /\ ~(turn[s].why = "pending" /\ turn[s].sw.user)
    BY <2>3 DEF NotSwitched, Switched
  <2> QED
    BY <2>1, <2>2, <2>3
<1>2. /\ Keeps(v, turn[s]) /\ v.at = "settle" /\ v.sw = NoSwitch
      /\ v.why = turn[s].why /\ v.out = turn[s].out /\ v.repaired = turn[s].repaired
  BY DEF TurnTyped, TurnFields, Keeps
<1>3. Keeps(w, turn[s]) /\ TurnTyped(w) /\ w.at = "send"
  BY SwitchedFields
<1> HIDE DEF u, v, w
<1>4. TurnTyped(v)
  BY <1>2 DEF TurnTyped, Keeps, NoSwitch, Request, Choice
<1>5. \/ /\ turn[s].why = "repair" /\ u.at = "settle"
         /\ Keeps(u, turn[s]) /\ TurnTyped(u)
         /\ u.why = turn[s].why /\ u.out = turn[s].out /\ u.repaired = turn[s].repaired
      \/ turn[s].why = "pending" /\ turn[s].sw.user /\ u = NoTurn
      \/ /\ ~(turn[s].why = "pending" /\ turn[s].sw.user) /\ u.at = "send"
         /\ Keeps(u, turn[s]) /\ TurnTyped(u)
  BY <1>1, <1>2, <1>3, <1>4
<1> QED
  BY <1>5 DEF u

LEMMA NotSwitchedSound ==
    ASSUME NEW s, Sound(ses[s], turn[s]), turn[s].at \in Moving
    PROVE  Sound(ses[s], NotSwitched(s))
<1> DEFINE u == NotSwitched(s)
<1>1. TurnTyped(turn[s]) /\ SesTyped(ses[s])
  BY DEF Sound
<1>2. \/ /\ turn[s].why = "repair" /\ u.at = "settle"
         /\ Keeps(u, turn[s]) /\ TurnTyped(u)
         /\ u.why = turn[s].why /\ u.out = turn[s].out /\ u.repaired = turn[s].repaired
      \/ turn[s].why = "pending" /\ turn[s].sw.user /\ u = NoTurn
      \/ /\ ~(turn[s].why = "pending" /\ turn[s].sw.user) /\ u.at = "send"
         /\ Keeps(u, turn[s]) /\ TurnTyped(u)
  BY <1>1, NotSwitchedFields
<1>3. CASE u = NoTurn
  BY <1>1, <1>3, Ends DEF Sound, TellOK, Moving
<1> HIDE DEF u
<1>4. ASSUME u.at = "settle" /\ Keeps(u, turn[s]) /\ TurnTyped(u) /\ turn[s].why = "repair"
             /\ u.out = turn[s].out /\ u.repaired = turn[s].repaired
      PROVE  Sound(ses[s], u)
  BY <1>4 DEF Sound, PinOK, AskOK, TellOK, TurnTyped, Keeps, Owed, Doomed, Moving, Routing
<1>5. ASSUME ~(turn[s].why = "pending" /\ turn[s].sw.user) /\ u.at = "send"
             /\ Keeps(u, turn[s]) /\ TurnTyped(u)
      PROVE  Sound(ses[s], u)
  BY <1>5 DEF Sound, PinOK, AskOK, TellOK, Keeps, Owed, Moving, Routing
<1> QED
  BY <1>2, <1>3, <1>4, <1>5 DEF u

LEMMA SwitchSound == ASSUME RoutingInv, NEW s \in Sessions, Switch(s) PROVE RoutingInv'
<1>1. Sound(ses[s], turn[s]) /\ turn[s].at = "switch" /\ UNCHANGED saved
  BY DEF RoutingInv, Switch, At
<1>2. SesTyped(ses[s]) /\ TurnTyped(turn[s]) /\ turn[s].at \in Moving
  BY <1>1 DEF Sound, Moving
<1> DEFINE to == turn[s].sw.to
           x == [ses[s] EXCEPT !.recover = IF @ = to THEN None ELSE @]
           at == IF Serving(proc', ses[s].cand) /\ Routed(s) THEN "summary" ELSE "open"
           u == [turn[s] EXCEPT !.at = at]
<1>3. \/ to = ses[s].cand /\ Go(s, Switched(s)) /\ Put(s, x)
      \/ Go(s, u) /\ UNCHANGED ses
      \/ Go(s, NotSwitched(s)) /\ UNCHANGED ses
  BY Zenon DEF Switch
<1>4. CASE to = ses[s].cand /\ Go(s, Switched(s)) /\ Put(s, x)
  <2>1. SesTyped(x) /\ Alike(x, ses[s])
    BY <1>2 DEF SesTyped, SesFields, Alike, Choice
  <2>2. /\ Keeps(Switched(s), turn[s]) /\ TurnTyped(Switched(s)) /\ Switched(s).at = "send"
    BY <1>2, SwitchedFields
  <2> HIDE DEF x
  <2>3. Sound(x, Switched(s))
    BY <1>1, <1>4, <2>1, <2>2
       DEF Sound, PinOK, AskOK, TellOK, Alike, Keeps, Owed, Moving, Routing
  <2> QED
    BY <1>1, <1>4, <2>3, Local DEF Puts
<1>5. CASE Go(s, u) /\ UNCHANGED ses
  <2>1. /\ Keeps(u, turn[s]) /\ u.at \in {"summary", "open"} /\ u.sw = turn[s].sw
        /\ u.why = turn[s].why /\ u.out = turn[s].out /\ u.repaired = turn[s].repaired
    BY <1>2 DEF TurnTyped, TurnFields, Keeps
  <2> HIDE DEF u
  <2>2. Sound(ses[s], u)
    BY <1>1, <2>1
       DEF Sound, PinOK, AskOK, TellOK, TurnTyped, Keeps, Owed, Doomed, Moving, Routing
  <2> QED
    BY <1>1, <1>5, <2>2, Local DEF Puts
<1>6. CASE Go(s, NotSwitched(s)) /\ UNCHANGED ses
  BY <1>1, <1>2, <1>6, NotSwitchedSound, Local DEF Puts
<1> QED
  BY <1>3, <1>4, <1>5, <1>6

LEMMA SummarySound ==
    ASSUME RoutingInv, NEW s \in Sessions, NEW out, Summary(s, out) PROVE RoutingInv'
<1> DEFINE u == [turn[s] EXCEPT !.at = "open"]
<1>1. Sound(ses[s], turn[s]) /\ turn[s].at = "summary" /\ UNCHANGED <<ses, saved>> /\ Go(s, u)
  BY DEF RoutingInv, Summary, At
<1>2. /\ Keeps(u, turn[s]) /\ u.at = "open" /\ u.sw = turn[s].sw
      /\ u.why = turn[s].why /\ u.out = turn[s].out /\ u.repaired = turn[s].repaired
  BY <1>1 DEF Sound, TurnTyped, TurnFields, Keeps
<1> HIDE DEF u
<1>3. Sound(ses[s], u)
  BY <1>1, <1>2
     DEF Sound, PinOK, AskOK, TellOK, TurnTyped, Keeps, Owed, Doomed, Moving, Routing
<1> QED
  BY <1>1, <1>3, Local DEF Puts

LEMMA SwitchOpenSound ==
    ASSUME RoutingInv, NEW s \in Sessions, NEW how, SwitchOpen(s, how) PROVE RoutingInv'
<1>1. Sound(ses[s], turn[s]) /\ turn[s].at = "open"
  BY DEF RoutingInv, SwitchOpen, At
<1>2. SesTyped(ses[s]) /\ TurnTyped(turn[s]) /\ turn[s].at \in Moving
  BY <1>1 DEF Sound, Moving
<1> DEFINE to == turn[s].sw.to
           user == turn[s].sw.user
           P == Readied(to, how = "opened")
           x == [ses[s] EXCEPT !.cand = to, !.sid = NewId(P, to), !.told = FALSE,
                            !.picked = user, !.switch = NoSwitch, !.context = TRUE,
                            !.override = IF user THEN to ELSE @,
                            !.byUser = @ \/ user]
           more(t) == [t EXCEPT !.fresh = TRUE,
                         !.continuing = @ \/ (turn[s].why = "repair" /\ ses[s].partial # "none")]
<1>3. \/ Put(s, x) /\ Go(s, more(Switched(s))) /\ Saved(s)
      \/ Put(s, x) /\ Go(s, more(NotSwitched(s))) /\ UNCHANGED saved
      \/ Go(s, NotSwitched(s)) /\ UNCHANGED <<ses, saved>>
  <2>1. CASE how = "opened"
    <3>1. \E stored \in Saves :
            /\ Put(s, x)
            /\ Go(s, more(IF stored THEN Switched(s) ELSE NotSwitched(s)))
            /\ IF stored THEN Saved(s) ELSE Unsaved
      BY <2>1, Zenon DEF SwitchOpen
    <3> HIDE DEF x, more
    <3> QED
      BY <3>1, Zenon DEF Unsaved
  <2>2. CASE how # "opened"
    BY <2>2, Zenon DEF SwitchOpen
  <2> QED
    BY <2>1, <2>2
<1>4. to \in Candidates /\ user \in BOOLEAN
  BY <1>1, <1>2 DEF Sound, PinOK, TurnTyped, Request, Choice
<1>5. /\ SesTyped(x) /\ x.cand = to /\ x.context /\ x.esc = ses[s].esc
  BY <1>2, <1>4 DEF SesTyped, SesFields, Request, NoSwitch, Choice
<1>6. ASSUME NEW t, DOMAIN t = TurnFields
      PROVE  /\ DOMAIN more(t) = TurnFields
             /\ more(t).at = t.at /\ more(t).sw = t.sw /\ more(t).asked = t.asked
             /\ more(t).attempt = t.attempt /\ more(t).chain = t.chain
             /\ more(t).why = t.why /\ more(t).out = t.out /\ more(t).repaired = t.repaired
  BY <1>6 DEF TurnFields, Keeps
<1>7. x.cand # None
  BY <1>4, <1>5, RoutingAssumption
<1>8. CASE Put(s, x) /\ Go(s, more(Switched(s))) /\ Saved(s)
  <2> DEFINE t == Switched(s)
             u == more(t)
  <2>1. Keeps(t, turn[s]) /\ TurnTyped(t) /\ t.at = "send"
    BY <1>2, SwitchedFields
  <2>2. /\ DOMAIN u = TurnFields /\ u.at = "send" /\ u.sw = t.sw /\ u.asked = t.asked
        /\ u.attempt = t.attempt /\ u.chain = t.chain
    BY <1>6, <2>1 DEF Keeps, TurnTyped
  <2> HIDE DEF u, t, x
  <2>3. u.asked # None /\ u.attempt = 0 => x.cand = u.asked
    BY <1>1, <1>5, <2>1, <2>2 DEF Sound, AskOK, Keeps, Moving
  <2>4. Sound(x, u)
    BY <1>5, <1>7, <2>1, <2>2, <2>3
       DEF Sound, PinOK, AskOK, TellOK, TurnTyped, Moving, Routing
  <2> QED
    BY <1>8, <2>4, Local DEF Puts, u, t
<1>9. CASE Put(s, x) /\ Go(s, more(NotSwitched(s))) /\ UNCHANGED saved
  <2> DEFINE t == NotSwitched(s)
             u == more(t)
  <2>1. \/ /\ turn[s].why = "repair" /\ t.at = "settle"
           /\ Keeps(t, turn[s]) /\ TurnTyped(t)
           /\ t.why = turn[s].why /\ t.out = turn[s].out /\ t.repaired = turn[s].repaired
        \/ turn[s].why = "pending" /\ turn[s].sw.user /\ t = NoTurn
        \/ /\ ~(turn[s].why = "pending" /\ turn[s].sw.user) /\ t.at = "send"
           /\ Keeps(t, turn[s]) /\ TurnTyped(t)
    BY <1>2, NotSwitchedFields
  <2>2. DOMAIN t = TurnFields
    BY <2>1, NoTurnFields DEF Keeps
  <2>3. /\ DOMAIN u = TurnFields /\ u.at = t.at /\ u.sw = t.sw /\ u.asked = t.asked
        /\ u.attempt = t.attempt /\ u.chain = t.chain
        /\ u.why = t.why /\ u.out = t.out /\ u.repaired = t.repaired
    BY <1>6, <2>2 DEF Keeps
  <2> HIDE DEF u, t, x
  <2>4. ASSUME t = NoTurn PROVE Sound(x, u)
    BY <1>5, <1>7, <2>3, <2>4, NoTurnFields, AtRest
  <2>5. ASSUME turn[s].why = "repair", t.at = "settle", Keeps(t, turn[s]), TurnTyped(t),
               t.why = turn[s].why, t.out = turn[s].out, t.repaired = turn[s].repaired
        PROVE  Sound(x, u)
    BY <1>1, <1>5, <1>7, <2>3, <2>5
       DEF Sound, PinOK, AskOK, TellOK, TurnTyped, Keeps, Doomed, Moving, Routing
  <2>6. ASSUME ~(turn[s].why = "pending" /\ turn[s].sw.user), t.at = "send",
               Keeps(t, turn[s]), TurnTyped(t)
        PROVE  Sound(x, u)
    BY <1>1, <1>5, <1>7, <2>3, <2>6
       DEF Sound, PinOK, AskOK, TellOK, TurnTyped, Keeps, Moving, Routing
  <2> QED
    BY <1>9, <2>1, <2>4, <2>5, <2>6, Local DEF Puts, u, t
<1>10. CASE Go(s, NotSwitched(s)) /\ UNCHANGED <<ses, saved>>
  BY <1>1, <1>2, <1>10, NotSwitchedSound, Local DEF Puts
<1> QED
  BY <1>3, <1>8, <1>9, <1>10

------------------------------------------------------------------------------
\* An attempt.

LEMMA SendSound == ASSUME RoutingInv, NEW s \in Sessions, Send(s) PROVE RoutingInv'
<1> DEFINE gone == ~Refused(s)
           x == [ses[s] EXCEPT !.context = FALSE, !.esc = None, !.partial = "none",
                               !.told = @ \/ (~Refused(s) /\ Told(s))]
           u == [turn[s] EXCEPT !.at = IF Refused(s) THEN "settle" ELSE "running",
                     !.attempt = @ + 1, !.refused = Refused(s), !.failed = None,
                     !.goal = "first", !.why = "pending",
                     !.out = IF Refused(s) THEN RefusalClass(ses[s].cand) ELSE "ok"]
<1>1. Sound(ses[s], turn[s]) /\ turn[s].at = "send" /\ UNCHANGED saved /\ Put(s, x) /\ Go(s, u)
  BY DEF RoutingInv, Send, At
<1>2. SesTyped(x) /\ x.cand = ses[s].cand /\ x.prior = ses[s].prior /\ x.esc = None
      /\ x.history = ses[s].history
      /\ (x.told <=> ses[s].told \/ (~Refused(s) /\ Told(s)))
  BY <1>1 DEF Sound, SesTyped, SesFields, Choice
<1>3. /\ DOMAIN u = TurnFields
      /\ u.at = (IF Refused(s) THEN "settle" ELSE "running")
      /\ u.asked = turn[s].asked /\ u.attempt = turn[s].attempt + 1 /\ u.chain = turn[s].chain
      /\ u.sw = turn[s].sw /\ u.fresh = turn[s].fresh /\ u.continuing = turn[s].continuing
      /\ u.out = (IF Refused(s) THEN RefusalClass(ses[s].cand) ELSE "ok")
  BY <1>1 DEF Sound, TurnTyped, TurnFields
<1>4. RefusalClass(ses[s].cand) \in {"limit", "outage"}
  BY DEF RefusalClass
<1> HIDE DEF x, u
<1>5. TurnTyped(u)
  BY <1>1, <1>3 DEF Sound, TurnTyped
<1>6. PinOK(x, u) /\ AskOK(x, u)
  BY <1>1, <1>2, <1>3 DEF Sound, TurnTyped, PinOK, AskOK, Moving, Routing
<1>7. ~Refused(s) /\ turn[s].fresh => x.told
  BY <1>1, <1>2 DEF Sound, TellOK, Told, Owed, Moving
<1>8. TellOK(x, u)
  BY <1>1, <1>2, <1>3, <1>4, <1>7 DEF Sound, TellOK, PinOK, Doomed, Moving, Routing
<1> QED
  BY <1>1, <1>2, <1>5, <1>6, <1>8, Local DEF Puts, Sound

\* Output and callbacks leave only partial work.
LEMMA PartialSound ==
    ASSUME RoutingInv, NEW s \in Sessions, NEW kind,
           Put(s, [ses[s] EXCEPT !.partial = kind]), UNCHANGED <<turn, saved>>
    PROVE  RoutingInv'
<1> DEFINE x == [ses[s] EXCEPT !.partial = kind]
<1>1. Sound(ses[s], turn[s]) /\ Put(s, x)
  BY DEF RoutingInv
<1>2. SesTyped(x) /\ Alike(x, ses[s]) /\ x.switch = ses[s].switch
  BY <1>1 DEF Sound, SesTyped, SesFields, Alike
<1> HIDE DEF x
<1>3. Sound(x, turn[s])
  BY <1>1, <1>2, AlikeSound
<1> QED
  BY <1>1, <1>3, Local DEF Puts

LEMMA EscalateSound ==
    ASSUME RoutingInv, NEW s \in Sessions, NEW c \in Candidates, Escalate(s, c) PROVE RoutingInv'
<1> DEFINE x == [ses[s] EXCEPT !.esc = c]
<1>1. /\ Sound(ses[s], turn[s]) /\ turn[s].at = "running"
      /\ UNCHANGED <<turn, saved>> /\ Put(s, x)
  BY DEF RoutingInv, Escalate, At
<1>2. /\ SesTyped(x) /\ x.cand = ses[s].cand /\ x.prior = ses[s].prior /\ x.told = ses[s].told
      /\ x.context = ses[s].context /\ x.history = ses[s].history
  BY <1>1 DEF Sound, SesTyped, SesFields, Choice
<1> HIDE DEF x
<1>3. Sound(x, turn[s])
  BY <1>1, <1>2 DEF Sound, PinOK, AskOK, TellOK, Owed, Moving, Routing
<1> QED
  BY <1>1, <1>3, Local DEF Puts

\* A running attempt settles: whatever ended it, its pin was told.
LEMMA RanSound ==
    ASSUME NEW x, NEW t, Sound(x, t), t.at = "running",
           NEW u, Keeps(u, t), u.at = "settle", u.sw = t.sw
    PROVE  Sound(x, u)
  BY DEF Sound, PinOK, AskOK, TellOK, TurnTyped, Keeps, Moving, Routing

LEMMA ReplySound ==
    ASSUME RoutingInv, NEW s \in Sessions, NEW out, Reply(s, out) PROVE RoutingInv'
<1> DEFINE u == [turn[s] EXCEPT !.at = "settle", !.out = out]
<1>1. /\ Sound(ses[s], turn[s]) /\ turn[s].at = "running"
      /\ UNCHANGED <<ses, saved>> /\ Go(s, u)
  BY DEF RoutingInv, Reply, At
<1>2. Keeps(u, turn[s]) /\ u.at = "settle" /\ u.sw = turn[s].sw
  BY <1>1 DEF Sound, TurnTyped, TurnFields, Keeps
<1> HIDE DEF u
<1> QED
  BY <1>1, <1>2, RanSound, Local DEF Puts

LEMMA WatchSound == ASSUME RoutingInv, NEW s \in Sessions, Watch(s) PROVE RoutingInv'
<1> DEFINE u == [turn[s] EXCEPT !.at = "settle", !.refused = ~ses[s].cancelled,
                    !.out = IF ses[s].cancelled THEN "ok" ELSE RefusalClass(ses[s].cand)]
<1>1. /\ Sound(ses[s], turn[s]) /\ turn[s].at = "running"
      /\ UNCHANGED <<ses, saved>> /\ Go(s, u)
  BY DEF RoutingInv, Watch, At
<1>2. Keeps(u, turn[s]) /\ u.at = "settle" /\ u.sw = turn[s].sw
  BY <1>1 DEF Sound, TurnTyped, TurnFields, Keeps
<1> HIDE DEF u
<1> QED
  BY <1>1, <1>2, RanSound, Local DEF Puts

------------------------------------------------------------------------------
\* How an attempt ends.

LEMMA SettleEscalationSound ==
    ASSUME RoutingInv, NEW s \in Sessions, SettleEscalation(s) PROVE RoutingInv'
<1> DEFINE x == [ses[s] EXCEPT !.esc = None, !.escalations = @ + 1,
                               !.history = @ /\ turn[s].out # "ok",
                               !.elevated = TRUE, !.skill = FALSE]
           sw == [to |-> ses[s].esc, user |-> FALSE]
           u == [turn[s] EXCEPT !.at = "switch", !.why = "escalation", !.sw = sw]
<1>1. /\ Sound(ses[s], turn[s]) /\ turn[s].at = "settle" /\ ses[s].esc # None
      /\ UNCHANGED saved /\ Put(s, x) /\ Go(s, u)
  BY DEF RoutingInv, SettleEscalation, At
<1>2. /\ SesTyped(x) /\ x.cand = ses[s].cand /\ x.prior = ses[s].prior /\ x.told = ses[s].told
      /\ x.context = ses[s].context
  BY <1>1 DEF Sound, SesTyped, SesFields, Choice
<1>3. sw \in Request /\ sw.to # None
  BY <1>1 DEF Sound, SesTyped, Request, Choice
<1> HIDE DEF sw
<1>4. Keeps(u, turn[s]) /\ u.at = "switch" /\ u.sw = sw /\ u.why = "escalation"
  BY <1>1 DEF Sound, TurnTyped, TurnFields, Keeps
<1> HIDE DEF x, u
<1>5. Sound(x, u)
  BY <1>1, <1>2, <1>3, <1>4
     DEF Sound, PinOK, AskOK, TellOK, TurnTyped, Keeps, Owed, Doomed, Moving, Routing
<1> QED
  BY <1>1, <1>5, Local DEF Puts

LEMMA SettleAnswerSound ==
    ASSUME RoutingInv, NEW s \in Sessions, SettleAnswer(s) PROVE RoutingInv'
<1> DEFINE x(c) == [ses[s] EXCEPT !.prior = TRUE, !.history = FALSE,
                !.switch = IF c = None THEN @ ELSE [to |-> c, user |-> FALSE],
                !.elevated = IF c \in Demoted(s) THEN FALSE ELSE @ \/ c # None,
                !.skill = @ /\ c = None]
           u == [turn[s] EXCEPT !.at = "background"]
<1>1. /\ Sound(ses[s], turn[s]) /\ turn[s].at = "settle" /\ turn[s].out = "ok"
      /\ Saved(s) /\ (Go(s, NoTurn) \/ Go(s, u))
      /\ \E c \in Demoted(s) \cup Upgraded(s) \cup {None} : Put(s, x(c))
  BY DEF RoutingInv, SettleAnswer, Ended, At
<1>2. PICK c \in Choice : Put(s, x(c))
  <2>1. Demoted(s) \cup Upgraded(s) \cup {None} \subseteq Choice
    BY DEF Demoted, Upgraded, Stronger, Choice
  <2> HIDE DEF x
  <2> QED
    BY <1>1, <2>1, Zenon
<1> DEFINE y == x(c)
<1>3. [to |-> c, user |-> FALSE] \in Request
  BY DEF Request, Choice
<1>4. SesTyped(y) /\ y.cand = ses[s].cand /\ y.told = ses[s].told
  BY <1>1, <1>3 DEF Sound, SesTyped, SesFields
<1>5. Keeps(u, turn[s]) /\ u.at = "background" /\ u.sw = turn[s].sw
  BY <1>1 DEF Sound, TurnTyped, TurnFields, Keeps
<1> HIDE DEF x, u
<1>6. y.cand # None
  BY <1>1, <1>4 DEF Sound, PinOK
<1> HIDE DEF y
<1>7. Sound(y, NoTurn)
  BY <1>4, <1>6, Ends
<1>8. Sound(y, u)
  BY <1>1, <1>4, <1>5, <1>6
     DEF Sound, PinOK, AskOK, TellOK, TurnTyped, Keeps, Doomed, Moving, Routing
<1> QED
  BY <1>1, <1>2, <1>7, <1>8, Local DEF Puts, y

LEMMA BackgroundSound == ASSUME RoutingInv, NEW s \in Sessions, Background(s) PROVE RoutingInv'
<1> DEFINE u == [turn[s] EXCEPT !.at = "send", !.attempt = 0, !.continuing = FALSE,
                                !.asked = None]
<1>1. /\ Sound(ses[s], turn[s]) /\ turn[s].at = "background" /\ UNCHANGED <<ses, saved>>
      /\ Go(s, NoTurn) \/ Go(s, u)
  BY DEF RoutingInv, Background, At
<1>2. /\ DOMAIN u = TurnFields /\ u.at = "send" /\ u.asked = None /\ u.attempt = 0
      /\ u.chain = turn[s].chain /\ u.sw = turn[s].sw /\ u.fresh = turn[s].fresh
      /\ ~u.continuing
  BY <1>1 DEF Sound, TurnTyped, TurnFields
<1> HIDE DEF u
<1>3. Sound(ses[s], u)
  BY <1>1, <1>2 DEF Sound, PinOK, AskOK, TellOK, TurnTyped, Choice, Moving, Routing
<1> QED
  BY <1>1, <1>3, EndSound, Local DEF Puts

LEMMA SettleRepairSound ==
    ASSUME RoutingInv, NEW s \in Sessions, SettleRepair(s) PROVE RoutingInv'
<1> DEFINE sw == [to |-> ses[s].cand, user |-> ses[s].picked]
           u == [turn[s] EXCEPT !.at = "switch", !.why = "repair", !.repaired = TRUE, !.sw = sw]
<1>1. /\ Sound(ses[s], turn[s]) /\ turn[s].at = "settle" /\ ses[s].esc = None
      /\ turn[s].out = "auth" /\ ~turn[s].repaired /\ UNCHANGED <<ses, saved>> /\ Go(s, u)
  BY DEF RoutingInv, SettleRepair, Ended, At
<1>2. sw \in Request /\ sw.to # None
  BY <1>1 DEF Sound, SesTyped, PinOK, Request, Choice, Moving
<1> HIDE DEF sw
<1>3. /\ Keeps(u, turn[s]) /\ u.at = "switch" /\ u.sw = sw /\ u.why = "repair"
      /\ u.out = turn[s].out /\ u.repaired
  BY <1>1 DEF Sound, TurnTyped, TurnFields, Keeps
<1> HIDE DEF u
<1>4. Sound(ses[s], u)
  BY <1>1, <1>2, <1>3
     DEF Sound, PinOK, AskOK, TellOK, TurnTyped, Keeps, Owed, Doomed, Moving, Routing
<1> QED
  BY <1>1, <1>4, Local DEF Puts

LEMMA SettleFailureSound ==
    ASSUME RoutingInv, NEW s \in Sessions, SettleFailure(s) PROVE RoutingInv'
<1> DEFINE out == turn[s].out
           work == turn[s].continuing \/ ses[s].partial # "none"
           again == /\ out \in {"outage", "adapter"}
                    /\ turn[s].refused \/ out = "adapter"
                    /\ ~turn[s].recovered /\ HumanPick(s, ses[s].cand)
           x(pick) == [ses[s] EXCEPT !.context = @ \/ Carries(s, work),
                          !.history = @ /\ out # "overflow",
                          !.prior = @ \/ ses[s].partial = "text",
                          !.override = IF pick = None THEN @ ELSE pick,
                          !.byUser = @ \/ pick # None]
           u == [turn[s] EXCEPT !.at = "plan", !.failed = ses[s].cand, !.continuing = work,
                     !.goal = IF again THEN "recover" ELSE "failover",
                     !.recovered = @ \/ again]
<1>1. Sound(ses[s], turn[s]) /\ turn[s].at = "settle" /\ UNCHANGED saved
  BY DEF RoutingInv, SettleFailure, Ended, At
<1>2. \/ (\E pick \in OrNone(Substitutes(s)) : Put(s, x(pick))) /\ Go(s, u)
      \/ Go(s, NoTurn) /\ UNCHANGED ses
  BY Zenon DEF SettleFailure
<1>3. ASSUME NEW pick \in OrNone(Substitutes(s)), Put(s, x(pick)), Go(s, u)
      PROVE  RoutingInv'
  <2> DEFINE y == x(pick)
  <2>1. pick \in Choice
    BY DEF OrNone, Substitutes, Choice
  <2>2. /\ SesTyped(y) /\ y.cand = ses[s].cand
        /\ y.context <=> ses[s].context \/ Carries(s, work)
        /\ y.history <=> ses[s].history /\ out # "overflow"
        /\ y.prior <=> ses[s].prior \/ ses[s].partial = "text"
    BY <1>1, <2>1 DEF Sound, SesTyped, SesFields
  <2>3. /\ DOMAIN u = TurnFields /\ u.at = "plan" /\ u.asked = turn[s].asked
        /\ u.attempt = turn[s].attempt /\ u.chain = turn[s].chain /\ u.sw = turn[s].sw
        /\ u.fresh = turn[s].fresh /\ (u.continuing <=> work)
        /\ u.goal = (IF again THEN "recover" ELSE "failover")
    BY <1>1 DEF Sound, TurnTyped, TurnFields
  <2>4. Owed(y, u) => y.context
    BY <2>2, <2>3 DEF Owed, Carries
  <2> HIDE DEF x, y, u, again, work
  <2>5. Sound(y, u)
    BY <1>1, <2>2, <2>3, <2>4
       DEF Sound, PinOK, AskOK, TellOK, TurnTyped, Moving, Routing
  <2> QED
    BY <1>1, <1>3, <2>5, Local DEF Puts, y
<1> HIDE DEF x, u
<1> QED
  BY <1>1, <1>2, <1>3, EndSound

------------------------------------------------------------------------------
\* pin_session.

\* No candidate: the turn ends, or it goes on looking.
LEMMA NoPinSound ==
    ASSUME NEW s, Sound(ses[s], turn[s]), turn[s].at \in {"plan", "walk", "pinned"}
    PROVE  Sound(ses[s], NoPin(s))
<1> DEFINE u == [turn[s] EXCEPT !.at = "plan", !.goal = "failover"]
           w == [turn[s] EXCEPT !.at = "wait"]
<1>1. \/ NoPin(s) = NoTurn
      \/ NoPin(s) = u
      \/ NoPin(s) = w /\ turn[s].goal # "first"
  <2>1. CASE turn[s].goal = "first"
    BY <2>1 DEF NoPin
  <2>2. CASE turn[s].goal = "recover"
    BY <2>2 DEF NoPin
  <2>3. CASE turn[s].goal \notin {"first", "recover"} /\ Awaited(s)
    BY <2>3 DEF NoPin
  <2>4. CASE turn[s].goal \notin {"first", "recover"} /\ ~Awaited(s)
    BY <2>4 DEF NoPin
  <2> QED
    BY <2>1, <2>2, <2>3, <2>4
<1>2. Sound(ses[s], NoTurn)
  BY Ends DEF Sound, TellOK
<1>3. Keeps(u, turn[s]) /\ u.at = "plan" /\ u.sw = turn[s].sw /\ u.goal = "failover"
  BY DEF Sound, TurnTyped, TurnFields, Keeps
<1>4. Keeps(w, turn[s]) /\ w.at = "wait" /\ w.sw = turn[s].sw /\ w.goal = turn[s].goal
  BY DEF Sound, TurnTyped, TurnFields, Keeps
<1> HIDE DEF u, w
<1>5. Sound(ses[s], u)
  BY <1>3 DEF Sound, PinOK, AskOK, TellOK, TurnTyped, Keeps, Owed, Moving, Routing
<1>6. Sound(ses[s], w)
  BY <1>4 DEF Sound, PinOK, AskOK, TellOK, TurnTyped, Keeps, Owed, Moving, Routing
<1> QED
  BY <1>1, <1>2, <1>5, <1>6

LEMMA PlanSound == ASSUME RoutingInv, NEW s \in Sessions, Plan(s) PROVE RoutingInv'
<1>1. Sound(ses[s], turn[s]) /\ turn[s].at = "plan" /\ UNCHANGED <<ses, saved>>
  BY DEF RoutingInv, Plan, At
<1> DEFINE named == IF ses[s].byUser THEN LiveOverride(s, Excluded(s)) ELSE None
           u(chain) == [turn[s] EXCEPT !.at = "walk", !.chain = chain, !.named = named]
<1>2. \E P \in Revivals : \E chain \in Chains(P, s, Excluded(s)) :
          Go(s, IF chain = <<>> THEN NoPin(s) ELSE u(chain))
  BY Zenon DEF Plan
<1>3. \E chain \in Seq(Candidates) : Go(s, IF chain = <<>> THEN NoPin(s) ELSE u(chain))
  <2> HIDE DEF u
  <2>1. \A P \in Revivals : Chains(P, s, Excluded(s)) \subseteq Seq(Candidates)
    BY <1>1, ChainsTyped DEF Sound
  <2> QED
    BY <1>2, <2>1, Zenon
<1>4. PICK chain \in Seq(Candidates) : Go(s, IF chain = <<>> THEN NoPin(s) ELSE u(chain))
  BY <1>3, Zenon
<1>5. CASE chain = <<>>
  <2>1. Go(s, NoPin(s))
    BY <1>4, <1>5, Zenon
  <2> QED
    BY <1>1, <2>1, NoPinSound, Local DEF Puts
<1>6. CASE chain # <<>>
  <2> DEFINE w == u(chain)
  <2>1. Go(s, w)
    BY <1>4, <1>6, Zenon
  <2>2. /\ DOMAIN w = TurnFields /\ w.at = "walk" /\ w.asked = turn[s].asked
        /\ w.attempt = turn[s].attempt /\ w.chain = chain /\ w.sw = turn[s].sw
        /\ w.fresh = turn[s].fresh /\ w.continuing = turn[s].continuing
        /\ w.goal = turn[s].goal
    BY <1>1 DEF Sound, TurnTyped, TurnFields
  <2> HIDE DEF u, w
  <2>3. Sound(ses[s], w)
    BY <1>1, <1>6, <2>2
       DEF Sound, PinOK, AskOK, TellOK, TurnTyped, Owed, Moving, Routing
  <2> QED
    BY <1>1, <2>1, <2>3, Local DEF Puts
<1> QED
  BY <1>5, <1>6

LEMMA WalkSound == ASSUME RoutingInv, NEW s \in Sessions, Walk(s) PROVE RoutingInv'
<1> DEFINE c == Head(turn[s].chain)
           P == Readied(c, TRUE)
           x == [ses[s] EXCEPT !.cand = c, !.sid = NewId(P, c), !.told = FALSE,
                               !.picked = (c = turn[s].named)]
           u == [turn[s] EXCEPT !.at = "pinned", !.chain = <<>>, !.named = None, !.fresh = TRUE]
<1>1. /\ Sound(ses[s], turn[s]) /\ turn[s].at = "walk" /\ UNCHANGED saved
      /\ Put(s, x) /\ Go(s, u)
  BY DEF RoutingInv, Walk, At
<1>2. c \in Candidates /\ c # None
  BY <1>1, HeadTailProperties, RoutingAssumption DEF Sound, PinOK, TurnTyped
<1>3. /\ SesTyped(x) /\ x.cand = c /\ x.prior = ses[s].prior
      /\ x.context = ses[s].context /\ x.history = ses[s].history
  BY <1>1, <1>2 DEF Sound, SesTyped, SesFields, Choice
<1>4. /\ DOMAIN u = TurnFields /\ u.at = "pinned" /\ u.asked = turn[s].asked
      /\ u.attempt = turn[s].attempt /\ u.chain = <<>> /\ u.sw = turn[s].sw
      /\ u.continuing = turn[s].continuing /\ u.goal = turn[s].goal
  BY <1>1 DEF Sound, TurnTyped, TurnFields
<1> HIDE DEF x, u
<1>5. Sound(x, u)
  BY <1>1, <1>2, <1>3, <1>4
     DEF Sound, PinOK, AskOK, TellOK, TurnTyped, Owed, Moving, Routing
<1> QED
  BY <1>1, <1>5, Local DEF Puts

LEMMA PinDoneSound == ASSUME RoutingInv, NEW s \in Sessions, PinDone(s) PROVE RoutingInv'
<1> DEFINE u == [turn[s] EXCEPT !.at = "begin"]
           w == [turn[s] EXCEPT !.at = "send"]
<1>1. Sound(ses[s], turn[s]) /\ turn[s].at = "pinned" /\ UNCHANGED ses
  BY DEF RoutingInv, PinDone, At
<1>2. \E stored \in Saves : Go(s, AfterPin(s, stored)) /\ (Saved(s) \/ UNCHANGED saved)
  BY Zenon DEF PinDone, Unsaved
<1>3. ASSUME NEW stored
      PROVE  \/ AfterPin(s, stored) = NoTurn
             \/ AfterPin(s, stored) = NoPin(s)
             \/ AfterPin(s, stored) = u /\ turn[s].goal = "first"
             \/ AfterPin(s, stored) = w
  <2>1. CASE ses[s].cancelled
    BY <2>1 DEF AfterPin
  <2>2. CASE ~ses[s].cancelled /\ ~stored
    BY <2>2 DEF AfterPin
  <2>3. CASE ~ses[s].cancelled /\ stored /\ turn[s].goal = "first"
    BY <2>3 DEF AfterPin
  <2>4. CASE ~ses[s].cancelled /\ stored /\ turn[s].goal # "first"
    BY <2>4 DEF AfterPin
  <2> QED
    BY <2>1, <2>2, <2>3, <2>4
<1>4. Keeps(u, turn[s]) /\ u.at = "begin" /\ u.sw = turn[s].sw
  BY <1>1 DEF Sound, TurnTyped, TurnFields, Keeps
<1>5. Keeps(w, turn[s]) /\ w.at = "send" /\ w.sw = turn[s].sw
  BY <1>1 DEF Sound, TurnTyped, TurnFields, Keeps
<1> HIDE DEF u, w
<1>6. turn[s].goal = "first" => Sound(ses[s], u)
  BY <1>1, <1>4 DEF Sound, PinOK, AskOK, TellOK, TurnTyped, Keeps, Owed, Moving, Routing
<1>7. Sound(ses[s], w)
  BY <1>1, <1>5 DEF Sound, PinOK, AskOK, TellOK, TurnTyped, Keeps, Owed, Moving, Routing
<1>8. Sound(ses[s], NoTurn) /\ Sound(ses[s], NoPin(s))
  BY <1>1, Ends, NoPinSound DEF Sound, TellOK
<1>9. \E t : Go(s, t) /\ Sound(ses[s], t) /\ (Saved(s) \/ UNCHANGED saved)
  BY <1>2, <1>3, <1>6, <1>7, <1>8
<1> QED
  BY <1>1, <1>9, Local DEF Puts

LEMMA WalkFailedSound ==
    ASSUME RoutingInv, NEW s \in Sessions, NEW how, WalkFailed(s, how) PROVE RoutingInv'
<1> DEFINE rest == Tail(turn[s].chain)
           u == [turn[s] EXCEPT !.chain = rest]
<1>1. Sound(ses[s], turn[s]) /\ turn[s].at = "walk" /\ UNCHANGED <<ses, saved>>
  BY DEF RoutingInv, WalkFailed, At
<1>2. Go(s, NoPin(s)) \/ (rest # <<>> /\ Go(s, u))
  BY Zenon DEF WalkFailed
<1>3. rest \in Seq(Candidates)
  BY <1>1, HeadTailProperties DEF Sound, PinOK, TurnTyped
<1> HIDE DEF rest
<1>4. /\ DOMAIN u = TurnFields /\ u.at = "walk" /\ u.asked = turn[s].asked
      /\ u.attempt = turn[s].attempt /\ u.chain = rest /\ u.sw = turn[s].sw
      /\ u.fresh = turn[s].fresh /\ u.continuing = turn[s].continuing
      /\ u.goal = turn[s].goal
  BY <1>1 DEF Sound, TurnTyped, TurnFields
<1> HIDE DEF u
<1>5. rest # <<>> => Sound(ses[s], u)
  BY <1>1, <1>3, <1>4
     DEF Sound, PinOK, AskOK, TellOK, TurnTyped, Owed, Moving, Routing
<1>6. Sound(ses[s], NoPin(s))
  BY <1>1, NoPinSound
<1> QED
  BY <1>1, <1>2, <1>5, <1>6, Local DEF Puts

LEMMA WaitSound == ASSUME RoutingInv, NEW s \in Sessions, Wait(s) PROVE RoutingInv'
<1> DEFINE able == {c \in Candidates : Eligible(proc, c)}
           u == [turn[s] EXCEPT !.at = "plan", !.goal = "retry", !.seen = able]
<1>1. /\ Sound(ses[s], turn[s]) /\ turn[s].at = "wait" /\ UNCHANGED <<ses, saved>>
      /\ Go(s, NoTurn) \/ Go(s, u)
  BY DEF RoutingInv, Wait, At
<1>2. Keeps(u, turn[s]) /\ u.at = "plan" /\ u.sw = turn[s].sw /\ u.goal = "retry"
  BY <1>1 DEF Sound, TurnTyped, TurnFields, Keeps
<1> HIDE DEF u
<1>3. Sound(ses[s], u)
  BY <1>1, <1>2 DEF Sound, PinOK, AskOK, TellOK, TurnTyped, Keeps, Owed, Moving, Routing
<1> QED
  BY <1>1, <1>3, EndSound, Local DEF Puts

------------------------------------------------------------------------------
\* The environment.

LEMMA DieSound == ASSUME RoutingInv, NEW a, Die(a) PROVE RoutingInv'
<1> DEFINE u(s) == [turn[s] EXCEPT !.at = "settle", !.out = "adapter"]
<1>1. UNCHANGED <<ses, saved>> /\ DOMAIN turn' = Sessions
  BY DEF Die
<1>2. ASSUME NEW s \in Sessions PROVE Sound(ses[s], turn'[s])
  <2>1. \/ turn[s].at = "running" /\ turn'[s] = u(s)
        \/ turn[s].at = "evaluate" /\ turn'[s] = Tried(s, turn[s].judge)
        \/ turn'[s] = turn[s]
    BY DEF Die, At
  <2>2. Sound(ses[s], turn[s])
    BY DEF RoutingInv
  <2>3. Keeps(u(s), turn[s]) /\ u(s).at = "settle" /\ u(s).sw = turn[s].sw
    BY <2>2 DEF Sound, TurnTyped, TurnFields, Keeps
  <2> HIDE DEF u
  <2> QED
    BY <2>1, <2>2, <2>3, RanSound, TriedSound
<1> QED
  BY <1>1, <1>2 DEF RoutingInv

LEMMA CrashSound == ASSUME RoutingInv, Crash PROVE RoutingInv'
<1>1. ASSUME NEW s \in Sessions PROVE Sound(ses'[s], turn'[s])
  <2>1. ses'[s] = Gone(s) /\ SesTyped(Gone(s)) /\ Gone(s).cand = None
    BY GoneFields DEF Crash
  <2>2. CASE turn[s].at = "new"
    <3>1. turn'[s] = turn[s] /\ Sound(ses[s], turn[s])
      BY <2>2 DEF Crash, At, RoutingInv
    <3> QED
      BY <2>1, <2>2, <3>1 DEF Sound, PinOK, AskOK, TellOK, Moving, Routing
  <2>3. CASE turn[s].at # "new"
    <3>1. turn'[s] = [NoTurn EXCEPT !.at = "closed"]
      BY <2>3 DEF Crash, At
    <3> QED
      BY <2>1, <3>1, Away
  <2> QED
    BY <2>2, <2>3
<1> QED
  BY <1>1 DEF RoutingInv, Crash

\* Every step of the specification keeps the invariant.
LEMMA RoutingStep == ASSUME RoutingInv, [Next]_vars PROVE RoutingInv'
<1>1. CASE UNCHANGED vars
  BY <1>1 DEF vars, RoutingInv
<1>2. ASSUME NEW s \in Sessions, Steps(s) PROVE RoutingInv'
  <2>1. /\ Begin(s) \/ Switch(s) \/ Send(s) \/ Watch(s) => RoutingInv'
        /\ Summary(s, "ok") \/ SwitchOpen(s, "opened") => RoutingInv'
    BY BeginSound, SwitchSound, SendSound, WatchSound, SummarySound, SwitchOpenSound
  <2>2. SettleCancelled(s) \/ WalkCancelled(s) => RoutingInv'
    BY EndSound DEF SettleCancelled, WalkCancelled, At
  <2>3. /\ SettleEscalation(s) \/ SettleAnswer(s) => RoutingInv'
        /\ SettleRepair(s) \/ SettleFailure(s) \/ Background(s) => RoutingInv'
    BY SettleEscalationSound, SettleAnswerSound, SettleRepairSound, SettleFailureSound,
       BackgroundSound
  <2>4. Plan(s) \/ Walk(s) \/ PinDone(s) \/ Wait(s) => RoutingInv'
    BY PlanSound, WalkSound, PinDoneSound, WaitSound
  <2>5. /\ (\E c \in Candidates : Judge(s, c, "opened")) => RoutingInv'
        /\ Verdict(s, "ok") \/ Fallback(s) \/ Dispatch(s) => RoutingInv'
    BY JudgeSound, VerdictSound, FallbackSound, DispatchSound
  <2> QED
    BY <1>2, <2>1, <2>2, <2>3, <2>4, <2>5, Zenon DEF Steps
<1>3. ASSUME NEW s \in Sessions PROVE Create(s) \/ Close(s) \/ Load(s) \/ Cancel(s) => RoutingInv'
  BY CreateSound, CloseSound, LoadSound, CancelSound
<1>4. ASSUME NEW s \in Sessions, NEW ask, Prompt(s, ask) PROVE RoutingInv'
  BY <1>4, PromptSound
<1>5. ASSUME NEW s \in Sessions, NEW c \in Choices, Choose(s, c) PROVE RoutingInv'
  BY <1>5, ChooseSound
<1>6. ASSUME NEW s \in Sessions, NEW out
      PROVE  Summary(s, out) \/ SwitchOpen(s, out) \/ Verdict(s, out) \/ Reply(s, out)
                \/ WalkFailed(s, out) => RoutingInv'
  BY SummarySound, SwitchOpenSound, VerdictSound, ReplySound, WalkFailedSound
<1>7. ASSUME NEW s \in Sessions, NEW c \in Candidates, NEW how
      PROVE  Judge(s, c, how) \/ Escalate(s, c) => RoutingInv'
  BY JudgeSound, EscalateSound
<1>8. ASSUME NEW s \in Sessions, NEW kind
      PROVE  Withdraw(s) \/ Output(s, kind) \/ Callback(s) => RoutingInv'
  BY WithdrawSound, PartialSound DEF Output, Callback, Shown
<1>9. ASSUME NEW a, NEW s PROVE LateOpen(a, s) => RoutingInv'
  BY DEF LateOpen, RoutingInv
<1>10. ASSUME NEW c, NEW why PROVE Bar(c, why) \/ Lift(c, why) => RoutingInv'
  BY DEF Bar, Lift, RoutingInv
<1>11. (\E a \in Agents : Die(a)) \/ Crash => RoutingInv'
  BY DieSound, CrashSound
<1> QED
  BY <1>1, <1>2, <1>3, <1>4, <1>5, <1>6, <1>7, <1>8, <1>9, <1>10, <1>11, Zenon DEF Next

\* RoutingInv holds throughout.
THEOREM RoutingInvariant == Spec => []RoutingInv
<1>1. Init => RoutingInv
  BY RoutingStart
<1>2. RoutingInv /\ [Next]_vars => RoutingInv'
  BY RoutingStep
<1> QED
  BY <1>1, <1>2, PTL DEF Spec

\* A model that takes over a conversation is given it with the first prompt it
\* runs (switch_pin, run_primary_turn_inner's prepare_pending_context).
THEOREM TakesOverInformed == Spec => []Informed
<1>1. RoutingInv => Informed
  BY DEF RoutingInv, Sound, TellOK, Informed, At
<1> QED
  BY <1>1, RoutingInvariant, PTL

\* A prompt that names a model runs there first or does not run at all.
THEOREM RunsWhereAsked == Spec => []PickHonoured
<1>1. RoutingInv => PickHonoured
  BY DEF RoutingInv, Sound, AskOK, PickHonoured, At
<1> QED
  BY <1>1, RoutingInvariant, PTL

------------------------------------------------------------------------------
(* The routes of a session *)

Bare == {"plan", "walk", "wait"}

\* A session's routes are its pin's, and while it looks for one it has none.
RoutesInv ==
    \A s \in Sessions :
        \A r \in route : r[3] = s =>
            Pinned(s) /\ <<r[1], r[2]>> = PinKey(s) /\ turn[s].at \notin Bare

\* No session gets a route.
Ungiven == \A r \in route' : r[3] \in Sessions => r \in route

\* A step of one session that leaves its pin, and gives nobody a route.
LEMMA PinStays ==
    ASSUME RoutingInv, RoutesInv, Ungiven, NEW s \in Sessions, NEW x, NEW t,
           Puts(s, x), Go(s, t) \/ (t = turn[s] /\ UNCHANGED turn),
           x.cand = ses[s].cand, x.sid = ses[s].sid,
           t.at \in Bare => turn[s].at \in Bare \/ ses[s].cand = None
    PROVE  RoutesInv'
<1>1. /\ ses'[s].cand = ses[s].cand /\ ses'[s].sid = ses[s].sid
      /\ \A o \in Sessions \ {s} : ses'[o] = ses[o]
  BY DEF RoutingInv, Puts, Put
<1>2. turn'[s] = t /\ \A o \in Sessions \ {s} : turn'[o] = turn[o]
  BY DEF RoutingInv, Go
<1> SUFFICES ASSUME NEW o \in Sessions, NEW r \in route', r[3] = o
             PROVE  /\ ses'[o].cand # None
                    /\ <<r[1], r[2]>> = <<AgentOf[ses'[o].cand], ses'[o].sid>>
                    /\ turn'[o].at \notin Bare
  BY DEF RoutesInv, Pinned, PinKey
<1>3. r \in route
  BY DEF Ungiven
<1>4. /\ ses[o].cand # None /\ <<r[1], r[2]>> = <<AgentOf[ses[o].cand], ses[o].sid>>
      /\ turn[o].at \notin Bare
  BY <1>3 DEF RoutesInv, Pinned, PinKey
<1> QED
  BY <1>1, <1>2, <1>4

\* Routes are only taken away.
LEMMA FewerUngiven ==
    ASSUME NEW key, NEW a
    PROVE  /\ route' = route => Ungiven
           /\ route' = Closed(route, key) => Ungiven
           /\ route' = RoutesWithout(route, a) => Ungiven
  BY DEF Ungiven, Closed, RoutesWithout

\* A session that has no pin has no route.
LEMMA NoPinNoRoute ==
    ASSUME RoutesInv, NEW s \in Sessions, ses[s].cand = None
    PROVE  \A r \in route : r[3] # s
  BY DEF RoutesInv, Pinned

\* A session's records are replaced while it has no route left.
LEMMA Routeless ==
    ASSUME RoutingInv, RoutesInv, Ungiven, NEW s \in Sessions,
           \A r \in route' : r[3] # s, NEW x, NEW t, Puts(s, x), Go(s, t)
    PROVE  RoutesInv'
<1>1. \A o \in Sessions \ {s} : ses'[o] = ses[o] /\ turn'[o] = turn[o]
  BY DEF RoutingInv, Puts, Put, Go
<1> SUFFICES ASSUME NEW o \in Sessions, NEW r \in route', r[3] = o
             PROVE  /\ ses'[o].cand # None
                    /\ <<r[1], r[2]>> = <<AgentOf[ses'[o].cand], ses'[o].sid>>
                    /\ turn'[o].at \notin Bare
  BY DEF RoutesInv, Pinned, PinKey
<1>2. r \in route /\ o # s
  BY DEF Ungiven
<1> QED
  BY <1>1, <1>2 DEF RoutesInv, Pinned, PinKey

\* A session is pinned to the adapter session that was opened for it.
LEMMA NewPin ==
    ASSUME RoutingInv, RoutesInv, NEW s \in Sessions, NEW x, NEW t, Puts(s, x), Go(s, t),
           x.cand # None, t.at \notin Bare,
           \A r \in route' : r[3] = s => <<r[1], r[2]>> = <<AgentOf[x.cand], x.sid>>,
           \A r \in route' : r[3] \in Sessions \ {s} => r \in route
    PROVE  RoutesInv'
<1>1. ses'[s] = x /\ \A o \in Sessions \ {s} : ses'[o] = ses[o]
  BY DEF RoutingInv, Puts, Put
<1>2. turn'[s] = t /\ \A o \in Sessions \ {s} : turn'[o] = turn[o]
  BY DEF RoutingInv, Go
<1> SUFFICES ASSUME NEW o \in Sessions, NEW r \in route', r[3] = o
             PROVE  /\ ses'[o].cand # None
                    /\ <<r[1], r[2]>> = <<AgentOf[ses'[o].cand], ses'[o].sid>>
                    /\ turn'[o].at \notin Bare
  BY DEF RoutesInv, Pinned, PinKey
<1>3. CASE o = s
  BY <1>1, <1>2, <1>3
<1>4. CASE o # s
  BY <1>1, <1>2, <1>4 DEF RoutesInv, Pinned, PinKey
<1> QED
  BY <1>3, <1>4

\* The steps of a session that leave its pin.

LEMMA TurnOnly ==
    ASSUME RoutingInv, RoutesInv, Ungiven, NEW s \in Sessions, NEW t, UNCHANGED ses, Go(s, t),
           t.at \in Bare => turn[s].at \in Bare
    PROVE  RoutesInv'
  BY PinStays DEF Puts

LEMMA TurnEndsRoutes ==
    ASSUME RoutingInv, RoutesInv, Ungiven, NEW s \in Sessions, UNCHANGED ses, Go(s, NoTurn)
    PROVE  RoutesInv'
  BY NoTurnFields, TurnOnly DEF Bare

LEMMA ChooseRoutes ==
    ASSUME RoutingInv, RoutesInv, NEW s \in Sessions, NEW c, Choose(s, c) PROVE RoutesInv'
<1> DEFINE x == [ses[s] EXCEPT !.override = c, !.byUser = (c # None)]
<1>1. SesTyped(ses[s]) /\ Put(s, x) /\ UNCHANGED <<route, turn>>
  BY DEF RoutingInv, Sound, Choose
<1>2. x.cand = ses[s].cand /\ x.sid = ses[s].sid
  BY <1>1 DEF SesTyped, SesFields
<1> HIDE DEF x
<1> QED
  BY <1>1, <1>2, PinStays, FewerUngiven DEF Puts

LEMMA PromptRoutes ==
    ASSUME RoutingInv, RoutesInv, NEW s \in Sessions, NEW ask, Prompt(s, ask) PROVE RoutesInv'
<1> DEFINE p == IF ShouldRun(s, ask) THEN "classify" ELSE "dispatch"
           k == IF Pinned(s) THEN Named(ask) ELSE None
           t == [NoTurn EXCEPT !.at = p, !.ask = ask, !.asked = k]
<1>1. PICK home \in Choice :
        Put(s, Directed(Returned(s, Parented(ses[s], ask), home), ask))
  BY RoutingAssumption DEF Prompt, OrNone, Choice
<1> DEFINE x == Directed(Returned(s, Parented(ses[s], ask), home), ask)
<1>2. Alike(x, ses[s])
  BY PromptFields DEF RoutingInv, Sound
<1>3. Put(s, x) /\ Go(s, t) /\ UNCHANGED route
  BY <1>1 DEF Prompt
<1>4. t.at \notin Bare
  BY NoTurnFields DEF TurnFields, Bare
<1> HIDE DEF x, t
<1> QED
  BY <1>2, <1>3, <1>4, PinStays, FewerUngiven DEF Puts, Alike

LEMMA DispatchRoutes ==
    ASSUME RoutingInv, RoutesInv, NEW s \in Sessions, Dispatch(s) PROVE RoutesInv'
<1> DEFINE able == {c \in Candidates : Eligible(proc, c)}
           y == [ses[s] EXCEPT !.cancelled = FALSE]
           t == [turn[s] EXCEPT !.at = "begin", !.ask = None, !.tried = {}]
           x(skill, builder) == CASE turn[s].ask = "skill" -> SkillBy(proc, y, skill)
                                  [] PhaseBegins(s) -> PhaseBy(y, builder)
                                  [] OTHER -> y
<1>1. Sound(ses[s], turn[s]) /\ Go(s, t) /\ UNCHANGED route
  BY DEF RoutingInv, Dispatch
<1>2. \E skill \in OrNone(able \cap SkillPool), builder \in OrNone(Builders(able)) :
        Put(s, x(skill, builder))
  BY Zenon DEF Dispatch
<1>3. SesTyped(y) /\ Alike(y, ses[s])
  BY <1>1 DEF Sound, SesTyped, SesFields, Alike
<1>4. t.at = "begin"
  BY <1>1 DEF Sound, TurnTyped, TurnFields
<1>5. able \in SUBSET Candidates
  OBVIOUS
<1> HIDE DEF y, t, able
<1>6. ASSUME NEW skill \in OrNone(able \cap SkillPool), NEW builder \in OrNone(Builders(able))
      PROVE  Alike(x(skill, builder), ses[s])
  <2>1. skill \in Choice /\ builder \in Choice
    BY <1>5, ChainsOfCandidates DEF OrNone, Choice
  <2>2. Alike(SkillBy(proc, y, skill), y) /\ Alike(PhaseBy(y, builder), y) /\ Alike(y, y)
    BY <1>3, <2>1, SkillFields, PhaseFields DEF Alike
  <2>3. x(skill, builder) \in {SkillBy(proc, y, skill), PhaseBy(y, builder), y}
    <3>1. CASE turn[s].ask = "skill"
      BY <3>1
    <3>2. CASE turn[s].ask # "skill" /\ PhaseBegins(s)
      BY <3>2
    <3>3. CASE turn[s].ask # "skill" /\ ~PhaseBegins(s)
      BY <3>3
    <3> QED
      BY <3>1, <3>2, <3>3
  <2> HIDE DEF x
  <2> QED
    BY <1>3, <2>2, <2>3 DEF Alike
<1> HIDE DEF x
<1>7. \E z : Put(s, z) /\ Alike(z, ses[s])
  BY <1>2, <1>6, Zenon
<1> QED
  BY <1>1, <1>4, <1>7, PinStays, FewerUngiven DEF Puts, Alike, Bare

LEMMA CancelRoutes ==
    ASSUME RoutingInv, RoutesInv, NEW s \in Sessions, Cancel(s) PROVE RoutesInv'
<1> DEFINE x == [ses[s] EXCEPT !.cancelled = TRUE]
<1>1. SesTyped(ses[s]) /\ Put(s, x) /\ UNCHANGED <<route, turn>>
  BY DEF RoutingInv, Sound, Cancel
<1>2. x.cand = ses[s].cand /\ x.sid = ses[s].sid
  BY <1>1 DEF SesTyped, SesFields
<1> HIDE DEF x
<1> QED
  BY <1>1, <1>2, PinStays, FewerUngiven DEF Puts

LEMMA ClassifiedRoutes ==
    ASSUME RoutingInv, RoutesInv, Ungiven, NEW s \in Sessions, NEW p, Classified(s, p)
    PROVE  RoutesInv'
<1> DEFINE x == [ses[s] EXCEPT !.profile = p]
           u == [turn[s] EXCEPT !.at = "dispatch", !.tried = {}, !.judge = None, !.jsid = 0,
                                !.repaired = FALSE]
<1>1. Sound(ses[s], turn[s]) /\ Put(s, x) /\ Go(s, u)
  BY DEF RoutingInv, Classified
<1>2. x.cand = ses[s].cand /\ x.sid = ses[s].sid
  BY <1>1 DEF Sound, SesTyped, SesFields
<1>3. u.at = "dispatch"
  BY <1>1 DEF Sound, TurnTyped, TurnFields
<1> HIDE DEF x, u
<1> QED
  BY <1>1, <1>2, <1>3, PinStays DEF Puts, Bare

LEMMA JudgeFailedRoutes ==
    ASSUME RoutingInv, RoutesInv, NEW s \in Sessions, NEW c, NEW class,
           JudgeFailed(s, c, class), UNCHANGED ses
    PROVE  RoutesInv'
<1> DEFINE u == [turn[s] EXCEPT !.at = "classify", !.judge = c, !.jsid = 0, !.repaired = TRUE]
<1>1. Sound(ses[s], turn[s])
  BY DEF RoutingInv
<1>2. Go(s, u) \/ Go(s, Tried(s, c))
  BY Zenon DEF JudgeFailed
<1>3. u.at = "classify" /\ Tried(s, c).at = "classify"
  BY <1>1 DEF Sound, TurnTyped, TurnFields, Tried
<1>4. \/ route' = RoutesWithout(route, AgentOf[c])
      \/ route' = Closed(route, JudgeKey(s))
      \/ route' = route
  BY Zenon DEF JudgeFailed
<1>5. Ungiven
  BY <1>4, FewerUngiven
<1> HIDE DEF u
<1> QED
  BY <1>2, <1>3, <1>5, TurnOnly DEF Bare

LEMMA JudgeRoutes ==
    ASSUME RoutingInv, RoutesInv, NEW s \in Sessions, NEW c, NEW how, Judge(s, c, how)
    PROVE  RoutesInv'
<1> DEFINE P == Readied(c, TRUE)
           u == [turn[s] EXCEPT !.at = "evaluate", !.judge = c, !.jsid = NewId(P, c)]
<1>1. Sound(ses[s], turn[s]) /\ UNCHANGED ses
  BY DEF RoutingInv, Judge
<1>2. \/ Go(s, u) /\ route' = Registered(route, P, c, None)
      \/ JudgeFailed(s, c, how)
  BY Zenon DEF Judge
<1>3. u.at = "evaluate"
  BY <1>1 DEF Sound, TurnTyped, TurnFields
<1> HIDE DEF u, P
<1>4. route' = Registered(route, P, c, None) => Ungiven
  BY RoutingAssumption DEF Ungiven, Registered
<1> QED
  BY <1>1, <1>2, <1>3, <1>4, TurnOnly, JudgeFailedRoutes DEF Bare

LEMMA VerdictRoutes ==
    ASSUME RoutingInv, RoutesInv, NEW s \in Sessions, NEW out, Verdict(s, out) PROVE RoutesInv'
<1>1. \/ (\E p \in Profiles : Classified(s, p)) /\ route' = Closed(route, JudgeKey(s))
      \/ JudgeFailed(s, turn[s].judge, out) /\ UNCHANGED ses
  BY Zenon DEF Verdict
<1> QED
  BY <1>1, ClassifiedRoutes, JudgeFailedRoutes, FewerUngiven

LEMMA FallbackRoutes ==
    ASSUME RoutingInv, RoutesInv, NEW s \in Sessions, Fallback(s) PROVE RoutesInv'
<1>1. (\E p \in Profiles : Classified(s, p)) /\ UNCHANGED route
  BY DEF Fallback
<1> QED
  BY <1>1, ClassifiedRoutes, FewerUngiven

LEMMA WithdrawRoutes ==
    ASSUME RoutingInv, RoutesInv, NEW s \in Sessions, Withdraw(s) PROVE RoutesInv'
<1>1. (route' = Closed(route, JudgeKey(s)) \/ route' = route) /\ UNCHANGED ses /\ Go(s, NoTurn)
  BY DEF Withdraw
<1> QED
  BY <1>1, TurnEndsRoutes, FewerUngiven

LEMMA BeginRoutes ==
    ASSUME RoutingInv, RoutesInv, NEW s \in Sessions, Begin(s) PROVE RoutesInv'
<1>1. Sound(ses[s], turn[s]) /\ Ungiven
  BY FewerUngiven DEF RoutingInv, Begin
<1>2. CASE ~Pinned(s)
  <2> DEFINE u == [turn[s] EXCEPT !.at = "plan", !.goal = "first"]
  <2>1. Go(s, u) /\ UNCHANGED ses
    BY <1>2, Zenon DEF Begin
  <2> HIDE DEF u
  <2> QED
    BY <1>1, <1>2, <2>1, PinStays DEF Puts, Pinned
<1>3. CASE Pinned(s)
  <2>1. PICK t \in OrNone(EscapeTargets(s)) :
          LET sw == Moves(s, t).sw
              go == sw.to # None /\ (sw.user \/ ~Blocked(s, sw.to))
          IN /\ Put(s, [ses[s] EXCEPT !.switch = NoSwitch, !.recover = Moves(s, t).recover])
             /\ Go(s, [turn[s] EXCEPT !.at = IF go THEN "switch" ELSE "send",
                                      !.sw = IF go THEN sw ELSE NoSwitch,
                                      !.why = "pending"])
    BY <1>3, Zenon DEF Begin
  <2> DEFINE sw == Moves(s, t).sw
             go == sw.to # None /\ (sw.user \/ ~Blocked(s, sw.to))
             at == IF go THEN "switch" ELSE "send"
             recover == Moves(s, t).recover
             x == [ses[s] EXCEPT !.switch = NoSwitch, !.recover = recover]
             u == [turn[s] EXCEPT !.at = at, !.sw = IF go THEN sw ELSE NoSwitch,
                                  !.why = "pending"]
  <2>2. Put(s, x) /\ Go(s, u)
    BY <2>1, Zenon
  <2>3. at \notin Bare
    BY DEF Bare
  <2> HIDE DEF at, recover, go, sw
  <2>4. x.cand = ses[s].cand /\ x.sid = ses[s].sid
    BY <1>1 DEF Sound, SesTyped, SesFields
  <2>5. u.at = at
    BY <1>1 DEF Sound, TurnTyped, TurnFields
  <2> HIDE DEF x, u
  <2> QED
    BY <1>1, <2>2, <2>3, <2>4, <2>5, PinStays DEF Puts
<1> QED
  BY <1>2, <1>3

LEMMA NotSwitchedAt ==
    ASSUME NEW s, TurnTyped(turn[s])
    PROVE  NotSwitched(s).at \notin Bare /\ Switched(s).at \notin Bare
  BY NotSwitchedFields, SwitchedFields, NoTurnFields DEF Bare

LEMMA SwitchRoutes ==
    ASSUME RoutingInv, RoutesInv, NEW s \in Sessions, Switch(s) PROVE RoutesInv'
<1>1. Sound(ses[s], turn[s]) /\ Ungiven
  BY FewerUngiven DEF RoutingInv, Switch
<1> DEFINE to == turn[s].sw.to
           x == [ses[s] EXCEPT !.recover = IF @ = to THEN None ELSE @]
           at == IF Serving(proc', ses[s].cand) /\ Routed(s) THEN "summary" ELSE "open"
           u == [turn[s] EXCEPT !.at = at]
<1>2. \/ Go(s, Switched(s)) /\ Put(s, x)
      \/ Go(s, u) /\ UNCHANGED ses
      \/ Go(s, NotSwitched(s)) /\ UNCHANGED ses
  BY Zenon DEF Switch
<1>3. x.cand = ses[s].cand /\ x.sid = ses[s].sid
  BY <1>1 DEF Sound, SesTyped, SesFields
<1>4. u.at \in {"summary", "open"}
  BY <1>1 DEF Sound, TurnTyped, TurnFields
<1> HIDE DEF x, u
<1>5. u.at \notin Bare /\ NotSwitched(s).at \notin Bare /\ Switched(s).at \notin Bare
  BY <1>1, <1>4, NotSwitchedAt DEF Sound, Bare
<1> QED
  BY <1>1, <1>2, <1>3, <1>5, PinStays, TurnOnly DEF Puts

LEMMA SummaryRoutes ==
    ASSUME RoutingInv, RoutesInv, NEW s \in Sessions, NEW out, Summary(s, out) PROVE RoutesInv'
<1> DEFINE u == [turn[s] EXCEPT !.at = "open"]
<1>1. Sound(ses[s], turn[s]) /\ UNCHANGED <<ses, route>> /\ Go(s, u)
  BY DEF RoutingInv, Summary
<1>2. u.at = "open"
  BY <1>1 DEF Sound, TurnTyped, TurnFields
<1> HIDE DEF u
<1> QED
  BY <1>1, <1>2, TurnOnly, FewerUngiven DEF Bare

\* The only step that may leave a route behind, when it cannot be saved.
LEMMA SwitchOpenRoutes ==
    ASSUME FALSE \notin Saves, RoutingInv, RoutesInv, NEW s \in Sessions, NEW how,
           SwitchOpen(s, how)
    PROVE  RoutesInv'
<1>1. Sound(ses[s], turn[s]) /\ turn[s].at = "open"
  BY DEF RoutingInv, SwitchOpen, At
<1> DEFINE to == turn[s].sw.to
           user == turn[s].sw.user
           P == Readied(to, how = "opened")
           x == [ses[s] EXCEPT !.cand = to, !.sid = NewId(P, to), !.told = FALSE,
                            !.picked = user, !.switch = NoSwitch, !.context = TRUE,
                            !.override = IF user THEN to ELSE @,
                            !.byUser = @ \/ user]
           u == [Switched(s) EXCEPT !.fresh = TRUE,
                    !.continuing = @ \/ (turn[s].why = "repair" /\ ses[s].partial # "none")]
<1>2. CASE how = "opened"
  <2>1. \E stored \in Saves :
          /\ Put(s, x)
          /\ stored => Go(s, u)
          /\ stored => route' = OldClosed(Registered(route, P, to, s), s, P, to)
    BY <1>2, Zenon DEF SwitchOpen
  <2>2. \A stored \in Saves : stored = TRUE
    BY RoutingAssumption
  <2>3. Put(s, x) /\ Go(s, u)
        /\ route' = OldClosed(Registered(route, P, to, s), s, P, to)
    <3> HIDE DEF x, u, P, to
    <3> QED
      BY <2>1, <2>2, Zenon
  <2>4. x.cand = to /\ x.sid = NewId(P, to)
    BY <1>1 DEF Sound, SesTyped, SesFields
  <2>5. DOMAIN Switched(s) = TurnFields /\ Switched(s).at = "send"
    BY <1>1, SwitchedFields DEF Sound, Keeps
  <2>6. u.at = "send"
    BY <2>5 DEF TurnFields
  <2>7. to # None
    BY <1>1 DEF Sound, PinOK, Moving
  <2> HIDE DEF x, u, P, to
  <2>8. ASSUME NEW r \in route'
        PROVE  /\ r[3] = s => <<r[1], r[2]>> = <<AgentOf[x.cand], x.sid>>
               /\ r[3] \in Sessions \ {s} => r \in route
    <3>1. r \in Registered(route, P, to, s)
      BY <2>3 DEF OldClosed, Closed
    <3>2. CASE r = <<AgentOf[to], NewId(P, to), s>>
      BY <2>4, <3>2
    <3>3. CASE r \in route /\ r[3] = s
      <4>1. <<r[1], r[2]>> = PinKey(s)
        BY <3>3 DEF RoutesInv
      <4>2. PinKey(s) = NewKey(P, to) \/ r \in Closed(Registered(route, P, to, s), PinKey(s))
        BY <2>3 DEF OldClosed
      <4>3. PinKey(s) = <<AgentOf[to], NewId(P, to)>>
        BY <4>1, <4>2 DEF Closed, NewKey
      <4> QED
        BY <2>4, <3>3, <4>1, <4>3
    <3>4. CASE r \in route /\ r[3] # s
      BY <3>4
    <3> QED
      BY <3>1, <3>2, <3>3, <3>4 DEF Registered
  <2> QED
    BY <2>3, <2>4, <2>6, <2>7, <2>8, NewPin DEF Puts, Bare
<1>3. CASE how # "opened"
  <2>1. Go(s, NotSwitched(s)) /\ UNCHANGED <<route, ses>>
    BY <1>3, Zenon DEF SwitchOpen
  <2> QED
    BY <1>1, <2>1, NotSwitchedAt, TurnOnly, FewerUngiven DEF Sound
<1> QED
  BY <1>2, <1>3

LEMMA SendRoutes ==
    ASSUME RoutingInv, RoutesInv, NEW s \in Sessions, Send(s) PROVE RoutesInv'
<1> DEFINE x == [ses[s] EXCEPT !.context = FALSE, !.esc = None, !.partial = "none",
                               !.told = @ \/ (~Refused(s) /\ Told(s))]
           u == [turn[s] EXCEPT !.at = IF Refused(s) THEN "settle" ELSE "running",
                     !.attempt = @ + 1, !.refused = Refused(s), !.failed = None,
                     !.goal = "first", !.why = "pending",
                     !.out = IF Refused(s) THEN RefusalClass(ses[s].cand) ELSE "ok"]
<1>1. Sound(ses[s], turn[s]) /\ UNCHANGED route /\ Put(s, x) /\ Go(s, u)
  BY DEF RoutingInv, Send
<1>2. x.cand = ses[s].cand /\ x.sid = ses[s].sid
  BY <1>1 DEF Sound, SesTyped, SesFields
<1>3. u.at \in {"settle", "running"}
  BY <1>1 DEF Sound, TurnTyped, TurnFields
<1> HIDE DEF x, u
<1> QED
  BY <1>1, <1>2, <1>3, PinStays, FewerUngiven DEF Puts, Bare

LEMMA PartialRoutes ==
    ASSUME RoutingInv, RoutesInv, NEW s \in Sessions, NEW kind,
           Put(s, [ses[s] EXCEPT !.partial = kind]), UNCHANGED <<turn, route>>
    PROVE  RoutesInv'
<1> DEFINE x == [ses[s] EXCEPT !.partial = kind]
<1>1. SesTyped(ses[s]) /\ Put(s, x)
  BY DEF RoutingInv, Sound
<1>2. x.cand = ses[s].cand /\ x.sid = ses[s].sid
  BY <1>1 DEF SesTyped, SesFields
<1> HIDE DEF x
<1> QED
  BY <1>1, <1>2, PinStays, FewerUngiven DEF Puts

LEMMA EscalateRoutes ==
    ASSUME RoutingInv, RoutesInv, NEW s \in Sessions, NEW c, Escalate(s, c) PROVE RoutesInv'
<1> DEFINE x == [ses[s] EXCEPT !.esc = c]
<1>1. SesTyped(ses[s]) /\ Put(s, x) /\ UNCHANGED <<turn, route>>
  BY DEF RoutingInv, Sound, Escalate
<1>2. x.cand = ses[s].cand /\ x.sid = ses[s].sid
  BY <1>1 DEF SesTyped, SesFields
<1> HIDE DEF x
<1> QED
  BY <1>1, <1>2, PinStays, FewerUngiven DEF Puts

LEMMA ReplyRoutes ==
    ASSUME RoutingInv, RoutesInv, NEW s \in Sessions, NEW out, Reply(s, out) PROVE RoutesInv'
<1> DEFINE u == [turn[s] EXCEPT !.at = "settle", !.out = out]
<1>1. Sound(ses[s], turn[s]) /\ UNCHANGED <<ses, route>> /\ Go(s, u)
  BY DEF RoutingInv, Reply
<1>2. u.at = "settle"
  BY <1>1 DEF Sound, TurnTyped, TurnFields
<1> HIDE DEF u
<1> QED
  BY <1>1, <1>2, TurnOnly, FewerUngiven DEF Bare

LEMMA WatchRoutes ==
    ASSUME RoutingInv, RoutesInv, NEW s \in Sessions, Watch(s) PROVE RoutesInv'
<1> DEFINE u == [turn[s] EXCEPT !.at = "settle", !.refused = ~ses[s].cancelled,
                    !.out = IF ses[s].cancelled THEN "ok" ELSE RefusalClass(ses[s].cand)]
<1>1. Sound(ses[s], turn[s]) /\ UNCHANGED <<ses, route>> /\ Go(s, u)
  BY DEF RoutingInv, Watch
<1>2. u.at = "settle"
  BY <1>1 DEF Sound, TurnTyped, TurnFields
<1> HIDE DEF u
<1> QED
  BY <1>1, <1>2, TurnOnly, FewerUngiven DEF Bare

LEMMA SettleEscalationRoutes ==
    ASSUME RoutingInv, RoutesInv, NEW s \in Sessions, SettleEscalation(s) PROVE RoutesInv'
<1> DEFINE x == [ses[s] EXCEPT !.esc = None, !.escalations = @ + 1,
                               !.history = @ /\ turn[s].out # "ok",
                               !.elevated = TRUE, !.skill = FALSE]
           u == [turn[s] EXCEPT !.at = "switch", !.why = "escalation",
                                !.sw = [to |-> ses[s].esc, user |-> FALSE]]
<1>1. Sound(ses[s], turn[s]) /\ UNCHANGED route /\ Put(s, x) /\ Go(s, u)
  BY DEF RoutingInv, SettleEscalation
<1>2. x.cand = ses[s].cand /\ x.sid = ses[s].sid
  BY <1>1 DEF Sound, SesTyped, SesFields
<1>3. u.at = "switch"
  BY <1>1 DEF Sound, TurnTyped, TurnFields
<1> HIDE DEF x, u
<1> QED
  BY <1>1, <1>2, <1>3, PinStays, FewerUngiven DEF Puts, Bare

LEMMA SettleAnswerRoutes ==
    ASSUME RoutingInv, RoutesInv, NEW s \in Sessions, SettleAnswer(s) PROVE RoutesInv'
<1> DEFINE x(c) == [ses[s] EXCEPT !.prior = TRUE, !.history = FALSE,
                !.switch = IF c = None THEN @ ELSE [to |-> c, user |-> FALSE],
                !.elevated = IF c \in Demoted(s) THEN FALSE ELSE @ \/ c # None,
                !.skill = @ /\ c = None]
           u == [turn[s] EXCEPT !.at = "background"]
<1>1. /\ Sound(ses[s], turn[s]) /\ UNCHANGED route /\ (Go(s, NoTurn) \/ Go(s, u))
      /\ \E c \in Demoted(s) \cup Upgraded(s) \cup {None} : Put(s, x(c))
  BY DEF RoutingInv, SettleAnswer
<1>2. ASSUME NEW c PROVE x(c).cand = ses[s].cand /\ x(c).sid = ses[s].sid
  BY <1>1 DEF Sound, SesTyped, SesFields
<1>3. u.at = "background" /\ NoTurn.at = "idle"
  BY <1>1, NoTurnFields DEF Sound, TurnTyped, TurnFields
<1> HIDE DEF x, u
<1> QED
  BY <1>1, <1>2, <1>3, PinStays, FewerUngiven DEF Puts, Bare

LEMMA BackgroundRoutes ==
    ASSUME RoutingInv, RoutesInv, NEW s \in Sessions, Background(s) PROVE RoutesInv'
<1> DEFINE u == [turn[s] EXCEPT !.at = "send", !.attempt = 0, !.continuing = FALSE,
                                !.asked = None]
<1>1. Sound(ses[s], turn[s]) /\ UNCHANGED <<ses, route>> /\ (Go(s, NoTurn) \/ Go(s, u))
  BY DEF RoutingInv, Background
<1>2. u.at = "send"
  BY <1>1 DEF Sound, TurnTyped, TurnFields
<1> HIDE DEF u
<1> QED
  BY <1>1, <1>2, TurnOnly, TurnEndsRoutes, FewerUngiven DEF Bare

LEMMA SettleRepairRoutes ==
    ASSUME RoutingInv, RoutesInv, NEW s \in Sessions, SettleRepair(s) PROVE RoutesInv'
<1> DEFINE u == [turn[s] EXCEPT !.at = "switch", !.why = "repair", !.repaired = TRUE,
                     !.sw = [to |-> ses[s].cand, user |-> ses[s].picked]]
<1>1. /\ Sound(ses[s], turn[s]) /\ UNCHANGED ses /\ Go(s, u)
      /\ route' = RoutesWithout(route, AgentOf[ses[s].cand])
  BY DEF RoutingInv, SettleRepair
<1>2. u.at = "switch"
  BY <1>1 DEF Sound, TurnTyped, TurnFields
<1> HIDE DEF u
<1> QED
  BY <1>1, <1>2, TurnOnly, FewerUngiven DEF Bare

LEMMA SettleFailureRoutes ==
    ASSUME RoutingInv, RoutesInv, NEW s \in Sessions, SettleFailure(s) PROVE RoutesInv'
<1>1. \/ /\ (\E x : Put(s, x)) /\ (\E t : Go(s, t))
         /\ route' = Closed(route, PinKey(s))
      \/ Go(s, NoTurn) /\ UNCHANGED <<ses, route>>
  BY Zenon DEF SettleFailure
<1>2. ASSUME route' = Closed(route, PinKey(s)) PROVE \A r \in route' : r[3] # s
  BY <1>2 DEF Closed, RoutesInv
<1> QED
  BY <1>1, <1>2, Routeless, TurnEndsRoutes, FewerUngiven DEF Puts

LEMMA PlanRoutes ==
    ASSUME RoutingInv, RoutesInv, NEW s \in Sessions, Plan(s) PROVE RoutesInv'
<1>1. turn[s].at \in Bare /\ UNCHANGED <<ses, route>>
  BY DEF Plan, At, Bare
<1>2. \E t : Go(s, t)
  BY Zenon DEF Plan
<1> QED
  BY <1>1, <1>2, TurnOnly, FewerUngiven

LEMMA WalkRoutes ==
    ASSUME RoutingInv, RoutesInv, NEW s \in Sessions, Walk(s) PROVE RoutesInv'
<1> DEFINE c == Head(turn[s].chain)
           P == Readied(c, TRUE)
           x == [ses[s] EXCEPT !.cand = c, !.sid = NewId(P, c), !.told = FALSE,
                               !.picked = (c = turn[s].named)]
           u == [turn[s] EXCEPT !.at = "pinned", !.chain = <<>>, !.named = None, !.fresh = TRUE]
<1>1. /\ Sound(ses[s], turn[s]) /\ turn[s].at = "walk"
      /\ Put(s, x) /\ Go(s, u) /\ route' = Registered(route, P, c, s)
  BY DEF RoutingInv, Walk, At
<1>2. c # None
  BY <1>1, HeadTailProperties, RoutingAssumption DEF Sound, PinOK, TurnTyped
<1>3. x.cand = c /\ x.sid = NewId(P, c)
  BY <1>1 DEF Sound, SesTyped, SesFields
<1>4. u.at = "pinned"
  BY <1>1 DEF Sound, TurnTyped, TurnFields
<1> HIDE DEF c, P, x, u
<1>5. \A r \in route : r[3] # s
  BY <1>1 DEF RoutesInv, Bare
<1>6. /\ \A r \in route' : r[3] = s => <<r[1], r[2]>> = <<AgentOf[x.cand], x.sid>>
      /\ \A r \in route' : r[3] \in Sessions \ {s} => r \in route
  BY <1>1, <1>3, <1>5 DEF Registered
<1> QED
  BY <1>1, <1>2, <1>3, <1>4, <1>6, NewPin DEF Puts, Bare

LEMMA PinDoneRoutes ==
    ASSUME FALSE \notin Saves, RoutingInv, RoutesInv, NEW s \in Sessions, PinDone(s)
    PROVE  RoutesInv'
<1> DEFINE u == [turn[s] EXCEPT !.at = "begin"]
           w == [turn[s] EXCEPT !.at = "send"]
<1>1. Sound(ses[s], turn[s]) /\ UNCHANGED <<ses, route>>
  BY DEF RoutingInv, PinDone
<1>2. Go(s, AfterPin(s, TRUE))
  <2>1. \E stored \in Saves : Go(s, AfterPin(s, stored))
    BY Zenon DEF PinDone
  <2> QED
    BY <2>1, RoutingAssumption
<1>3. u.at = "begin" /\ w.at = "send" /\ NoTurn.at = "idle"
  BY <1>1, NoTurnFields DEF Sound, TurnTyped, TurnFields
<1>4. AfterPin(s, TRUE) \in {NoTurn, u, w}
  <2>1. CASE ses[s].cancelled
    BY <2>1 DEF AfterPin
  <2>2. CASE ~ses[s].cancelled /\ turn[s].goal = "first"
    BY <2>2 DEF AfterPin
  <2>3. CASE ~ses[s].cancelled /\ turn[s].goal # "first"
    BY <2>3 DEF AfterPin
  <2> QED
    BY <2>1, <2>2, <2>3
<1> HIDE DEF u, w
<1> QED
  BY <1>1, <1>2, <1>3, <1>4, TurnOnly, FewerUngiven DEF Bare

LEMMA WalkFailedRoutes ==
    ASSUME RoutingInv, RoutesInv, NEW s \in Sessions, NEW how, WalkFailed(s, how)
    PROVE  RoutesInv'
<1>1. turn[s].at \in Bare /\ UNCHANGED <<ses, route>>
  BY DEF WalkFailed, At, Bare
<1>2. \E t : Go(s, t)
  BY Zenon DEF WalkFailed
<1> QED
  BY <1>1, <1>2, TurnOnly, FewerUngiven

LEMMA WaitRoutes ==
    ASSUME RoutingInv, RoutesInv, NEW s \in Sessions, Wait(s) PROVE RoutesInv'
<1>1. turn[s].at \in Bare /\ UNCHANGED <<ses, route>>
  BY DEF Wait, At, Bare
<1>2. \E t : Go(s, t)
  BY Zenon DEF Wait
<1> QED
  BY <1>1, <1>2, TurnOnly, FewerUngiven

\* A session that is created, closed or loaded has no route.

LEMMA LifeRoutes ==
    ASSUME RoutingInv, RoutesInv, NEW s \in Sessions, Create(s) \/ Close(s) \/ Load(s)
    PROVE  RoutesInv'
<1>1. (\E x : Put(s, x)) /\ (\E t : Go(s, t))
  BY DEF Create, Close, Load
<1>2. CASE Create(s) \/ Load(s)
  <2>1. ses[s].cand = None /\ UNCHANGED route
    BY <1>2 DEF Create, Load, At, RoutingInv, Sound, PinOK
  <2> QED
    BY <1>1, <2>1, NoPinNoRoute, Routeless, FewerUngiven DEF Puts
<1>3. CASE Close(s)
  <2>1. CASE Pinned(s)
    <3>1. route' = Closed(route, PinKey(s))
      BY <1>3, <2>1 DEF Close
    <3>2. \A r \in route' : r[3] # s
      BY <3>1 DEF Closed, RoutesInv
    <3> QED
      BY <1>1, <3>1, <3>2, Routeless, FewerUngiven DEF Puts
  <2>2. CASE ~Pinned(s)
    <3>1. ses[s].cand = None /\ UNCHANGED route
      BY <1>3, <2>2 DEF Close, Pinned
    <3> QED
      BY <1>1, <3>1, NoPinNoRoute, Routeless, FewerUngiven DEF Puts
  <2> QED
    BY <2>1, <2>2
<1> QED
  BY <1>2, <1>3

\* The environment gives no session a route.

LEMMA DieRoutes == ASSUME RoutingInv, RoutesInv, NEW a, Die(a) PROVE RoutesInv'
<1> DEFINE u(s) == [turn[s] EXCEPT !.at = "settle", !.out = "adapter"]
<1>1. UNCHANGED ses /\ route' \subseteq route
  BY DEF Die, RoutesWithout
<1>2. ASSUME NEW s \in Sessions PROVE turn'[s].at \in Bare => turn[s].at \in Bare
  <2>1. \/ turn'[s] = u(s)
        \/ turn'[s] = Tried(s, turn[s].judge)
        \/ turn'[s] = turn[s]
    BY DEF Die, At
  <2>2. TurnTyped(turn[s])
    BY DEF RoutingInv, Sound
  <2>3. u(s).at = "settle" /\ Tried(s, turn[s].judge).at = "classify"
    BY <2>2 DEF TurnTyped, TurnFields, Tried
  <2> HIDE DEF u
  <2> QED
    BY <2>1, <2>3 DEF Bare
<1> QED
  BY <1>1, <1>2 DEF RoutesInv, Pinned, PinKey

LEMMA LateOpenRoutes ==
    ASSUME RoutingInv, RoutesInv, NEW a, NEW s, LateOpen(a, s) PROVE RoutesInv'
<1>1. UNCHANGED <<ses, turn>> /\ route' = LateRoutes(a, s)
  BY DEF LateOpen
<1>2. \A r \in route' : r[3] \in Sessions => r \in route
  BY <1>1, RoutingAssumption DEF LateRoutes
<1> QED
  BY <1>1, <1>2 DEF RoutesInv, Pinned, PinKey

\* Every step of the specification keeps the routes.
LEMMA RoutesStep ==
    ASSUME FALSE \notin Saves, RoutingInv, RoutesInv, [Next]_vars
    PROVE  RoutesInv'
<1>1. CASE UNCHANGED vars
  BY <1>1 DEF vars, RoutesInv, Pinned, PinKey
<1>2. ASSUME NEW s \in Sessions, Steps(s) PROVE RoutesInv'
  <2>1. /\ Begin(s) \/ Switch(s) \/ Send(s) \/ Watch(s) => RoutesInv'
        /\ Summary(s, "ok") \/ SwitchOpen(s, "opened") => RoutesInv'
    BY BeginRoutes, SwitchRoutes, SendRoutes, WatchRoutes, SummaryRoutes, SwitchOpenRoutes
  <2>2. SettleCancelled(s) \/ WalkCancelled(s) => RoutesInv'
    BY TurnEndsRoutes, FewerUngiven DEF SettleCancelled, WalkCancelled
  <2>3. /\ SettleEscalation(s) \/ SettleAnswer(s) => RoutesInv'
        /\ SettleRepair(s) \/ SettleFailure(s) \/ Background(s) => RoutesInv'
    BY SettleEscalationRoutes, SettleAnswerRoutes, SettleRepairRoutes, SettleFailureRoutes,
       BackgroundRoutes
  <2>4. Plan(s) \/ Walk(s) \/ PinDone(s) \/ Wait(s) => RoutesInv'
    BY PlanRoutes, WalkRoutes, PinDoneRoutes, WaitRoutes
  <2>5. /\ (\E c \in Candidates : Judge(s, c, "opened")) => RoutesInv'
        /\ Verdict(s, "ok") \/ Fallback(s) \/ Dispatch(s) => RoutesInv'
    BY JudgeRoutes, VerdictRoutes, FallbackRoutes, DispatchRoutes
  <2> QED
    BY <1>2, <2>1, <2>2, <2>3, <2>4, <2>5, Zenon DEF Steps
<1>3. ASSUME NEW s \in Sessions PROVE Create(s) \/ Close(s) \/ Load(s) \/ Cancel(s) => RoutesInv'
  BY LifeRoutes, CancelRoutes
<1>4. ASSUME NEW s \in Sessions, NEW ask, Prompt(s, ask) PROVE RoutesInv'
  BY <1>4, PromptRoutes
<1>5. ASSUME NEW s \in Sessions, NEW c \in Choices, Choose(s, c) PROVE RoutesInv'
  BY <1>5, ChooseRoutes
<1>6. ASSUME NEW s \in Sessions, NEW out
      PROVE  Summary(s, out) \/ SwitchOpen(s, out) \/ Verdict(s, out) \/ Reply(s, out)
                \/ WalkFailed(s, out) => RoutesInv'
  BY SummaryRoutes, SwitchOpenRoutes, VerdictRoutes, ReplyRoutes, WalkFailedRoutes
<1>7. ASSUME NEW s \in Sessions, NEW c \in Candidates, NEW how
      PROVE  Judge(s, c, how) \/ Escalate(s, c) => RoutesInv'
  BY JudgeRoutes, EscalateRoutes
<1>8. ASSUME NEW s \in Sessions, NEW kind
      PROVE  Withdraw(s) \/ Output(s, kind) \/ Callback(s) => RoutesInv'
  BY WithdrawRoutes, PartialRoutes DEF Output, Callback, Shown
<1>9. ASSUME NEW a, NEW s PROVE LateOpen(a, s) => RoutesInv'
  BY LateOpenRoutes
<1>10. ASSUME NEW c, NEW why PROVE Bar(c, why) \/ Lift(c, why) => RoutesInv'
  BY DEF Bar, Lift, RoutesInv, Pinned, PinKey
<1>11. (\E a \in Agents : Die(a)) \/ Crash => RoutesInv'
  BY DieRoutes DEF Crash, RoutesInv
<1> QED
  BY <1>1, <1>2, <1>3, <1>4, <1>5, <1>6, <1>7, <1>8, <1>9, <1>10, <1>11, Zenon DEF Next

\* Between prompts a session holds no adapter session but its pin: what a switch
\* left, what a failover abandoned and what opened too late is closed.  A switch
\* whose state could not be saved is the one exception of switch_pin: it returns
\* before the old session's end.
THEOREM NothingLeaks ==
    ASSUME FALSE \notin Saves
    PROVE  Spec => []NoLeak
<1>1. Init => RoutesInv
  BY DEF Init, RoutesInv
<1>2. RoutingInv /\ RoutesInv /\ [Next]_vars => RoutesInv'
  BY RoutesStep
<1>3. RoutesInv => NoLeak
  BY DEF RoutesInv, NoLeak
<1> QED
  BY <1>1, <1>2, <1>3, RoutingInvariant, PTL DEF Spec

-----------------------------------------------------------------------------
(* The strongest of some models *)

\* Of finitely many models one is strongest.
LEMMA Largest ==
    ASSUME NEW M, NEW f \in [M -> Nat], NEW S \in SUBSET M, S # {}, IsFiniteSet(S)
    PROVE  \E m \in S : \A n \in S : f[n] <= f[m]
  <1> DEFINE T == {f[x] : x \in S}
  <1>1. T \in SUBSET Int /\ T # {}
    OBVIOUS
  <1>2. IsFiniteSet(T)
    BY ValuesFinite
  <1>3. PICK t \in T : \A u \in T : t >= u
    <2> HIDE DEF T
    <2> QED BY <1>1, <1>2, Extremes
  <1>4. PICK m \in S : t = f[m]
    OBVIOUS
  <1> QED
    BY <1>3, <1>4

-----------------------------------------------------------------------------
(* Types of the seat *)

\* Once a poll is served, it installs what the snapshot measures.
LEMMA ServedTypes ==
    ASSUME NEW s \in Snapshots
    PROVE  Served(s) \in PollRecords /\ Idle \in PollRecords /\ NoSnapshot \in Snapshots
  <1>1. NoSnapshot \in Snapshots
    BY UsageAssumption DEF NoSnapshot, Snapshots, Logins, Accounts
  <1>2. Idle \in PollRecords
    BY <1>1 DEF Idle, PollRecords, Places, Logins, Accounts
  <1>3. s.measure \in SUBSET Measures
    BY DEF Snapshots
  <1> QED
    BY <1>1, <1>2, <1>3 DEF Served, PollRecords, Places

\* What the outcome of a fetch leaves in the snapshot.
LEMMA OutcomeTypes ==
    ASSUME NEW s \in Snapshots, NEW l \in Logins, NEW m \in Measures
    PROVE  OnSuccess(l, m) \in Snapshots /\ OnFailure(s, l) \in Snapshots
  <1>1. OnSuccess(l, m) \in Snapshots
    BY UsageAssumption DEF OnSuccess, Snapshots
  <1>2. [s EXCEPT !.login = l, !.age = 0, !.fails = IF @ < MAX_BACKOFF THEN @ + 1 ELSE @]
          \in Snapshots
    <2>1. ASSUME NEW f \in Nat
          PROVE  [s EXCEPT !.login = l, !.age = 0, !.fails = f] \in Snapshots
      <3>1. 0 \in 0..MAX_BACKOFF
        BY UsageAssumption
      <3> QED BY <3>1 DEF Snapshots
    <2>2. (IF s.fails < MAX_BACKOFF THEN s.fails + 1 ELSE s.fails) \in Nat
      BY UsageAssumption DEF Snapshots
    <2> QED BY <2>1, <2>2
  <1>3. [NoSnapshot EXCEPT !.some = TRUE, !.login = l, !.fails = 1] \in Snapshots
    BY ServedTypes DEF Snapshots
  <1> QED
    BY <1>1, <1>2, <1>3 DEF OnFailure

\* An answered fetch that succeeded holds the one measure it got.
AnswerHeld ==
    \A p \in Polls : poll[p].at = "answered" /\ poll[p].fresh => \E m \in Measures : poll[p].got = {m}

SeatTypes == SeatTypeOK /\ AnswerHeld

\* A step that writes one poll, with the record it writes.
LEMMA PutPoll ==
    ASSUME SeatTypes, NEW p \in Polls, NEW c \in PollRecords, poll' = [poll EXCEPT ![p] = c],
           c.at = "answered" /\ c.fresh => \E m \in Measures : c.got = {m}
    PROVE  poll' \in [Polls -> PollRecords] /\ AnswerHeld'
  BY DEF SeatTypes, SeatTypeOK, AnswerHeld

\* One step of a poll.
LEMMA PollTypes ==
    ASSUME SeatTypes, NEW p \in Polls,
           PollReads(p) \/ PollStep(p) \/ (\E denied \in BOOLEAN : FetchFails(p, denied))
    PROVE  SeatTypes'
  <1> DEFINE c == poll[p]
  <1>1. c \in PollRecords /\ snap \in Snapshots /\ login \in Logins /\ lock \in [by : SUBSET Polls, stale : BOOLEAN]
    BY DEF SeatTypes, SeatTypeOK
  <1>2. c.saw \in Snapshots /\ c.req \in Logins /\ c.got \in SUBSET Measures
    BY <1>1 DEF PollRecords
  <1>3. Unlocked(p) \in [by : SUBSET Polls, stale : BOOLEAN]
    BY <1>1 DEF Unlocked
  <1>4. ASSUME NEW place \in Places \ {"answered"}, MoveTo(p, place)
        PROVE  poll' \in [Polls -> PollRecords] /\ AnswerHeld'
    <2>1. [c EXCEPT !.at = place] \in PollRecords /\ poll' = [poll EXCEPT ![p] = [c EXCEPT !.at = place]]
      BY <1>1, <1>4 DEF PollRecords, MoveTo, SeatTypes, SeatTypeOK
    <2>2. [c EXCEPT !.at = place].at = place
      BY <1>1 DEF PollRecords
    <2> QED BY <2>1, <2>2, PutPoll
  <1>5. ASSUME NEW s \in Snapshots, Serve(p, s)
        PROVE  poll' \in [Polls -> PollRecords] /\ AnswerHeld'
    <2>1. Served(s) \in PollRecords /\ Served(s).at # "answered"
      BY ServedTypes DEF Served, Idle
    <2> QED BY <2>1, <1>5, PutPoll DEF Serve
  <1>6. ASSUME Took(p)
        PROVE  poll' \in [Polls -> PollRecords] /\ AnswerHeld' /\ lock' \in [by : SUBSET Polls, stale : BOOLEAN]
    BY <1>6, <1>4 DEF Took, Places
  <1>7. ASSUME Contended(p)
        PROVE  poll' \in [Polls -> PollRecords] /\ AnswerHeld'
    BY <1>7, <1>5, <1>2, ServedTypes DEF Contended
  <1>8. CASE PollReads(p)
    <2>1. [Idle EXCEPT !.at = "lock", !.req = login, !.saw = snap] \in PollRecords
      BY <1>1, ServedTypes DEF PollRecords, Places
    <2>2. CASE ShouldFetch(snap, login)
      BY <2>1, <2>2, <1>8, <1>1, PutPoll DEF PollReads, SeatTypes, SeatTypeOK, Idle
    <2>3. CASE ~ShouldFetch(snap, login)
      BY <2>3, <1>8, <1>1, <1>5 DEF PollReads, SeatTypes, SeatTypeOK, Serve
    <2> QED BY <2>2, <2>3
  <1>9. CASE TryLock(p)
    BY <1>9, <1>4, <1>6, <1>7 DEF TryLock, SeatTypes, SeatTypeOK, Places
  <1>10. CASE BreakLock(p)
    <2>1. poll' \in [Polls -> PollRecords] /\ AnswerHeld'
      BY <1>10, <1>4 DEF BreakLock, Places
    <2>2. contested' \in BOOLEAN
      BY <1>10 DEF BreakLock, SeatTypes, SeatTypeOK
    <2> QED BY <1>10, <2>1, <2>2 DEF BreakLock, SeatTypes, SeatTypeOK
  <1>11. CASE RetryLock(p)
    BY <1>11, <1>6, <1>7 DEF RetryLock, SeatTypes, SeatTypeOK
  <1>12. CASE UnderLock(p)
    <2>1. [c EXCEPT !.at = "fetching", !.req = login, !.saw = snap] \in PollRecords
      BY <1>1 DEF PollRecords, Places
    <2>2. CASE ShouldFetch(snap, login)
      BY <2>1, <2>2, <1>12, <1>1, PutPoll DEF UnderLock, Reread, SeatTypes, SeatTypeOK, PollRecords
    <2>3. CASE ~ShouldFetch(snap, login)
      BY <2>3, <1>12, <1>1, <1>5, <1>3 DEF UnderLock, Reread, SeatTypes, SeatTypeOK
    <2> QED BY <2>2, <2>3
  <1>13. CASE Answer(p)
    <2>1. seat[c.req.acct] \in Measures
      BY <1>2 DEF SeatTypes, SeatTypeOK, Logins
    <2>2. [c EXCEPT !.at = "answered", !.got = {seat[c.req.acct]}, !.fresh = TRUE] \in PollRecords
      BY <1>1, <2>1 DEF PollRecords, Places
    <2> QED
      BY <2>1, <2>2, <1>13, <1>1, PutPoll DEF Answer, SeatTypes, SeatTypeOK, PollRecords
  <1>14. ASSUME NEW denied \in BOOLEAN, FetchFails(p, denied)
         PROVE  SeatTypes'
    <2>1. [c EXCEPT !.req = login, !.again = TRUE] \in PollRecords
      BY <1>1 DEF PollRecords
    <2>2. [c EXCEPT !.at = "answered", !.got = {}, !.fresh = FALSE] \in PollRecords
      BY <1>1 DEF PollRecords, Places
    <2>3. CASE denied /\ login # c.req /\ ~c.again
      <3>1. poll' = [poll EXCEPT ![p] = [c EXCEPT !.req = login, !.again = TRUE]]
        BY <2>3, <1>14 DEF FetchFails, SeatTypes, SeatTypeOK
      <3>2. [c EXCEPT !.req = login, !.again = TRUE].at = "fetching"
        BY <1>1, <1>14 DEF FetchFails, PollRecords
      <3>3. poll' \in [Polls -> PollRecords] /\ AnswerHeld'
        BY <3>1, <3>2, <2>1, PutPoll
      <3> QED BY <3>3, <1>14 DEF FetchFails, SeatTypes, SeatTypeOK
    <2>4. CASE ~(denied /\ login # c.req /\ ~c.again)
      <3>1. poll' = [poll EXCEPT ![p] = [c EXCEPT !.at = "answered", !.got = {}, !.fresh = FALSE]]
        BY <2>4, <1>14 DEF FetchFails, SeatTypes, SeatTypeOK
      <3> QED BY <3>1, <2>2, <1>14, <1>1, PutPoll DEF FetchFails, SeatTypes, SeatTypeOK, PollRecords
    <2> QED BY <2>3, <2>4
  <1>15. CASE WriteSnapshot(p)
    <2> DEFINE s == IF c.fresh THEN OnSuccess(c.req, CHOOSE m \in c.got : TRUE) ELSE OnFailure(c.saw, c.req)
    <2>1. ASSUME c.fresh
          PROVE  s \in Snapshots
      <3>1. (CHOOSE m \in c.got : TRUE) \in Measures
        BY <1>15, <2>1 DEF SeatTypes, AnswerHeld, WriteSnapshot
      <3> QED BY <3>1, <2>1, <1>2, OutcomeTypes
    <2>2. ASSUME ~c.fresh
          PROVE  s \in Snapshots
      <3>1. [level |-> "free", stamp |-> 0, window |-> 0] \in Measures
        BY DEF Measures, Levels
      <3> QED BY <3>1, <2>2, <1>2, OutcomeTypes
    <2>3. s \in Snapshots
      BY <2>1, <2>2
    <2> HIDE DEF s
    <2>4. snap' = s /\ Serve(p, s) /\ lock' = Unlocked(p)
          /\ UNCHANGED <<seat, login, alive, known, hint, paid, left, contested>>
      BY <1>15 DEF WriteSnapshot, s
    <2> QED BY <2>3, <2>4, <1>3, <1>5 DEF SeatTypes, SeatTypeOK
  <1>16. CASE Install(p)
    <2>1. Idle \in PollRecords /\ Idle.at # "answered"
      BY <1>1, ServedTypes DEF Idle
    <2> QED BY <2>1, <1>16, PutPoll DEF Install, SeatTypes, SeatTypeOK
  <1> QED
    BY <1>8, <1>9, <1>10, <1>11, <1>12, <1>13, <1>14, <1>15, <1>16 DEF PollStep

\* What is not a poll: time, work, logins, deaths and hints.
EnvironmentStep ==
    \/ Tick
    \/ \E l \in Levels : UseSeat(l)
    \/ \E swap \in BOOLEAN : ChangeLogin(swap)
    \/ \E r \in Routers : RouterDies(r) \/ Hint(r) \/ HintExpires(r)

LEMMA EnvironmentTypes ==
    ASSUME SeatTypes, EnvironmentStep
    PROVE  SeatTypes'
  <1>1. CASE Tick
    <2>1. [snap EXCEPT !.age = IF snap.some /\ @ < MAX_BACKOFF THEN @ + 1 ELSE @] \in Snapshots
      <3>1. ASSUME NEW n \in 0..MAX_BACKOFF
            PROVE  [snap EXCEPT !.age = n] \in Snapshots
        BY DEF SeatTypes, SeatTypeOK, Snapshots
      <3>2. (IF snap.some /\ snap.age < MAX_BACKOFF THEN snap.age + 1 ELSE snap.age) \in 0..MAX_BACKOFF
        BY UsageAssumption DEF SeatTypes, SeatTypeOK, Snapshots
      <3> QED BY <3>1, <3>2
    <2>2. [lock EXCEPT !.stale = @ \/ \E p \in lock.by : Home[p] \notin alive]
            \in [by : SUBSET Polls, stale : BOOLEAN]
      BY DEF SeatTypes, SeatTypeOK
    <2> QED BY <1>1, <2>1, <2>2 DEF Tick, SeatTypes, SeatTypeOK, AnswerHeld
  <1>2. ASSUME NEW l \in Levels, UseSeat(l)
        PROVE  SeatTypes'
    <2>1. seat[login.acct] \in Measures
      BY DEF SeatTypes, SeatTypeOK, Logins
    <2>2. [level |-> l, stamp |-> seat[login.acct].stamp + 1,
           window |-> IF l = "free" THEN seat[login.acct].window + 1 ELSE seat[login.acct].window] \in Measures
      BY <2>1 DEF Measures
    <2>3. seat' \in [Accounts -> Measures]
      BY <1>2, <2>2 DEF UseSeat, SeatTypes, SeatTypeOK
    <2> QED BY <1>2, <2>3 DEF UseSeat, SeatTypes, SeatTypeOK, AnswerHeld
  <1>3. ASSUME NEW swap \in BOOLEAN, ChangeLogin(swap)
        PROVE  SeatTypes'
    BY <1>3 DEF ChangeLogin, SeatTypes, SeatTypeOK, AnswerHeld, Logins, Accounts
  <1>4. ASSUME NEW r \in Routers, RouterDies(r)
        PROVE  SeatTypes'
    <2>1. Idle \in PollRecords /\ Idle.at # "answered"
      BY ServedTypes DEF SeatTypes, SeatTypeOK, Idle
    <2>2. poll' \in [Polls -> PollRecords] /\ AnswerHeld'
      BY <1>4, <2>1 DEF RouterDies, SeatTypes, SeatTypeOK, AnswerHeld
    <2> QED BY <1>4, <2>2 DEF RouterDies, SeatTypes, SeatTypeOK
  <1>5. ASSUME NEW r \in Routers, Hint(r) \/ HintExpires(r)
        PROVE  SeatTypes'
    BY <1>5 DEF Hint, HintExpires, SeatTypes, SeatTypeOK, AnswerHeld
  <1> QED
    BY <1>1, <1>2, <1>3, <1>4, <1>5 DEF EnvironmentStep

-----------------------------------------------------------------------------
(* One fetcher *)

\* Where a poll believes it has the lock.
Holding == {"locked", "fetching", "answered"}

\* The lock file names the one poll that may fetch; it is stale only when its
\* holder is dead, and a dead router has no poll under way.
LockInv ==
    /\ \A p \in Polls : poll[p].at # "idle" => Home[p] \in alive
    /\ \A p, q \in lock.by : p = q
    /\ lock.stale => \A p \in lock.by : Home[p] \notin alive
    /\ ~contested => \A p \in Polls : poll[p].at \in Holding => lock.by = {p}

\* The steps that change neither the lock nor who holds it.
LEMMA LockQuiet ==
    ASSUME SeatTypes, LockInv, NEW p \in Polls, NEW c, poll' = [poll EXCEPT ![p] = c],
           c.at \in Holding => poll[p].at \in Holding,
           c.at # "idle" => Home[p] \in alive,
           UNCHANGED <<lock, alive, contested>>
    PROVE  LockInv'
  BY DEF LockInv, SeatTypes, SeatTypeOK

\* The steps that take a free lock or drop one's own.
LEMMA LockMoves ==
    ASSUME SeatTypes, LockInv, NEW p \in Polls, NEW c, poll' = [poll EXCEPT ![p] = c],
           c.at # "idle" => Home[p] \in alive,
           \/ lock.by = {} /\ lock' = [by |-> {p}, stale |-> FALSE]
           \/ c.at \notin Holding /\ poll[p].at \in Holding /\ lock' = Unlocked(p),
           UNCHANGED <<alive, contested>>
    PROVE  LockInv'
  <1>1. CASE lock.by = {} /\ lock' = [by |-> {p}, stale |-> FALSE]
    BY <1>1 DEF LockInv, SeatTypes, SeatTypeOK
  <1>2. CASE c.at \notin Holding /\ poll[p].at \in Holding /\ lock' = Unlocked(p)
    BY <1>2 DEF LockInv, SeatTypes, SeatTypeOK, Unlocked
  <1> QED BY <1>1, <1>2

LEMMA PollLock ==
    ASSUME SeatTypes, LockInv, NEW p \in Polls,
           PollReads(p) \/ PollStep(p) \/ (\E denied \in BOOLEAN : FetchFails(p, denied))
    PROVE  LockInv'
  <1> DEFINE c == poll[p]
  <1>1. c \in PollRecords
    BY DEF SeatTypes, SeatTypeOK
  <1>2. \A place \in Places : [c EXCEPT !.at = place].at = place
    BY <1>1 DEF PollRecords
  <1>3. \A s : Served(s).at = "install"
    BY DEF Served, Idle
  <1>4. Home[p] \in alive
    BY DEF PollReads, PollStep, FetchFails, LockInv
  <1>5. ASSUME Contended(p)
        PROVE  \E s : poll' = [poll EXCEPT ![p] = Served(s)]
    BY <1>5 DEF Contended, Serve
  <1>6. CASE PollReads(p)
    <2>1. [Idle EXCEPT !.at = "lock", !.req = login, !.saw = snap].at = "lock"
      BY DEF Idle
    <2>2. PICK d : poll' = [poll EXCEPT ![p] = d] /\ d.at \in {"lock", "install"}
      BY <1>6, <1>3, <2>1 DEF PollReads
    <2> QED BY <1>6, <1>4, <2>2, LockQuiet DEF PollReads, Holding
  <1>7. CASE TryLock(p)
    <2>1. CASE lock.by = {} /\ Took(p)
      BY <1>7, <2>1, <1>2, <1>4, LockMoves DEF TryLock, Took, MoveTo, Places
    <2>2. CASE Contended(p) /\ UNCHANGED lock
      BY <1>7, <2>2, <1>5, <1>3, <1>4, LockQuiet DEF TryLock, Holding
    <2>3. CASE MoveTo(p, "break") /\ UNCHANGED lock
      BY <1>7, <2>3, <1>2, <1>4, LockQuiet DEF TryLock, MoveTo, Places, Holding
    <2> QED BY <1>7, <2>1, <2>2, <2>3 DEF TryLock
  <1>8. CASE BreakLock(p)
    BY <1>8, <1>2, <1>4 DEF BreakLock, MoveTo, Places, Holding, LockInv, SeatTypes, SeatTypeOK
  <1>9. CASE RetryLock(p)
    <2>1. CASE lock.by = {} /\ Took(p)
      BY <1>9, <2>1, <1>2, <1>4, LockMoves DEF RetryLock, Took, MoveTo, Places
    <2>2. CASE Contended(p) /\ UNCHANGED lock
      BY <1>9, <2>2, <1>5, <1>3, <1>4, LockQuiet DEF RetryLock, Holding
    <2> QED BY <1>9, <2>1, <2>2 DEF RetryLock
  <1>10. CASE UnderLock(p)
    <2>1. CASE ShouldFetch(Reread(p), login)
      <3>1. [c EXCEPT !.at = "fetching", !.req = login, !.saw = Reread(p)].at = "fetching"
        BY <1>1 DEF PollRecords
      <3> QED BY <1>10, <2>1, <3>1, <1>4, LockQuiet DEF UnderLock, Holding
    <2>2. CASE ~ShouldFetch(Reread(p), login)
      BY <1>10, <2>2, <1>3, <1>4, LockMoves DEF UnderLock, Holding, Serve
    <2> QED BY <2>1, <2>2
  <1>11. CASE Answer(p)
    <2>1. [c EXCEPT !.at = "answered", !.got = {seat[c.req.acct]}, !.fresh = TRUE].at = "answered"
      BY <1>1 DEF PollRecords
    <2> QED BY <1>11, <2>1, <1>4, LockQuiet DEF Answer, Holding
  <1>12. ASSUME NEW denied \in BOOLEAN, FetchFails(p, denied)
         PROVE  LockInv'
    <2>1. /\ [c EXCEPT !.req = login, !.again = TRUE].at = c.at
          /\ [c EXCEPT !.at = "answered", !.got = {}, !.fresh = FALSE].at = "answered"
      BY <1>1 DEF PollRecords
    <2>2. PICK d : poll' = [poll EXCEPT ![p] = d] /\ d.at \in {"fetching", "answered"}
      BY <1>12, <2>1 DEF FetchFails
    <2> QED BY <1>12, <2>2, <1>4, LockQuiet DEF FetchFails, Holding
  <1>13. CASE WriteSnapshot(p)
    BY <1>13, <1>3, <1>4, LockMoves DEF WriteSnapshot, Serve, Holding
  <1>14. CASE Install(p)
    BY <1>14, <1>4, LockQuiet DEF Install, Idle, Holding
  <1> QED
    BY <1>6, <1>7, <1>8, <1>9, <1>10, <1>11, <1>12, <1>13, <1>14 DEF PollStep

LEMMA EnvironmentLock ==
    ASSUME SeatTypes, LockInv, EnvironmentStep
    PROVE  LockInv'
  <1>1. CASE Tick
    BY <1>1 DEF Tick, LockInv, SeatTypes, SeatTypeOK
  <1>2. ASSUME NEW l \in Levels, UseSeat(l)
        PROVE  LockInv'
    BY <1>2 DEF UseSeat, LockInv
  <1>3. ASSUME NEW swap \in BOOLEAN, ChangeLogin(swap)
        PROVE  LockInv'
    BY <1>3 DEF ChangeLogin, LockInv
  <1>4. ASSUME NEW r \in Routers, RouterDies(r)
        PROVE  LockInv'
    BY <1>4 DEF RouterDies, LockInv, Idle, Holding, SeatTypes, SeatTypeOK
  <1>5. ASSUME NEW r \in Routers, Hint(r) \/ HintExpires(r)
        PROVE  LockInv'
    BY <1>5 DEF Hint, HintExpires, LockInv
  <1> QED
    BY <1>1, <1>2, <1>3, <1>4, <1>5 DEF EnvironmentStep

-----------------------------------------------------------------------------
(* The snapshot advances *)

\* While no lock was contested, the one poll that fetches has read the snapshot
\* as it still is, and what the provider answered it is at least as new.
SnapInv == ~snap.some => snap.measure = {}
MeasuredInv == \A n \in snap.measure : n.stamp <= seat[snap.login.acct].stamp
SawInv ==
    \A p \in Polls : poll[p].at \in {"fetching", "answered"} =>
        /\ poll[p].saw.login = snap.login
        /\ poll[p].saw.some = snap.some
        /\ poll[p].saw.measure = snap.measure
GotInv ==
    \A p \in Polls : poll[p].at = "answered" /\ poll[p].fresh =>
        \A m \in poll[p].got :
            /\ m.stamp <= seat[poll[p].req.acct].stamp
            /\ snap.login.acct = poll[p].req.acct => \A n \in snap.measure : n.stamp <= m.stamp
AdvanceInv == ~contested => SnapInv /\ MeasuredInv /\ SawInv /\ GotInv

\* The steps of one poll that leave the snapshot and the seat alone.
LEMMA AdvanceQuiet ==
    ASSUME SeatTypes, AdvanceInv, NEW p \in Polls, NEW c, poll' = [poll EXCEPT ![p] = c],
           c.at \notin {"fetching", "answered"},
           contested \/ ~contested', contested => contested',
           UNCHANGED <<snap, seat>>
    PROVE  AdvanceInv'
  <1>1. \A q \in Polls : poll'[q].at \in {"fetching", "answered"} => poll'[q] = poll[q]
    BY DEF SeatTypes, SeatTypeOK
  <1> QED
    BY <1>1 DEF AdvanceInv, SnapInv, MeasuredInv, SawInv, GotInv

\* What the outcome of p's fetch makes of the snapshot.
LEMMA OutcomeAdvances ==
    ASSUME SeatTypes, LockInv, AdvanceInv, ~contested, NEW p \in Polls, WriteSnapshot(p)
    PROVE  /\ SnapInv' /\ MeasuredInv'
           /\ snap.login.acct = snap'.login.acct
              => \A m \in snap.measure : \E n \in snap'.measure : n.stamp >= m.stamp
  <1> DEFINE c == poll[p]
  <1>1. /\ c.at = "answered" /\ c \in PollRecords /\ snap \in Snapshots
        /\ seat' = seat /\ seat \in [Accounts -> Measures]
    BY DEF WriteSnapshot, SeatTypes, SeatTypeOK
  <1>2. \A m \in snap.measure : m.stamp \in Nat
    BY <1>1 DEF Snapshots, Measures
  <1>3. CASE c.fresh
    <2>1. PICK m \in Measures : c.got = {m}
      BY <1>1, <1>3 DEF SeatTypes, AnswerHeld
    <2>2. (CHOOSE x \in c.got : TRUE) = m
      BY <2>1
    <2>3. snap' = OnSuccess(c.req, m)
      BY <1>3, <2>2 DEF WriteSnapshot
    <2>4. snap'.some /\ snap'.login = c.req /\ snap'.measure = {m}
      BY <2>3 DEF OnSuccess
    <2>5. m.stamp <= seat[c.req.acct].stamp
      BY <1>1, <1>3, <2>1 DEF AdvanceInv, GotInv
    <2>6. snap.login.acct = c.req.acct => \A n \in snap.measure : n.stamp <= m.stamp
      BY <1>1, <1>3, <2>1 DEF AdvanceInv, GotInv
    <2>7. m.stamp \in Nat
      BY DEF Measures
    <2> QED BY <1>1, <1>2, <2>4, <2>5, <2>6, <2>7 DEF SnapInv, MeasuredInv
  <1>4. CASE ~c.fresh
    <2>1. snap' = OnFailure(c.saw, c.req)
      BY <1>4 DEF WriteSnapshot
    <2>2. c.saw.login = snap.login /\ c.saw.some = snap.some /\ c.saw.measure = snap.measure
      BY <1>1 DEF AdvanceInv, SawInv
    <2>3. c.saw \in Snapshots /\ c.req \in Logins
      BY <1>1 DEF PollRecords
    <2>4. CASE c.saw.some /\ c.saw.login.acct = c.req.acct
      <3>1. snap'.some = c.saw.some /\ snap'.login = c.req /\ snap'.measure = c.saw.measure
        BY <2>1, <2>3, <2>4 DEF OnFailure, Snapshots
      <3> QED BY <3>1, <2>2, <2>4, <1>1, <1>2 DEF AdvanceInv, SnapInv, MeasuredInv
    <2>5. CASE ~(c.saw.some /\ c.saw.login.acct = c.req.acct)
      <3>1. snap'.some /\ snap'.login = c.req /\ snap'.measure = {}
        BY <2>1, <2>5 DEF OnFailure, NoSnapshot
      <3> QED BY <3>1, <2>2, <2>5, <1>1 DEF AdvanceInv, SnapInv, MeasuredInv
    <2> QED BY <2>4, <2>5
  <1> QED BY <1>3, <1>4

LEMMA PollAdvance ==
    ASSUME SeatTypes, LockInv, AdvanceInv, NEW p \in Polls,
           PollReads(p) \/ PollStep(p) \/ (\E denied \in BOOLEAN : FetchFails(p, denied))
    PROVE  AdvanceInv'
  <1> DEFINE c == poll[p]
  <1>1. c \in PollRecords /\ poll \in [Polls -> PollRecords]
    BY DEF SeatTypes, SeatTypeOK
  <1>2. \A place \in Places : [c EXCEPT !.at = place].at = place
    BY <1>1 DEF PollRecords
  <1>3. \A s : Served(s).at = "install"
    BY DEF Served, Idle
  <1>4. ASSUME Contended(p)
        PROVE  \E s : poll' = [poll EXCEPT ![p] = Served(s)]
    BY <1>4 DEF Contended, Serve
  <1>5. CASE PollReads(p)
    <2>1. [Idle EXCEPT !.at = "lock", !.req = login, !.saw = snap].at = "lock"
      BY DEF Idle
    <2>2. PICK d : poll' = [poll EXCEPT ![p] = d] /\ d.at \in {"lock", "install"}
      BY <1>5, <1>3, <2>1 DEF PollReads
    <2> QED BY <1>5, <2>2, AdvanceQuiet DEF PollReads
  <1>6. CASE TryLock(p) \/ RetryLock(p)
    <2>1. PICK d : poll' = [poll EXCEPT ![p] = d] /\ d.at \in {"locked", "break", "install"}
      <3>1. ASSUME NEW place \in {"locked", "break"}, MoveTo(p, place)
            PROVE  \E d : poll' = [poll EXCEPT ![p] = d] /\ d.at \in {"locked", "break", "install"}
        <4>1. [c EXCEPT !.at = place].at = place
          BY <1>2 DEF Places
        <4> QED BY <3>1, <4>1 DEF MoveTo
      <3>2. CASE Contended(p)
        BY <3>2, <1>3, <1>4
      <3> QED BY <1>6, <3>1, <3>2 DEF TryLock, RetryLock, Took
    <2>2. UNCHANGED <<snap, seat, contested>>
      BY <1>6 DEF TryLock, RetryLock
    <2> QED BY <2>1, <2>2, AdvanceQuiet
  <1>7. CASE BreakLock(p)
    <2>1. CASE contested'
      BY <2>1 DEF AdvanceInv
    <2>2. CASE ~contested'
      BY <1>7, <2>2, <1>2, AdvanceQuiet DEF BreakLock, MoveTo, Places, SeatTypes, SeatTypeOK
    <2> QED BY <2>1, <2>2
  <1>8. CASE UnderLock(p)
    <2>1. CASE ShouldFetch(snap, login)
      <3>1. PICK d : poll' = [poll EXCEPT ![p] = d] /\ d.at = "fetching" /\ d.saw = snap
        <4> DEFINE d == [c EXCEPT !.at = "fetching", !.req = login, !.saw = snap]
        <4>1. d.at = "fetching" /\ d.saw = snap
          BY <1>1 DEF PollRecords
        <4> HIDE DEF d
        <4>2. poll' = [poll EXCEPT ![p] = d]
          BY <1>8, <2>1 DEF UnderLock, Reread, d
        <4> QED BY <4>1, <4>2
      <3>2. UNCHANGED <<snap, seat, contested>>
        BY <1>8 DEF UnderLock
      <3>3. \A q \in Polls : poll'[q] = IF q = p THEN d ELSE poll[q]
        BY <3>1, <1>1
      <3> QED BY <3>1, <3>2, <3>3 DEF AdvanceInv, SnapInv, MeasuredInv, SawInv, GotInv
    <2>2. CASE ~ShouldFetch(snap, login)
      BY <1>8, <2>2, <1>3, AdvanceQuiet DEF UnderLock, Reread, Serve
    <2> QED BY <2>1, <2>2
  <1>9. CASE Answer(p)
    <2>1. PICK d : /\ poll' = [poll EXCEPT ![p] = d] /\ d.at = "answered" /\ d.saw = c.saw
                   /\ d.req = c.req /\ d.got = {seat[c.req.acct]}
      <3> DEFINE d == [c EXCEPT !.at = "answered", !.got = {seat[c.req.acct]}, !.fresh = TRUE]
      <3>1. d.at = "answered" /\ d.saw = c.saw /\ d.req = c.req /\ d.got = {seat[c.req.acct]}
        BY <1>1 DEF PollRecords
      <3>2. poll' = [poll EXCEPT ![p] = d]
        BY <1>9 DEF Answer
      <3> HIDE DEF d
      <3> QED BY <3>1, <3>2
    <2>2. UNCHANGED <<snap, seat, contested>> /\ c.at = "fetching"
      BY <1>9 DEF Answer
    <2>3. \A q \in Polls : poll'[q] = IF q = p THEN d ELSE poll[q]
      BY <2>1, <1>1
    <2>4. seat[c.req.acct].stamp \in Nat
      BY <1>1 DEF PollRecords, Logins, SeatTypes, SeatTypeOK, Measures
    <2>5. ~contested /\ snap.login.acct = c.req.acct
          => \A n \in snap.measure : n.stamp <= seat[c.req.acct].stamp
      BY DEF AdvanceInv, MeasuredInv
    <2> QED
      BY <2>1, <2>2, <2>3, <2>4, <2>5 DEF AdvanceInv, SnapInv, MeasuredInv, SawInv, GotInv
  <1>10. ASSUME NEW denied \in BOOLEAN, FetchFails(p, denied)
         PROVE  AdvanceInv'
    <2>1. PICK d : /\ poll' = [poll EXCEPT ![p] = d] /\ d.saw = c.saw
                   /\ d.at = "answered" => ~d.fresh
      <3> DEFINE d == [c EXCEPT !.req = login, !.again = TRUE]
                 e == [c EXCEPT !.at = "answered", !.got = {}, !.fresh = FALSE]
      <3>1. d.saw = c.saw /\ d.at = c.at /\ e.saw = c.saw /\ ~e.fresh /\ c.at = "fetching"
        BY <1>10, <1>1 DEF FetchFails, PollRecords
      <3>2. poll' = [poll EXCEPT ![p] = d] \/ poll' = [poll EXCEPT ![p] = e]
        BY <1>10 DEF FetchFails
      <3> HIDE DEF d, e
      <3> QED BY <3>1, <3>2
    <2>2. UNCHANGED <<snap, seat, contested>> /\ c.at = "fetching"
      BY <1>10 DEF FetchFails
    <2>3. \A q \in Polls : poll'[q] = IF q = p THEN d ELSE poll[q]
      BY <2>1, <1>1
    <2> QED
      BY <2>1, <2>2, <2>3 DEF AdvanceInv, SnapInv, MeasuredInv, SawInv, GotInv
  <1>11. CASE WriteSnapshot(p)
    <2>1. CASE contested
      BY <1>11, <2>1 DEF AdvanceInv, WriteSnapshot
    <2>2. CASE ~contested
      <3>1. SnapInv' /\ MeasuredInv'
        BY <1>11, <2>2, OutcomeAdvances
      <3>2. \A q \in Polls : poll'[q].at \notin {"fetching", "answered"}
        <4>1. \A q \in Polls \ {p} : poll[q].at \notin {"fetching", "answered"}
          BY <1>11, <2>2 DEF LockInv, Holding, WriteSnapshot
        <4>2. \E s : poll' = [poll EXCEPT ![p] = Served(s)]
          BY <1>11 DEF WriteSnapshot, Serve
        <4> QED BY <4>1, <4>2, <1>1, <1>3
      <3> QED BY <3>1, <3>2 DEF AdvanceInv, SawInv, GotInv
    <2> QED BY <2>1, <2>2
  <1>12. CASE Install(p)
    BY <1>12, AdvanceQuiet DEF Install, Idle
  <1> QED
    BY <1>5, <1>6, <1>7, <1>8, <1>9, <1>10, <1>11, <1>12 DEF PollStep

LEMMA EnvironmentAdvance ==
    ASSUME SeatTypes, AdvanceInv, EnvironmentStep
    PROVE  AdvanceInv'
  <1>1. CASE Tick
    <2>1. /\ snap'.login = snap.login /\ snap'.some = snap.some /\ snap'.measure = snap.measure
          /\ UNCHANGED <<seat, poll, contested>>
      BY <1>1 DEF Tick, SeatTypes, SeatTypeOK, Snapshots
    <2> QED BY <2>1 DEF AdvanceInv, SnapInv, MeasuredInv, SawInv, GotInv
  <1>2. ASSUME NEW l \in Levels, UseSeat(l)
        PROVE  AdvanceInv'
    <2>1. \A a \in Accounts : seat[a].stamp \in Nat /\ seat'[a].stamp \in Nat
                              /\ seat[a].stamp <= seat'[a].stamp
      BY <1>2 DEF UseSeat, SeatTypes, SeatTypeOK, Measures
    <2>2. snap.login.acct \in Accounts /\ \A p \in Polls : poll[p].req.acct \in Accounts
      BY DEF SeatTypes, SeatTypeOK, Snapshots, PollRecords, Logins
    <2>3. /\ \A n \in snap.measure : n.stamp \in Nat
          /\ \A p \in Polls : \A m \in poll[p].got : m.stamp \in Nat
      BY DEF SeatTypes, SeatTypeOK, Snapshots, PollRecords, Measures
    <2>4. UNCHANGED <<snap, poll, contested>>
      BY <1>2 DEF UseSeat
    <2>5. MeasuredInv => MeasuredInv'
      BY <2>1, <2>2, <2>3, <2>4 DEF MeasuredInv
    <2>6. GotInv => GotInv'
      BY <2>1, <2>2, <2>3, <2>4 DEF GotInv
    <2> QED BY <2>4, <2>5, <2>6 DEF AdvanceInv, SnapInv, SawInv
  <1>3. ASSUME NEW swap \in BOOLEAN, ChangeLogin(swap)
        PROVE  AdvanceInv'
    BY <1>3 DEF ChangeLogin, AdvanceInv, SnapInv, MeasuredInv, SawInv, GotInv
  <1>4. ASSUME NEW r \in Routers, RouterDies(r)
        PROVE  AdvanceInv'
    <2>1. \A q \in Polls : poll'[q].at \in {"fetching", "answered"} => poll'[q] = poll[q]
      BY <1>4 DEF RouterDies, Idle
    <2>2. UNCHANGED <<snap, seat, contested>>
      BY <1>4 DEF RouterDies
    <2> QED BY <2>1, <2>2 DEF AdvanceInv, SnapInv, MeasuredInv, SawInv, GotInv
  <1>5. ASSUME NEW r \in Routers, Hint(r) \/ HintExpires(r)
        PROVE  AdvanceInv'
    BY <1>5 DEF Hint, HintExpires, AdvanceInv, SnapInv, MeasuredInv, SawInv, GotInv
  <1> QED
    BY <1>1, <1>2, <1>3, <1>4, <1>5 DEF EnvironmentStep

-----------------------------------------------------------------------------
(* The seat in the specification of the proxy *)

SeatInv == SeatTypes /\ LockInv /\ AdvanceInv

seatState == <<seat, login, snap, lock, poll, alive, contested>>

\* The handlers of requests and turns read the seat only.
LEMMA ProxyKeepsSeat ==
    ASSUME ProxyNext
    PROVE  UNCHANGED seatState
  BY DEF ProxyNext, Handler, ProxyFault, BeginTurn, EndTurn, Arrive, Select, Answers, Repairs,
         RetryAnswers, StreamEnds, NoCredential, SendFails, Unauthorized, RetryFails, HangsUp,
         Refuses, Uncordon, seatState, seatVars

LEMMA SeatSteps ==
    ASSUME SeatNext
    PROVE  \/ \E p \in Polls : \/ PollReads(p) \/ PollStep(p)
                             \/ \E denied \in BOOLEAN : FetchFails(p, denied)
           \/ EnvironmentStep
  BY DEF SeatNext, EnvironmentStep

LEMMA SeatInductive ==
    ASSUME SeatInv, [(SeatNext /\ UNCHANGED proxyVars) \/ ProxyNext]_requestVars
    PROVE  SeatInv'
  <1>1. CASE UNCHANGED seatState
    BY <1>1 DEF seatState, SeatInv, SeatTypes, SeatTypeOK, AnswerHeld, LockInv, AdvanceInv,
                SnapInv, MeasuredInv, SawInv, GotInv
  <1>2. CASE SeatNext
    BY <1>2, SeatSteps, PollTypes, EnvironmentTypes, PollLock, EnvironmentLock, PollAdvance,
       EnvironmentAdvance DEF SeatInv
  <1>3. UNCHANGED requestVars => UNCHANGED seatState
    BY DEF requestVars, seatVars, seatState
  <1> QED BY <1>1, <1>2, <1>3, ProxyKeepsSeat

LEMMA SeatInitial == ProxyInit => SeatInv
  <1> SUFFICES ASSUME ProxyInit
               PROVE  SeatInv
    OBVIOUS
  <1>1. left.level \in Levels /\ left.routers \subseteq Routers
    BY UsageAssumption DEF ProxyInit, SeatInit
  <1>2. SeatTypeOK
    <2>1. seat \in [Accounts -> Measures]
      BY <1>1 DEF ProxyInit, SeatInit, Measures
    <2>2. NoSnapshot \in Snapshots /\ Idle \in PollRecords
      BY UsageAssumption DEF NoSnapshot, Snapshots, Logins, Accounts, Idle, PollRecords, Places
    <2> QED BY <1>1, <2>1, <2>2 DEF ProxyInit, SeatInit, SeatTypeOK, Logins, Accounts
  <1> QED
    BY <1>2 DEF ProxyInit, SeatInit, SeatInv, SeatTypes, AnswerHeld, LockInv, AdvanceInv, SnapInv,
                MeasuredInv, SawInv, GotInv, Idle, NoSnapshot, Holding

\* The lock file, the polls and the snapshot stay as SeatInv describes them.
THEOREM SeatInvariant == ProxySpec => []SeatInv
  <1>1. SeatInv /\ [(SeatNext /\ UNCHANGED proxyVars) \/ ProxyNext]_requestVars => SeatInv'
    BY SeatInductive
  <1> QED BY <1>1, SeatInitial, PTL DEF ProxySpec

LEMMA FetchersAtMostOne ==
    ASSUME SeatInv
    PROVE  OneFetcher
  <1>1. CASE contested
    BY <1>1 DEF OneFetcher
  <1>2. CASE ~contested
    <2>1. \A p, q \in Fetchers : p = q
      BY <1>2 DEF SeatInv, LockInv, Fetchers, Holding
    <2>2. CASE Fetchers = {}
      BY <2>2, FS_EmptySet DEF OneFetcher
    <2>3. CASE Fetchers # {}
      <3>1. PICK p \in Fetchers : TRUE
        BY <2>3
      <3>2. Fetchers = {p}
        BY <2>1, <3>1
      <3>3. Cardinality(Fetchers) = 1
        BY <3>2, FS_Singleton
      <3> QED BY <3>3 DEF OneFetcher
    <2> QED BY <2>2, <2>3
  <1> QED BY <1>1, <1>2

\* The routers of a machine ask the provider once at a time, whichever of them
\* dies with the lock file and however the logins change, unless two of them
\* broke one stale lock (cached_usage_at, try_lock).
THEOREM FetchesAlone == ProxySpec => []OneFetcher
  BY SeatInvariant, FetchersAtMostOne, PTL

LEMMA AdvanceStep ==
    ASSUME SeatInv, [(SeatNext /\ UNCHANGED proxyVars) \/ ProxyNext]_requestVars, ~contested,
           snap.login.acct = snap'.login.acct, NEW m \in snap.measure
    PROVE  \E n \in snap'.measure : n.stamp >= m.stamp
  <1>1. m.stamp \in Nat
    BY DEF SeatInv, SeatTypes, SeatTypeOK, Snapshots, Measures
  <1>2. CASE snap'.measure = snap.measure
    BY <1>1, <1>2
  <1>3. CASE \E p \in Polls : WriteSnapshot(p)
    BY <1>3, OutcomeAdvances DEF SeatInv
  <1>4. CASE UNCHANGED seatState
    BY <1>2, <1>4 DEF seatState
  <1>5. ASSUME NEW p \in Polls, PollReads(p) \/ PollStep(p) \/ (\E denied \in BOOLEAN : FetchFails(p, denied)),
               ~ WriteSnapshot(p)
        PROVE  snap' = snap
    BY <1>5 DEF PollReads, PollStep, FetchFails, TryLock, BreakLock, RetryLock, UnderLock, Answer, Install
  <1>6. CASE EnvironmentStep
    <2>1. snap'.measure = snap.measure
      BY <1>6 DEF EnvironmentStep, Tick, UseSeat, ChangeLogin, RouterDies, Hint, HintExpires, SeatInv,
                  SeatTypes, SeatTypeOK, Snapshots
    <2> QED BY <2>1, <1>2
  <1>7. UNCHANGED requestVars => UNCHANGED seatState
    BY DEF requestVars, seatVars, seatState
  <1> QED BY <1>2, <1>3, <1>4, <1>5, <1>6, <1>7, SeatSteps, ProxyKeepsSeat

\* A success is not undone by a slower task or a later failure: what the
\* snapshot of an account measures never grows older (write_snapshot).
THEOREM SnapshotNeverAges == ProxySpec => SnapshotAdvances
  <1>1. SeatInv /\ [(SeatNext /\ UNCHANGED proxyVars) \/ ProxyNext]_requestVars
        => [~contested /\ snap.login.acct = snap'.login.acct
            => \A m \in snap.measure : \E n \in snap'.measure : n.stamp >= m.stamp]_seatVars
    BY AdvanceStep
  <1> QED BY <1>1, SeatInvariant, PTL DEF ProxySpec, SnapshotAdvances

-----------------------------------------------------------------------------
(* Turns and requests *)

ReqRecords == [at : RequestSteps, turn : SUBSET Turns, model : SUBSET Models, wire : Models \cup {"asis", "none"},
               again : BOOLEAN, failed : Statuses \cup {"none"}]
PolicyRecords == [pin : SUBSET Models, last : SUBSET Models, rejected : SUBSET Models,
                  disclosed : SUBSET Models]
RecordRecords == [state : {"none", "open", "closed"}, model : SUBSET Models, ok : BOOLEAN]

ProxyTypes ==
    /\ reg \in [Turns -> {"new", "on", "off"}]
    /\ policy \in [Sids -> PolicyRecords]
    /\ req \in [Requests -> ReqRecords]
    /\ record \in [Requests -> RecordRecords]
    /\ refused \in [Sids -> SUBSET Models]

\* One registered turn per session, and finitely many of them.
OnInv == IsFiniteSet(On) /\ \A t, u \in On : Sid[t] = Sid[u] => t = u

\* The model that a request is priced as is the one its body names, unless the
\* adapter's alias stands for its pin.
Wired(r) ==
    \/ req[r].model = {req[r].wire}
    \/ req[r].wire = "asis" /\ req[r].model = PinOf(r)
       /\ (PinOf(r) \cap Declared = {} \/ req[r].failed # "none")

RequestOK(r) ==
    /\ \A t, u \in req[r].turn : t = u
    /\ req[r].at \notin {"new", "attributed"} =>
          IF req[r].turn = {} THEN req[r].wire = "asis" ELSE Wired(r)
    /\ req[r].at = "retry" => req[r].failed # "none" /\ req[r].turn # {}
    /\ record[r].state # "none" =>
          /\ record[r].model = req[r].model /\ req[r].turn # {}
          /\ req[r].at \in {"stream", "done"}

RejectedInv == \A s \in Sids : refused[s] \subseteq policy[s].rejected

ProxyInv == ProxyTypes /\ OnInv /\ RejectedInv /\ \A r \in Requests : RequestOK(r)

\* A step that changes one request and its row.
LEMMA PutRequest ==
    ASSUME ProxyInv, NEW r \in Requests, NEW q \in ReqRecords, req' = [req EXCEPT ![r] = q],
           \A x \in Requests \ {r} : record'[x] = record[x], RequestOK(r)'
    PROVE  /\ req' \in [Requests -> ReqRecords]
           /\ \A x \in Requests : RequestOK(x)'
  <1>1. \A x \in Requests \ {r} : req'[x] = req[x] /\ record'[x] = record[x]
    BY DEF ProxyInv, ProxyTypes
  <1>2. \A x \in Requests \ {r} : RequestOK(x)'
    BY <1>1 DEF ProxyInv, RequestOK, Wired, PinOf
  <1> QED BY <1>2 DEF ProxyInv, ProxyTypes

\* The row that a step of a request writes.
LEMMA RecordWritten ==
    ASSUME ProxyInv, NEW r \in Requests, NEW state \in {"open", "closed"}, NEW ok \in BOOLEAN,
           NEW q \in ReqRecords, req' = [req EXCEPT ![r] = q], Records(r, state, ok)
    PROVE  /\ record' \in [Requests -> RecordRecords]
           /\ \A x \in Requests \ {r} : record'[x] = record[x]
           /\ req[r].turn = {} => record'[r] = record[r]
           /\ req[r].turn # {} => record'[r] = [state |-> state, model |-> q.model, ok |-> ok]
  <1>1. req'[r] = q
    BY DEF ProxyInv, ProxyTypes
  <1>2. record[r] \in RecordRecords /\ [state |-> state, model |-> q.model, ok |-> ok] \in RecordRecords
    BY DEF ProxyInv, ProxyTypes, RecordRecords, ReqRecords
  <1> QED BY <1>1, <1>2 DEF Records, ProxyInv, ProxyTypes

LEMMA RowWritten ==
    ASSUME ProxyInv, NEW r \in Requests, NEW q \in ReqRecords, req' = [req EXCEPT ![r] = q],
           \E state \in {"open", "closed"}, ok \in BOOLEAN : Records(r, state, ok)
    PROVE  /\ record' \in [Requests -> RecordRecords]
           /\ \A x \in Requests \ {r} : record'[x] = record[x]
           /\ req[r].turn = {} => record'[r] = record[r]
           /\ req[r].turn # {} => record'[r].model = q.model
  <1>1. ASSUME NEW state \in {"open", "closed"}, NEW ok \in BOOLEAN, Records(r, state, ok)
        PROVE  /\ record' \in [Requests -> RecordRecords]
               /\ \A x \in Requests \ {r} : record'[x] = record[x]
               /\ req[r].turn = {} => record'[r] = record[r]
               /\ req[r].turn # {} => record'[r].model = q.model
    <2>1. /\ record' \in [Requests -> RecordRecords]
          /\ \A x \in Requests \ {r} : record'[x] = record[x]
          /\ req[r].turn = {} => record'[r] = record[r]
          /\ req[r].turn # {} => record'[r] = [state |-> state, model |-> q.model, ok |-> ok]
      BY <1>1, RecordWritten
    <2> QED BY <2>1
  <1> QED BY <1>1

\* A request goes on to another place and writes its row, or leaves it.
LEMMA Advances ==
    ASSUME ProxyInv, NEW r \in Requests, NEW place \in {"sent", "repair", "retry", "stream", "done"},
           NEW q \in ReqRecords, req' = [req EXCEPT ![r] = q],
           q.at = place, q.turn = req[r].turn, q.model = req[r].model, q.wire = req[r].wire,
           req[r].failed # "none" => q.failed # "none",
           req[r].at \notin {"new", "attributed", "done"},
           place = "retry" => q.failed # "none" /\ q.turn # {},
           \/ UNCHANGED record /\ (req[r].at \in {"stream", "done"} => place = "done")
           \/ place \in {"stream", "done"} /\ \E state \in {"open", "closed"}, ok \in BOOLEAN : Records(r, state, ok)
    PROVE  /\ req' \in [Requests -> ReqRecords] /\ record' \in [Requests -> RecordRecords]
           /\ \A x \in Requests : RequestOK(x)'
  <1>1. req'[r] = q /\ RequestOK(r)
    BY DEF ProxyInv, ProxyTypes
  <1>2. PinOf(r)' = PinOf(r) /\ (Wired(r) => Wired(r)')
    BY <1>1 DEF PinOf, Wired
  <1>3. CASE UNCHANGED record /\ (req[r].at \in {"stream", "done"} => place = "done")
    <2>1. RequestOK(r)'
      BY <1>1, <1>2, <1>3 DEF RequestOK
    <2> QED BY <1>3, <2>1, PutRequest DEF ProxyInv, ProxyTypes
  <1>4. CASE /\ place \in {"stream", "done"}
             /\ \E state \in {"open", "closed"}, ok \in BOOLEAN : Records(r, state, ok)
    <2>2. /\ record' \in [Requests -> RecordRecords]
          /\ \A x \in Requests \ {r} : record'[x] = record[x]
          /\ req[r].turn = {} => record'[r] = record[r]
          /\ req[r].turn # {} => record'[r].model = q.model
      BY <1>4, RowWritten
    <2>4. RequestOK(r)'
      BY <1>1, <1>2, <1>4, <2>2 DEF RequestOK
    <2> QED BY <2>2, <2>4, PutRequest
  <1> QED BY <1>3, <1>4

-----------------------------------------------------------------------------
(* One lemma per step *)

\* What a step that only moves a request on leaves alone.
quietProxy == <<reg, policy, refused>>

LEMMA MovesOn ==
    ASSUME ProxyInv, UNCHANGED quietProxy,
           req' \in [Requests -> ReqRecords], record' \in [Requests -> RecordRecords],
           \A x \in Requests : RequestOK(x)'
    PROVE  ProxyInv'
  BY DEF ProxyInv, ProxyTypes, OnInv, On, RejectedInv, quietProxy

LEMMA AtRecord ==
    ASSUME ProxyInv, NEW r \in Requests, NEW place \in RequestSteps, Proceeds(r, place)
    PROVE  \E q \in ReqRecords :
              /\ req' = [req EXCEPT ![r] = q] /\ q.at = place /\ q.turn = req[r].turn
              /\ q.model = req[r].model /\ q.wire = req[r].wire /\ q.failed = req[r].failed
  <1> DEFINE q == [req[r] EXCEPT !.at = place]
  <1>1. /\ q \in ReqRecords /\ q.at = place /\ q.turn = req[r].turn
        /\ q.model = req[r].model /\ q.wire = req[r].wire /\ q.failed = req[r].failed
    BY DEF ProxyInv, ProxyTypes, ReqRecords
  <1>2. req' = [req EXCEPT ![r] = q]
    BY DEF Proceeds
  <1> HIDE DEF q
  <1> QED BY <1>1, <1>2

\* A request that is under way goes on with a row or without one.
LEMMA GoesOn ==
    ASSUME ProxyInv, NEW r \in Requests, NEW place \in {"repair", "stream", "done"}, Proceeds(r, place),
           req[r].at \notin {"new", "attributed", "done"}, UNCHANGED quietProxy,
           \/ UNCHANGED record /\ (req[r].at = "stream" => place = "done")
           \/ /\ place \in {"stream", "done"}
              /\ \E state \in {"open", "closed"}, ok \in BOOLEAN : Records(r, state, ok)
    PROVE  ProxyInv'
  <1>1. PICK q \in ReqRecords :
              /\ req' = [req EXCEPT ![r] = q] /\ q.at = place /\ q.turn = req[r].turn
              /\ q.model = req[r].model /\ q.wire = req[r].wire /\ q.failed = req[r].failed
    BY AtRecord DEF RequestSteps
  <1>2. /\ req' \in [Requests -> ReqRecords] /\ record' \in [Requests -> RecordRecords]
        /\ \A x \in Requests : RequestOK(x)'
    BY <1>1, Advances
  <1> QED BY <1>2, MovesOn

LEMMA SimpleSteps ==
    ASSUME ProxyInv, NEW r \in Requests,
           \/ NoCredential(r) \/ Answers(r) \/ SendFails(r) \/ Unauthorized(r) \/ RetryFails(r)
           \/ HangsUp(r) \/ Repairs(r, FALSE) \/ \E ok \in BOOLEAN : StreamEnds(r, ok)
    PROVE  ProxyInv'
  <1>1. CASE NoCredential(r)
    BY <1>1, GoesOn DEF NoCredential, quietProxy
  <1>2. CASE Answers(r)
    BY <1>2, GoesOn DEF Answers, Streams, quietProxy
  <1>3. CASE SendFails(r)
    BY <1>3, GoesOn DEF SendFails, quietProxy
  <1>4. CASE Unauthorized(r)
    BY <1>4, GoesOn DEF Unauthorized, Streams, quietProxy
  <1>5. CASE RetryFails(r)
    BY <1>5, GoesOn DEF RetryFails, Streams, quietProxy
  <1>6. CASE HangsUp(r)
    BY <1>6, GoesOn DEF HangsUp, quietProxy
  <1>7. CASE Repairs(r, FALSE)
    BY <1>7, GoesOn DEF Repairs, quietProxy
  <1>8. ASSUME NEW ok \in BOOLEAN, StreamEnds(r, ok)
        PROVE  ProxyInv'
    <2>1. (ok /\ record[r].ok) \in BOOLEAN
      OBVIOUS
    <2>2. \E state \in {"open", "closed"}, b \in BOOLEAN : Records(r, state, b)
      BY <1>8, <2>1 DEF StreamEnds
    <2> QED BY <1>8, <2>2, GoesOn DEF StreamEnds, quietProxy
  <1> QED BY <1>1, <1>2, <1>3, <1>4, <1>5, <1>6, <1>7, <1>8

LEMMA RepairsStep ==
    ASSUME ProxyInv, NEW r \in Requests, Repairs(r, TRUE)
    PROVE  ProxyInv'
  <1> DEFINE q == [req[r] EXCEPT !.at = "sent", !.again = TRUE]
  <1>1. /\ q \in ReqRecords /\ q.at = "sent" /\ q.turn = req[r].turn
        /\ q.model = req[r].model /\ q.wire = req[r].wire /\ q.failed = req[r].failed
    BY DEF ProxyInv, ProxyTypes, ReqRecords, RequestSteps
  <1>2. req' = [req EXCEPT ![r] = q] /\ UNCHANGED record /\ req[r].at = "repair" /\ UNCHANGED quietProxy
    BY DEF Repairs, quietProxy, ProxyInv, ProxyTypes
  <1> HIDE DEF q
  <1>3. /\ req' \in [Requests -> ReqRecords] /\ record' \in [Requests -> RecordRecords]
        /\ \A x \in Requests : RequestOK(x)'
    BY <1>1, <1>2, Advances
  <1> QED BY <1>2, <1>3, MovesOn

\* The session of a request with a turn.
LEMMA SessionOf ==
    ASSUME ProxyInv, NEW r \in Requests, req[r].turn # {}
    PROVE  (CHOOSE s \in Sids : \E t \in req[r].turn : Sid[t] = s) \in Sids
  <1>1. \E s \in Sids : \E t \in req[r].turn : Sid[t] = s
    BY DEF ProxyInv, ProxyTypes, ReqRecords, Sids
  <1> QED BY <1>1

LEMMA RefusesStep ==
    ASSUME ProxyInv, NEW r \in Requests, NEW status \in Statuses, Refuses(r, status)
    PROVE  ProxyInv'
  <1>1. req[r].at = "sent" /\ UNCHANGED reg
    BY DEF Refuses
  <1>2. CASE RejectPinned(r, status)
    BY <1>1, <1>2, GoesOn DEF RejectPinned, Refuses, quietProxy
  <1>3. CASE Streams(r, FALSE) /\ UNCHANGED <<policy, cordoned, refused>>
    BY <1>1, <1>3, GoesOn DEF Streams, quietProxy
  <1>4. CASE Alternate(r) /\ RetryUnchanged(r, status)
    <2> DEFINE s == CHOOSE s \in Sids : \E t \in req[r].turn : Sid[t] = s
               bad == IF status \in {"reject", "shape"} THEN req[r].model ELSE {}
               q == [req[r] EXCEPT !.at = "retry", !.failed = status]
    <2>1. req[r].turn # {}
      BY <1>1, <1>4 DEF Alternate, ProxyInv, RequestOK
    <2>2. s \in Sids
      BY <2>1, SessionOf
    <2>3. bad \subseteq Models
      BY DEF ProxyInv, ProxyTypes, ReqRecords
    <2>4. /\ q \in ReqRecords /\ q.at = "retry" /\ q.turn = req[r].turn /\ q.failed # "none"
          /\ q.model = req[r].model /\ q.wire = req[r].wire
      BY DEF ProxyInv, ProxyTypes, ReqRecords, RequestSteps, Statuses
    <2>5. /\ req' = [req EXCEPT ![r] = q] /\ UNCHANGED record
          /\ policy' = [policy EXCEPT ![s].rejected = @ \cup bad]
          /\ refused' = [refused EXCEPT ![s] = @ \cup bad]
      BY <1>4 DEF RetryUnchanged, ProxyInv, ProxyTypes
    <2> HIDE DEF s, bad, q
    <2>6. /\ req' \in [Requests -> ReqRecords] /\ record' \in [Requests -> RecordRecords]
          /\ \A x \in Requests : RequestOK(x)'
      BY <1>1, <2>1, <2>4, <2>5, Advances
    <2>7. policy' \in [Sids -> PolicyRecords] /\ refused' \in [Sids -> SUBSET Models]
      BY <2>2, <2>3, <2>5 DEF ProxyInv, ProxyTypes, PolicyRecords
    <2>8. RejectedInv'
      BY <2>2, <2>5 DEF ProxyInv, ProxyTypes, PolicyRecords, RejectedInv
    <2> QED BY <1>1, <2>6, <2>7, <2>8 DEF ProxyInv, ProxyTypes, OnInv, On
  <1> QED BY <1>2, <1>3, <1>4 DEF Refuses

LEMMA RetryAnswersStep ==
    ASSUME ProxyInv, NEW r \in Requests, NEW ok \in BOOLEAN, RetryAnswers(r, ok)
    PROVE  ProxyInv'
  <1> DEFINE s == CHOOSE s \in Sids : \E t \in req[r].turn : Sid[t] = s
             q == [req[r] EXCEPT !.at = "stream", !.model = PinOf(r), !.wire = "asis"]
  <1>1. req[r].at = "retry" /\ req[r].turn # {} /\ req[r].failed # "none" /\ RequestOK(r)
    BY DEF RetryAnswers, ProxyInv, RequestOK
  <1>2. PinOf(r) \subseteq Models
    BY ProxyAssumption DEF PinOf, ProxyInv, ProxyTypes, ReqRecords
  <1>3. /\ q \in ReqRecords /\ q.at = "stream" /\ q.turn = req[r].turn /\ q.failed = req[r].failed
        /\ q.model = PinOf(r) /\ q.wire = "asis"
    BY <1>2 DEF ProxyInv, ProxyTypes, ReqRecords, RequestSteps
  <1>4. /\ req' = [req EXCEPT ![r] = q] /\ Records(r, "open", ok) /\ UNCHANGED <<reg, refused>>
        /\ policy' = [policy EXCEPT ![s].disclosed = @ \cup req[r].model]
    BY DEF RetryAnswers, ProxyInv, ProxyTypes
  <1>5. s \in Sids /\ req[r].model \subseteq Models
    BY <1>1, SessionOf DEF ProxyInv, ProxyTypes, ReqRecords
  <1> HIDE DEF s, q
  <1>6. /\ record' \in [Requests -> RecordRecords]
        /\ \A x \in Requests \ {r} : record'[x] = record[x]
        /\ record'[r] = [state |-> "open", model |-> q.model, ok |-> ok]
    BY <1>1, <1>3, <1>4, RecordWritten
  <1>7. req'[r] = q
    BY <1>4 DEF ProxyInv, ProxyTypes
  <1>8. RequestOK(r)'
    BY <1>1, <1>3, <1>6, <1>7 DEF RequestOK, Wired, PinOf
  <1>9. /\ req' \in [Requests -> ReqRecords] /\ record' \in [Requests -> RecordRecords]
        /\ \A x \in Requests : RequestOK(x)'
    BY <1>3, <1>4, <1>6, <1>8, PutRequest
  <1>10. policy' \in [Sids -> PolicyRecords] /\ RejectedInv'
    BY <1>4, <1>5 DEF ProxyInv, ProxyTypes, PolicyRecords, RejectedInv
  <1> QED BY <1>4, <1>9, <1>10 DEF ProxyInv, ProxyTypes, OnInv, On

\* The policy of a session that a turn or a decision starts afresh.
LEMMA PolicyKept ==
    ASSUME ProxyInv, NEW s \in Sids, NEW p \in PolicyRecords,
           p.rejected = policy[s].rejected, policy' = [policy EXCEPT ![s] = p], UNCHANGED refused
    PROVE  policy' \in [Sids -> PolicyRecords] /\ refused' \in [Sids -> SUBSET Models] /\ RejectedInv'
  BY DEF ProxyInv, ProxyTypes, RejectedInv

LEMMA RepinnedType ==
    ASSUME NEW p \in PolicyRecords, NEW m \in Models
    PROVE  Repinned(p, m) \in PolicyRecords /\ Repinned(p, m).rejected = p.rejected
  BY DEF Repinned, PolicyRecords

LEMMA BeginTurnStep ==
    ASSUME ProxyInv, NEW t \in Turns, BeginTurn(t)
    PROVE  ProxyInv'
  <1> DEFINE s == Sid[t]
             p == IF policy[s].pin = {Pin[t]} THEN policy[s] ELSE Repinned(policy[s], Pin[t])
  <1>1. s \in Sids /\ policy[s] \in PolicyRecords /\ Pin[t] \in Models
    BY ProxyAssumption DEF Sids, ProxyInv, ProxyTypes
  <1>2. p \in PolicyRecords /\ p.rejected = policy[s].rejected
    BY <1>1, RepinnedType
  <1>3. policy' = [policy EXCEPT ![s] = p] /\ UNCHANGED <<req, record, refused>>
    BY <1>1 DEF BeginTurn, ProxyInv, ProxyTypes
  <1>4. policy' \in [Sids -> PolicyRecords] /\ refused' \in [Sids -> SUBSET Models] /\ RejectedInv'
    <2> HIDE DEF p
    <2> QED BY <1>1, <1>2, <1>3, PolicyKept
  <1>5. reg' = [reg EXCEPT ![t] = "on"] /\ \A u \in Turns \ {t} : Sid[u] = Sid[t] => reg[u] # "on"
    BY DEF BeginTurn
  <1>6. On' = On \cup {t} /\ reg' \in [Turns -> {"new", "on", "off"}]
    BY <1>5 DEF On, ProxyInv, ProxyTypes
  <1>7. OnInv'
    <2>1. IsFiniteSet(On')
      BY <1>6, FS_AddElement DEF ProxyInv, OnInv
    <2>2. \A u, v \in On' : Sid[u] = Sid[v] => u = v
      BY <1>5, <1>6 DEF ProxyInv, OnInv, On
    <2> QED BY <2>1, <2>2 DEF OnInv
  <1>8. \A r \in Requests : RequestOK(r)'
    BY <1>3 DEF ProxyInv, RequestOK, Wired, PinOf
  <1> QED BY <1>3, <1>4, <1>6, <1>7, <1>8 DEF ProxyInv, ProxyTypes

LEMMA EndTurnStep ==
    ASSUME ProxyInv, NEW t \in Turns, EndTurn(t)
    PROVE  ProxyInv'
  <1>1. /\ On' \subseteq On /\ reg' \in [Turns -> {"new", "on", "off"}]
        /\ UNCHANGED <<policy, req, record, refused>>
    BY DEF EndTurn, On, ProxyInv, ProxyTypes
  <1>2. OnInv'
    BY <1>1, FS_Subset DEF ProxyInv, OnInv
  <1>3. (\A r \in Requests : RequestOK(r)') /\ RejectedInv'
    BY <1>1 DEF ProxyInv, RequestOK, Wired, PinOf, RejectedInv
  <1> QED BY <1>1, <1>2, <1>3 DEF ProxyInv, ProxyTypes

\* Whatever a request is attributed to is one registered turn, or none.
LEMMA Attributed ==
    ASSUME ProxyInv, NEW r \in Requests
    PROVE  /\ Attribute(r) \subseteq On
           /\ \A t, u \in Attribute(r) : t = u
           /\ Maker[r] \in On => Attribute(r) \subseteq {Maker[r]}
  <1>1. \A S \in SUBSET On : Cardinality(S) = 1 => \E x : S = {x}
    <2>1. SUFFICES ASSUME NEW S \in SUBSET On, Cardinality(S) = 1
                   PROVE  \E x : S = {x}
      OBVIOUS
    <2>2. IsFiniteSet(S)
      BY FS_Subset DEF ProxyInv, OnInv
    <2> QED BY <2>1, <2>2, FS_Singleton
  <1>2. Matches(r) \subseteq On
    BY DEF Matches
  <1>3. CASE Cardinality(On) = 1
    BY <1>1, <1>3 DEF Attribute
  <1>4. CASE Cardinality(On) # 1
    <2>1. \A t \in Matches(r) : Maker[r] \in On => t = Maker[r]
      BY DEF Matches, ProxyInv, OnInv
    <2> QED BY <1>1, <1>2, <1>4, <2>1 DEF Attribute
  <1> QED BY <1>3, <1>4

LEMMA ArriveStep ==
    ASSUME ProxyInv, NEW r \in Requests, Arrive(r)
    PROVE  ProxyInv'
  <1> DEFINE q == [req[r] EXCEPT !.at = "attributed", !.turn = Attribute(r)]
  <1>1. /\ req[r].at = "new" /\ UNCHANGED quietProxy /\ UNCHANGED record
        /\ req' = [req EXCEPT ![r] = q]
    BY DEF Arrive, quietProxy, ProxyInv, ProxyTypes
  <1>2. Attribute(r) \subseteq Turns /\ \A t, u \in Attribute(r) : t = u
    BY Attributed DEF On
  <1>3. q \in ReqRecords /\ q.at = "attributed" /\ q.turn = Attribute(r)
    BY <1>2 DEF ProxyInv, ProxyTypes, ReqRecords, RequestSteps
  <1> HIDE DEF q
  <1>4. req'[r] = q /\ record[r].state = "none"
    BY <1>1 DEF ProxyInv, ProxyTypes, RequestOK
  <1>5. RequestOK(r)'
    BY <1>1, <1>2, <1>3, <1>4 DEF RequestOK
  <1>6. /\ req' \in [Requests -> ReqRecords] /\ record' \in [Requests -> RecordRecords]
        /\ \A x \in Requests : RequestOK(x)'
    BY <1>1, <1>3, <1>5, PutRequest DEF ProxyInv, ProxyTypes
  <1> QED BY <1>1, <1>6, MovesOn

\* The decision is the pin, or a sibling that the session has not been refused.
LEMMA DecidedModel ==
    ASSUME NEW s, NEW pin \in Models
    PROVE  /\ Decided(s, pin) \in Models
           /\ Decided(s, pin) # pin => Decided(s, pin) \notin policy[s].rejected
  <1>1. CASE PinRouteable(pin) \/ Alternates(s, pin) = {}
    BY <1>1 DEF Decided
  <1>2. CASE ~PinRouteable(pin) /\ Alternates(s, pin) # {}
    <2>1. Alternates(s, pin) \subseteq Models
      BY DEF Alternates
    <2>2. IsFiniteSet(Alternates(s, pin))
      BY <2>1, UsageAssumption, FS_Subset
    <2>3. \E m \in Alternates(s, pin) : \A n \in Alternates(s, pin) : Strength[n] <= Strength[m]
      BY <1>2, <2>1, <2>2, ProxyAssumption, Largest
    <2>4. Strongest(Alternates(s, pin)) \in Alternates(s, pin)
      BY <2>3 DEF Strongest
    <2> QED BY <1>2, <2>4 DEF Decided, Alternates
  <1> QED BY <1>1, <1>2

LEMMA SelectStep ==
    ASSUME ProxyInv, NEW r \in Requests, Select(r)
    PROVE  ProxyInv'
  <1>0. req[r].at = "attributed" /\ UNCHANGED <<reg, record, refused>>
    BY Zenon DEF Select
  <1>1. /\ req[r].at = "attributed" /\ UNCHANGED <<reg, record, refused>>
        /\ record[r].state = "none" /\ \A t, u \in req[r].turn : t = u
    BY <1>0 DEF ProxyInv, RequestOK
  <1>2. CASE req[r].turn = {}
    <2> DEFINE q == [req[r] EXCEPT !.at = "sent", !.wire = "asis"]
    <2>1. req' = [req EXCEPT ![r] = q] /\ UNCHANGED policy
      BY <1>2 DEF Select, ProxyInv, ProxyTypes
    <2>2. q \in ReqRecords /\ q.at = "sent" /\ q.turn = {} /\ q.wire = "asis"
      BY <1>2 DEF ProxyInv, ProxyTypes, ReqRecords, RequestSteps
    <2> HIDE DEF q
    <2>3. req'[r] = q
      BY <2>1 DEF ProxyInv, ProxyTypes
    <2>4. RequestOK(r)'
      BY <1>1, <2>2, <2>3 DEF RequestOK
    <2>5. /\ req' \in [Requests -> ReqRecords] /\ record' \in [Requests -> RecordRecords]
          /\ \A x \in Requests : RequestOK(x)'
      BY <1>1, <2>1, <2>2, <2>4, PutRequest DEF ProxyInv, ProxyTypes
    <2> QED BY <1>1, <2>1, <2>5, MovesOn DEF quietProxy
  <1>3. CASE req[r].turn # {}
    <2>1. PICK t \in req[r].turn :
             LET m == Decided(Sid[t], Pin[t])
                 kept == policy[Sid[t]]
             IN /\ req' = [req EXCEPT ![r].at = "sent", ![r].model = {m},
                                      ![r].wire = WireOf(m, Pin[t])]
                /\ policy' = [policy EXCEPT ![Sid[t]] =
                      [(IF kept.pin = {Pin[t]} THEN kept ELSE Repinned(kept, Pin[t]))
                         EXCEPT !.last = {m}]]
      BY <1>3, Zenon DEF Select
    <2> DEFINE m == Decided(Sid[t], Pin[t])
               kept == policy[Sid[t]]
               fresh == IF kept.pin = {Pin[t]} THEN kept ELSE Repinned(kept, Pin[t])
               p == [fresh EXCEPT !.last = {m}]
               q == [req[r] EXCEPT !.at = "sent", !.model = {m}, !.wire = WireOf(m, Pin[t])]
    <2>2. t \in Turns /\ Sid[t] \in Sids /\ Pin[t] \in Models /\ m \in Models /\ req[r].turn = {t}
      <3>1. t \in Turns /\ Pin[t] \in Models
        BY <2>1, ProxyAssumption DEF ProxyInv, ProxyTypes, ReqRecords
      <3> QED BY <1>1, <2>1, <3>1, DecidedModel DEF Sids
    <2>3. WireOf(m, Pin[t]) \in Models \cup {"asis", "none"}
      BY <2>2 DEF WireOf
    <2>4. /\ q \in ReqRecords /\ q.at = "sent" /\ q.turn = {t} /\ q.model = {m}
          /\ q.wire = WireOf(m, Pin[t])
      BY <2>2, <2>3 DEF ProxyInv, ProxyTypes, ReqRecords, RequestSteps
    <2>5. fresh \in PolicyRecords /\ fresh.rejected = policy[Sid[t]].rejected
      BY <2>2, RepinnedType DEF ProxyInv, ProxyTypes
    <2>6. p \in PolicyRecords /\ p.rejected = policy[Sid[t]].rejected
      BY <2>2, <2>5 DEF PolicyRecords
    <2>7. req' = [req EXCEPT ![r] = q] /\ policy' = [policy EXCEPT ![Sid[t]] = p]
      BY <2>1 DEF ProxyInv, ProxyTypes
    <2> HIDE DEF p, q, fresh, kept, m
    <2>8. policy' \in [Sids -> PolicyRecords] /\ refused' \in [Sids -> SUBSET Models] /\ RejectedInv'
      BY <1>1, <2>2, <2>6, <2>7, PolicyKept
    <2>9. req'[r] = q
      BY <2>7 DEF ProxyInv, ProxyTypes
    <2>10. RequestOK(r)'
      BY <1>1, <2>4, <2>9 DEF RequestOK, Wired, PinOf, WireOf
    <2>11. /\ req' \in [Requests -> ReqRecords] /\ record' \in [Requests -> RecordRecords]
           /\ \A x \in Requests : RequestOK(x)'
      BY <1>1, <2>4, <2>7, <2>10, PutRequest DEF ProxyInv, ProxyTypes
    <2> QED BY <1>1, <2>8, <2>11 DEF ProxyInv, ProxyTypes, OnInv, On
  <1> QED BY <1>2, <1>3

-----------------------------------------------------------------------------
(* The specification *)

LEMMA ProxyInductive ==
    ASSUME ProxyInv, [(SeatNext /\ UNCHANGED proxyVars) \/ ProxyNext]_requestVars
    PROVE  ProxyInv'
  <1>1. CASE UNCHANGED <<reg, policy, req, record, refused>>
    BY <1>1 DEF ProxyInv, ProxyTypes, OnInv, On, RejectedInv, RequestOK, Wired, PinOf
  <1>2. UNCHANGED requestVars \/ UNCHANGED proxyVars \/ (\E m \in Models : Uncordon(m))
        => UNCHANGED <<reg, policy, req, record, refused>>
    BY DEF requestVars, proxyVars, Uncordon
  <1>3. ASSUME NEW t \in Turns, BeginTurn(t) \/ EndTurn(t)
        PROVE  ProxyInv'
    BY <1>3, BeginTurnStep, EndTurnStep
  <1>4. ASSUME NEW r \in Requests, Handler(r)
        PROVE  ProxyInv'
    BY <1>4, SelectStep, SimpleSteps, RepairsStep, RetryAnswersStep DEF Handler
  <1>5. ASSUME NEW r \in Requests, ProxyFault(r)
        PROVE  ProxyInv'
    BY <1>5, SimpleSteps, RefusesStep DEF ProxyFault
  <1>6. ASSUME NEW r \in Requests, Arrive(r)
        PROVE  ProxyInv'
    BY <1>6, ArriveStep
  <1> QED BY <1>1, <1>2, <1>3, <1>4, <1>5, <1>6 DEF ProxyNext

LEMMA ProxyInitial == ProxyInit => ProxyInv
  <1> SUFFICES ASSUME ProxyInit
               PROVE  ProxyInv
    OBVIOUS
  <1>1. ProxyTypes
    BY DEF ProxyInit, ProxyTypes, NewRequest, NoRecord, ReqRecords, RecordRecords, PolicyRecords, RequestSteps
  <1>2. OnInv
    <2>1. On = {}
      BY DEF ProxyInit, On
    <2> QED BY <2>1, FS_EmptySet DEF OnInv
  <1>3. RejectedInv /\ \A r \in Requests : RequestOK(r)
    BY DEF ProxyInit, RejectedInv, RequestOK, NewRequest, NoRecord
  <1> QED BY <1>1, <1>2, <1>3 DEF ProxyInv

\* A session of the process has one registered turn, a request one turn and
\* the model that its body names, a row the model of its request (attribute,
\* select, StreamingObservation).
THEOREM ProxyInvariant == ProxySpec => []ProxyInv
  BY ProxyInitial, ProxyInductive, PTL DEF ProxySpec

\* What the usage page shows a request as is what answered it (finish_stream,
\* persist_request).
THEOREM PricedAsServed == ProxySpec => []ServedAsRecorded
  <1>1. ProxyInv => ServedAsRecorded
    BY DEF ProxyInv, RequestOK, Wired, ServedAsRecorded
  <1> QED BY <1>1, ProxyInvariant, PTL

\* A decision is about one request.
LEMMA SelectsOne ==
    ASSUME ProxyInv, NEW x \in Requests, Select(x), NEW r \in Requests, x # r
    PROVE  req'[r] = req[r]
  <1>1. CASE req[x].turn = {}
    <2>1. req' = [req EXCEPT ![x].at = "sent", ![x].wire = "asis"]
      BY <1>1, Zenon DEF Select
    <2> QED BY <2>1 DEF ProxyInv, ProxyTypes
  <1>2. CASE req[x].turn # {}
    <2>1. \E t \in req[x].turn :
             req' = [req EXCEPT ![x].at = "sent", ![x].model = {Decided(Sid[t], Pin[t])},
                                ![x].wire = WireOf(Decided(Sid[t], Pin[t]), Pin[t])]
      BY <1>2, Zenon DEF Select
    <2> QED BY <2>1 DEF ProxyInv, ProxyTypes
  <1> QED BY <1>1, <1>2

\* A request that arrives.
LEMMA Arrives ==
    ASSUME ProxyInv, NEW r \in Requests, [(SeatNext /\ UNCHANGED proxyVars) \/ ProxyNext]_requestVars,
           req[r].at = "new", req'[r].at # "new"
    PROVE  Arrive(r)
  <1>1. req' # req /\ req[r].at = "new" /\ req'[r] # req[r]
    OBVIOUS
  <1>2. PICK x \in Requests : Arrive(x) \/ Handler(x) \/ ProxyFault(x)
    BY <1>1 DEF ProxyNext, requestVars, proxyVars, BeginTurn, EndTurn, Uncordon
  <1>3. \A place : Proceeds(x, place) => (x # r => req'[r] = req[r])
    BY DEF Proceeds, ProxyInv, ProxyTypes
  <1>4. CASE Arrive(x)
    <2>1. x = r
      BY <1>1, <1>4 DEF Arrive, ProxyInv, ProxyTypes
    <2> QED BY <1>4, <2>1
  <1>5. CASE Select(x)
    <2>1. req[x].at = "attributed" /\ (x # r => req'[r] = req[r])
      BY <1>5, SelectsOne, Zenon DEF Select
    <2> QED BY <1>1, <2>1
  <1>6. CASE \/ NoCredential(x) \/ Answers(x) \/ SendFails(x) \/ Unauthorized(x) \/ RetryFails(x)
             \/ HangsUp(x) \/ Repairs(x, FALSE) \/ \E ok \in BOOLEAN : StreamEnds(x, ok)
    <2>1. req[x].at # "new"
      BY <1>6 DEF NoCredential, Answers, SendFails, Unauthorized, RetryFails, HangsUp, Repairs, StreamEnds
    <2>2. \E place : Proceeds(x, place)
      BY <1>6 DEF NoCredential, Answers, SendFails, Unauthorized, RetryFails, HangsUp, Repairs,
           StreamEnds, Streams
    <2> QED BY <1>1, <1>3, <2>1, <2>2
  <1>7. CASE Repairs(x, TRUE) \/ \E ok \in BOOLEAN : RetryAnswers(x, ok)
    <2>1. req[x].at # "new" /\ (x # r => req'[r] = req[r])
      BY <1>7 DEF Repairs, RetryAnswers, ProxyInv, ProxyTypes
    <2> QED BY <1>1, <2>1
  <1>8. ASSUME NEW status \in Statuses, Refuses(x, status)
        PROVE  FALSE
    <2>1. req[x].at # "new"
      BY <1>8 DEF Refuses
    <2>2. (\E place : Proceeds(x, place)) \/ RetryUnchanged(x, status)
      BY <1>8 DEF Refuses, RejectPinned, Streams
    <2>3. x # r => req'[r] = req[r]
      BY <1>3, <2>2 DEF RetryUnchanged, ProxyInv, ProxyTypes
    <2> QED BY <1>1, <2>1, <2>3
  <1> QED BY <1>2, <1>4, <1>5, <1>6, <1>7, <1>8 DEF Handler, ProxyFault

\* A request of a registered turn is attributed to that turn or to none,
\* however many turns the process has (attribute).
THEOREM AttributedToMaker == ProxySpec => OwnTurn
  <1>1. ProxyInv /\ [(SeatNext /\ UNCHANGED proxyVars) \/ ProxyNext]_requestVars
        => [\A r \in Requests :
              req[r].at = "new" /\ req'[r].at = "attributed" /\ reg[Maker[r]] = "on"
              => req'[r].turn \subseteq {Maker[r]}]_requestVars
    <2> SUFFICES ASSUME ProxyInv, [(SeatNext /\ UNCHANGED proxyVars) \/ ProxyNext]_requestVars,
                        NEW r \in Requests, req[r].at = "new", req'[r].at = "attributed",
                        reg[Maker[r]] = "on"
                 PROVE  req'[r].turn \subseteq {Maker[r]}
      OBVIOUS
    <2>1. Arrive(r)
      BY Arrives
    <2>2. req'[r].turn = Attribute(r)
      BY <2>1 DEF Arrive, ProxyInv, ProxyTypes, ReqRecords
    <2>3. Maker[r] \in On
      BY ProxyAssumption DEF On
    <2> QED BY <2>2, <2>3, Attributed
  <1> QED BY <1>1, ProxyInvariant, PTL DEF ProxySpec, OwnTurn

\* A request whose decision is taken.
LEMMA Selects ==
    ASSUME ProxyInv, NEW r \in Requests, [(SeatNext /\ UNCHANGED proxyVars) \/ ProxyNext]_requestVars,
           req[r].at = "attributed", req'[r].at # "attributed"
    PROVE  Select(r)
  <1>1. req' # req /\ req'[r] # req[r]
    OBVIOUS
  <1>2. PICK x \in Requests : Arrive(x) \/ Handler(x) \/ ProxyFault(x)
    BY <1>1 DEF ProxyNext, requestVars, proxyVars, BeginTurn, EndTurn, Uncordon
  <1>3. \A place : Proceeds(x, place) => (x # r => req'[r] = req[r])
    BY DEF Proceeds, ProxyInv, ProxyTypes
  <1>4. CASE Arrive(x)
    <2>1. req[x].at = "new" /\ (x # r => req'[r] = req[r])
      BY <1>4 DEF Arrive, ProxyInv, ProxyTypes
    <2> QED BY <1>1, <2>1
  <1>5. CASE Select(x)
    <2>2. x = r
      BY <1>1, <1>5, SelectsOne
    <2> QED BY <1>5, <2>2
  <1>6. CASE \/ NoCredential(x) \/ Answers(x) \/ SendFails(x) \/ Unauthorized(x) \/ RetryFails(x)
             \/ HangsUp(x) \/ Repairs(x, FALSE) \/ \E ok \in BOOLEAN : StreamEnds(x, ok)
    <2>1. req[x].at # "attributed"
      BY <1>6 DEF NoCredential, Answers, SendFails, Unauthorized, RetryFails, HangsUp, Repairs, StreamEnds
    <2>2. \E place : Proceeds(x, place)
      BY <1>6 DEF NoCredential, Answers, SendFails, Unauthorized, RetryFails, HangsUp, Repairs,
           StreamEnds, Streams
    <2> QED BY <1>1, <1>3, <2>1, <2>2
  <1>7. CASE Repairs(x, TRUE) \/ \E ok \in BOOLEAN : RetryAnswers(x, ok)
    <2>1. req[x].at # "attributed" /\ (x # r => req'[r] = req[r])
      BY <1>7 DEF Repairs, RetryAnswers, ProxyInv, ProxyTypes
    <2> QED BY <1>1, <2>1
  <1>8. ASSUME NEW status \in Statuses, Refuses(x, status)
        PROVE  FALSE
    <2>1. req[x].at # "attributed"
      BY <1>8 DEF Refuses
    <2>2. (\E place : Proceeds(x, place)) \/ RetryUnchanged(x, status)
      BY <1>8 DEF Refuses, RejectPinned, Streams
    <2>3. x # r => req'[r] = req[r]
      BY <1>3, <2>2 DEF RetryUnchanged, ProxyInv, ProxyTypes
    <2> QED BY <1>1, <2>1, <2>3
  <1> QED BY <1>2, <1>4, <1>5, <1>6, <1>7, <1>8 DEF Handler, ProxyFault

\* A session never pays again for a sibling that the provider refused it, not
\* even after a repin and back (rejected_api_models).
THEOREM RefusedForSession == ProxySpec => RefusedOnce
  <1>1. ProxyInv /\ [(SeatNext /\ UNCHANGED proxyVars) \/ ProxyNext]_requestVars
        => [\A r \in Requests :
              req[r].at = "attributed" /\ req'[r].at = "sent"
              => \A t \in req[r].turn : req'[r].model \cap (refused[Sid[t]] \ {Pin[t]}) = {}]_requestVars
    <2> SUFFICES ASSUME ProxyInv, [(SeatNext /\ UNCHANGED proxyVars) \/ ProxyNext]_requestVars,
                        NEW r \in Requests, req[r].at = "attributed", req'[r].at = "sent",
                        NEW t \in req[r].turn
                 PROVE  req'[r].model \cap (refused[Sid[t]] \ {Pin[t]}) = {}
      OBVIOUS
    <2>1. Select(r)
      BY Selects
    <2>2. \A u \in req[r].turn : u = t
      BY DEF ProxyInv, RequestOK
    <2>3. \E w : req' = [req EXCEPT ![r].at = "sent", ![r].model = {Decided(Sid[t], Pin[t])}, ![r].wire = w]
      BY <2>1, <2>2, Zenon DEF Select
    <2>4. req'[r].model = {Decided(Sid[t], Pin[t])}
      BY <2>3 DEF ProxyInv, ProxyTypes, ReqRecords
    <2>5. t \in Turns /\ Sid[t] \in Sids /\ Pin[t] \in Models
      BY ProxyAssumption DEF Sids, ProxyInv, ProxyTypes, ReqRecords
    <2>6. refused[Sid[t]] \subseteq policy[Sid[t]].rejected
      BY <2>5 DEF ProxyInv, RejectedInv
    <2> QED BY <2>4, <2>5, <2>6, DecidedModel
  <1> QED BY <1>1, ProxyInvariant, PTL DEF ProxySpec, RefusedOnce
=============================================================================
