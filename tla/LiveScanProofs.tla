--------------------------- MODULE LiveScanProofs ---------------------------
(***************************************************************************)
(* Proofs about LiveScan for sources and pages of any size, however other  *)
(* clients change the source: what a scan may skip and what it may return  *)
(* twice.                                                                  *)
(***************************************************************************)
EXTENDS LiveScan, FiniteSetTheorems, SequenceTheorems, TLAPS

\* The elements of the page of x that were not returned yet, and all that the pass
\* took from the source if x is the instance.
Rest(x)   == {x.page[i] : i \in x.idx + 1..Len(x.page)}
Handed(x) == ToSet(given) \cup Rest(x)

\* The elements of the source, as it is now, that no request of x will ask for.
Passed(x) ==
  {store[i] : i \in {j \in DOMAIN store :
     \/ NoMorePages(x)
     \/ w = "redis_stream" /\ store[j] <= x.next
     \/ w # "redis_stream" /\ j <= Boundary(x)}}

-----------------------------------------------------------------------------
(* The inductive invariant.                                                *)

\* No element is there twice, and the ids of a stream ascend.
StoreInv ==
  \A i, j \in DOMAIN store : i < j =>
    store[i] # store[j] /\ (w = "redis_stream" => store[i] < store[j])

\* The instance holds elements there were, and clerk has an offset.
PageInv(x) ==
  /\ x \in N!Instances /\ x.idx <= Len(x.page) /\ x.page \in Seq(1..last)
  /\ open /\ w = "clerk" => x.next \in Nat

\* Of the elements that were there all the time, those that were passed without
\* being taken are no more than were removed before the boundary.
MissInv(x) == Cardinality((stays \cap Passed(x)) \ Handed(x)) <= pulled

\* The elements taken twice, and those that are about to be, are no more than
\* were put before the boundary.
RepeatInv(x) ==
  Len(given) + Len(x.page) - x.idx - Cardinality(Handed(x))
    + Cardinality(Handed(x) \cap (ToSet(store) \ Passed(x))) <= pushed

ScanInv(x) == PageInv(x) /\ MissInv(x) /\ RepeatInv(x)

\* An instance that does not scan is new.
IdleInv == ~open => scan = N!Fresh /\ given = <<>> /\ stays = {}

LiveInv == TypeOK /\ StoreInv /\ IdleInv /\ ScanInv(scan) /\ MissesBounded

-----------------------------------------------------------------------------
(* Cardinalities.                                                          *)

LEMMA IntervalCardinality ==
  ASSUME NEW a \in Int, NEW b \in Int, a <= b + 1
  PROVE  IsFiniteSet(a..b) /\ Cardinality(a..b) = b - a + 1
BY FS_Interval

\* A sequence has at least as many places as elements, a part of it too.
LEMMA PartCardinality ==
  ASSUME NEW S, NEW s \in Seq(S), NEW k \in 0..Len(s)
  PROVE  LET T == {s[i] : i \in k + 1..Len(s)}
         IN  /\ IsFiniteSet(T) /\ Cardinality(T) \in Nat /\ Cardinality(T) <= Len(s) - k
             /\ (\A i, j \in DOMAIN s : i < j => s[i] # s[j]) => Cardinality(T) = Len(s) - k
<1> DEFINE I == k + 1..Len(s)
           T == {s[i] : i \in I}
           f == [i \in I |-> s[i]]
<1>1. IsFiniteSet(I) /\ Cardinality(I) = Len(s) - k
  <2>1. Len(s) \in Int /\ k + 1 \in Int /\ k + 1 <= Len(s) + 1
        /\ Len(s) - (k + 1) + 1 = Len(s) - k
    OBVIOUS
  <2> QED BY <2>1, IntervalCardinality
<1>2. f \in Surjection(I, T)
  BY DEF Surjection
<1>3. IsFiniteSet(T) /\ Cardinality(T) <= Len(s) - k
      /\ (f \in Injection(I, T) => Cardinality(T) = Len(s) - k)
  <2> HIDE DEF I, T, f
  <2> QED BY <1>1, <1>2, FS_Surjection
<1>4. ASSUME \A i, j \in DOMAIN s : i < j => s[i] # s[j]
      PROVE  f \in Injection(I, T)
  <2>1. \A i, j \in I : i # j => s[i] # s[j]
    BY <1>4
  <2> QED BY <1>2, <2>1 DEF Injection, IsInjective, Surjection
<1> QED BY <1>3, <1>4, FS_CardinalityType

LEMMA SetCardinality ==
  ASSUME NEW S, NEW s \in Seq(S)
  PROVE  /\ IsFiniteSet(ToSet(s)) /\ Cardinality(ToSet(s)) \in Nat
         /\ Cardinality(ToSet(s)) <= Len(s)
<1>1. ToSet(s) = {s[i] : i \in 0 + 1..Len(s)}
  BY DEF ToSet
<1> QED BY <1>1, PartCardinality

\* The first k places of an ascending sequence are told by counting them.
LEMMA PrefixByCount ==
  ASSUME NEW n \in Nat, NEW T \in SUBSET (1..n), \A i \in T : 1..i \subseteq T
  PROVE  Cardinality(T) \in 0..n /\ T = 1..Cardinality(T)
<1>1. IsFiniteSet(1..n) /\ Cardinality(1..n) = n
  BY FS_Interval
<1>2. IsFiniteSet(T) /\ Cardinality(T) \in Nat /\ Cardinality(T) <= n
  <2>1. IsFiniteSet(T) /\ Cardinality(T) <= n
    <3> DEFINE I == 1..n
    <3>1. IsFiniteSet(I) /\ Cardinality(I) = n /\ T \in SUBSET I
      BY <1>1
    <3> HIDE DEF I
    <3>2. IsFiniteSet(T) /\ Cardinality(T) <= Cardinality(I)
      BY <3>1, FS_Subset, Zenon
    <3> QED BY <3>1, <3>2
  <2> QED BY <2>1, FS_CardinalityType
<1> DEFINE c == Cardinality(T)
<1> HIDE DEF c
<1>3. T \subseteq 1..c
  <2> SUFFICES ASSUME NEW i \in T PROVE i <= c
    BY <1>2 DEF c
  <2>1. 1..i \in SUBSET T /\ Cardinality(1..i) = i
    BY FS_Interval
  <2> QED BY <1>2, <2>1, FS_Subset DEF c
<1>4. IsFiniteSet(1..c) /\ Cardinality(1..c) = c
  BY <1>2, FS_Interval DEF c
<1>5. T = 1..c
  BY <1>3, <1>4, FS_Subset DEF c
<1> QED BY <1>2, <1>5 DEF c
-----------------------------------------------------------------------------
(* What a request answers.                                                 *)

\* The first k elements of the source.
First(k) == {store[i] : i \in {j \in DOMAIN store : j <= k}}

LEMMA MinOfTwo ==
  ASSUME NEW a \in Int, NEW b \in Int PROVE N!Min({a, b}) = IF a <= b THEN a ELSE b
BY DEF N!Min

\* The part of a sequence after the first k places and up to place e.
LEMMA PartAfter ==
  ASSUME NEW S, NEW r \in Seq(S), NEW k \in Nat, NEW e \in Nat, e <= Len(r),
         NEW s, s = SubSeq(r, k + 1, e)
  PROVE  /\ s \in Seq(S)
         /\ DOMAIN s = 1..Len(s) /\ Len(s) \in Nat
         /\ k < e => Len(s) = e - k
         /\ k >= e => Len(s) = 0
         /\ \A i \in 1..Len(s) : k + i \in 1..Len(r) /\ s[i] = r[k + i]
<1>1. \A i \in k + 1..e : r[i] \in S
  OBVIOUS
<1>2. /\ s \in Seq(S)
      /\ Len(s) = IF k + 1 <= e THEN e - (k + 1) + 1 ELSE 0
      /\ \A i \in 1..e - (k + 1) + 1 : s[i] = r[k + 1 + i - 1]
  BY <1>1, SubSeqProperties
<1>3. e - (k + 1) + 1 = e - k /\ \A i \in Int : k + 1 + i - 1 = k + i
  OBVIOUS
<1>4. Len(s) \in Nat /\ (k < e => Len(s) = e - k) /\ (k >= e => Len(s) = 0)
  BY <1>2, <1>3
<1>5. \A i \in 1..Len(s) : k + i \in 1..Len(r)
  BY <1>4
<1>6. \A i \in 1..Len(s) : s[i] = r[k + i]
  BY <1>2, <1>3, <1>4
<1> QED BY <1>2, <1>4, <1>5, <1>6

\* A full page begins after the first k places and goes on without a gap.
LEMMA FullIsPart ==
  ASSUME NEW S, NEW r \in Seq(S), NEW k \in Nat, NEW n \in Nat \ {0}
  PROVE  /\ k + n <= Len(r) => N!Full(r, k, n) = SubSeq(r, k + 1, k + n)
         /\ k + n > Len(r) => N!Full(r, k, n) = SubSeq(r, k + 1, Len(r))
<1>1. N!Full(r, k, n) = SubSeq(r, k + 1, N!Min({k + n, Len(r)}))
  BY DEF N!Full
<1>2. Len(r) \in Int /\ k + n \in Int
  OBVIOUS
<1>3. k + n <= Len(r) => N!Min({k + n, Len(r)}) = k + n
  BY <1>2, MinOfTwo
<1>4. k + n > Len(r) => N!Min({k + n, Len(r)}) = Len(r)
  <2>1. k + n > Len(r) => ~(k + n <= Len(r))
    BY <1>2
  <2> QED BY <1>2, <2>1, MinOfTwo
<1> QED BY <1>1, <1>3, <1>4

LEMMA FullPart ==
  ASSUME NEW S, NEW r \in Seq(S), NEW k \in Nat, NEW n \in Nat \ {0},
         NEW s, s = N!Full(r, k, n)
  PROVE  /\ s \in Seq(S) /\ DOMAIN s = 1..Len(s) /\ Len(s) \in 0..n
         /\ Len(s) < n => k + Len(s) >= Len(r)
         /\ Len(s) = 0 <=> k >= Len(r)
         /\ k + n <= Len(r) => Len(s) = n
         /\ \A i \in 1..Len(s) : k + i \in 1..Len(r) /\ s[i] = r[k + i]
<1>1. CASE k + n <= Len(r)
  <2>1. s = SubSeq(r, k + 1, k + n) /\ k + n \in Nat /\ k < k + n
    BY <1>1, FullIsPart
  <2>2. /\ s \in Seq(S) /\ DOMAIN s = 1..Len(s) /\ Len(s) = (k + n) - k
        /\ \A i \in 1..Len(s) : k + i \in 1..Len(r) /\ s[i] = r[k + i]
    BY <1>1, <2>1, PartAfter
  <2>3. Len(s) = n /\ Len(r) \in Nat
    BY <2>2
  <2> QED BY <1>1, <2>2, <2>3
<1>2. CASE k + n > Len(r)
  <2>1. s = SubSeq(r, k + 1, Len(r)) /\ Len(r) \in Nat /\ Len(r) <= Len(r)
    BY <1>2, FullIsPart
  <2>2. /\ s \in Seq(S) /\ DOMAIN s = 1..Len(s) /\ Len(s) \in Nat
        /\ k < Len(r) => Len(s) = Len(r) - k
        /\ k >= Len(r) => Len(s) = 0
        /\ \A i \in 1..Len(s) : k + i \in 1..Len(r) /\ s[i] = r[k + i]
    BY <2>1, PartAfter
  <2>3. /\ Len(s) \in 0..n
        /\ Len(s) < n => k + Len(s) >= Len(r)
        /\ Len(s) = 0 <=> k >= Len(r)
    BY <1>2, <2>1, <2>2
  <2> QED BY <1>2, <2>1, <2>2, <2>3
<1>3. Len(r) \in Int
  OBVIOUS
<1> QED BY <1>1, <1>2, <1>3

\* A part of the source without gaps holds what is between its ends.
LEMMA PartOfStore ==
  ASSUME TypeOK, StoreInv, NEW k \in Nat, NEW s \in Seq(1..last),
         \A i \in 1..Len(s) : k + i \in DOMAIN store /\ s[i] = store[k + i]
  PROVE  /\ \A i, j \in DOMAIN s : i < j => s[i] # s[j]
         /\ ToSet(s) \subseteq ToSet(store)
         /\ ToSet(s) \cap First(k) = {}
         /\ First(k + Len(s)) = First(k) \cup ToSet(s)
<1>1. DOMAIN s = 1..Len(s) /\ Len(s) \in Nat /\ DOMAIN store = 1..Len(store) /\ Len(store) \in Nat
  BY DEF TypeOK
<1>2. ASSUME NEW i \in DOMAIN s, NEW j \in DOMAIN s, i < j PROVE s[i] # s[j]
  <2>1. k + i \in DOMAIN store /\ k + j \in DOMAIN store /\ s[i] = store[k + i] /\ s[j] = store[k + j]
    BY <1>1
  <2>2. k + i < k + j
    BY <1>1, <1>2
  <2> QED BY <2>1, <2>2 DEF StoreInv
<1>3. ToSet(s) \subseteq ToSet(store)
  BY <1>1 DEF ToSet
<1>4. ToSet(s) \cap First(k) = {}
  <2> SUFFICES ASSUME NEW i \in DOMAIN s, NEW j \in DOMAIN store, j <= k PROVE s[i] # store[j]
    BY DEF ToSet, First
  <2>1. k + i \in DOMAIN store /\ s[i] = store[k + i]
    BY <1>1
  <2>2. j < k + i
    BY <1>1
  <2> QED BY <2>1, <2>2 DEF StoreInv
<1>5. First(k + Len(s)) = First(k) \cup ToSet(s)
  <2>1. ASSUME NEW i \in DOMAIN s PROVE s[i] \in First(k + Len(s))
    <3>1. k + i \in DOMAIN store /\ s[i] = store[k + i] /\ k + i <= k + Len(s)
      BY <1>1
    <3> QED BY <3>1 DEF First
  <2>2. ASSUME NEW j \in DOMAIN store, j <= k + Len(s), ~(j <= k)
        PROVE  store[j] \in ToSet(s)
    <3>1. j - k \in 1..Len(s) /\ k + (j - k) = j
      BY <1>1, <2>2
    <3>2. s[j - k] = store[j]
      BY <3>1
    <3> QED BY <1>1, <3>1, <3>2 DEF ToSet
  <2>3. \A j \in DOMAIN store : j <= k => j <= k + Len(s)
    BY <1>1
  <2> QED BY <2>1, <2>2, <2>3 DEF First, ToSet
<1> QED BY <1>2, <1>3, <1>4, <1>5

\* Everything is among the first elements, if there are no more of them.
LEMMA FirstAll ==
  ASSUME TypeOK, NEW k \in Int, k >= Len(store) PROVE First(k) = ToSet(store)
BY DEF First, ToSet, TypeOK

\* The entries of a stream up to an id are its first ones.
LEMMA FirstOfStream ==
  ASSUME TypeOK, StoreInv, w = "redis_stream", NEW id \in Int
  PROVE  LET k == Cardinality({i \in DOMAIN store : store[i] <= id})
         IN  k \in Nat /\ \A i \in DOMAIN store : store[i] <= id <=> i <= k
<1> DEFINE T == {i \in DOMAIN store : store[i] <= id}
           k == Cardinality(T)
<1>1. DOMAIN store = 1..Len(store) /\ Len(store) \in Nat
      /\ \A i \in DOMAIN store : store[i] \in Nat
  BY DEF TypeOK
<1>2. T \in SUBSET (1..Len(store)) /\ \A i \in T : 1..i \subseteq T
  BY <1>1 DEF StoreInv
<1>3. k \in 0..Len(store) /\ T = 1..k
  <2> HIDE DEF T
  <2> QED BY <1>1, <1>2, PrefixByCount
<1>4. \A i \in DOMAIN store : i \in T <=> i \in 1..k
  BY <1>3
<1> HIDE DEF k
<1> QED BY <1>1, <1>3, <1>4 DEF k

\* How many elements of the source x has passed: a request begins after them.
Place(x) ==
  CASE w = "redis_list"   -> x.cnt
    [] w = "redis_stream" -> Cardinality({i \in DOMAIN store : store[i] <= x.next})
    [] w = "clerk"        -> x.next + Len(x.page)
    [] w = "auth0"        -> x.next

\* A request leaves the page after that place and moves on the cursor.
LEMMA Fetched ==
  ASSUME w \in Sources, NEW x \in N!Instances, NEW y \in Fetch(x)
  PROVE  LET s == N!Full(store, Place(x), PageSize) IN
         /\ y = [x EXCEPT !.page = s, !.idx = 0, !.next = y.next]
         /\ w = "redis_list" => y.next = 0
         /\ w = "redis_stream" => y.next = IF s = <<>> THEN x.next ELSE Last(s)
         /\ w = "clerk" => y.next = Place(x)
         /\ w = "auth0" => y.next = IF x.next + PageSize < Len(store)
                                      THEN x.next + PageSize ELSE N!NoPage
<1> DEFINE s == N!Full(store, Place(x), PageSize)
<1>1. CASE w = "redis_list"
  BY <1>1 DEF Fetch, Place, N!RedisListFetch, N!Holding, N!Instances, Of, Ask
<1>2. CASE w = "redis_stream"
  BY <1>2 DEF Fetch, Place, StreamFetch, StreamPage, N!Holding, N!Instances
<1>3. CASE w = "clerk"
  <2>1. s = P!Full(store, x.next + Len(x.page), PageSize)
    BY <1>3 DEF Place, P!Full, N!Full, P!Min, N!Min
  <2> QED BY <1>3, <2>1 DEF Fetch, Place, P!ClerkFetch, P!Holding, N!Instances, Of, Ask
<1>4. CASE w = "auth0"
  <2>1. N!Pages("auth0", store, x.next, PageSize) = {N!FullPage(store, x.next, PageSize)}
    BY DEF N!Pages
  <2>2. y = N!Holding(x, N!FullPage(store, x.next, PageSize))
    BY <1>4, <2>1 DEF Fetch, N!Auth0Fetch, Of, Ask
  <2> QED BY <1>4, <2>2 DEF Place, N!FullPage, N!Holding, N!Instances
<1> QED BY <1>1, <1>2, <1>3, <1>4, LiveAssumption

\* What was passed are the first elements up to that place.
LEMMA PassedBefore ==
  ASSUME TypeOK, StoreInv, NEW x \in N!Instances, x.idx = Len(x.page), ~NoMorePages(x),
         w = "clerk" => x.next \in Nat
  PROVE  Place(x) \in Nat /\ Passed(x) = First(Place(x))
<1>1. x.cnt \in Nat /\ x.next \in Int /\ Len(x.page) \in Nat
  BY DEF N!Instances, N!NoPage
<1>2. CASE w = "redis_list"
  <2>1. Boundary(x) = x.cnt
    BY <1>1, <1>2 DEF Boundary
  <2> QED BY <1>1, <1>2, <2>1 DEF Place, Passed, First
<1>3. CASE w = "redis_stream"
  <2>1. Place(x) \in Nat /\ \A j \in DOMAIN store : store[j] <= x.next <=> j <= Place(x)
    BY <1>1, <1>3, FirstOfStream DEF Place
  <2> QED BY <1>3, <2>1 DEF Passed, First
<1>4. CASE w = "clerk"
  <2>1. Place(x) = x.next + Len(x.page) /\ Boundary(x) = Place(x)
    BY <1>4 DEF Place, Boundary
  <2> QED BY <1>1, <1>4, <2>1 DEF Passed, First
<1>5. CASE w = "auth0"
  <2>1. x.next \in Nat
    BY <1>5 DEF NoMorePages, N!Instances
  <2>2. Place(x) = x.next /\ Boundary(x) = x.next
    BY <1>5 DEF Place, Boundary
  <2> QED BY <1>5, <2>1, <2>2 DEF Passed, First
<1> QED BY <1>2, <1>3, <1>4, <1>5, LiveAssumption DEF TypeOK

LEMMA SeqOfMore ==
  ASSUME NEW S, NEW T, S \subseteq T, NEW s \in Seq(S) PROVE s \in Seq(T)
OBVIOUS

LEMMA PlaceOfSeq ==
  ASSUME NEW S, NEW s \in Seq(S) PROVE \A i \in 1..Len(s) : s[i] \in S
OBVIOUS

LEMMA LastOfSeq ==
  ASSUME NEW S, NEW s \in Seq(S), s # <<>> PROVE Last(s) \in S
<1>1. Len(s) \in DOMAIN s
  OBVIOUS
<1> QED BY <1>1 DEF Last

\* An instance that holds another page is an instance.
LEMMA InstanceHolding ==
  ASSUME NEW x \in N!Instances, NEW s \in Seq(Nat), NEW n \in Nat \cup {N!NoPage}
  PROVE  [x EXCEPT !.page = s, !.idx = 0, !.next = n] \in N!Instances
BY DEF N!Instances

\* The entries of a stream up to the last of a page are those up to its place.
LEMMA FirstUpToLast ==
  ASSUME TypeOK, StoreInv, w = "redis_stream", NEW m \in DOMAIN store
  PROVE  \A j \in DOMAIN store : store[j] <= store[m] <=> j <= m
<1>1. \A j \in DOMAIN store : j \in Int /\ store[j] \in Int
  BY DEF TypeOK
<1>2. \A j \in DOMAIN store : j <= m => store[j] <= store[m]
  BY <1>1 DEF StoreInv
<1>3. \A j \in DOMAIN store : m < j => store[m] < store[j]
  BY DEF StoreInv
<1> QED BY <1>1, <1>2, <1>3

\* After the request what was passed are the elements up to the end of the page.
LEMMA PassedAfter ==
  ASSUME TypeOK, StoreInv, NEW x \in N!Instances, Place(x) \in Nat,
         w = "redis_stream" => Passed(x) = First(Place(x)), NEW y \in Fetch(x),
         NEW s, s = N!Full(store, Place(x), PageSize)
  PROVE  Passed(y) = First(Place(x) + Len(s))
<1> DEFINE k == Place(x)
<1>1. k \in Nat /\ (w = "redis_stream" => Passed(x) = First(k))
  OBVIOUS
<1>t. /\ w \in Sources /\ store \in Seq(1..last) /\ PageSize \in Nat \ {0}
      /\ Len(store) \in Nat /\ DOMAIN store = 1..Len(store)
  BY LiveAssumption DEF TypeOK
<1>2. /\ s \in Seq(1..last) /\ DOMAIN s = 1..Len(s) /\ Len(s) \in 0..PageSize
      /\ Len(s) < PageSize => k + Len(s) >= Len(store)
      /\ Len(s) = 0 <=> k >= Len(store)
      /\ k + PageSize <= Len(store) => Len(s) = PageSize
  BY <1>1, <1>t, FullPart
<1>p. \A i \in 1..Len(s) : k + i \in 1..Len(store) /\ s[i] = store[k + i]
  BY <1>1, <1>t, FullPart
<1>3. /\ y = [x EXCEPT !.page = s, !.idx = 0, !.next = y.next]
      /\ w = "redis_stream" => y.next = IF s = <<>> THEN x.next ELSE Last(s)
      /\ w = "clerk" => y.next = k
      /\ w = "auth0" => y.next = IF x.next + PageSize < Len(store)
                                   THEN x.next + PageSize ELSE N!NoPage
  <2> HIDE DEF k
  <2>1. k = Place(x)
    BY DEF k
  <2>2. /\ y = [x EXCEPT !.page = s, !.idx = 0, !.next = y.next]
        /\ w = "redis_stream" => y.next = IF s = <<>> THEN x.next ELSE Last(s)
        /\ w = "clerk" => y.next = Place(x)
        /\ w = "auth0" => y.next = IF x.next + PageSize < Len(store)
                                     THEN x.next + PageSize ELSE N!NoPage
    BY <1>t, Fetched
  <2> QED BY <2>1, <2>2
<1>k. /\ w = "redis_list" => k = x.cnt
      /\ w = "auth0" => k = x.next
  BY DEF Place
<1> HIDE DEF k
<1> SUFFICES Passed(y) = First(k + Len(s))
  BY DEF k
<1>m. Len(s) \in 0..PageSize
  BY <1>2
<1>n. k + Len(s) \in Nat
  BY <1>1, <1>2
<1>a. Len(s) < PageSize => k + Len(s) >= Len(store)
  BY <1>1, <1>2
<1>b. k + PageSize >= Len(store) => k + Len(s) >= Len(store)
  <2>1. Len(s) = PageSize \/ Len(s) < PageSize
    BY <1>t, <1>m
  <2> QED BY <1>a, <2>1
<1>4. /\ y.page = s /\ y.idx = 0 /\ y.cnt = x.cnt
      /\ PageSize \in Nat \ {0} /\ Len(store) \in Nat /\ DOMAIN store = 1..Len(store)
  BY <1>t, <1>3 DEF N!Instances
<1>5. CASE w = "redis_list"
  <2>1. ~NoMorePages(y)
    BY <1>5 DEF NoMorePages
  <2>2. Boundary(y) = y.cnt + Len(y.page) - y.idx
    BY <1>5, <2>1 DEF Boundary
  <2>3. Boundary(y) = k + Len(s)
    BY <1>1, <1>m, <1>4, <1>5, <1>k, <2>2
  <2> QED BY <1>5, <2>1, <2>3 DEF Passed, First
<1>6. CASE w = "redis_stream"
  <2>1. ~NoMorePages(y)
    BY <1>6 DEF NoMorePages
  <2>2. y.next = IF s = <<>> THEN x.next ELSE Last(s)
    BY <1>3, <1>6
  <2>3. CASE Len(s) = 0
    <3>1. s = <<>>
      BY <1>2, <2>3
    <3>2. y.next = x.next /\ k + Len(s) = k
      BY <1>1, <2>2, <2>3, <3>1
    <3>3. Passed(y) = Passed(x)
      BY <1>6, <3>2 DEF Passed, NoMorePages
    <3> QED BY <1>1, <1>6, <3>2, <3>3
  <2>4. CASE Len(s) # 0
    <3> DEFINE m == k + Len(s)
    <3>1. s # <<>> /\ Last(s) = s[Len(s)] /\ Len(s) \in 1..Len(s)
      BY <1>2, <2>4 DEF Last
    <3>2. m \in DOMAIN store /\ y.next = store[m]
      BY <1>2, <1>4, <1>p, <2>2, <3>1
    <3>3. \A j \in DOMAIN store : store[j] <= y.next <=> j <= m
      <4> HIDE DEF m
      <4> QED BY <1>6, <3>2, FirstUpToLast
    <3> QED BY <1>6, <2>1, <3>3 DEF Passed, First
  <2> QED BY <2>3, <2>4
<1>7. CASE w = "clerk"
  <2>1. y.next = k
    BY <1>3, <1>7
  <2>2. CASE Len(s) < PageSize
    <3>1. NoMorePages(y)
      BY <1>4, <1>7, <2>2 DEF NoMorePages
    <3>3. \A j \in DOMAIN store : j <= k + Len(s)
      BY <1>4, <1>a, <1>n, <2>2
    <3> QED BY <3>1, <3>3 DEF Passed, First
  <2>3. CASE ~(Len(s) < PageSize)
    <3>1. ~NoMorePages(y)
      BY <1>4, <1>7, <2>3 DEF NoMorePages
    <3>2. Boundary(y) = k + Len(s)
      BY <1>4, <1>7, <2>1, <3>1 DEF Boundary
    <3> QED BY <1>7, <3>1, <3>2 DEF Passed, First
  <2> QED BY <2>2, <2>3
<1>8. CASE w = "auth0"
  <2>1. k = x.next
    BY <1>8, <1>k
  <2>2. CASE k + PageSize < Len(store)
    <3>1. y.next = k + PageSize /\ Len(s) = PageSize
      BY <1>1, <1>2, <1>3, <1>4, <1>8, <2>1, <2>2
    <3>2. ~NoMorePages(y)
      BY <1>1, <1>4, <1>8, <3>1 DEF NoMorePages, N!NoPage
    <3>3. Boundary(y) = k + Len(s)
      BY <1>8, <3>1, <3>2 DEF Boundary
    <3> QED BY <1>8, <3>2, <3>3 DEF Passed, First
  <2>3. CASE ~(k + PageSize < Len(store))
    <3>1. NoMorePages(y)
      BY <1>3, <1>8, <2>1, <2>3 DEF NoMorePages
    <3>2. k + PageSize >= Len(store)
      BY <1>1, <1>4, <2>3
    <3>3. \A j \in DOMAIN store : j <= k + Len(s)
      BY <1>4, <1>b, <1>n, <3>2
    <3> QED BY <3>1, <3>3 DEF Passed, First
  <2> QED BY <2>2, <2>3
<1> QED BY <1>5, <1>6, <1>7, <1>8, LiveAssumption DEF TypeOK

\* y holds a page of elements of the source that are behind those of p, and has
\* passed no others.
Takes(y, p) ==
  /\ y \in N!Instances /\ y.idx = 0 /\ y.page \in Seq(1..last)
  /\ w = "clerk" => y.next \in Nat
  /\ \A i, j \in DOMAIN y.page : i < j => y.page[i] # y.page[j]
  /\ ToSet(y.page) \subseteq ToSet(store) \ p
  /\ Passed(y) = p \cup ToSet(y.page)

LEMMA Requested ==
  ASSUME TypeOK, StoreInv, NEW x \in N!Instances, Place(x) \in Nat,
         w = "redis_stream" => Passed(x) = First(Place(x)), NEW y \in Fetch(x)
  PROVE  Takes(y, First(Place(x))) /\ (Len(y.page) = 0 => Passed(y) = ToSet(store))
<1> DEFINE k == Place(x)
           s == N!Full(store, k, PageSize)
<1>1. k \in Nat
  OBVIOUS
<1>2. Passed(y) = First(k + Len(s))
  <2> HIDE DEF s
  <2> QED BY PassedAfter DEF s
<1>t. w \in Sources /\ \A i \in 1..last : i \in Nat
  BY DEF TypeOK
<1>3. /\ y = [x EXCEPT !.page = s, !.idx = 0, !.next = y.next]
      /\ w = "redis_list" => y.next = 0
      /\ w = "redis_stream" => y.next = IF s = <<>> THEN x.next ELSE Last(s)
      /\ w = "clerk" => y.next = k
      /\ w = "auth0" => y.next = IF x.next + PageSize < Len(store)
                                   THEN x.next + PageSize ELSE N!NoPage
  BY <1>t, Fetched
<1>4. /\ s \in Seq(1..last) /\ Len(s) \in Nat
      /\ Len(s) = 0 => k >= Len(store)
      /\ \A i \in 1..Len(s) : k + i \in DOMAIN store /\ s[i] = store[k + i]
  <2>1. store \in Seq(1..last) /\ DOMAIN store = 1..Len(store)
    BY DEF TypeOK
  <2> HIDE DEF s, k
  <2> QED BY <1>1, <2>1, FullPart, LiveAssumption DEF s
<1> HIDE DEF s, k
<1>5. /\ \A i, j \in DOMAIN s : i < j => s[i] # s[j]
      /\ ToSet(s) \subseteq ToSet(store)
      /\ ToSet(s) \cap First(k) = {}
      /\ First(k + Len(s)) = First(k) \cup ToSet(s)
  BY <1>1, <1>4, PartOfStore
<1>6. y.page = s /\ y.idx = 0
  BY <1>3 DEF N!Instances
<1>7. ASSUME Len(s) = 0 PROVE Passed(y) = ToSet(store)
  <2>1. k >= Len(store) /\ k + Len(s) = k
    BY <1>1, <1>4, <1>7
  <2> QED BY <1>1, <1>2, <2>1, FirstAll
<1>8. y.next \in Nat \cup {N!NoPage}
  <2>1. ASSUME s # <<>> PROVE Last(s) \in Nat
    <3>1. Last(s) \in 1..last
      BY <1>4, <2>1, LastOfSeq
    <3> QED BY <1>t, <3>1
  <2>2. x.next + PageSize < Len(store) => (w = "auth0" => x.next + PageSize \in Nat)
    <3>1. w = "auth0" => k = x.next
      BY DEF k, Place
    <3> QED BY <1>1, <3>1, LiveAssumption
  <2>3. x.next \in Nat \cup {N!NoPage}
    BY DEF N!Instances
  <2> QED BY <1>1, <1>3, <1>t, <2>1, <2>2, <2>3, LiveAssumption
<1>9. y \in N!Instances
  <2>1. s \in Seq(Nat)
    <3>1. 1..last \subseteq Nat
      BY <1>t
    <3> QED BY <1>4, <3>1, SeqOfMore
  <2>2. y = [x EXCEPT !.page = s, !.idx = 0, !.next = y.next]
    BY <1>3
  <2>3. [x EXCEPT !.page = s, !.idx = 0, !.next = y.next] \in N!Instances
    BY <1>8, <2>1, InstanceHolding
  <2> QED BY <2>2, <2>3
<1>10. y.page \in Seq(1..last) /\ (w = "clerk" => y.next \in Nat)
  BY <1>1, <1>3, <1>4, <1>6
<1>11. ToSet(s) \subseteq ToSet(store) \ First(k) /\ Passed(y) = First(k) \cup ToSet(s)
  BY <1>2, <1>5
<1>12. Takes(y, First(k))
  BY <1>5, <1>6, <1>9, <1>10, <1>11 DEF Takes
<1> QED BY <1>6, <1>7, <1>12 DEF k

\* A request takes new elements only, and has passed all of them if there are none.
LEMMA FetchTakes ==
  ASSUME TypeOK, StoreInv, NEW x \in N!Instances, x.idx = Len(x.page), ~NoMorePages(x),
         w = "clerk" => x.next \in Nat, NEW y \in Fetch(x)
  PROVE  Takes(y, Passed(x)) /\ (Len(y.page) = 0 => Passed(y) = ToSet(store))
<1>1. Place(x) \in Nat /\ Passed(x) = First(Place(x))
  BY PassedBefore
<1> QED BY <1>1, Requested

\* A pass begins with what its first request takes, if it makes one.
LEMMA ClerkTakes ==
  ASSUME TypeOK, StoreInv, w = "clerk", NEW x \in N!Instances,
         NEW y \in P!ClerkFetch(P!ClerkReset(x), Ask)
  PROVE  Takes(y, {})
<1> DEFINE z == P!ClerkReset(x)
<1>1. z \in N!Instances /\ z.page = <<>> /\ z.idx = 0 /\ z.next = 0
  <2>1. <<>> \in Seq(Nat)
    OBVIOUS
  <2> QED BY <2>1 DEF P!ClerkReset, N!Instances
<1>2. y \in Fetch(z)
  BY DEF Fetch
<1>3. Place(z) = 0
  <2> HIDE DEF z
  <2> QED BY <1>1 DEF Place
<1>4. First(0) = {}
  BY DEF First, TypeOK
<1> HIDE DEF z
<1>5. Takes(y, First(Place(z)))
  <2>1. Place(z) \in Nat /\ w # "redis_stream"
    BY <1>3
  <2> QED BY <1>1, <1>2, <2>1, Requested
<1> QED BY <1>3, <1>4, <1>5

\* The others begin with an empty page, before the first element.
LEMMA EmptyTakes ==
  ASSUME TypeOK, w # "clerk", NEW y \in N!Instances,
         y.page = <<>>, y.idx = 0, y.next = 0, y.cnt = 0
  PROVE  Takes(y, {})
<1>1. ~NoMorePages(y)
  BY DEF NoMorePages, N!NoPage
<1>2. Len(y.page) = 0 /\ ToSet(y.page) = {} /\ DOMAIN y.page = {}
  BY DEF ToSet
<1>3. \A j \in DOMAIN store : j \in Nat \ {0} /\ store[j] \in Nat \ {0}
  BY DEF TypeOK
<1>4. w \in {"redis_list", "auth0"} => Boundary(y) = 0
  BY <1>1, <1>2 DEF Boundary
<1>5. Passed(y) = {}
  <2>1. w # "redis_stream" => Boundary(y) = 0
    BY <1>4, LiveAssumption DEF TypeOK
  <2> QED BY <1>1, <1>3, <2>1 DEF Passed
<1>6. <<>> \in Seq(1..last)
  OBVIOUS
<1> QED BY <1>2, <1>5, <1>6 DEF Takes

LEMMA BeginTakes ==
  ASSUME TypeOK, StoreInv, NEW x \in N!Instances, NEW y \in BeginScan(x) PROVE Takes(y, {})
<1>1. CASE w = "clerk"
  BY <1>1, ClerkTakes DEF BeginScan
<1>2. CASE w \in {"redis_list", "redis_stream"}
  <2>1. y = N!RedisReset(x)
    BY <1>2 DEF BeginScan, N!RedisBegin
  <2>2. y \in N!Instances /\ y.page = <<>> /\ y.idx = 0 /\ y.next = 0 /\ y.cnt = 0
    <3>1. <<>> \in Seq(Nat)
      OBVIOUS
    <3> QED BY <2>1, <3>1 DEF N!RedisReset, N!Instances
  <2> QED BY <1>2, <2>2, EmptyTakes
<1>3. CASE w = "auth0"
  <2>1. y = N!Auth0Begin(x, Ask)
    BY <1>3 DEF BeginScan
  <2>2. y \in N!Instances /\ y.page = <<>> /\ y.idx = 0 /\ y.next = 0 /\ y.cnt = 0
    <3>1. <<>> \in Seq(Nat)
      OBVIOUS
    <3> QED BY <2>1, <3>1 DEF N!Auth0Begin, N!Fresh, N!Instances, N!NoPage
  <2> QED BY <1>3, <2>2, EmptyTakes
<1> QED BY <1>1, <1>2, <1>3, LiveAssumption DEF TypeOK

LEMMA ReScanTakes ==
  ASSUME TypeOK, StoreInv, NEW x \in N!Instances, NEW y \in ReScan(x) PROVE Takes(y, {})
<1>1. CASE w = "clerk"
  BY <1>1, ClerkTakes DEF ReScan
<1>2. CASE w \in {"redis_list", "redis_stream"}
  <2>1. y \in BeginScan(x)
    BY <1>2 DEF ReScan, BeginScan, N!RedisReScan, N!RedisBegin
  <2> QED BY <2>1, BeginTakes
<1> QED BY <1>1, <1>2 DEF ReScan

LEMMA EndScanInstance ==
  ASSUME NEW x \in N!Instances PROVE EndScan(x) \in N!Instances
<1>1. <<>> \in Seq(Nat)
  OBVIOUS
<1>2. N!RedisEnd(x) \in N!Instances /\ P!ClerkEnd(x) \in N!Instances
  BY <1>1 DEF N!RedisEnd, P!ClerkEnd, N!Instances
<1> QED BY <1>2 DEF EndScan

-----------------------------------------------------------------------------
(* What the other clients do to the places.                                *)

LEMMA InsertAtPlaces ==
  ASSUME NEW S, NEW r \in Seq(S), NEW i \in 1..Len(r) + 1, NEW e \in S,
         NEW s, s = InsertAt(r, i, e)
  PROVE  /\ s \in Seq(S) /\ Len(s) = Len(r) + 1 /\ s[i] = e
         /\ \A j \in 1..Len(r) : j < i => s[j] = r[j]
         /\ \A j \in 1..Len(r) : j >= i => s[j + 1] = r[j]
<1> DEFINE p == SubSeq(r, 1, i - 1)
           q == SubSeq(r, i, Len(r))
<1>1. Len(r) \in Nat /\ i \in Int
  OBVIOUS
<1>2. p \in Seq(S) /\ Len(p) = i - 1 /\ \A j \in 1..i - 1 : p[j] = r[j]
  OBVIOUS
<1>3. q \in Seq(S) /\ Len(q) = Len(r) - i + 1 /\ \A j \in 1..Len(r) - i + 1 : q[j] = r[i + j - 1]
  OBVIOUS
<1>4. s = p \o <<e>> \o q
  BY DEF InsertAt
<1>5. <<e>> \in Seq(S) /\ Len(<<e>>) = 1 /\ <<e>>[1] = e
  OBVIOUS
<1> HIDE DEF p, q
<1>6. p \o <<e>> \in Seq(S) /\ Len(p \o <<e>>) = i
      /\ (\A j \in 1..i - 1 : (p \o <<e>>)[j] = r[j]) /\ (p \o <<e>>)[i] = e
  <2> DEFINE o == <<e>>
  <2>1. o \in Seq(S) /\ Len(o) = 1 /\ o[1] = e
    BY <1>5
  <2> HIDE DEF o
  <2>2. /\ p \o o \in Seq(S) /\ Len(p \o o) = i
        /\ \A j \in 1..i : (p \o o)[j] = IF j <= i - 1 THEN p[j] ELSE o[j - (i - 1)]
    <3>1. Len(p) + Len(o) = i
      BY <1>1, <1>2, <2>1
    <3>2. /\ p \o o \in Seq(S) /\ Len(p \o o) = Len(p) + Len(o)
          /\ \A j \in 1..Len(p) + Len(o) : (p \o o)[j] = IF j <= Len(p) THEN p[j] ELSE o[j - Len(p)]
      BY <1>2, <2>1, ConcatProperties
    <3> QED BY <1>2, <3>1, <3>2
  <2>3. \A j \in 1..i - 1 : (p \o o)[j] = r[j]
    BY <1>1, <1>2, <2>2
  <2>4. (p \o o)[i] = e
    <3>1. i \in 1..i /\ ~(i <= i - 1) /\ i - (i - 1) = 1
      BY <1>1
    <3> QED BY <2>1, <2>2, <3>1
  <2> QED BY <2>2, <2>3, <2>4 DEF o
<1>7. s \in Seq(S) /\ Len(s) = Len(r) + 1
  <2> DEFINE u == p \o <<e>>
  <2>0. u \in Seq(S) /\ Len(u) = i /\ s = u \o q
    BY <1>4, <1>6
  <2> HIDE DEF u
  <2>1. s \in Seq(S) /\ Len(s) = i + Len(q)
    BY <1>3, <2>0, ConcatProperties
  <2> QED BY <1>1, <1>3, <2>1
<1>8. (\A j \in 1..i - 1 : s[j] = r[j]) /\ s[i] = e
  BY <1>1, <1>3, <1>4, <1>6
<1>9. ASSUME NEW j \in 1..Len(r), j >= i PROVE s[j + 1] = r[j]
  <2>1. s[j + 1] = q[j + 1 - i]
    <3> DEFINE u == p \o <<e>>
    <3>1. u \in Seq(S) /\ Len(u) = i /\ s = u \o q
      BY <1>4, <1>6
    <3> HIDE DEF u
    <3>2. j + 1 \in 1..Len(u) + Len(q) /\ j + 1 > Len(u)
      BY <1>1, <1>3, <1>9, <3>1
    <3> QED BY <1>3, <3>1, <3>2, ConcatProperties
  <2>2. j + 1 - i \in 1..Len(r) - i + 1 /\ i + (j + 1 - i) - 1 = j
    BY <1>1, <1>9
  <2> QED BY <1>3, <2>1, <2>2
<1> QED BY <1>1, <1>7, <1>8, <1>9

LEMMA RemoveAtPlaces ==
  ASSUME NEW S, NEW r \in Seq(S), NEW i \in 1..Len(r), NEW s, s = RemoveAt(r, i)
  PROVE  /\ s \in Seq(S) /\ Len(s) = Len(r) - 1
         /\ \A j \in 1..Len(s) : j < i => s[j] = r[j]
         /\ \A j \in 1..Len(s) : j >= i => s[j] = r[j + 1]
<1> DEFINE p == SubSeq(r, 1, i - 1)
           q == SubSeq(r, i + 1, Len(r))
<1>1. Len(r) \in Nat /\ i \in Int
  OBVIOUS
<1>2. p \in Seq(S) /\ Len(p) = i - 1 /\ \A j \in 1..i - 1 : p[j] = r[j]
  OBVIOUS
<1>3. q \in Seq(S) /\ Len(q) = Len(r) - i /\ \A j \in 1..Len(r) - i : q[j] = r[i + j]
  OBVIOUS
<1>4. s = p \o q
  BY DEF RemoveAt
<1> HIDE DEF p, q
<1>5. s \in Seq(S) /\ Len(s) = Len(r) - 1
  BY <1>1, <1>2, <1>3, <1>4
<1>6. \A j \in 1..i - 1 : s[j] = r[j]
  BY <1>1, <1>2, <1>3, <1>4
<1>7. ASSUME NEW j \in 1..Len(s), j >= i PROVE s[j] = r[j + 1]
  <2>1. s[j] = q[j + 1 - i]
    BY <1>1, <1>2, <1>3, <1>4, <1>5, <1>7
  <2>2. j + 1 - i \in 1..Len(r) - i /\ i + (j + 1 - i) = j + 1
    BY <1>1, <1>5, <1>7
  <2> QED BY <1>3, <2>1, <2>2
<1> QED BY <1>1, <1>5, <1>6, <1>7

\* An element put at place i moves those behind it by one place.
LEMMA InsertedStore ==
  ASSUME TypeOK, StoreInv, NEW i \in 1..Len(store) + 1, InsertElement(i)
  PROVE  /\ store' \in Seq(1..last') /\ last' = last + 1 /\ Len(store') = Len(store) + 1
         /\ store'[i] = last'
         /\ \A j \in 1..Len(store) : j < i => store'[j] = store[j]
         /\ \A j \in 1..Len(store) : j >= i => store'[j + 1] = store[j]
         /\ \A j \in 1..Len(store') :
              \/ j < i /\ j \in 1..Len(store) /\ store'[j] = store[j]
              \/ j = i /\ store'[j] = last + 1
              \/ j > i /\ j - 1 \in 1..Len(store) /\ store'[j] = store[j - 1]
<1>1. last \in Nat /\ store \in Seq(1..last) /\ Len(store) \in Nat
  BY DEF TypeOK
<1>2. last' = last + 1 /\ store' = InsertAt(store, i, last + 1)
  BY DEF InsertElement
<1> DEFINE e == last + 1
<1>3. store \in Seq(1..e) /\ e \in 1..e /\ store' = InsertAt(store, i, e) /\ e = last + 1
  <2>1. 1..last \subseteq 1..e /\ e \in 1..e
    BY <1>1
  <2> QED BY <1>1, <1>2, <2>1, SeqOfMore
<1> HIDE DEF e
<1>4. /\ store' \in Seq(1..e) /\ Len(store') = Len(store) + 1 /\ store'[i] = e
      /\ \A j \in 1..Len(store) : j < i => store'[j] = store[j]
      /\ \A j \in 1..Len(store) : j >= i => store'[j + 1] = store[j]
  <2> DEFINE S == 1..e
             s == InsertAt(store, i, e)
  <2>1. store \in Seq(S) /\ e \in S /\ store' = s
    BY <1>3
  <2> HIDE DEF S
  <2>2. /\ s \in Seq(S) /\ Len(s) = Len(store) + 1 /\ s[i] = e
        /\ \A j \in 1..Len(store) : j < i => s[j] = store[j]
        /\ \A j \in 1..Len(store) : j >= i => s[j + 1] = store[j]
    BY <2>1, InsertAtPlaces
  <2> HIDE DEF s
  <2> QED BY <2>1, <2>2 DEF S
<1>5. ASSUME NEW j \in 1..Len(store'), j > i
      PROVE  j - 1 \in 1..Len(store) /\ store'[j] = store[j - 1]
  <2>1. j - 1 \in 1..Len(store) /\ j - 1 >= i /\ (j - 1) + 1 = j
    BY <1>1, <1>4, <1>5
  <2> QED BY <1>4, <2>1
<1>6. ASSUME NEW j \in 1..Len(store'), j < i
      PROVE  j \in 1..Len(store) /\ store'[j] = store[j]
  <2>1. j \in 1..Len(store)
    BY <1>1, <1>4, <1>6
  <2> QED BY <1>4, <1>6, <2>1
<1>7. \A j \in 1..Len(store') : j < i \/ j = i \/ j > i
  BY <1>1, <1>4
<1> QED BY <1>2, <1>3, <1>4, <1>5, <1>6, <1>7

\* An element removed from place i moves those behind it by one place.
LEMMA RemovedStore ==
  ASSUME TypeOK, StoreInv, NEW i \in 1..Len(store), RemoveElement(i)
  PROVE  /\ store' \in Seq(1..last) /\ last' = last /\ Len(store') = Len(store) - 1
         /\ \A j \in 1..Len(store') :
              \/ j < i /\ j \in 1..Len(store) /\ store'[j] = store[j]
              \/ j >= i /\ j + 1 \in 1..Len(store) /\ store'[j] = store[j + 1]
         /\ \A j \in 1..Len(store) :
              \/ j < i /\ j \in 1..Len(store') /\ store'[j] = store[j]
              \/ j = i
              \/ j > i /\ j - 1 \in 1..Len(store') /\ store'[j - 1] = store[j]
<1>1. last \in Nat /\ store \in Seq(1..last) /\ Len(store) \in Nat
  BY DEF TypeOK
<1>2. last' = last /\ store' = RemoveAt(store, i)
  BY DEF RemoveElement
<1>3. /\ store' \in Seq(1..last) /\ Len(store') = Len(store) - 1
      /\ \A j \in 1..Len(store') : j < i => store'[j] = store[j]
      /\ \A j \in 1..Len(store') : j >= i => store'[j] = store[j + 1]
  <2> DEFINE S == 1..last
             t == store'
  <2>1. store \in Seq(S) /\ t = RemoveAt(store, i)
    BY <1>1, <1>2
  <2> HIDE DEF S, t
  <2>2. t \in Seq(S) /\ Len(t) = Len(store) - 1
    BY <2>1, RemoveAtPlaces
  <2>3. \A j \in 1..Len(t) : j < i => t[j] = store[j]
    BY <2>1, RemoveAtPlaces
  <2>4. \A j \in 1..Len(t) : j >= i => t[j] = store[j + 1]
    BY <2>1, RemoveAtPlaces
  <2> QED BY <2>2, <2>3, <2>4 DEF S, t
<1>4. ASSUME NEW j \in 1..Len(store')
      PROVE  \/ j < i /\ j \in 1..Len(store) /\ store'[j] = store[j]
             \/ j >= i /\ j + 1 \in 1..Len(store) /\ store'[j] = store[j + 1]
  <2>1. Len(store') = Len(store) - 1
    BY <1>3
  <2>2. j \in 1..Len(store) /\ j + 1 \in 1..Len(store) /\ (j < i \/ j >= i)
    BY <1>1, <2>1
  <2> QED BY <1>3, <2>2
<1>5. ASSUME NEW j \in 1..Len(store), j < i
      PROVE  j \in 1..Len(store') /\ store'[j] = store[j]
  <2>1. j \in 1..Len(store')
    BY <1>1, <1>3, <1>5
  <2> QED BY <1>3, <1>5, <2>1
<1>6. ASSUME NEW j \in 1..Len(store), j > i
      PROVE  j - 1 \in 1..Len(store') /\ store'[j - 1] = store[j]
  <2>1. j - 1 \in 1..Len(store') /\ j - 1 >= i /\ (j - 1) + 1 = j
    BY <1>1, <1>3, <1>6
  <2> QED BY <1>3, <2>1
<1>7. \A j \in 1..Len(store) : j < i \/ j = i \/ j > i
  BY <1>1
<1> QED BY <1>2, <1>3, <1>4, <1>5, <1>6, <1>7

\* The places x has passed.
LEMMA PassedPlaces ==
  ASSUME TypeOK, NEW v
  PROVE  v \in Passed(scan) <=>
           \E j \in 1..Len(store) : v = store[j] /\
             (\/ NoMorePages(scan)
              \/ w = "redis_stream" /\ store[j] <= scan.next
              \/ w # "redis_stream" /\ j <= Boundary(scan))
<1>1. DOMAIN store = 1..Len(store)
  BY DEF TypeOK
<1> QED BY <1>1 DEF Passed

LEMMA PassedPlacesNext ==
  ASSUME store' \in Seq(Int), w' = w, scan' = scan, NEW v
  PROVE  v \in Passed(scan)' <=>
           \E j \in 1..Len(store') : v = store'[j] /\
             (\/ NoMorePages(scan)
              \/ w = "redis_stream" /\ store'[j] <= scan.next
              \/ w # "redis_stream" /\ j <= Boundary(scan))
<1>1. DOMAIN store' = 1..Len(store')
  OBVIOUS
<1>2. NoMorePages(scan)' = NoMorePages(scan)
  BY DEF NoMorePages
<1>3. Boundary(scan)' = Boundary(scan)
  BY <1>2 DEF Boundary
<1> QED BY <1>1, <1>2, <1>3 DEF Passed

LEMMA BoundaryInt ==
  ASSUME TypeOK
  PROVE  /\ Boundary(scan) \in Int
         /\ NoMorePages(scan) \/ w = "redis_stream" => Boundary(scan) = 0
<1>1. scan.cnt \in Int /\ scan.next \in Int /\ scan.idx \in Int /\ Len(scan.page) \in Int
  BY DEF TypeOK, N!Instances, N!NoPage
<1>2. NoMorePages(scan) \/ w = "redis_stream" => Boundary(scan) = 0
  BY DEF Boundary
<1>3. /\ w = "redis_list" /\ ~NoMorePages(scan) => Boundary(scan) = scan.cnt + Len(scan.page) - scan.idx
      /\ w = "clerk" /\ ~NoMorePages(scan) => Boundary(scan) = scan.next + Len(scan.page)
      /\ w = "auth0" /\ ~NoMorePages(scan) => Boundary(scan) = scan.next
  BY DEF Boundary
<1>4. scan.cnt + Len(scan.page) - scan.idx \in Int /\ scan.next + Len(scan.page) \in Int
  BY <1>1
<1>5. w \in {"redis_list", "redis_stream", "clerk", "auth0"}
  BY LiveAssumption DEF TypeOK
<1> QED BY <1>1, <1>2, <1>3, <1>4, <1>5

\* What others put into the source is not passed but where it is put; if that is
\* before the boundary, one element is not passed any more.
LEMMA InsertedPassed ==
  ASSUME TypeOK, StoreInv, NEW i \in 1..Len(store) + 1, InsertElement(i)
  PROVE  /\ Passed(scan)' \subseteq Passed(scan) \cup {last'}
         /\ pushed' = pushed \/ pushed' = pushed + 1
         /\ pushed' = pushed => Passed(scan) \subseteq Passed(scan)'
         /\ Passed(scan) \ Passed(scan)' \subseteq {store[Boundary(scan)]}
<1>1. /\ store' \in Seq(1..last') /\ last' = last + 1 /\ Len(store') = Len(store) + 1
      /\ last \in Nat /\ Len(store) \in Nat /\ w' = w /\ scan' = scan
  BY InsertedStore DEF InsertElement, TypeOK
<1>2. store' \in Seq(Int)
  <2>1. 1..last' \subseteq Int
    BY <1>1
  <2> QED BY <1>1, <2>1, SeqOfMore
<1>3. ASSUME NEW v \in Passed(scan)' PROVE v \in Passed(scan) \cup {last'}
  <2>1. PICK j \in 1..Len(store') : v = store'[j] /\
             (\/ NoMorePages(scan)
              \/ w = "redis_stream" /\ store'[j] <= scan.next
              \/ w # "redis_stream" /\ j <= Boundary(scan))
    BY <1>1, <1>2, <1>3, PassedPlacesNext
  <2>2. CASE j < i /\ j \in 1..Len(store) /\ store'[j] = store[j]
    BY <2>1, <2>2, PassedPlaces
  <2>3. CASE j = i /\ store'[j] = last + 1
    BY <1>1, <2>1, <2>3
  <2>4. CASE j > i /\ j - 1 \in 1..Len(store) /\ store'[j] = store[j - 1]
    <3>1. j <= Boundary(scan) => j - 1 <= Boundary(scan)
      BY <1>1, BoundaryInt
    <3> QED BY <2>1, <2>4, <3>1, PassedPlaces
  <2> QED BY <2>2, <2>3, <2>4, InsertedStore
<1>4. ASSUME NEW v \in Passed(scan), v \notin Passed(scan)'
      PROVE  i <= Boundary(scan) /\ v = store[Boundary(scan)]
  <2>1. PICK j \in 1..Len(store) : v = store[j] /\
             (\/ NoMorePages(scan)
              \/ w = "redis_stream" /\ store[j] <= scan.next
              \/ w # "redis_stream" /\ j <= Boundary(scan))
    BY <1>4, PassedPlaces
  <2>2. j >= i
    <3> SUFFICES ASSUME j < i PROVE FALSE
      BY <1>1
    <3>1. store'[j] = store[j] /\ j \in 1..Len(store')
      <4>1. j \in 1..Len(store')
        BY <1>1
      <4> QED BY <4>1, InsertedStore
    <3> QED BY <1>1, <1>2, <1>4, <2>1, <3>1, PassedPlacesNext
  <2>3. store'[j + 1] = store[j] /\ j + 1 \in 1..Len(store')
    <3>1. j + 1 \in 1..Len(store')
      BY <1>1
    <3> QED BY <2>2, <3>1, InsertedStore
  <2>4. ~NoMorePages(scan) /\ w # "redis_stream" /\ ~(j + 1 <= Boundary(scan))
    BY <1>1, <1>2, <1>4, <2>1, <2>3, PassedPlacesNext
  <2>5. j = Boundary(scan)
    BY <2>1, <2>4, BoundaryInt
  <2> QED BY <2>1, <2>2, <2>5
<1>5. pushed' = (IF i <= Boundary(scan) THEN pushed + 1 ELSE pushed) /\ pushed \in Nat
  BY DEF InsertElement, TypeOK
<1>6. pushed' = pushed => ~(i <= Boundary(scan))
  BY <1>5
<1> QED BY <1>3, <1>4, <1>5, <1>6

\* What others remove is not passed any more; if it was before the boundary, one
\* element more is passed.
LEMMA RemovedPassed ==
  ASSUME TypeOK, StoreInv, NEW i \in 1..Len(store), RemoveElement(i)
  PROVE  /\ Passed(scan) \ Passed(scan)' \subseteq {store[i]}
         /\ pulled' = pulled \/ pulled' = pulled + 1
         /\ pulled' = pulled => Passed(scan)' \subseteq Passed(scan)
         /\ Passed(scan)' \ Passed(scan) \subseteq {store[Boundary(scan) + 1]}
<1>1. /\ store' \in Seq(1..last) /\ Len(store') = Len(store) - 1
      /\ last \in Nat /\ Len(store) \in Nat /\ w' = w /\ scan' = scan
  BY RemovedStore DEF RemoveElement, TypeOK
<1>2. store' \in Seq(Int)
  <2>1. 1..last \subseteq Int
    BY <1>1
  <2> QED BY <1>1, <2>1, SeqOfMore
<1>3. ASSUME NEW v \in Passed(scan), v \notin Passed(scan)' PROVE v = store[i]
  <2>1. PICK j \in 1..Len(store) : v = store[j] /\
             (\/ NoMorePages(scan)
              \/ w = "redis_stream" /\ store[j] <= scan.next
              \/ w # "redis_stream" /\ j <= Boundary(scan))
    BY <1>3, PassedPlaces
  <2>2. CASE j < i /\ j \in 1..Len(store') /\ store'[j] = store[j]
    BY <1>1, <1>2, <1>3, <2>1, <2>2, PassedPlacesNext
  <2>3. CASE j > i /\ j - 1 \in 1..Len(store') /\ store'[j - 1] = store[j]
    <3>1. j <= Boundary(scan) => j - 1 <= Boundary(scan)
      BY BoundaryInt
    <3> QED BY <1>1, <1>2, <1>3, <2>1, <2>3, <3>1, PassedPlacesNext
  <2> QED BY <2>1, <2>2, <2>3, RemovedStore
<1>4. ASSUME NEW v \in Passed(scan)', v \notin Passed(scan)
      PROVE  i <= Boundary(scan) /\ v = store[Boundary(scan) + 1]
  <2>1. PICK j \in 1..Len(store') : v = store'[j] /\
             (\/ NoMorePages(scan)
              \/ w = "redis_stream" /\ store'[j] <= scan.next
              \/ w # "redis_stream" /\ j <= Boundary(scan))
    BY <1>1, <1>2, <1>4, PassedPlacesNext
  <2>2. ~(j < i /\ j \in 1..Len(store) /\ store'[j] = store[j])
    BY <1>4, <2>1, PassedPlaces
  <2>3. j >= i /\ j + 1 \in 1..Len(store) /\ store'[j] = store[j + 1]
    BY <2>2, RemovedStore
  <2>4. ~NoMorePages(scan) /\ w # "redis_stream" /\ ~(j + 1 <= Boundary(scan))
    BY <1>4, <2>1, <2>3, PassedPlaces
  <2>5. j = Boundary(scan)
    BY <2>1, <2>4, BoundaryInt
  <2> QED BY <2>1, <2>3, <2>5
<1>5. pulled' = (IF i <= Boundary(scan) THEN pulled + 1 ELSE pulled) /\ pulled \in Nat
  BY DEF RemoveElement, TypeOK
<1>6. pulled' = pulled => ~(i <= Boundary(scan))
  BY <1>5
<1> QED BY <1>3, <1>4, <1>5, <1>6

-----------------------------------------------------------------------------
(* The invariant is kept.                                                  *)

\* What is known of the sizes of the sets.
LEMMA Finite ==
  ASSUME TypeOK, NEW x, PageInv(x)
  PROVE  /\ Handed(x) \subseteq 1..last /\ IsFiniteSet(Handed(x))
         /\ ToSet(given) \subseteq 1..last /\ IsFiniteSet(ToSet(given))
         /\ ToSet(store) \subseteq 1..last /\ IsFiniteSet(ToSet(store))
         /\ Passed(x) \subseteq ToSet(store)
<1>1. IsFiniteSet(1..last)
  BY FS_Interval DEF TypeOK
<1>2. ToSet(given) \subseteq 1..last
  BY DEF ToSet, TypeOK
<1>3. Handed(x) \subseteq 1..last
  <2>1. \A i \in x.idx + 1..Len(x.page) : i \in 1..Len(x.page)
    BY DEF PageInv, N!Instances
  <2>2. x.page \in Seq(1..last)
    BY DEF PageInv
  <2>3. \A i \in 1..Len(x.page) : x.page[i] \in 1..last
    BY <2>2, PlaceOfSeq
  <2>4. Rest(x) \subseteq 1..last
    BY <2>1, <2>3 DEF Rest
  <2> QED BY <1>2, <2>4 DEF Handed
<1>4. ToSet(store) \subseteq 1..last
  BY DEF ToSet, TypeOK
<1>5. Passed(x) \subseteq ToSet(store)
  BY DEF Passed, ToSet, TypeOK
<1> QED BY <1>1, <1>2, <1>3, <1>4, <1>5, FS_Subset

\* A set that loses what T has and gains at most one element.
LEMMA OneMore ==
  ASSUME NEW S, NEW T, NEW z, IsFiniteSet(S), T \subseteq S \cup {z}
  PROVE  IsFiniteSet(T) /\ Cardinality(T) \in Nat /\ Cardinality(S) \in Nat
         /\ Cardinality(T) <= Cardinality(S) + 1
         /\ (T \subseteq S => Cardinality(T) <= Cardinality(S))
<1>1. IsFiniteSet(S \cup {z}) /\ Cardinality(S) \in Nat
      /\ Cardinality(S \cup {z}) \in Nat /\ Cardinality(S \cup {z}) <= Cardinality(S) + 1
  BY FS_AddElement, FS_CardinalityType
<1>2. IsFiniteSet(T) /\ Cardinality(T) <= Cardinality(S \cup {z}) /\ Cardinality(T) \in Nat
  BY <1>1, FS_Subset, FS_CardinalityType
<1>3. T \subseteq S => Cardinality(T) <= Cardinality(S)
  BY FS_Subset
<1> QED BY <1>1, <1>2, <1>3

\* A set of elements taken anew adds as much to what was handed as it takes from
\* what may be taken again.
LEMMA TakenAnew ==
  ASSUME NEW H, NEW T, NEW Q, IsFiniteSet(H), IsFiniteSet(T), T \subseteq Q
  PROVE  /\ IsFiniteSet(H \cup T)
         /\ Cardinality(H \cup T) - Cardinality((H \cup T) \cap (Q \ T))
              = Cardinality(H) - Cardinality(H \cap Q) + Cardinality(T)
         /\ Cardinality(H \cup T) \in Nat /\ Cardinality((H \cup T) \cap (Q \ T)) \in Nat
<1> DEFINE A == H \cap T
           B == (H \cup T) \cap (Q \ T)
<1>1. IsFiniteSet(A) /\ IsFiniteSet(B)
  <2>1. A \in SUBSET H /\ B \in SUBSET H
    OBVIOUS
  <2> QED BY <2>1, FS_Subset
<1>2. A \cup B = H \cap Q /\ A \cap B = {}
  OBVIOUS
<1>3. Cardinality(H \cap Q) = Cardinality(A) + Cardinality(B)
  <2> HIDE DEF A, B
  <2>1. Cardinality(A \cup B) = Cardinality(A) + Cardinality(B) - Cardinality(A \cap B)
    BY <1>1, FS_Union
  <2>2. Cardinality(A \cap B) = 0
    BY <1>2, FS_EmptySet
  <2>3. Cardinality(A) \in Nat /\ Cardinality(B) \in Nat
    BY <1>1, FS_CardinalityType
  <2>4. Cardinality(A \cup B) = Cardinality(A) + Cardinality(B)
    BY <2>1, <2>2, <2>3
  <2> QED BY <1>2, <2>4
<1>4. IsFiniteSet(H \cup T) /\ Cardinality(H \cup T) = Cardinality(H) + Cardinality(T) - Cardinality(A)
  BY FS_Union
<1>5. /\ Cardinality(A) \in Nat /\ Cardinality(B) \in Nat
      /\ Cardinality(H) \in Nat /\ Cardinality(T) \in Nat /\ Cardinality(H \cup T) \in Nat
  BY <1>1, <1>4, FS_CardinalityType
<1> QED BY <1>3, <1>4, <1>5

LEMMA InitKeeps == Init => LiveInv
<1> SUFFICES ASSUME Init PROVE LiveInv
  OBVIOUS
<1>1. /\ w \in Sources /\ store = [i \in 1..Begun |-> i] /\ last = Begun
      /\ scan = N!Fresh /\ open = FALSE /\ given = <<>> /\ ended = FALSE
      /\ stays = {} /\ pulled = 0 /\ pushed = 0 /\ Begun \in Nat
  BY LiveAssumption DEF Init
<1>2. store \in Seq(1..last) /\ Len(store) = Begun
  BY <1>1
<1>3. <<>> \in Seq(Nat) /\ <<>> \in Seq(1..last) /\ ToSet(<<>>) = {}
  BY DEF ToSet
<1>4. PageInv(scan)
  BY <1>1, <1>3 DEF PageInv, N!Fresh, N!Instances, N!NoPage
<1>5. TypeOK
  BY <1>1, <1>2, <1>3, <1>4 DEF TypeOK, PageInv
<1>6. StoreInv
  BY <1>1, <1>2 DEF StoreInv
<1>7. Handed(scan) = {} /\ Len(given) = 0 /\ Len(scan.page) = 0 /\ scan.idx = 0
  BY <1>1, <1>3 DEF Handed, Rest, N!Fresh
<1>8. MissInv(scan)
  <2>1. (stays \cap Passed(scan)) \ Handed(scan) = {}
    BY <1>1
  <2> QED BY <1>1, <2>1, FS_EmptySet DEF MissInv
<1>9. RepeatInv(scan)
  <2>1. Handed(scan) \cap (ToSet(store) \ Passed(scan)) = {}
    BY <1>7
  <2> QED BY <1>1, <1>7, <2>1, FS_EmptySet DEF RepeatInv
<1>10. IdleInv /\ MissesBounded
  BY <1>1 DEF IdleInv, MissesBounded
<1> QED BY <1>4, <1>5, <1>6, <1>8, <1>9, <1>10 DEF LiveInv, ScanInv

\* A pass begins with a page of which nothing was returned.
LEMMA PassKeeps ==
  ASSUME LiveInv, Takes(scan', {}), PassBegins PROVE LiveInv'
<1> DEFINE y == scan'
           T == ToSet(y.page)
<1>1. /\ TypeOK /\ StoreInv /\ w' = w /\ store' = store /\ last' = last
      /\ given' = <<>> /\ ended' = FALSE /\ open' = TRUE
      /\ stays' = ToSet(store) /\ pulled' = 0 /\ pushed' = 0
  BY DEF LiveInv, PassBegins
<1>2. /\ y \in N!Instances /\ y.idx = 0 /\ y.page \in Seq(1..last)
      /\ w = "clerk" => y.next \in Nat
      /\ \A i, j \in DOMAIN y.page : i < j => y.page[i] # y.page[j]
      /\ T \subseteq ToSet(store) /\ Passed(y) = T
  BY DEF Takes
<1>3. Passed(scan)' = Passed(y)
  BY <1>1 DEF Passed, Boundary, NoMorePages
<1> HIDE DEF y
<1>4. Handed(scan)' = T
  <2>1. ToSet(given)' = {}
    BY <1>1 DEF ToSet
  <2>2. Rest(scan)' = T
    <3>1. DOMAIN y.page = 1..Len(y.page) /\ y.idx + 1 = 1
      BY <1>2
    <3> QED BY <3>1 DEF Rest, ToSet, y
  <2> QED BY <2>1, <2>2 DEF Handed
<1>5. Len(y.page) \in Nat
  BY <1>2
<1>6. PageInv(scan)'
  BY <1>1, <1>2, <1>5 DEF PageInv, y
<1>7. TypeOK'
  <2>1. <<>> \in Seq(1..last)
    OBVIOUS
  <2> QED BY <1>1, <1>6, <2>1 DEF TypeOK, PageInv
<1>8. StoreInv'
  BY <1>1 DEF StoreInv
<1>9. MissInv(scan)'
  <2>1. ((stays \cap Passed(scan)) \ Handed(scan))' = {}
    BY <1>2, <1>3, <1>4
  <2> QED BY <1>1, <2>1, FS_EmptySet DEF MissInv
<1>10. RepeatInv(scan)'
  <2>1. (Handed(scan) \cap (ToSet(store) \ Passed(scan)))' = {}
    BY <1>2, <1>3, <1>4
  <2>2. Cardinality(T) = Len(y.page)
    <3>1. T = {y.page[i] : i \in 0 + 1..Len(y.page)}
      BY <1>2 DEF ToSet
    <3>2. 0 \in 0..Len(y.page) /\ Len(y.page) - 0 = Len(y.page)
      BY <1>5
    <3>3. Cardinality({y.page[i] : i \in 0 + 1..Len(y.page)}) = Len(y.page) - 0
      BY <1>2, <3>2, PartCardinality
    <3> QED BY <3>1, <3>2, <3>3
  <2>3. Len(given') = 0 /\ Cardinality({}) = 0
    BY <1>1, FS_EmptySet
  <2>4. RepeatInv(scan)' <=> Len(given') + Len(y.page) - y.idx - Cardinality(T) + 0 <= 0
    BY <1>1, <1>4, <2>1, <2>3 DEF RepeatInv, y
  <2> QED BY <1>2, <1>5, <2>2, <2>3, <2>4
<1>11. IdleInv' /\ MissesBounded'
  BY <1>1 DEF IdleInv, MissesBounded
<1> QED BY <1>6, <1>7, <1>8, <1>9, <1>10, <1>11 DEF LiveInv, ScanInv

LEMMA BeginKeeps == LiveInv /\ (Begin \/ Restart \/ Rescan) => LiveInv'
<1> SUFFICES ASSUME LiveInv, Begin \/ Restart \/ Rescan PROVE LiveInv'
  OBVIOUS
<1>1. TypeOK /\ StoreInv /\ scan \in N!Instances /\ EndScan(scan) \in N!Instances
  BY EndScanInstance DEF LiveInv, TypeOK
<1>2. CASE Begin
  BY <1>1, <1>2, BeginTakes, PassKeeps DEF Begin
<1>3. CASE Restart
  BY <1>1, <1>3, BeginTakes, PassKeeps DEF Restart
<1>4. CASE Rescan
  BY <1>1, <1>4, ReScanTakes, PassKeeps DEF Rescan
<1> QED BY <1>2, <1>3, <1>4

LEMMA EndKeeps == LiveInv /\ End => LiveInv'
<1> SUFFICES ASSUME LiveInv, End PROVE LiveInv'
  OBVIOUS
<1>1. /\ TypeOK /\ StoreInv /\ w' = w /\ store' = store /\ last' = last
      /\ given' = <<>> /\ ended' = FALSE /\ open' = FALSE /\ scan' = N!Fresh
      /\ stays' = {} /\ pulled' = 0 /\ pushed' = 0
  BY DEF LiveInv, End
<1>2. <<>> \in Seq(Nat) /\ <<>> \in Seq(1..last) /\ ToSet(<<>>) = {}
  BY DEF ToSet
<1>3. PageInv(scan)'
  BY <1>1, <1>2 DEF PageInv, N!Fresh, N!Instances, N!NoPage
<1>4. TypeOK'
  BY <1>1, <1>2, <1>3 DEF TypeOK, PageInv
<1>5. StoreInv'
  BY <1>1 DEF StoreInv
<1>6. Handed(scan)' = {} /\ Len(given') = 0 /\ Len(scan'.page) = 0 /\ scan'.idx = 0
  BY <1>1, <1>2 DEF Handed, Rest, N!Fresh
<1>7. MissInv(scan)'
  <2>1. ((stays \cap Passed(scan)) \ Handed(scan))' = {}
    BY <1>1
  <2> QED BY <1>1, <2>1, FS_EmptySet DEF MissInv
<1>8. RepeatInv(scan)'
  <2>1. (Handed(scan) \cap (ToSet(store) \ Passed(scan)))' = {}
    BY <1>6
  <2> QED BY <1>1, <1>6, <2>1, FS_EmptySet DEF RepeatInv
<1>9. IdleInv' /\ MissesBounded'
  BY <1>1 DEF IdleInv, MissesBounded
<1> QED BY <1>3, <1>4, <1>5, <1>7, <1>8, <1>9 DEF LiveInv, ScanInv

\* What is left of the page, and what was handed, when the next element is given.
LEMMA GiveHands ==
  ASSUME TypeOK, NEW x, PageInv(x), ~Drained(x), Give(x)
  PROVE  /\ given' \in Seq(1..last) /\ Len(given') = Len(given) + 1
         /\ scan'.page = x.page /\ scan'.idx = x.idx + 1 /\ x.idx + 1 <= Len(x.page)
         /\ scan' \in N!Instances /\ scan'.next = x.next
         /\ Handed(scan)' = Handed(x)
         /\ w = "redis_list" => scan'.cnt = x.cnt + 1
<1>1. /\ x \in N!Instances /\ x.idx \in Nat /\ x.cnt \in Nat /\ Len(x.page) \in Nat
      /\ x.page \in Seq(1..last) /\ given \in Seq(1..last) /\ Len(given) \in Nat
  <2>1. x \in N!Instances /\ x.page \in Seq(1..last)
    BY DEF PageInv
  <2>2. x.idx \in Nat /\ x.cnt \in Nat
    BY <2>1 DEF N!Instances
  <2>3. given \in Seq(1..last)
    BY DEF TypeOK
  <2> QED BY <2>1, <2>2, <2>3
<1>2. x.idx + 1 \in 1..Len(x.page)
  BY <1>1 DEF Drained
<1> DEFINE e == x.page[x.idx + 1]
<1>3. e \in 1..last
  BY <1>1, <1>2, PlaceOfSeq
<1>4. given' = Append(given, e)
  BY DEF Give
<1>5. scan' = [x EXCEPT !.idx = x.idx + 1, !.cnt = IF w = "redis_list" THEN x.cnt + 1 ELSE x.cnt]
  BY <1>1 DEF Give, N!Instances
<1> HIDE DEF e
<1>6. given' \in Seq(1..last) /\ Len(given') = Len(given) + 1
      /\ (\A i \in 1..Len(given) : given'[i] = given[i]) /\ given'[Len(given) + 1] = e
  BY <1>1, <1>3, <1>4, AppendProperties
<1>7. /\ scan'.page = x.page /\ scan'.idx = x.idx + 1 /\ scan' \in N!Instances
      /\ scan'.next = x.next /\ (w = "redis_list" => scan'.cnt = x.cnt + 1)
  <2>1. CASE w = "redis_list"
    <3>1. scan' = [x EXCEPT !.idx = x.idx + 1, !.cnt = x.cnt + 1]
      BY <1>5, <2>1
    <3>2. x.idx + 1 \in Nat /\ x.cnt + 1 \in Nat
      BY <1>1
    <3> QED BY <1>1, <3>1, <3>2 DEF N!Instances
  <2>2. CASE w # "redis_list"
    <3>1. scan' = [x EXCEPT !.idx = x.idx + 1, !.cnt = x.cnt]
      BY <1>5, <2>2
    <3>2. x.idx + 1 \in Nat
      BY <1>1
    <3> QED BY <1>1, <2>2, <3>1, <3>2 DEF N!Instances
  <2> QED BY <2>1, <2>2
<1>8. ToSet(given') = ToSet(given) \cup {e}
  <2>1. DOMAIN given = 1..Len(given) /\ DOMAIN given' = 1..Len(given) + 1
    BY <1>1, <1>6
  <2>2. \A i \in 1..Len(given) + 1 : i \in 1..Len(given) \/ i = Len(given) + 1
    BY <1>1
  <2>3. 1..Len(given) \subseteq 1..Len(given) + 1 /\ Len(given) + 1 \in 1..Len(given) + 1
    BY <1>1
  <2> QED BY <1>6, <2>1, <2>2, <2>3 DEF ToSet
<1>9. Rest(x) = {e} \cup Rest(scan)'
  <2>1. x.idx + 1..Len(x.page) = {x.idx + 1} \cup (x.idx + 1 + 1..Len(x.page))
    BY <1>1, <1>2
  <2>2. Rest(scan)' = {x.page[i] : i \in x.idx + 1 + 1..Len(x.page)}
    BY <1>7 DEF Rest
  <2> QED BY <2>1, <2>2 DEF Rest, e
<1>10. Handed(scan)' = Handed(x)
  BY <1>8, <1>9 DEF Handed
<1> QED BY <1>2, <1>6, <1>7, <1>10

LEMMA OneGiven ==
  ASSUME NEW g \in Int, NEW l \in Int, NEW i \in Int, NEW m \in Int, NEW n \in Int, NEW p \in Int,
         g + l - i - m + n <= p
  PROVE  (g + 1) + l - (i + 1) - m + n <= p
OBVIOUS

\* Giving the next element of a page moves nothing.
LEMMA GiveKeeps ==
  ASSUME LiveInv, NEW x, ScanInv(x), open, ~Drained(x), Give(x),
         UNCHANGED <<w, store, last, open, stays, pulled, pushed>>, ~ended
  PROVE  LiveInv'
<1>1. /\ TypeOK /\ StoreInv /\ PageInv(x) /\ MissInv(x) /\ RepeatInv(x)
      /\ w' = w /\ store' = store /\ last' = last /\ open' = open /\ stays' = stays
      /\ pulled' = pulled /\ pushed' = pushed /\ ended' = ended
  BY DEF LiveInv, ScanInv, Give
<1>2. /\ given' \in Seq(1..last) /\ Len(given') = Len(given) + 1
      /\ scan'.page = x.page /\ scan'.idx = x.idx + 1 /\ x.idx + 1 <= Len(x.page)
      /\ scan' \in N!Instances /\ scan'.next = x.next
      /\ Handed(scan)' = Handed(x)
      /\ w = "redis_list" => scan'.cnt = x.cnt + 1
  BY <1>1, GiveHands
<1>3. /\ x.idx \in Nat /\ x.cnt \in Nat /\ Len(x.page) \in Nat /\ Len(given) \in Nat
      /\ pushed \in Nat /\ w \in {"redis_list", "redis_stream", "clerk", "auth0"}
  BY <1>1, LiveAssumption DEF PageInv, TypeOK, N!Instances
<1>4. Passed(scan)' = Passed(x)
  <2>1. NoMorePages(scan)' <=> NoMorePages(x)
    BY <1>1, <1>2 DEF NoMorePages
  <2>2. w = "redis_list" =>
          scan'.cnt + Len(scan'.page) - scan'.idx = x.cnt + Len(x.page) - x.idx
    <3>1. (x.cnt + 1) + Len(x.page) - (x.idx + 1) = x.cnt + Len(x.page) - x.idx
      <4>1. \A k, m, n \in Nat : (k + 1) + m - (n + 1) = k + m - n
        OBVIOUS
      <4>2. x.cnt \in Nat /\ Len(x.page) \in Nat /\ x.idx \in Nat
        BY <1>3
      <4> QED BY <4>1, <4>2
    <3> QED BY <1>2, <3>1
  <2>3. Boundary(scan)' = Boundary(x)
    <3>1. CASE NoMorePages(x)
      BY <2>1, <3>1 DEF Boundary
    <3>2. CASE ~NoMorePages(x) /\ w = "redis_list"
      BY <1>1, <2>1, <2>2, <3>2 DEF Boundary
    <3>3. CASE ~NoMorePages(x) /\ w # "redis_list"
      BY <1>1, <1>2, <1>3, <2>1, <3>3 DEF Boundary
    <3> QED BY <3>1, <3>2, <3>3
  <2> QED BY <1>1, <1>2, <2>1, <2>3 DEF Passed
<1>5. PageInv(scan)'
  BY <1>1, <1>2 DEF PageInv
<1>6. MissInv(scan)'
  BY <1>1, <1>2, <1>4 DEF MissInv
<1>7. RepeatInv(scan)'
  <2> DEFINE m == Cardinality(Handed(x))
             n == Cardinality(Handed(x) \cap (ToSet(store) \ Passed(x)))
  <2>1. m \in Nat /\ n \in Nat
    <3>1. IsFiniteSet(Handed(x))
      BY <1>1, Finite
    <3>2. Handed(x) \cap (ToSet(store) \ Passed(x)) \in SUBSET Handed(x)
      OBVIOUS
    <3> QED BY <3>1, <3>2, FS_Subset, FS_CardinalityType
  <2>2. Len(given) + Len(x.page) - x.idx - m + n <= pushed
    BY <1>1 DEF RepeatInv
  <2>3. RepeatInv(scan)' <=> (Len(given) + 1) + Len(x.page) - (x.idx + 1) - m + n <= pushed
    BY <1>1, <1>2, <1>4 DEF RepeatInv
  <2> HIDE DEF m, n
  <2>4. (Len(given) + 1) + Len(x.page) - (x.idx + 1) - m + n <= pushed
    <3>1. x.idx \in Int /\ Len(x.page) \in Int /\ Len(given) \in Int /\ pushed \in Int
      BY <1>3
    <3>2. m \in Int /\ n \in Int
      BY <2>1
    <3> QED BY <2>2, <3>1, <3>2, OneGiven
  <2> QED BY <2>3, <2>4
<1>8. TypeOK'
  BY <1>1, <1>2 DEF TypeOK
<1>9. StoreInv' /\ IdleInv' /\ MissesBounded'
  BY <1>1 DEF StoreInv, IdleInv, MissesBounded, TypeOK
<1> QED BY <1>5, <1>6, <1>7, <1>8, <1>9 DEF LiveInv, ScanInv

\* A page that was asked for when the one before was read keeps the bounds.
LEMMA FetchKeeps ==
  ASSUME LiveInv, open, Drained(scan), ~NoMorePages(scan), NEW x \in Fetch(scan)
  PROVE  ScanInv(x) /\ x.idx = 0
         /\ (Drained(x) => Passed(x) = ToSet(store) /\ Handed(x) = ToSet(given))
<1> DEFINE T == ToSet(x.page)
           Q == ToSet(store) \ Passed(scan)
           H == ToSet(given)
<1>1. /\ TypeOK /\ StoreInv /\ PageInv(scan) /\ MissInv(scan) /\ RepeatInv(scan)
      /\ scan \in N!Instances /\ scan.idx \in Nat /\ Len(scan.page) \in Nat
      /\ Len(given) \in Nat /\ pushed \in Nat /\ pulled \in Nat
  BY DEF LiveInv, ScanInv, TypeOK, N!Instances
<1>2. scan.idx = Len(scan.page)
  BY <1>1 DEF Drained, TypeOK
<1>3. Takes(x, Passed(scan)) /\ (Len(x.page) = 0 => Passed(x) = ToSet(store))
  <2>1. w = "clerk" => scan.next \in Nat
    BY <1>1 DEF PageInv
  <2> QED BY <1>1, <1>2, <2>1, FetchTakes
<1>4. /\ x \in N!Instances /\ x.idx = 0 /\ x.page \in Seq(1..last) /\ Len(x.page) \in Nat
      /\ w = "clerk" => x.next \in Nat
      /\ \A i, j \in DOMAIN x.page : i < j => x.page[i] # x.page[j]
      /\ T \subseteq Q /\ Passed(x) = Passed(scan) \cup T
  BY <1>3 DEF Takes
<1>5. PageInv(x)
  BY <1>4 DEF PageInv
<1>6. T = {x.page[i] : i \in 0 + 1..Len(x.page)}
  BY <1>4 DEF ToSet
<1>7. Handed(x) = H \cup T
  <2>1. Rest(x) = T
    BY <1>4, <1>6 DEF Rest
  <2> QED BY <2>1 DEF Handed
<1>8. Handed(scan) = H
  <2>1. Rest(scan) = {}
    BY <1>1, <1>2 DEF Rest
  <2> QED BY <2>1 DEF Handed
<1>9. IsFiniteSet(H) /\ IsFiniteSet(ToSet(store)) /\ Passed(scan) \subseteq ToSet(store)
  BY <1>1, Finite
<1>10. IsFiniteSet(T) /\ Cardinality(T) = Len(x.page)
  <2>1. 0 \in 0..Len(x.page) /\ Len(x.page) - 0 = Len(x.page)
    BY <1>4
  <2> DEFINE U == {x.page[i] : i \in 0 + 1..Len(x.page)}
  <2>2. IsFiniteSet(U) /\ Cardinality(U) = Len(x.page) - 0
    BY <1>4, <2>1, PartCardinality
  <2> QED BY <1>6, <2>1, <2>2
<1>11. MissInv(x)
  <2> DEFINE A == (stays \cap Passed(scan)) \ H
             B == (stays \cap Passed(x)) \ (H \cup T)
  <2>1. B \in SUBSET A
    BY <1>4
  <2>2. IsFiniteSet(A)
    <3>1. A \in SUBSET ToSet(store)
      BY <1>9
    <3> QED BY <1>9, <3>1, FS_Subset
  <2>3. Cardinality(A) <= pulled
    BY <1>1, <1>8 DEF MissInv
  <2>4. Cardinality(B) <= Cardinality(A) /\ Cardinality(A) \in Nat /\ Cardinality(B) \in Nat
    <3> HIDE DEF A, B
    <3> QED BY <2>1, <2>2, FS_Subset, FS_CardinalityType
  <2>5. Cardinality(B) <= pulled
    <3> HIDE DEF A, B
    <3> QED BY <1>1, <2>3, <2>4
  <2> QED BY <1>7, <2>5 DEF MissInv
<1>12. RepeatInv(x)
  <2> DEFINE a == Cardinality(H)
             b == Cardinality(H \cap Q)
             c == Cardinality(H \cup T)
             d == Cardinality((H \cup T) \cap (Q \ T))
             l == Len(x.page)
  <2>1. /\ c - d = a - b + l /\ c \in Nat /\ d \in Nat
    <3> HIDE DEF H, T, Q
    <3>1. /\ c - d = a - b + Cardinality(T)
          /\ c \in Nat /\ d \in Nat
      BY <1>4, <1>9, <1>10, TakenAnew
    <3> HIDE DEF a, b, c, d, l
    <3>2. Cardinality(T) = l
      BY <1>10 DEF l
    <3> QED BY <3>1, <3>2
  <2>2. a \in Nat /\ b \in Nat
    <3>1. H \cap Q \in SUBSET H
      OBVIOUS
    <3> HIDE DEF H, Q
    <3> QED BY <1>9, <3>1, FS_Subset, FS_CardinalityType
  <2>3. Len(given) - a + b <= pushed
    <3>1. Len(given) + Len(scan.page) - scan.idx - a + b <= pushed
      BY <1>1, <1>8 DEF RepeatInv
    <3> HIDE DEF a, b
    <3> QED BY <1>1, <1>2, <2>2, <3>1
  <2>4. ToSet(store) \ Passed(x) = Q \ T
    BY <1>4
  <2>5. RepeatInv(x) <=> Len(given) + l - x.idx - c + d <= pushed
    BY <1>7, <2>4 DEF RepeatInv
  <2> HIDE DEF a, b, c, d, l
  <2>6. l \in Nat
    BY <1>4 DEF l
  <2>7. Len(given) + l - x.idx - c + d <= pushed
    BY <1>1, <1>4, <2>1, <2>2, <2>3, <2>6
  <2> QED BY <2>5, <2>7
<1>13. ASSUME Drained(x) PROVE Passed(x) = ToSet(store) /\ Handed(x) = ToSet(given)
  <2>1. Len(x.page) = 0
    BY <1>4, <1>13 DEF Drained
  <2>2. T = {}
    BY <1>6, <2>1
  <2> QED BY <1>3, <1>7, <2>1, <2>2
<1> QED BY <1>4, <1>5, <1>11, <1>12, <1>13 DEF ScanInv

\* The end of a pass: all that is there was passed, and nothing is left of the page.
LEMMA NoneKeeps ==
  ASSUME LiveInv, open, NEW x, ScanInv(x), Passed(x) = ToSet(store), Handed(x) = ToSet(given),
         scan' = x, ended' = TRUE, UNCHANGED <<given, w, store, last, open, stays, pulled, pushed>>
  PROVE  LiveInv'
<1>1. /\ TypeOK /\ StoreInv /\ PageInv(x) /\ MissInv(x) /\ RepeatInv(x) /\ stays \subseteq ToSet(store)
  BY DEF LiveInv, ScanInv, TypeOK
<1>2. Passed(scan)' = Passed(x) /\ Handed(scan)' = Handed(x)
  <2>1. Passed(scan)' = Passed(scan')
    BY DEF Passed, Boundary, NoMorePages
  <2>2. Handed(scan)' = Handed(scan')
    BY DEF Handed, Rest
  <2> QED BY <2>1, <2>2
<1>3. PageInv(scan)'
  BY <1>1 DEF PageInv
<1>4. MissInv(scan)'
  BY <1>1, <1>2 DEF MissInv
<1>5. RepeatInv(scan)'
  BY <1>1, <1>2 DEF RepeatInv
<1>6. TypeOK' /\ StoreInv' /\ IdleInv'
  <2>1. ended' \in BOOLEAN
    OBVIOUS
  <2> QED BY <1>1, <2>1 DEF TypeOK, PageInv, StoreInv, IdleInv
<1>7. MissesBounded'
  <2>1. (stays \cap Passed(x)) \ Handed(x) = stays \ ToSet(given)
    BY <1>1
  <2> QED BY <1>1, <2>1 DEF MissInv, MissesBounded
<1> QED BY <1>3, <1>4, <1>5, <1>6, <1>7 DEF LiveInv, ScanInv

LEMMA IterKeeps == LiveInv /\ IterScan => LiveInv'
<1> SUFFICES ASSUME LiveInv, IterScan PROVE LiveInv'
  OBVIOUS
<1>1. open /\ ~ended /\ UNCHANGED <<w, store, last, open, stays, pulled, pushed>>
      /\ ScanInv(scan)
  BY DEF IterScan, LiveInv
<1>2. CASE ~Drained(scan) /\ Give(scan)
  BY <1>1, <1>2, GiveKeeps
<1>3. ASSUME Drained(scan), ~NoMorePages(scan), NEW x \in Fetch(scan),
             IF Drained(x) THEN scan' = x /\ ended' = TRUE /\ UNCHANGED given ELSE Give(x)
      PROVE  LiveInv'
  <2>1. ScanInv(x) /\ (Drained(x) => Passed(x) = ToSet(store) /\ Handed(x) = ToSet(given))
    BY <1>1, <1>3, FetchKeeps
  <2>2. CASE Drained(x)
    BY <1>1, <1>3, <2>1, <2>2, NoneKeeps
  <2>3. CASE ~Drained(x)
    BY <1>1, <1>3, <2>1, <2>3, GiveKeeps
  <2> QED BY <2>2, <2>3
<1>4. CASE Drained(scan) /\ NoMorePages(scan) /\ ended' = TRUE /\ UNCHANGED <<scan, given>>
  <2>1. Passed(scan) = ToSet(store)
    BY <1>4 DEF Passed, ToSet
  <2>2. Rest(scan) = {}
    BY <1>4 DEF LiveInv, Drained, Rest, TypeOK, N!Instances
  <2>3. Handed(scan) = ToSet(given)
    BY <2>2 DEF Handed
  <2> QED BY <1>1, <1>4, <2>1, <2>3, NoneKeeps
<1> QED BY <1>2, <1>3, <1>4 DEF IterScan

\* The clients that put elements in and take them out move the bounds as much as
\* what was passed.
LEMMA InsertKeeps ==
  ASSUME LiveInv, NEW i \in 1..Len(store) + 1, InsertElement(i) PROVE LiveInv'
<1> DEFINE H == Handed(scan)
           Q == ToSet(store) \ Passed(scan)
           M == (stays \cap Passed(scan)) \ H
<1>1. /\ TypeOK /\ StoreInv /\ PageInv(scan) /\ MissInv(scan) /\ RepeatInv(scan)
      /\ last \in Nat /\ Len(store) \in Nat /\ pulled \in Nat /\ pushed \in Nat
      /\ stays \subseteq ToSet(store)
  BY DEF LiveInv, ScanInv, TypeOK
<1>2. /\ w' = w /\ scan' = scan /\ open' = open /\ given' = given /\ ended' = ended
      /\ stays' = stays /\ pulled' = pulled
      /\ w = "redis_stream" => i = Len(store) + 1
  BY DEF InsertElement
<1>3. /\ store' \in Seq(1..last') /\ last' = last + 1 /\ Len(store') = Len(store) + 1
      /\ store'[i] = last'
      /\ \A j \in 1..Len(store) : j < i => store'[j] = store[j]
      /\ \A j \in 1..Len(store) : j >= i => store'[j + 1] = store[j]
  BY <1>1, InsertedStore
<1>4. \A j \in 1..Len(store') :
        \/ j < i /\ j \in 1..Len(store) /\ store'[j] = store[j]
        \/ j = i /\ store'[j] = last'
        \/ j > i /\ j - 1 \in 1..Len(store) /\ store'[j] = store[j - 1]
  BY <1>1, <1>3, InsertedStore
<1>5. DOMAIN store = 1..Len(store) /\ DOMAIN store' = 1..Len(store')
  BY <1>3 DEF TypeOK, LiveInv
<1>6. 1..last \subseteq 1..last' /\ last' \notin 1..last /\ last' \in Nat
  BY <1>1, <1>3
<1>7. ToSet(store') \subseteq ToSet(store) \cup {last'} /\ ToSet(store) \subseteq ToSet(store')
  <2>1. \A j \in 1..Len(store') : store'[j] \in ToSet(store) \cup {last'}
    BY <1>4, <1>5 DEF ToSet
  <2>2. ASSUME NEW j \in 1..Len(store) PROVE store[j] \in ToSet(store')
    <3>1. j \in 1..Len(store') /\ j + 1 \in 1..Len(store') /\ (j < i \/ j >= i)
      BY <1>1, <1>3
    <3> QED BY <1>3, <1>5, <3>1 DEF ToSet
  <2> QED BY <1>5, <2>1, <2>2 DEF ToSet
<1>8. PageInv(scan)'
  <2>1. scan.page \in Seq(1..last')
    BY <1>1, <1>6, SeqOfMore DEF PageInv
  <2> QED BY <1>1, <1>2, <2>1 DEF PageInv
<1>9. pushed' \in Nat
  BY <1>1, InsertedPassed
<1>10. TypeOK'
  <2>1. given \in Seq(1..last')
    BY <1>1, <1>6, SeqOfMore DEF TypeOK
  <2>2. /\ w \in Sources /\ scan \in N!Instances /\ scan.idx <= Len(scan.page)
        /\ open \in BOOLEAN /\ ended \in BOOLEAN
    BY <1>1 DEF TypeOK
  <2>3. stays \subseteq ToSet(store')
    BY <1>1, <1>7
  <2>4. store' \in Seq(1..last') /\ last' \in Nat
    BY <1>3, <1>6
  <2> QED BY <1>1, <1>2, <1>9, <2>1, <2>2, <2>3, <2>4 DEF TypeOK
<1>11. StoreInv'
  <2>1. \A j \in 1..Len(store) : store[j] \in 1..last
    BY <1>1, PlaceOfSeq DEF TypeOK
  <2>2. \A j, k \in 1..Len(store) : j < k =>
          store[j] # store[k] /\ (w = "redis_stream" => store[j] < store[k])
    BY <1>1, <1>5 DEF StoreInv
  <2>3. ASSUME NEW j \in 1..Len(store'), NEW k \in 1..Len(store'), j < k
        PROVE  store'[j] # store'[k] /\ (w = "redis_stream" => store'[j] < store'[k])
    <3>1. CASE j < i /\ j \in 1..Len(store) /\ store'[j] = store[j]
      <4>1. CASE k < i /\ k \in 1..Len(store) /\ store'[k] = store[k]
        BY <2>2, <2>3, <3>1, <4>1
      <4>2. CASE k = i /\ store'[k] = last'
        <5>1. store[j] \in 1..last
          BY <2>1, <3>1
        <5> QED BY <1>1, <1>3, <3>1, <4>2, <5>1
      <4>3. CASE k > i /\ k - 1 \in 1..Len(store) /\ store'[k] = store[k - 1]
        <5>1. j < k - 1
          BY <3>1, <4>3
        <5> QED BY <2>2, <3>1, <4>3, <5>1
      <4> QED BY <1>4, <4>1, <4>2, <4>3
    <3>2. CASE j = i /\ store'[j] = last'
      <4>1. k > i /\ k - 1 \in 1..Len(store) /\ store'[k] = store[k - 1]
        BY <1>4, <2>3, <3>2
      <4>2. store[k - 1] \in 1..last
        BY <2>1, <4>1
      <4>3. i # Len(store) + 1
        BY <1>1, <4>1
      <4> QED BY <1>2, <1>6, <3>2, <4>1, <4>2, <4>3
    <3>3. CASE j > i /\ j - 1 \in 1..Len(store) /\ store'[j] = store[j - 1]
      <4>1. k > i /\ k - 1 \in 1..Len(store) /\ store'[k] = store[k - 1]
        BY <1>4, <2>3, <3>3
      <4>2. j - 1 < k - 1
        BY <2>3
      <4> QED BY <2>2, <3>3, <4>1, <4>2
    <3> QED BY <1>4, <3>1, <3>2, <3>3
  <2> QED BY <1>2, <1>5, <2>3 DEF StoreInv
<1>12. /\ Passed(scan)' \subseteq Passed(scan) \cup {last'}
       /\ pushed' = pushed \/ pushed' = pushed + 1
       /\ pushed' = pushed => Passed(scan) \subseteq Passed(scan)'
       /\ Passed(scan) \ Passed(scan)' \subseteq {store[Boundary(scan)]}
  BY <1>1, InsertedPassed
<1>13. /\ H \subseteq 1..last /\ IsFiniteSet(H) /\ ToSet(store) \subseteq 1..last
       /\ IsFiniteSet(ToSet(store)) /\ Handed(scan)' = H
  BY <1>1, <1>2, Finite DEF Handed, Rest
<1>14. MissInv(scan)'
  <2> DEFINE N2 == (stays \cap Passed(scan)') \ H
  <2>1. N2 \in SUBSET M
    BY <1>1, <1>6, <1>12, <1>13
  <2>2. M \in SUBSET ToSet(store)
    BY <1>1
  <2>3. Cardinality(M) <= pulled
    BY <1>1 DEF MissInv
  <2>4. MissInv(scan)' <=> Cardinality(N2) <= pulled
    <3> HIDE DEF H
    <3>1. stays' = stays /\ pulled' = pulled /\ Handed(scan)' = H
      BY <1>2, <1>13
    <3> QED BY <3>1 DEF MissInv
  <2>5. IsFiniteSet(M)
    <3> HIDE DEF M
    <3> QED BY <1>13, <2>2, FS_Subset
  <2>6. Cardinality(N2) <= Cardinality(M) /\ Cardinality(N2) \in Nat /\ Cardinality(M) \in Nat
    <3> HIDE DEF M, N2
    <3> QED BY <2>1, <2>5, FS_Subset, FS_CardinalityType
  <2>7. Cardinality(N2) <= pulled
    <3> HIDE DEF M, N2
    <3> QED BY <1>1, <2>3, <2>6
  <2> QED BY <2>4, <2>7
<1>15. RepeatInv(scan)'
  <2> DEFINE A == H \cap Q
             B == H \cap (ToSet(store') \ Passed(scan)')
             r == Len(given) + Len(scan.page) - scan.idx - Cardinality(H)
  <2>1. B \subseteq A \cup {store[Boundary(scan)]} /\ (pushed' = pushed => B \subseteq A)
    BY <1>6, <1>7, <1>12, <1>13
  <2>2. IsFiniteSet(A)
    <3>1. A \in SUBSET H
      OBVIOUS
    <3> HIDE DEF A, H
    <3> QED BY <1>13, <3>1, FS_Subset
  <2>3. /\ Cardinality(B) \in Nat /\ Cardinality(A) \in Nat /\ Cardinality(B) <= Cardinality(A) + 1
        /\ (B \subseteq A => Cardinality(B) <= Cardinality(A))
    <3> HIDE DEF A, B
    <3> QED BY <2>1, <2>2, OneMore
  <2>4. r + Cardinality(A) <= pushed
    BY <1>1 DEF RepeatInv
  <2>5. RepeatInv(scan)' <=> r + Cardinality(B) <= pushed'
    BY <1>2, <1>13 DEF RepeatInv
  <2>6. r \in Int
    <3>1. Cardinality(H) \in Nat
      <4> HIDE DEF H
      <4> QED BY <1>13, FS_CardinalityType
    <3>2. Len(given) \in Nat /\ Len(scan.page) \in Nat /\ scan.idx \in Nat
      BY <1>1 DEF TypeOK, N!Instances
    <3> HIDE DEF H
    <3> QED BY <3>1, <3>2
  <2>7. r + Cardinality(B) <= pushed'
    <3> HIDE DEF r, A, B
    <3>1. CASE pushed' = pushed
      BY <1>1, <2>1, <2>3, <2>4, <2>6, <3>1
    <3>2. CASE pushed' = pushed + 1
      BY <1>1, <2>3, <2>4, <2>6, <3>2
    <3> QED BY <1>12, <3>1, <3>2
  <2> QED BY <2>5, <2>7
<1>16. IdleInv' /\ MissesBounded'
  <2>1. IdleInv /\ MissesBounded
    BY DEF LiveInv
  <2>2. IdleInv'
    BY <1>2, <2>1 DEF IdleInv
  <2>3. MissesBounded'
    BY <1>2, <2>1 DEF MissesBounded
  <2> QED BY <2>2, <2>3
<1> QED BY <1>8, <1>10, <1>11, <1>14, <1>15, <1>16 DEF LiveInv, ScanInv

LEMMA RemoveKeeps ==
  ASSUME LiveInv, NEW i \in 1..Len(store), RemoveElement(i) PROVE LiveInv'
<1> DEFINE H == Handed(scan)
           Q == ToSet(store) \ Passed(scan)
           M == (stays \cap Passed(scan)) \ H
<1>1. /\ TypeOK /\ StoreInv /\ PageInv(scan) /\ MissInv(scan) /\ RepeatInv(scan)
      /\ last \in Nat /\ Len(store) \in Nat /\ pulled \in Nat /\ pushed \in Nat
      /\ stays \subseteq ToSet(store)
  BY DEF LiveInv, ScanInv, TypeOK
<1>2. /\ w' = w /\ scan' = scan /\ open' = open /\ given' = given /\ ended' = ended
      /\ stays' = stays \ {store[i]} /\ pushed' = pushed /\ last' = last
  BY DEF RemoveElement
<1>3. store' \in Seq(1..last) /\ Len(store') = Len(store) - 1
  BY <1>1, RemovedStore
<1>4. \A j \in 1..Len(store') :
        \/ j < i /\ j \in 1..Len(store) /\ store'[j] = store[j]
        \/ j >= i /\ j + 1 \in 1..Len(store) /\ store'[j] = store[j + 1]
  BY <1>1, RemovedStore
<1>5. \A j \in 1..Len(store) :
        \/ j < i /\ j \in 1..Len(store') /\ store'[j] = store[j]
        \/ j = i
        \/ j > i /\ j - 1 \in 1..Len(store') /\ store'[j - 1] = store[j]
  BY <1>1, RemovedStore
<1>6. DOMAIN store = 1..Len(store) /\ DOMAIN store' = 1..Len(store')
  BY <1>3 DEF TypeOK, LiveInv
<1>7. \A j, k \in 1..Len(store) : j < k =>
        store[j] # store[k] /\ (w = "redis_stream" => store[j] < store[k])
  BY <1>1, <1>6 DEF StoreInv
<1>8. ToSet(store') = ToSet(store) \ {store[i]}
  <2>1. ASSUME NEW j \in 1..Len(store') PROVE store'[j] \in ToSet(store) \ {store[i]}
    <3>1. CASE j < i /\ j \in 1..Len(store) /\ store'[j] = store[j]
      BY <1>6, <1>7, <3>1 DEF ToSet
    <3>2. CASE j >= i /\ j + 1 \in 1..Len(store) /\ store'[j] = store[j + 1]
      <4>1. i < j + 1
        BY <3>2
      <4> QED BY <1>6, <1>7, <3>2, <4>1 DEF ToSet
    <3> QED BY <1>4, <3>1, <3>2
  <2>2. ASSUME NEW j \in 1..Len(store), store[j] # store[i] PROVE store[j] \in ToSet(store')
    BY <1>5, <1>6, <2>2 DEF ToSet
  <2> QED BY <1>6, <2>1, <2>2 DEF ToSet
<1>9. StoreInv'
  <2>1. ASSUME NEW j \in 1..Len(store'), NEW k \in 1..Len(store'), j < k
        PROVE  store'[j] # store'[k] /\ (w = "redis_stream" => store'[j] < store'[k])
    <3>1. CASE j < i /\ j \in 1..Len(store) /\ store'[j] = store[j]
      <4>1. CASE k < i /\ k \in 1..Len(store) /\ store'[k] = store[k]
        BY <1>7, <2>1, <3>1, <4>1
      <4>2. CASE k >= i /\ k + 1 \in 1..Len(store) /\ store'[k] = store[k + 1]
        <5>1. j < k + 1
          BY <2>1
        <5> QED BY <1>7, <3>1, <4>2, <5>1
      <4> QED BY <1>4, <4>1, <4>2
    <3>2. CASE j >= i /\ j + 1 \in 1..Len(store) /\ store'[j] = store[j + 1]
      <4>1. k >= i /\ k + 1 \in 1..Len(store) /\ store'[k] = store[k + 1]
        BY <1>4, <2>1, <3>2
      <4>2. j + 1 < k + 1
        BY <2>1
      <4> QED BY <1>7, <3>2, <4>1, <4>2
    <3> QED BY <1>4, <3>1, <3>2
  <2> QED BY <1>2, <1>6, <2>1 DEF StoreInv
<1>10. PageInv(scan)'
  BY <1>1, <1>2 DEF PageInv
<1>11. /\ Passed(scan) \ Passed(scan)' \subseteq {store[i]}
       /\ pulled' = pulled \/ pulled' = pulled + 1
       /\ pulled' = pulled => Passed(scan)' \subseteq Passed(scan)
       /\ Passed(scan)' \ Passed(scan) \subseteq {store[Boundary(scan) + 1]}
  BY <1>1, RemovedPassed
<1>12. TypeOK'
  <2>1. /\ w \in Sources /\ scan \in N!Instances /\ scan.idx <= Len(scan.page)
        /\ open \in BOOLEAN /\ ended \in BOOLEAN /\ given \in Seq(1..last)
    BY <1>1 DEF TypeOK
  <2>2. stays' \subseteq ToSet(store') /\ pulled' \in Nat
    BY <1>1, <1>2, <1>8, <1>11
  <2> QED BY <1>1, <1>2, <1>3, <2>1, <2>2 DEF TypeOK
<1>13. /\ IsFiniteSet(H) /\ IsFiniteSet(ToSet(store)) /\ ToSet(given) \subseteq H
       /\ Handed(scan)' = H
  BY <1>1, <1>2, Finite DEF Handed, Rest
<1>14. MissInv(scan)'
  <2> DEFINE N2 == ((stays \ {store[i]}) \cap Passed(scan)') \ H
             z == store[Boundary(scan) + 1]
  <2>1. N2 \subseteq M \cup {z} /\ (pulled' = pulled => N2 \subseteq M)
    BY <1>11
  <2>2. M \in SUBSET ToSet(store)
    BY <1>1
  <2>3. Cardinality(M) <= pulled
    BY <1>1 DEF MissInv
  <2>4. MissInv(scan)' <=> Cardinality(N2) <= pulled'
    <3> HIDE DEF H
    <3>1. stays' = stays \ {store[i]} /\ Handed(scan)' = H
      BY <1>2, <1>13
    <3> QED BY <3>1 DEF MissInv
  <2>5. IsFiniteSet(M)
    <3> HIDE DEF M
    <3> QED BY <1>13, <2>2, FS_Subset
  <2>6. /\ Cardinality(N2) \in Nat /\ Cardinality(M) \in Nat
        /\ Cardinality(N2) <= Cardinality(M) + 1
        /\ (N2 \subseteq M => Cardinality(N2) <= Cardinality(M))
    <3> HIDE DEF M, N2
    <3> QED BY <2>1, <2>5, OneMore
  <2>7. Cardinality(N2) <= pulled'
    <3> HIDE DEF M, N2
    <3>1. CASE pulled' = pulled
      BY <1>1, <2>1, <2>3, <2>6, <3>1
    <3>2. CASE pulled' = pulled + 1
      BY <1>1, <2>3, <2>6, <3>2
    <3> QED BY <1>11, <3>1, <3>2
  <2> QED BY <2>4, <2>7
<1>15. RepeatInv(scan)'
  <2> DEFINE A == H \cap Q
             B == H \cap (ToSet(store') \ Passed(scan)')
             r == Len(given) + Len(scan.page) - scan.idx - Cardinality(H)
  <2>1. B \in SUBSET A
    BY <1>8, <1>11
  <2>2. IsFiniteSet(A)
    <3>1. A \in SUBSET H
      OBVIOUS
    <3> HIDE DEF A, H
    <3> QED BY <1>13, <3>1, FS_Subset
  <2>3. Cardinality(B) \in Nat /\ Cardinality(A) \in Nat /\ Cardinality(B) <= Cardinality(A)
    <3> HIDE DEF A, B
    <3> QED BY <2>1, <2>2, FS_Subset, FS_CardinalityType
  <2>4. r + Cardinality(A) <= pushed
    BY <1>1 DEF RepeatInv
  <2>5. RepeatInv(scan)' <=> r + Cardinality(B) <= pushed
    BY <1>2, <1>13 DEF RepeatInv
  <2>6. r \in Int
    <3>1. Cardinality(H) \in Nat
      <4> HIDE DEF H
      <4> QED BY <1>13, FS_CardinalityType
    <3>2. Len(given) \in Nat /\ Len(scan.page) \in Nat /\ scan.idx \in Nat
      BY <1>1 DEF TypeOK, N!Instances
    <3> HIDE DEF H
    <3> QED BY <3>1, <3>2
  <2>7. r + Cardinality(B) <= pushed
    <3> HIDE DEF r, A, B
    <3> QED BY <1>1, <2>3, <2>4, <2>6
  <2> QED BY <2>5, <2>7
<1>16. IdleInv'
  <2>1. IdleInv
    BY DEF LiveInv
  <2> QED BY <1>2, <2>1 DEF IdleInv
<1>17. MissesBounded'
  <2> DEFINE A == stays \ ToSet(given)
             B == stays' \ ToSet(given)
  <2>1. B \in SUBSET A /\ A \in SUBSET ToSet(store)
    BY <1>1, <1>2
  <2>2. IsFiniteSet(A)
    <3> HIDE DEF A
    <3> QED BY <1>13, <2>1, FS_Subset
  <2>3. Cardinality(B) \in Nat /\ Cardinality(A) \in Nat /\ Cardinality(B) <= Cardinality(A)
    <3> HIDE DEF A, B
    <3> QED BY <2>1, <2>2, FS_Subset, FS_CardinalityType
  <2>4. ended => Cardinality(A) <= pulled
    BY DEF LiveInv, MissesBounded
  <2>5. pulled <= pulled'
    BY <1>1, <1>11
  <2>6. pulled' \in Nat
    BY <1>1, <1>11
  <2>7. ended => Cardinality(B) <= pulled'
    <3> HIDE DEF A, B
    <3> QED BY <1>1, <2>3, <2>4, <2>5, <2>6
  <2> QED BY <1>2, <2>7 DEF MissesBounded
<1> QED BY <1>9, <1>10, <1>12, <1>14, <1>15, <1>16, <1>17 DEF LiveInv, ScanInv

LEMMA StutterKeeps == LiveInv /\ UNCHANGED vars => LiveInv'
<1> SUFFICES ASSUME LiveInv, UNCHANGED vars PROVE LiveInv'
  OBVIOUS
<1>1. /\ w' = w /\ store' = store /\ last' = last /\ scan' = scan /\ open' = open
      /\ given' = given /\ ended' = ended /\ stays' = stays /\ pulled' = pulled /\ pushed' = pushed
  BY DEF vars
<1>2. TypeOK' /\ StoreInv' /\ IdleInv' /\ MissesBounded'
  BY <1>1 DEF LiveInv, TypeOK, StoreInv, IdleInv, MissesBounded
<1>3. Passed(scan)' = Passed(scan) /\ Handed(scan)' = Handed(scan)
  BY <1>1 DEF Passed, Boundary, NoMorePages, Handed, Rest
<1>4. ScanInv(scan)'
  BY <1>1, <1>3 DEF LiveInv, ScanInv, PageInv, MissInv, RepeatInv
<1> QED BY <1>2, <1>4 DEF LiveInv

-----------------------------------------------------------------------------
(* Theorems.                                                               *)

\* The invariant holds in every state, whatever the other clients do between two
\* calls of the wrapper.
THEOREM LiveInvHolds == Spec => []LiveInv
<1>1. LiveInv /\ [Next]_vars => LiveInv'
  <2> SUFFICES ASSUME LiveInv, [Next]_vars PROVE LiveInv'
    OBVIOUS
  <2>1. ASSUME NEW i \in 1..Len(store) + 1, InsertElement(i) PROVE LiveInv'
    BY <2>1, InsertKeeps
  <2>2. ASSUME NEW i \in 1..Len(store), RemoveElement(i) PROVE LiveInv'
    BY <2>2, RemoveKeeps
  <2> QED BY <2>1, <2>2, BeginKeeps, IterKeeps, EndKeeps, StutterKeeps DEF Next
<1> QED BY <1>1, InitKeeps, PTL DEF Spec

\* Every field has its type, and the index of the instance stays inside its page.
THEOREM LiveScanTypeOK == Spec => []TypeOK
<1>1. LiveInv => TypeOK
  BY DEF LiveInv
<1> QED BY <1>1, LiveInvHolds, PTL

\* A scan that is over has skipped at most one element for each that others took
\* from the part it had read already; a stream has skipped none.
THEOREM ScanMissesBounded == Spec => []MissesBounded
<1>1. LiveInv => MissesBounded
  BY DEF LiveInv
<1> QED BY <1>1, LiveInvHolds, PTL

\* A scan has returned at most one element twice for each that others put into the
\* part it had read already; a stream has returned none twice.
THEOREM ScanRepeatsBounded == Spec => []RepeatsBounded
<1>1. LiveInv => RepeatsBounded
  <2> SUFFICES ASSUME LiveInv PROVE RepeatsBounded
    OBVIOUS
  <2> DEFINE g == Cardinality(ToSet(given))
             r == Cardinality(Rest(scan))
             h == Cardinality(Handed(scan))
             n == Cardinality(Handed(scan) \cap (ToSet(store) \ Passed(scan)))
  <2>1. /\ TypeOK /\ PageInv(scan) /\ RepeatInv(scan)
        /\ scan.page \in Seq(1..last) /\ scan.idx \in 0..Len(scan.page)
        /\ Len(given) \in Nat /\ Len(scan.page) \in Nat /\ pushed \in Nat
    BY DEF LiveInv, ScanInv, PageInv, TypeOK, N!Instances
  <2>2. IsFiniteSet(Rest(scan)) /\ r \in Nat /\ r <= Len(scan.page) - scan.idx
    BY <2>1, PartCardinality DEF Rest
  <2>3. IsFiniteSet(ToSet(given)) /\ IsFiniteSet(Handed(scan))
    BY <2>1, Finite
  <2>4. h <= g + r /\ h \in Nat /\ g \in Nat
    <3>1. /\ h = g + r - Cardinality(ToSet(given) \cap Rest(scan))
          /\ IsFiniteSet(ToSet(given) \cap Rest(scan))
      <4>1. ToSet(given) \cap Rest(scan) \in SUBSET Rest(scan)
        OBVIOUS
      <4> QED BY <2>2, <2>3, <4>1, FS_Union, FS_Subset DEF Handed
    <3>2. Cardinality(ToSet(given) \cap Rest(scan)) \in Nat /\ h \in Nat /\ g \in Nat
      BY <2>3, <3>1, FS_CardinalityType
    <3> HIDE DEF g, r, h
    <3> QED BY <2>2, <3>1, <3>2
  <2>5. n \in Nat
    <3>1. Handed(scan) \cap (ToSet(store) \ Passed(scan)) \in SUBSET Handed(scan)
      OBVIOUS
    <3> QED BY <2>3, <3>1, FS_Subset, FS_CardinalityType
  <2>6. Len(given) + Len(scan.page) - scan.idx - h + n <= pushed
    BY <2>1 DEF RepeatInv
  <2> HIDE DEF g, r, h, n
  <2>7. Len(given) - g <= pushed
    BY <2>1, <2>2, <2>4, <2>5, <2>6
  <2> QED BY <2>7 DEF RepeatsBounded, g
<1> QED BY <1>1, LiveInvHolds, PTL

\* Nothing others do falls before the boundary of a stream.
StreamInv == w = "redis_stream" => pulled = 0 /\ pushed = 0

LEMMA StreamInvHolds == Spec => []StreamInv
<1>1. Init => StreamInv
  BY DEF Init, StreamInv
<1>2. LiveInv /\ StreamInv /\ [Next]_vars => StreamInv'
  <2> SUFFICES ASSUME LiveInv, StreamInv, [Next]_vars PROVE StreamInv'
    OBVIOUS
  <2>1. w = "redis_stream" => Boundary(scan) = 0
    BY BoundaryInt DEF LiveInv
  <2>2. \A i \in 1..Len(store) + 1 : ~(i <= 0)
    BY DEF LiveInv, TypeOK
  <2>3. CASE Begin \/ Restart \/ Rescan
    BY <2>3 DEF Begin, Restart, Rescan, PassBegins, StreamInv
  <2>4. CASE IterScan \/ End \/ UNCHANGED vars
    BY <2>4 DEF IterScan, End, vars, StreamInv
  <2>5. ASSUME NEW i \in 1..Len(store) + 1, InsertElement(i) PROVE StreamInv'
    BY <2>1, <2>2, <2>5 DEF InsertElement, StreamInv
  <2>6. ASSUME NEW i \in 1..Len(store), RemoveElement(i) PROVE StreamInv'
    <3>1. ~(i <= 0)
      BY DEF LiveInv, TypeOK
    <3> QED BY <2>1, <2>6, <3>1 DEF RemoveElement, StreamInv
  <2> QED BY <2>3, <2>4, <2>5, <2>6 DEF Next
<1> QED BY <1>1, <1>2, LiveInvHolds, PTL DEF Spec

\* A scan of a stream returns every entry that was there all the time exactly once,
\* because it is read on from an id and not from a place.
StreamExact ==
  w = "redis_stream" =>
    /\ Len(given) = Cardinality(ToSet(given))
    /\ ended => stays \subseteq ToSet(given)

\* Whatever others add to a stream or trim from it, no entry is returned twice and
\* none that stayed is skipped.
THEOREM StreamScanExact == Spec => []StreamExact
<1>1. LiveInv /\ StreamInv /\ RepeatsBounded => StreamExact
  <2> SUFFICES ASSUME LiveInv, StreamInv, RepeatsBounded, w = "redis_stream"
               PROVE  StreamExact
    BY DEF StreamExact
  <2>1. pulled = 0 /\ pushed = 0 /\ TypeOK /\ PageInv(scan) /\ given \in Seq(1..last)
    BY DEF StreamInv, LiveInv, ScanInv, TypeOK
  <2>2. Len(given) = Cardinality(ToSet(given))
    <3>1. Cardinality(ToSet(given)) <= Len(given) /\ Cardinality(ToSet(given)) \in Nat
      BY <2>1, SetCardinality
    <3>2. Len(given) - Cardinality(ToSet(given)) <= 0 /\ Len(given) \in Nat
      BY <2>1 DEF RepeatsBounded
    <3> QED BY <3>1, <3>2
  <2>3. ASSUME ended PROVE stays \subseteq ToSet(given)
    <3> DEFINE A == stays \ ToSet(given)
    <3>1. A \in SUBSET ToSet(store) /\ IsFiniteSet(ToSet(store))
      BY <2>1, Finite DEF TypeOK
    <3>2. Cardinality(A) <= 0
      BY <2>1, <2>3 DEF LiveInv, MissesBounded
    <3>3. IsFiniteSet(A) /\ Cardinality(A) \in Nat
      <4> HIDE DEF A
      <4> QED BY <3>1, FS_Subset, FS_CardinalityType
    <3>4. Cardinality(A) = 0
      <4> HIDE DEF A
      <4> QED BY <3>2, <3>3
    <3>5. A = {}
      <4> HIDE DEF A
      <4> QED BY <3>3, <3>4, FS_EmptySet
    <3> QED BY <3>5
  <2> QED BY <2>2, <2>3 DEF StreamExact
<1> QED BY <1>1, LiveInvHolds, StreamInvHolds, ScanRepeatsBounded, PTL
=============================================================================
