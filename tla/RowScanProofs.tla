--------------------------- MODULE RowScanProofs ---------------------------
(***************************************************************************)
(* Proofs about the wrappers that hand out rows of an answer: those that   *)
(* page, PagedScan, for every table, question, page size and remote side,  *)
(* and those that buffer everything, BufferedScan.                         *)
(***************************************************************************)
EXTENDS PagedScan, SequenceTheorems, TLAPS

-----------------------------------------------------------------------------
(* Types of PagedScan.                                                     *)

\* Wrappers that read on from the place they hold, whatever it is.
ReadsOn == {"bigquery", "mongodb", "dynamodb", "auth0", "cognito", "redis_stream", "iceberg",
            "s3_text", "s3_parquet", "clerk"}

\* The places that are always there while a scan is open.
Kept(x) == w \in {"redis_stream", "clerk"} => x.next # NoPage

\* A request that can be sent: its place and its limit are numbers.
Sendable(x) ==
  /\ w \in ReadsOn => x.next # NoPage
  /\ w = "s3vectors" /\ x.on => x.next # NoPage
  /\ w \in {"dynamodb", "langfuse", "langfuse_pages"} /\ x.lim # All => x.cnt <= x.lim

TypeInv ==
  /\ TypeOK
  /\ ~open => call = "none"
  /\ open => Kept(scan)
  /\ call = "begin" => /\ w \notin Lazy
                       /\ w \in {"bigquery", "mongodb"} => scan.next # NoPage
                       /\ w \in {"langfuse", "langfuse_pages"} => scan.cnt = 0
  /\ call = "ask" => ~Reached(scan) /\ ~NoMorePages(scan) /\ ended = FALSE
  \* iceberg does not ask again once its stream has ended.
  /\ open /\ w = "iceberg" /\ scan.next = NoPage =>
       ended \/ (call = "iter" /\ Drained(scan))

LEMMA EmptyIsSequence == <<>> \in Seq(Rows) /\ Len(<<>>) = 0
OBVIOUS

LEMMA LeastOfTwo ==
  ASSUME NEW i \in Int, NEW j \in Int
  PROVE  Min({i, j}) = IF i <= j THEN i ELSE j
BY DEF Min

\* f is the part of r that holds at most n rows from place p on.
Reads(f, r, p, n) ==
  /\ f \in Seq(Rows) /\ Len(f) \in Nat
  /\ p + n <= Len(r) => Len(f) = n
  /\ p <= Len(r) /\ p + n > Len(r) => Len(f) = Len(r) - p
  /\ p >= Len(r) => Len(f) = 0
  /\ \A j \in 1..Len(f) : f[j] = r[p + j] /\ p + j \in 1..Len(r)

LEMMA FullIs ==
  ASSUME NEW r \in Seq(Rows), NEW p \in Nat, NEW n \in Nat
  PROVE  Reads(Full(r, p, n), r, p, n)
<1> DEFINE e == IF p + n <= Len(r) THEN p + n ELSE Len(r)
           f == Full(r, p, n)
<1>1. Len(r) \in Nat /\ e \in Nat /\ e <= Len(r) /\ e <= p + n
  OBVIOUS
<1>2. f = SubSeq(r, p + 1, e)
  <2>1. Min({p + n, Len(r)}) = e
    BY <1>1, LeastOfTwo
  <2> QED BY <2>1 DEF Full
<1>3. \A i \in p + 1..e : r[i] \in Rows
  BY <1>1
<1> HIDE DEF e, f
<1>4. /\ f \in Seq(Rows)
      /\ Len(f) = IF p + 1 <= e THEN e - (p + 1) + 1 ELSE 0
      /\ \A i \in 1..e - (p + 1) + 1 : f[i] = r[p + 1 + i - 1]
  BY <1>1, <1>2, <1>3, SubSeqProperties
<1>5. e - (p + 1) + 1 = e - p /\ \A i \in Int : p + 1 + i - 1 = p + i
  BY <1>1
<1>6. \A j \in 1..Len(f) : f[j] = r[p + j] /\ p + j \in 1..Len(r)
  <2> SUFFICES ASSUME NEW j \in 1..Len(f) PROVE f[j] = r[p + j] /\ p + j \in 1..Len(r)
    OBVIOUS
  <2>1. p + 1 <= e /\ j \in 1..e - p /\ j \in Int
    BY <1>1, <1>4, <1>5
  <2>2. f[j] = r[p + j]
    BY <1>4, <1>5, <2>1
  <2> QED BY <1>1, <2>1, <2>2
<1>7. /\ p + n <= Len(r) => Len(f) = n
      /\ p <= Len(r) /\ p + n > Len(r) => Len(f) = Len(r) - p
      /\ p >= Len(r) => Len(f) = 0
  BY <1>1, <1>4, <1>5 DEF e
<1>8. Reads(f, r, p, n)
  BY <1>4, <1>6, <1>7 DEF Reads
<1> QED BY <1>8 DEF f

\* s is an answer to a request from place p on: a part of r without a gap, and
\* the place behind it or, when nothing is left, none.
Answer(s, r, p) ==
  /\ s.page \in Seq(Rows) /\ s.next \in Nat \cup {NoPage} /\ Len(s.page) \in Nat
  /\ p <= Len(r) => p + Len(s.page) <= Len(r)
  /\ \A j \in 1..Len(s.page) : s.page[j] = r[p + j]
  /\ s.next # NoPage => s.next = p + Len(s.page)
  /\ s.next = NoPage => p + Len(s.page) >= Len(r)

LEMMA FullPageIs ==
  ASSUME NEW r \in Seq(Rows), NEW p \in Nat, NEW n \in Nat, NEW s, s = FullPage(r, p, n)
  PROVE  Answer(s, r, p) /\ Reads(s.page, r, p, n)
         /\ s.next = IF p + n < Len(r) THEN p + n ELSE NoPage
<1>1. s.page = Full(r, p, n) /\ s.next = (IF p + n < Len(r) THEN p + n ELSE NoPage)
  BY DEF FullPage
<1>2. Reads(s.page, r, p, n)
  BY <1>1, FullIs
<1>3. Len(r) \in Nat /\ NoPage = -1
  BY DEF NoPage
<1> QED BY <1>1, <1>2, <1>3 DEF Reads, Answer

LEMMA PagesAre ==
  ASSUME NEW v, NEW r \in Seq(Rows), NEW p \in Nat, NEW n \in Nat, NEW s \in Pages(v, r, p, n)
  PROVE  Answer(s, r, p) /\ (v \notin Sparse => s = FullPage(r, p, n))
<1>1. CASE s = FullPage(r, p, n)
  BY <1>1, FullPageIs
<1>2. CASE v \in Sparse /\ \E k \in 0..n : s = [page |-> Full(r, p, k), next |-> p + Len(Full(r, p, k))]
  <2>1. PICK k \in 0..n : s = [page |-> Full(r, p, k), next |-> p + Len(Full(r, p, k))]
    BY <1>2
  <2>2. s.page = Full(r, p, k) /\ s.next = p + Len(s.page) /\ k \in Nat
    BY <2>1
  <2>3. Reads(s.page, r, p, k)
    BY <2>2, FullIs
  <2>4. Len(r) \in Nat /\ NoPage = -1
    BY DEF NoPage
  <2>5. Answer(s, r, p)
    BY <2>2, <2>3, <2>4 DEF Reads, Answer
  <2> QED BY <1>2, <2>5
<1> QED BY <1>1, <1>2 DEF Pages, ShortPages

\* The next part of a stream.
LEMMA PartsAre ==
  ASSUME PageAssumption, NEW r \in Seq(Rows), NEW p \in Nat, NEW n \in {0, 1}, NEW s \in Parts(r, p, n)
  PROVE  /\ Answer(s, r, p)
         /\ s.next = NoPage => p = Len(r) /\ s.page = <<>>
         /\ n = 1 /\ s.next # NoPage /\ p <= Len(r) => Len(s.page) > 0
<1>0. Len(r) \in Nat /\ NoPage = -1 /\ PageSize \in Nat \ {0}
  BY DEF NoPage, PageAssumption
<1>1. CASE p = Len(r)
  <2>1. s = [page |-> <<>>, next |-> NoPage]
    BY <1>1 DEF Parts
  <2>2. s.page = <<>> /\ s.next = NoPage
    BY <2>1
  <2> QED BY <1>0, <1>1, <2>2, EmptyIsSequence DEF Answer
<1>2. CASE p # Len(r)
  <2>1. PICK k \in n..PageSize : s = [page |-> Full(r, p, k), next |-> p + Len(Full(r, p, k))]
    BY <1>2 DEF Parts
  <2>2. s.page = Full(r, p, k) /\ s.next = p + Len(s.page) /\ k \in Nat /\ (n = 1 => k > 0)
    BY <2>1, <1>0
  <2>3. Reads(s.page, r, p, k)
    BY <2>2, FullIs
  <2>4. /\ Answer(s, r, p)
        /\ n = 1 /\ p <= Len(r) => Len(s.page) > 0
    BY <1>0, <1>2, <2>2, <2>3 DEF Reads, Answer
  <2> QED BY <1>0, <2>2, <2>3, <2>4 DEF Reads
<1> QED BY <1>1, <1>2
-----------------------------------------------------------------------------
(* The types of what the methods leave behind.                             *)

LEMMA LimitedIs ==
  ASSUME PageAssumption, NEW a \in Asks, Wanted(a) # All
  PROVE  Reads(Limited(a), Remote[a], 0, Wanted(a)) /\ Wanted(a) \in Nat
<1> DEFINE n == Wanted(a)
<1>1. n \in Nat /\ Remote[a] \in Seq(Rows)
  BY DEF PageAssumption, Wanted
<1>2. Limited(a) = SubSeq(Remote[a], 1, Min({n, Len(Remote[a])}))
  BY DEF Limited
<1>3. Full(Remote[a], 0, n) = SubSeq(Remote[a], 0 + 1, Min({0 + n, Len(Remote[a])}))
  BY DEF Full
<1> HIDE DEF n
<1>4. 0 + 1 = 1 /\ 0 + n = n
  BY <1>1
<1>5. Limited(a) = Full(Remote[a], 0, n)
  BY <1>2, <1>3, <1>4
<1>6. Reads(Limited(a), Remote[a], 0, n)
  BY <1>1, <1>5, FullIs
<1> QED BY <1>1, <1>6 DEF n

LEMMA SourcesAre ==
  ASSUME PageAssumption, NEW a \in Asks
  PROVE  /\ Remote[a] \in Seq(Rows) /\ Limited(a) \in Seq(Rows)
         /\ Limit[a] \in Nat \cup {All} /\ Offset[a] \in Nat
         /\ Wanted(a) = (IF Limit[a] = All THEN All ELSE Limit[a] + Offset[a])
         /\ Wanted(a) \in Nat \cup {All} /\ (Wanted(a) = All <=> Limit[a] = All)
<1>1. /\ Remote[a] \in Seq(Rows) /\ Limit[a] \in Nat \cup {All} /\ Offset[a] \in Nat
      /\ All \notin Int
  BY DEF PageAssumption
<1>2. /\ Wanted(a) = (IF Limit[a] = All THEN All ELSE Limit[a] + Offset[a])
      /\ Wanted(a) \in Nat \cup {All} /\ (Wanted(a) = All <=> Limit[a] = All)
  BY <1>1 DEF Wanted
<1>3. Limited(a) \in Seq(Rows)
  <2>1. CASE Wanted(a) = All
    BY <1>1, <2>1 DEF Limited
  <2>2. CASE Wanted(a) # All
    BY <2>2, LimitedIs DEF Reads
  <2> QED BY <2>1, <2>2
<1> QED BY <1>1, <1>2, <1>3

\* The fields of an instance.
LEMMA FieldsAre ==
  ASSUME PageAssumption, NEW x \in Instances
  PROVE  /\ x.page \in Seq(Rows) /\ x.idx \in Nat /\ Len(x.page) \in Nat
         /\ x.next \in Nat \cup {NoPage} /\ x.prev \in Nat \cup {NoPage}
         /\ x.cnt \in Nat /\ x.no \in Nat /\ x.lim \in Nat \cup {All}
         /\ x.on \in BOOLEAN /\ x.tries \in Nat
         /\ NoPage = -1 /\ All \notin Int /\ PageSize \in Nat \ {0} /\ MaxPages \in Nat \ {0}
BY DEF Instances, NoPage, PageAssumption

\* x with the answer s in hand; the rest as it was.
Took(y, x, s) ==
  /\ y.page = s.page /\ y.idx = 0 /\ y.next = s.next /\ y.prev = x.prev /\ y.cnt = x.cnt
  /\ y.no = x.no /\ y.lim = x.lim /\ y.on = x.on /\ y.tries = x.tries

LEMMA HoldingIs ==
  ASSUME NEW x \in Instances, NEW s, s.page \in Seq(Rows), s.next \in Nat \cup {NoPage}
  PROVE  Holding(x, s) \in Instances /\ Took(Holding(x, s), x, s)
BY DEF Instances, Holding, Took

\* The limits of a request.
LEMMA LimitsAre ==
  ASSUME PageAssumption, NEW x \in Instances
  PROVE  /\ DynamodbLimit(x) \in Nat \ {0}
         /\ x.lim = All => LangfuseLimit(x) = PageSize
         /\ x.lim # All => LangfuseLimit(x) = IF PageSize <= x.lim - x.cnt THEN PageSize ELSE x.lim - x.cnt
         /\ OpenapiSize(x) \in Nat \ {0}
         /\ OpenapiSize(x) = IF x.lim = All \/ x.lim = 0 \/ PageSize <= x.lim THEN PageSize ELSE x.lim
<1>1. /\ x.lim \in Nat \cup {All} /\ x.cnt \in Nat /\ PageSize \in Nat \ {0} /\ All \notin Int
  BY FieldsAre
<1>2. DynamodbLimit(x) \in Nat \ {0}
  <2>1. CASE x.lim = All \/ x.lim <= x.cnt
    BY <1>1, <2>1 DEF DynamodbLimit
  <2>2. CASE ~(x.lim = All \/ x.lim <= x.cnt)
    <3>1. x.lim - x.cnt \in Nat \ {0}
      BY <1>1, <2>2
    <3>2. Min({PageSize, x.lim - x.cnt}) \in Nat \ {0}
      <4> DEFINE d == x.lim - x.cnt
      <4>1. d \in Nat \ {0}
        BY <3>1
      <4> HIDE DEF d
      <4>2. Min({PageSize, d}) \in {PageSize, d}
        BY <1>1, <4>1, LeastOfTwo
      <4> QED BY <1>1, <4>1, <4>2 DEF d
    <3> QED BY <2>2, <3>2 DEF DynamodbLimit
  <2> QED BY <2>1, <2>2
<1>3. x.lim # All => LangfuseLimit(x) = IF PageSize <= x.lim - x.cnt THEN PageSize ELSE x.lim - x.cnt
  <2> SUFFICES ASSUME x.lim # All
               PROVE  LangfuseLimit(x) = IF PageSize <= x.lim - x.cnt THEN PageSize ELSE x.lim - x.cnt
    OBVIOUS
  <2>1. x.lim - x.cnt \in Int /\ PageSize \in Int
    BY <1>1
  <2> QED BY <2>1, LeastOfTwo DEF LangfuseLimit
<1>4. OpenapiSize(x) = IF x.lim = All \/ x.lim = 0 \/ PageSize <= x.lim THEN PageSize ELSE x.lim
  <2>1. CASE x.lim = All \/ x.lim = 0
    BY <2>1 DEF OpenapiSize
  <2>2. CASE ~(x.lim = All \/ x.lim = 0)
    <3>1. x.lim \in Int /\ PageSize \in Int
      BY <1>1, <2>2
    <3> QED BY <2>2, <3>1, LeastOfTwo DEF OpenapiSize
  <2> QED BY <2>1, <2>2
<1> QED BY <1>1, <1>2, <1>3, <1>4 DEF LangfuseLimit
-----------------------------------------------------------------------------
(* What a request of each wrapper brings.                                  *)

\* LIMIT and OFFSET are in the query: the remote side takes them.
Limiting == {"bigquery", "mongodb", "cfd1", "snowflake"}

\* The rows the answers of w are taken from.
Source(a) == IF w \in Limiting THEN Limited(a) ELSE Remote[a]

\* The place a request asks from when it holds none.
From(x) == IF x.next = NoPage THEN 0 ELSE x.next

\* y holds an answer with at most n rows of r from place p on; a remote side that
\* is not sparse sends as many as there are.
Got(y, r, p, n) ==
  /\ y.idx = 0 /\ Answer(y, r, p)
  /\ w \notin Sparse => /\ Reads(y.page, r, p, n)
                        /\ y.next = IF p + n < Len(r) THEN p + n ELSE NoPage

\* The rest of the instance is as it was.
Same(y, x) ==
  /\ y.prev = x.prev /\ y.cnt = x.cnt /\ y.no = x.no /\ y.lim = x.lim /\ y.on = x.on

LEMMA SourceIs ==
  ASSUME PageAssumption, NEW a \in Asks
  PROVE  Source(a) \in Seq(Rows) /\ Len(Source(a)) \in Nat
<1>1. Source(a) \in Seq(Rows)
  BY SourcesAre DEF Source
<1> QED BY <1>1

LEMMA GotPage ==
  ASSUME NEW x \in Instances, NEW r \in Seq(Rows), NEW p \in Nat, NEW n \in Nat,
         NEW s \in Pages(w, r, p, n)
  PROVE  Holding(x, s) \in Instances /\ Got(Holding(x, s), r, p, n) /\ Same(Holding(x, s), x)
<1>1. Answer(s, r, p) /\ (w \notin Sparse => s = FullPage(r, p, n))
  BY PagesAre
<1>2. Holding(x, s) \in Instances /\ Took(Holding(x, s), x, s)
  BY <1>1, HoldingIs DEF Answer
<1>3. w \notin Sparse => /\ Reads(s.page, r, p, n)
                         /\ s.next = IF p + n < Len(r) THEN p + n ELSE NoPage
  BY <1>1, FullPageIs
<1> QED BY <1>1, <1>2, <1>3 DEF Took, Got, Same, Answer

LEMMA TokenFetch ==
  ASSUME PageAssumption, NEW a \in Asks, NEW x \in Instances, x.next # NoPage,
         w \in {"bigquery", "mongodb", "dynamodb", "auth0", "cognito"}, NEW y \in Fetch(x, a)
  PROVE  /\ y \in Instances /\ Same(y, x)
         /\ Got(y, Source(a), x.next, IF w = "dynamodb" THEN DynamodbLimit(x) ELSE PageSize)
<1> DEFINE n == IF w = "dynamodb" THEN DynamodbLimit(x) ELSE PageSize
<1>1. n \in Nat /\ x.next \in Nat
  BY FieldsAre, LimitsAre
<1>2. PICK s \in Pages(w, Source(a), x.next, n) : y = Holding(x, s)
  BY DEF Fetch, BigqueryFetch, MongodbFetch, DynamodbFetch, Auth0Fetch, CognitoFetch, Source, Limiting
<1> HIDE DEF n
<1>3. y \in Instances /\ Got(y, Source(a), x.next, n) /\ Same(y, x)
  BY <1>1, <1>2, SourceIs, GotPage
<1> QED BY <1>3 DEF n

LEMMA CursorFetches ==
  ASSUME PageAssumption, NEW a \in Asks, NEW x \in Instances,
         w \in {"snowflake", "shopify", "paddle"}, NEW y \in Fetch(x, a)
  PROVE  y \in Instances /\ Same(y, x) /\ Got(y, Source(a), From(x), PageSize)
<1>1. PageSize \in Nat /\ From(x) \in Nat
  BY FieldsAre DEF From
<1>2. PICK s \in Pages(w, Source(a), From(x), PageSize) : y = Holding(x, s)
  BY DEF Fetch, SnowflakeFetch, ShopifyFetch, PaddleFetch, Source, Limiting, From
<1> QED BY <1>1, <1>2, SourceIs, GotPage

LEMMA S3vectorsFetches ==
  ASSUME PageAssumption, NEW a \in Asks, NEW x \in Instances,
         x.on => x.next # NoPage, w = "s3vectors", NEW y \in Fetch(x, a)
  PROVE  /\ y \in Instances /\ y.cnt = x.cnt /\ y.lim = x.lim /\ y.on = TRUE
         /\ Got(y, Source(a), IF x.on THEN x.next ELSE 0, PageSize)
<1> DEFINE p == IF x.on THEN x.next ELSE 0
<1>1. PageSize \in Nat /\ p \in Nat
  BY FieldsAre
<1>2. PICK s \in Pages(w, Source(a), p, PageSize) : y = [Holding(x, s) EXCEPT !.on = TRUE]
  BY DEF Fetch, S3vectorsFetch, Source, Limiting
<1> HIDE DEF p
<1> DEFINE z == Holding(x, s)
<1>3. z \in Instances /\ Got(z, Source(a), p, PageSize) /\ Same(z, x)
  BY <1>1, SourceIs, GotPage
<1> HIDE DEF z
<1>4. /\ y \in Instances /\ y.page = z.page /\ y.idx = z.idx /\ y.next = z.next
      /\ y.cnt = z.cnt /\ y.lim = z.lim /\ y.on = TRUE
  BY <1>2, <1>3 DEF Instances, z
<1> QED BY <1>3, <1>4 DEF Got, Same, Answer, p

LEMMA HubspotOrbFetches ==
  ASSUME PageAssumption, NEW a \in Asks, NEW x \in Instances,
         w \in {"hubspot", "orb"}, NEW y \in Fetch(x, a)
  PROVE  /\ y \in Instances /\ y.cnt = x.cnt /\ y.lim = Wanted(a)
         /\ Got(y, Source(a), From(x), PageSize)
<1>1. PageSize \in Nat /\ From(x) \in Nat
  BY FieldsAre DEF From
<1>2. PICK s \in Pages(w, Source(a), From(x), PageSize) :
        y = [Holding(x, s) EXCEPT !.lim = Wanted(a)]
  BY DEF Fetch, HubspotFetch, OrbFetch, CursorFetch, Source, Limiting, From
<1> DEFINE z == Holding(x, s)
<1>3. z \in Instances /\ Got(z, Source(a), From(x), PageSize) /\ Same(z, x)
  BY <1>1, SourceIs, GotPage
<1> HIDE DEF z
<1>4. /\ y \in Instances /\ y.page = z.page /\ y.idx = z.idx /\ y.next = z.next
      /\ y.cnt = z.cnt /\ y.lim = Wanted(a)
  BY <1>2, <1>3, SourcesAre DEF Instances, z
<1> QED BY <1>3, <1>4 DEF Got, Same, Answer

LEMMA OpenapiFetches ==
  ASSUME PageAssumption, NEW a \in Asks, NEW x \in Instances, w = "openapi", NEW y \in Fetch(x, a)
  PROVE  /\ y \in Instances /\ y.cnt = x.cnt /\ y.lim = x.lim /\ y.prev = x.next /\ y.no = x.no + 1
         /\ Got(y, Source(a), From(x), OpenapiSize(x))
<1>1. OpenapiSize(x) \in Nat /\ From(x) \in Nat
  BY FieldsAre, LimitsAre DEF From
<1>2. PICK s \in Pages(w, Source(a), From(x), OpenapiSize(x)) :
        y = [Holding(x, s) EXCEPT !.prev = x.next, !.no = @ + 1]
  BY DEF Fetch, OpenapiFetch, Source, Limiting, From
<1> DEFINE z == Holding(x, s)
<1>3. z \in Instances /\ Got(z, Source(a), From(x), OpenapiSize(x)) /\ Same(z, x)
  BY <1>1, SourceIs, GotPage
<1> HIDE DEF z
<1>4. /\ y \in Instances /\ y.page = z.page /\ y.idx = z.idx /\ y.next = z.next
      /\ y.cnt = z.cnt /\ y.lim = z.lim /\ y.prev = x.next /\ y.no = z.no + 1
  <2>1. y = [z EXCEPT !.prev = x.next, !.no = z.no + 1]
    BY <1>2 DEF z
  <2>2. x.next \in Nat \cup {NoPage} /\ z.no + 1 \in Nat
    BY <1>3, FieldsAre
  <2> QED BY <1>3, <2>1, <2>2 DEF Instances
<1> QED BY <1>3, <1>4 DEF Got, Same, Answer

LEMMA RedisListFetches ==
  ASSUME PageAssumption, NEW a \in Asks, NEW x \in Instances, w = "redis_list", NEW y \in Fetch(x, a)
  PROVE  /\ y \in Instances /\ y.idx = 0 /\ y.next = 0 /\ Same(y, x)
         /\ Reads(y.page, Source(a), x.cnt, PageSize)
<1> DEFINE s == [page |-> Full(Source(a), x.cnt, PageSize), next |-> 0]
<1>1. x.cnt \in Nat /\ PageSize \in Nat
  BY FieldsAre
<1>2. Reads(s.page, Source(a), x.cnt, PageSize) /\ s.next = 0
  BY <1>1, SourceIs, FullIs
<1>3. y = Holding(x, s)
  BY DEF Fetch, RedisListFetch, Source, Limiting
<1> HIDE DEF s
<1>4. s.page \in Seq(Rows) /\ s.next \in Nat \cup {NoPage}
  BY <1>2 DEF Reads
<1>5. y \in Instances /\ Took(y, x, s)
  BY <1>3, <1>4, HoldingIs
<1> QED BY <1>2, <1>5 DEF Took, Same

\* A stream and clerk always have a place to go on from.
LEMMA PlacedFetches ==
  ASSUME PageAssumption, NEW a \in Asks, NEW x \in Instances, x.next # NoPage,
         w \in {"redis_stream", "clerk"}, NEW y \in Fetch(x, a),
         NEW p, p = x.next + (IF w = "clerk" THEN Len(x.page) ELSE 0)
  PROVE  /\ y \in Instances /\ y.idx = 0 /\ Same(y, x) /\ p \in Nat
         /\ Reads(y.page, Source(a), p, PageSize)
         /\ y.next = p + (IF w = "clerk" THEN 0 ELSE Len(y.page))
         /\ y.next # NoPage
<1> DEFINE f == Full(Source(a), p, PageSize)
           s == [page |-> f, next |-> p + (IF w = "clerk" THEN 0 ELSE Len(f))]
<1>1. p \in Nat /\ PageSize \in Nat /\ NoPage = -1
  BY FieldsAre
<1>2. Reads(f, Source(a), p, PageSize)
  BY <1>1, SourceIs, FullIs
<1>3. y = Holding(x, s)
  <2>1. CASE w = "clerk"
    <3>1. p = x.next + Len(x.page) /\ p + 0 = p
      BY <1>1, <2>1
    <3>2. s = [page |-> f, next |-> p]
      BY <2>1, <3>1
    <3> HIDE DEF s
    <3> QED BY <2>1, <3>1, <3>2 DEF Fetch, ClerkFetch, Source, Limiting
  <2>2. CASE w = "redis_stream"
    <3>1. p = x.next
      BY <1>1, <2>2, FieldsAre
    <3>2. s = [page |-> f, next |-> x.next + Len(f)]
      BY <2>2, <3>1
    <3> HIDE DEF s
    <3> QED BY <2>2, <3>1, <3>2 DEF Fetch, RedisStreamFetch, Source, Limiting
  <2> QED BY <2>1, <2>2
<1> HIDE DEF f
<1>4. s.page = f /\ s.next = p + (IF w = "clerk" THEN 0 ELSE Len(f)) /\ s.next \in Nat
  BY <1>1, <1>2 DEF Reads
<1> HIDE DEF s
<1>5. y \in Instances /\ Took(y, x, s)
  BY <1>2, <1>3, <1>4, HoldingIs DEF Reads
<1> QED BY <1>1, <1>2, <1>4, <1>5 DEF Took, Same

\* iceberg and s3 read a stream on; a part of a Parquet file or of a table is
\* never empty before the end.
LEMMA StreamFetches ==
  ASSUME PageAssumption, NEW a \in Asks, NEW x \in Instances, x.next # NoPage,
         w \in {"iceberg", "s3_text", "s3_parquet"}, NEW y \in Fetch(x, a)
  PROVE  /\ y \in Instances /\ y.idx = 0 /\ Same(y, x) /\ Answer(y, Source(a), x.next)
         /\ y.next = NoPage => x.next = Len(Source(a)) /\ y.page = <<>>
         /\ w = "iceberg" /\ y.next # NoPage /\ x.next <= Len(Source(a)) => Len(y.page) > 0
<1>1. x.next \in Nat
  BY FieldsAre
<1>2. PICK s : /\ y = Holding(x, s)
               /\ \/ s \in Parts(Source(a), x.next, IF w = "s3_text" THEN 0 ELSE 1)
                  \/ w = "s3_text" /\ s = [page |-> <<>>, next |-> x.next]
  BY DEF Fetch, IcebergFetch, S3TextFetch, S3ParquetFetch, Source, Limiting
<1>3. /\ Answer(s, Source(a), x.next)
      /\ s.next = NoPage => x.next = Len(Source(a)) /\ s.page = <<>>
      /\ w = "iceberg" /\ s.next # NoPage /\ x.next <= Len(Source(a)) => Len(s.page) > 0
  <2>1. CASE s \in Parts(Source(a), x.next, IF w = "s3_text" THEN 0 ELSE 1)
    <3> DEFINE n == IF w = "s3_text" THEN 0 ELSE 1
    <3>1. n \in {0, 1} /\ (w = "iceberg" => n = 1) /\ s \in Parts(Source(a), x.next, n)
      BY <2>1
    <3> HIDE DEF n
    <3>2. /\ Answer(s, Source(a), x.next)
          /\ s.next = NoPage => x.next = Len(Source(a)) /\ s.page = <<>>
          /\ n = 1 /\ s.next # NoPage /\ x.next <= Len(Source(a)) => Len(s.page) > 0
      BY <1>1, <3>1, SourceIs, PartsAre
    <3> QED BY <3>1, <3>2
  <2>2. CASE w = "s3_text" /\ s = [page |-> <<>>, next |-> x.next]
    <3>1. s.page = <<>> /\ s.next = x.next
      BY <2>2
    <3> QED BY <1>1, <2>2, <3>1, SourceIs, EmptyIsSequence DEF Answer
  <2> QED BY <1>2, <2>1, <2>2
<1>4. y \in Instances /\ Took(y, x, s)
  BY <1>2, <1>3, HoldingIs DEF Answer
<1> QED BY <1>3, <1>4 DEF Took, Same, Answer

\* One request brings everything, or the first page of it.
LEMMA WholeFetches ==
  ASSUME PageAssumption, NEW a \in Asks, NEW x \in Instances,
         w \in {"tencent_cls", "cal", "cfd1", "slack_files"}, NEW y \in Fetch(x, a)
  PROVE  /\ y \in Instances /\ y.idx = 0 /\ y.next = NoPage /\ Same(y, x)
         /\ w \in {"cal", "cfd1"} => y.page = Source(a)
         /\ w \in {"tencent_cls", "slack_files"} => Reads(y.page, Source(a), 0, PageSize)
<1> DEFINE f == IF w \in {"cal", "cfd1"} THEN Source(a) ELSE Full(Source(a), 0, PageSize)
           s == [page |-> f, next |-> NoPage]
<1>1. f \in Seq(Rows) /\ (w \in {"tencent_cls", "slack_files"} => Reads(f, Source(a), 0, PageSize))
  <2>1. PageSize \in Nat /\ 0 \in Nat
    BY FieldsAre
  <2>2. Reads(Full(Source(a), 0, PageSize), Source(a), 0, PageSize)
    BY <2>1, SourceIs, FullIs
  <2> QED BY <2>2, SourceIs DEF Reads
<1>2. y = Holding(x, s)
  BY DEF Fetch, TencentFetch, CalFetch, Cfd1Fetch, SlackFilesFetch, Whole, Source, Limiting
<1>3. w \in {"cal", "cfd1"} => f = Source(a)
  OBVIOUS
<1> HIDE DEF f
<1>4. s.page = f /\ s.next = NoPage
  OBVIOUS
<1> HIDE DEF s
<1>5. y \in Instances /\ Took(y, x, s)
  BY <1>1, <1>2, <1>4, HoldingIs
<1> QED BY <1>1, <1>3, <1>4, <1>5 DEF Took, Same

LEMMA InfuraFetches ==
  ASSUME PageAssumption, NEW a \in Asks, NEW x \in Instances, w = "infura", NEW y \in Fetch(x, a)
  PROVE  /\ y \in Instances /\ y.idx = x.idx /\ y.next = x.next /\ Same(y, x)
         /\ x.page = <<>> => y.page = Source(a)
<1>1. y = [x EXCEPT !.page = x.page \o Remote[a]] /\ Source(a) = Remote[a]
  BY DEF Fetch, InfuraFetch, Source, Limiting
<1>2. x.page \in Seq(Rows) /\ Remote[a] \in Seq(Rows)
  BY FieldsAre, SourcesAre
<1> DEFINE f == x.page \o Remote[a]
<1>3. f \in Seq(Rows) /\ (x.page = <<>> => f = Remote[a])
  BY <1>2, ConcatProperties, ConcatEmptySeq
<1> HIDE DEF f
<1>4. y = [x EXCEPT !.page = f]
  BY <1>1 DEF f
<1>5. y \in Instances /\ y.page = f /\ y.idx = x.idx /\ y.next = x.next /\ Same(y, x)
  BY <1>3, <1>4 DEF Instances, Same
<1> QED BY <1>1, <1>3, <1>5

LEMMA CollectingFetches ==
  ASSUME PageAssumption, NEW a \in Asks, NEW x \in Instances, w \in Collecting, NEW y \in Fetch(x, a)
  PROVE  /\ y \in Instances /\ y.idx = x.idx /\ Same(y, x) /\ From(x) \in Nat
         /\ \E s : Answer(s, Source(a), From(x)) /\ y.page = x.page \o s.page /\ y.next = s.next
<1>1. PageSize \in Nat /\ From(x) \in Nat /\ x.page \in Seq(Rows)
  BY FieldsAre DEF From
<1>2. PICK v, s : /\ s \in Pages(v, Source(a), From(x), PageSize)
                  /\ y = [x EXCEPT !.page = x.page \o s.page, !.next = s.next]
  BY DEF Fetch, CalendlyFetch, NotionFetch, Collected, Collecting, Source, Limiting, From
<1>3. Answer(s, Source(a), From(x))
  BY <1>1, <1>2, SourceIs, PagesAre
<1> DEFINE f == x.page \o s.page
<1>4. f \in Seq(Rows) /\ s.next \in Nat \cup {NoPage}
  BY <1>1, <1>3, ConcatProperties DEF Answer
<1> HIDE DEF f
<1>5. y = [x EXCEPT !.page = f, !.next = s.next]
  BY <1>2 DEF f
<1>6. y \in Instances /\ y.page = f /\ y.idx = x.idx /\ y.next = s.next /\ Same(y, x)
  BY <1>4, <1>5 DEF Instances, Same
<1> QED BY <1>1, <1>3, <1>6 DEF f

LEMMA LangfuseFetches ==
  ASSUME PageAssumption, NEW a \in Asks, NEW x \in Instances, x.lim # All => x.cnt <= x.lim,
         w = "langfuse", NEW y \in Fetch(x, a)
  PROVE  /\ y \in Instances /\ y.idx = 0 /\ Same(y, x) /\ From(x) \in Nat /\ LangfuseLimit(x) \in Nat
         /\ \E z : /\ Got(z, Source(a), From(x), LangfuseLimit(x))
                   /\ y.page = z.page
                   /\ y.next = IF z.page = <<>> THEN NoPage ELSE z.next
<1>1. LangfuseLimit(x) \in Nat /\ From(x) \in Nat
  BY FieldsAre, LimitsAre DEF From
<1>2. PICK s \in Pages(w, Source(a), From(x), LangfuseLimit(x)) :
        y = Holding(x, [s EXCEPT !.next = IF s.page = <<>> THEN NoPage ELSE @])
  BY DEF Fetch, LangfuseFetch, Source, Limiting, From
<1>3. Answer(s, Source(a), From(x)) /\ s = [page |-> s.page, next |-> s.next]
  <2>1. Answer(s, Source(a), From(x))
    BY <1>1, <1>2, SourceIs, PagesAre
  <2> QED BY <1>2, <2>1 DEF Pages, FullPage, ShortPages
<1> DEFINE z == Holding(x, s)
           u == [s EXCEPT !.next = IF s.page = <<>> THEN NoPage ELSE @]
<1>4. Got(z, Source(a), From(x), LangfuseLimit(x)) /\ Same(z, x) /\ z.page = s.page /\ z.next = s.next
  <2>1. Got(z, Source(a), From(x), LangfuseLimit(x)) /\ Same(z, x)
    BY <1>1, <1>2, SourceIs, GotPage
  <2>2. Took(z, x, s)
    BY <1>3, HoldingIs DEF Answer
  <2> QED BY <2>1, <2>2 DEF Took
<1>5. u.page = s.page /\ u.next = IF s.page = <<>> THEN NoPage ELSE s.next
  BY <1>3
<1>6. y = Holding(x, u) /\ u.page \in Seq(Rows) /\ u.next \in Nat \cup {NoPage}
  BY <1>2, <1>3, <1>5 DEF Answer
<1> HIDE DEF u, z
<1>7. y \in Instances /\ Took(y, x, u)
  BY <1>6, HoldingIs
<1> QED BY <1>1, <1>4, <1>5, <1>7 DEF Took, Same

LEMMA ProductIsNat == \A i, j \in Nat : i * j \in Nat
OBVIOUS

LEMMA NumberedFetches ==
  ASSUME PageAssumption, NEW a \in Asks, NEW x \in Instances, x.lim # All => x.cnt <= x.lim,
         w = "langfuse_pages", NEW y \in Fetch(x, a),
         NEW n, n = LangfuseLimit(x), NEW p, p = IF x.no > 1 THEN x.no ELSE 1
  PROVE  /\ y \in Instances /\ y.idx = 0 /\ y.cnt = x.cnt /\ y.lim = x.lim /\ y.no = p + 1
         /\ n \in Nat /\ (p - 1) * n \in Nat
         /\ Reads(y.page, Source(a), (p - 1) * n, n)
         /\ y.next = IF n > 0 /\ p * n < Len(Source(a)) /\ y.page # <<>> THEN 0 ELSE NoPage
<1>1. n \in Nat /\ p \in Nat /\ p - 1 \in Nat /\ (p - 1) * n \in Nat
  <2>1. n \in Nat
    BY FieldsAre, LimitsAre
  <2>2. p \in Nat /\ p - 1 \in Nat
    BY FieldsAre
  <2> QED BY <2>1, <2>2, ProductIsNat
<1> DEFINE rows == Full(Source(a), (p - 1) * n, n)
           again == n > 0 /\ p * n < Len(Source(a)) /\ rows # <<>>
           s == [page |-> rows, next |-> IF again THEN 0 ELSE NoPage]
           z == Holding(x, s)
<1>2. y = [z EXCEPT !.no = p + 1]
  BY DEF Fetch, LangfuseNumbered, Source, Limiting
<1>3. Reads(rows, Source(a), (p - 1) * n, n)
  BY <1>1, SourceIs, FullIs
<1> HIDE DEF rows
<1>4. /\ s.page = rows /\ s.next = IF again THEN 0 ELSE NoPage
      /\ s.page \in Seq(Rows) /\ s.next \in Nat \cup {NoPage}
  BY <1>3 DEF Reads
<1> HIDE DEF s
<1>5. z \in Instances /\ Took(z, x, s)
  BY <1>4, HoldingIs
<1> HIDE DEF z
<1>6. /\ y \in Instances /\ y.page = z.page /\ y.idx = z.idx /\ y.next = z.next /\ y.cnt = z.cnt
      /\ y.lim = z.lim /\ y.no = p + 1
  <2>1. p + 1 \in Nat
    BY <1>1
  <2> QED BY <1>2, <1>5, <2>1 DEF Instances
<1> QED BY <1>1, <1>3, <1>4, <1>5, <1>6 DEF Took

-----------------------------------------------------------------------------
(* slack.                                                                  *)

LEMMA SlicedIs ==
  ASSUME PageAssumption, NEW a \in Asks, NEW r \in Seq(Rows)
  PROVE  /\ SlackSliced(r, a) \in Seq(Rows)
         /\ Limit[a] = All => SlackSliced(r, a) = r
         /\ Limit[a] # All => Reads(SlackSliced(r, a), r, Offset[a], Limit[a])
<1>1. CASE Limit[a] = All
  BY <1>1 DEF SlackSliced
<1>2. CASE Limit[a] # All
  <2>1. Limit[a] \in Nat /\ Offset[a] \in Nat
    BY <1>2, SourcesAre
  <2>2. {Len(r), Offset[a] + Limit[a]} = {Offset[a] + Limit[a], Len(r)}
    OBVIOUS
  <2>3. SlackSliced(r, a) = Full(r, Offset[a], Limit[a])
    BY <1>2, <2>2 DEF SlackSliced, Full
  <2>4. Reads(SlackSliced(r, a), r, Offset[a], Limit[a])
    BY <2>1, <2>3, FullIs
  <2> QED BY <1>2, <2>4 DEF Reads
<1> QED BY <1>1, <1>2

\* The page slack asks for.
UsersSize(a) == IF Limit[a] # All /\ Limit[a] > 0 /\ Limit[a] < PageSize THEN Limit[a] ELSE PageSize

LEMMA SlackUsersFetches ==
  ASSUME PageAssumption, NEW a \in Asks, NEW x \in Instances, w = "slack_users", NEW y \in Fetch(x, a)
  PROVE  /\ y \in Instances /\ y.idx = 0 /\ Same(y, x) /\ From(x) \in Nat
         /\ x.next = NoPage => y.next = NoPage
         /\ \E z : Got(z, Source(a), From(x), UsersSize(a)) /\ y.page = SlackSliced(z.page, a)
<1> DEFINE n == IF Limit[a] # All /\ Limit[a] > 0 THEN Min({PageSize, Limit[a]}) ELSE PageSize
<1>1. From(x) \in Nat /\ PageSize \in Nat \ {0} /\ Limit[a] \in Nat \cup {All} /\ All \notin Int
  BY FieldsAre, SourcesAre DEF From
<1>2. n = UsersSize(a)
  <2>1. CASE Limit[a] # All
    <3>1. Limit[a] \in Int /\ PageSize \in Int
      BY <1>1, <2>1
    <3>2. Min({PageSize, Limit[a]}) = IF PageSize <= Limit[a] THEN PageSize ELSE Limit[a]
      BY <3>1, LeastOfTwo
    <3> QED BY <1>1, <2>1, <3>2 DEF UsersSize
  <2>2. CASE Limit[a] = All
    BY <2>2 DEF UsersSize
  <2> QED BY <2>1, <2>2
<1>3. n \in Nat
  <2>1. UsersSize(a) \in Nat
    BY <1>1 DEF UsersSize
  <2> QED BY <1>2, <2>1
<1>4. PICK s \in Pages(w, Source(a), From(x), n) :
        y = Holding(x, [page |-> SlackSliced(s.page, a),
                        next |-> IF x.next = NoPage \/ (Limit[a] # All /\ Len(SlackSliced(s.page, a)) >= Limit[a])
                                   THEN NoPage ELSE s.next])
  BY DEF Fetch, SlackUsersFetch, Source, Limiting, From
<1> HIDE DEF n
<1>5. Got(Holding(x, s), Source(a), From(x), n) /\ Holding(x, s).page = s.page
  <2>1. Answer(s, Source(a), From(x))
    BY <1>1, <1>3, <1>4, SourceIs, PagesAre
  <2>2. Took(Holding(x, s), x, s)
    BY <2>1, HoldingIs DEF Answer
  <2> QED BY <1>1, <1>3, <1>4, <2>2, SourceIs, GotPage DEF Took
<1>6. s.page \in Seq(Rows) /\ s.next \in Nat \cup {NoPage}
  BY <1>1, <1>3, <1>4, SourceIs, PagesAre DEF Answer
<1> DEFINE u == [page |-> SlackSliced(s.page, a),
                 next |-> IF x.next = NoPage \/ (Limit[a] # All /\ Len(SlackSliced(s.page, a)) >= Limit[a])
                            THEN NoPage ELSE s.next]
<1>7. /\ y = Holding(x, u) /\ u.page = SlackSliced(s.page, a) /\ (x.next = NoPage => u.next = NoPage)
      /\ u.next \in Nat \cup {NoPage}
  BY <1>4, <1>6
<1> HIDE DEF u
<1>8. u.page \in Seq(Rows)
  BY <1>6, <1>7, SlicedIs
<1>9. y \in Instances /\ Took(y, x, u)
  BY <1>7, <1>8, HoldingIs
<1> QED BY <1>1, <1>2, <1>5, <1>7, <1>9 DEF Took, Same

LEMMA SlackGroupsFetches ==
  ASSUME PageAssumption, NEW a \in Asks, NEW x \in Instances, w = "slack_groups", NEW y \in Fetch(x, a)
  PROVE  /\ y \in Instances /\ y.idx = 0 /\ y.next = NoPage /\ Same(y, x)
         /\ y.page = SlackSliced(Source(a), a)
<1> DEFINE f == SlackSliced(Source(a), a)
           s == [page |-> f, next |-> NoPage]
<1>1. f \in Seq(Rows)
  BY SourceIs, SlicedIs
<1>2. y = Holding(x, s)
  BY DEF Fetch, SlackGroupsFetch, Whole, Source, Limiting
<1> HIDE DEF f
<1>3. s.page = f /\ s.next = NoPage
  OBVIOUS
<1> HIDE DEF s
<1>4. y \in Instances /\ Took(y, x, s)
  BY <1>1, <1>2, <1>3, HoldingIs
<1> QED BY <1>3, <1>4 DEF Took, Same, f

LEMMA SlackMessagesFetches ==
  ASSUME PageAssumption, NEW a \in Asks, NEW x \in Instances, w = "slack_messages", NEW y \in Fetch(x, a)
  PROVE  y \in Instances /\ Same(y, x) /\ Got(y, Source(a), 0, PageSize)
<1>1. PageSize \in Nat /\ 0 \in Nat
  BY FieldsAre
<1>2. PICK s \in Pages(w, Source(a), 0, PageSize) : y = Holding(x, s)
  BY DEF Fetch, SlackMessagesFetch, Source, Limiting
<1> QED BY <1>1, <1>2, SourceIs, GotPage

-----------------------------------------------------------------------------
(* The type invariant of PagedScan.                                        *)

LEMMA FetchTypes ==
  ASSUME PageAssumption, CallAssumption, w \in Wrappers, NEW a \in Asks,
         NEW x \in Instances, Sendable(x), NEW y \in Fetch(x, a)
  PROVE  y \in Instances /\ Kept(y)
<1>1. CASE w \in {"bigquery", "mongodb", "dynamodb", "auth0", "cognito"}
  BY <1>1, TokenFetch DEF Sendable, ReadsOn, Kept
<1>2. CASE w \in {"snowflake", "shopify", "paddle"}
  BY <1>2, CursorFetches DEF Kept
<1>3. CASE w = "s3vectors"
  BY <1>3, S3vectorsFetches DEF Sendable, Kept
<1>4. CASE w \in {"hubspot", "orb"}
  BY <1>4, HubspotOrbFetches DEF Kept
<1>5. CASE w = "openapi"
  BY <1>5, OpenapiFetches DEF Kept
<1>6. CASE w = "redis_list"
  BY <1>6, RedisListFetches DEF Kept
<1>7. CASE w \in {"redis_stream", "clerk"}
  <2>1. x.next # NoPage
    BY <1>7 DEF Sendable, ReadsOn
  <2> QED BY <1>7, <2>1, PlacedFetches DEF Kept
<1>8. CASE w \in {"iceberg", "s3_text", "s3_parquet"}
  BY <1>8, StreamFetches DEF Sendable, ReadsOn, Kept
<1>9. CASE w \in {"tencent_cls", "cal", "cfd1", "slack_files"}
  BY <1>9, WholeFetches DEF Kept
<1>10. CASE w = "infura"
  BY <1>10, InfuraFetches DEF Kept
<1>11. CASE w \in Collecting
  BY <1>11, CollectingFetches DEF Collecting, Kept
<1>12. CASE w = "langfuse"
  BY <1>12, LangfuseFetches DEF Sendable, Kept
<1>13. CASE w = "langfuse_pages"
  BY <1>13, NumberedFetches DEF Sendable, Kept
<1>14. CASE w = "slack_users"
  BY <1>14, SlackUsersFetches DEF Kept
<1>15. CASE w = "slack_groups"
  BY <1>15, SlackGroupsFetches DEF Kept
<1>16. CASE w = "slack_messages"
  BY <1>16, SlackMessagesFetches DEF Kept
<1> QED BY <1>1, <1>2, <1>3, <1>4, <1>5, <1>6, <1>7, <1>8, <1>9, <1>10, <1>11, <1>12, <1>13,
           <1>14, <1>15, <1>16 DEF CallAssumption, Collecting

\* What a method that asks for nothing leaves behind can be begun with.
Begun(y, x) ==
  /\ y \in Instances /\ Kept(y) /\ y.tries \in {0, x.tries}
  /\ w \in {"bigquery", "mongodb", "iceberg"} => y.next # NoPage
  /\ w \in {"langfuse", "langfuse_pages"} => y.cnt = 0

LEMMA FreshIs ==
  ASSUME PageAssumption
  PROVE  /\ Fresh \in Instances /\ Fresh.page = <<>> /\ Fresh.idx = 0 /\ Fresh.next = NoPage
         /\ Fresh.prev = NoPage /\ Fresh.cnt = 0 /\ Fresh.no = 0 /\ Fresh.lim = All
         /\ Fresh.on = FALSE /\ Fresh.tries = 0
BY EmptyIsSequence DEF Fresh, Instances

\* The fields a method leaves behind.
Set(y, x, page, idx, next, cnt, lim) ==
  /\ y \in Instances /\ y.tries = x.tries
  /\ y.page = page /\ y.idx = idx /\ y.next = next /\ y.cnt = cnt /\ y.lim = lim

\* What begin_scan leaves behind before its first request.
Opened(y, x, a) ==
  CASE w = "bigquery" -> Set(y, x, x.page, x.idx, 0, x.cnt, x.lim)
    [] w = "s3vectors" -> Set(y, x, x.page, x.idx, x.next, x.cnt, Limit[a]) /\ y.on = x.on
    [] w \in {"mongodb", "iceberg", "s3_text", "s3_parquet", "clerk"} ->
         Set(y, x, <<>>, 0, 0, x.cnt, x.lim)
    [] w = "dynamodb" -> Set(y, x, <<>>, 0, 0, 0, Wanted(a))
    [] w \in {"redis_list", "redis_stream"} -> Set(y, x, <<>>, 0, 0, 0, x.lim)
    [] w \in {"auth0", "cognito"} -> Set(y, Fresh, <<>>, 0, 0, 0, All)
    [] w = "infura" -> Set(y, x, <<>>, 0, x.next, x.cnt, x.lim)
    [] w \in {"calendly", "notion"} -> Set(y, x, <<>>, 0, NoPage, x.cnt, x.lim)
    [] w \in {"notion_blocks", "slack_users", "slack_groups", "slack_messages", "slack_files"} ->
         Set(y, x, x.page, 0, NoPage, x.cnt, x.lim)
    [] w \in {"snowflake", "paddle"} -> Set(y, x, x.page, x.idx, NoPage, x.cnt, x.lim)
    [] w = "langfuse" -> Set(y, x, x.page, x.idx, NoPage, 0, Wanted(a))
    [] w = "langfuse_pages" -> Set(y, x, x.page, x.idx, NoPage, 0, Wanted(a)) /\ y.no = x.no
    [] w = "openapi" -> /\ Set(y, x, x.page, x.idx, NoPage, 0, Wanted(a))
                        /\ y.no = 0 /\ y.prev = NoPage
    [] OTHER -> y = x

LEMMA BeginIs ==
  ASSUME PageAssumption, CallAssumption, w \in Wrappers, NEW a \in Asks, NEW x \in Instances
  PROVE  Opened(BeginScan(x, a), x, a)
<1> DEFINE y == BeginScan(x, a)
<1> SUFFICES Opened(y, x, a)
  OBVIOUS
<1> HIDE DEF y
<1>0. /\ <<>> \in Seq(Rows)
      /\ NoPage = -1 /\ Limit[a] \in Nat \cup {All} /\ Wanted(a) \in Nat \cup {All}
  BY EmptyIsSequence, SourcesAre DEF NoPage
<1>1. CASE w = "bigquery"
  <2>1. y = [x EXCEPT !.next = 0]
    BY <1>1 DEF y, BeginScan, BigqueryBegin
  <2>2. Set(y, x, x.page, x.idx, 0, x.cnt, x.lim)
    BY <1>0, <2>1 DEF Instances, Set
  <2> QED BY <1>1, <2>2 DEF Opened
<1>2. CASE w = "s3vectors"
  <2>1. y = [x EXCEPT !.lim = Limit[a]]
    BY <1>2 DEF y, BeginScan, S3vectorsBegin
  <2>2. Set(y, x, x.page, x.idx, x.next, x.cnt, Limit[a]) /\ y.on = x.on
    BY <1>0, <2>1 DEF Instances, Set
  <2> QED BY <1>2, <2>2 DEF Opened
<1>3. CASE w \in {"mongodb", "iceberg", "s3_text", "s3_parquet", "clerk"}
  <2>1. y = [x EXCEPT !.page = <<>>, !.idx = 0, !.next = 0]
    BY <1>3 DEF y, BeginScan, MongodbBegin, MongodbFind, IcebergBegin, IcebergScan, S3Begin, ClerkReset
  <2>2. Set(y, x, <<>>, 0, 0, x.cnt, x.lim)
    BY <1>0, <2>1 DEF Instances, Set
  <2> QED BY <1>3, <2>2 DEF Opened
<1>4. CASE w = "dynamodb"
  <2>1. y = [[x EXCEPT !.page = <<>>, !.idx = 0, !.next = 0, !.cnt = 0] EXCEPT !.lim = Wanted(a)]
    BY <1>4 DEF y, BeginScan, DynamodbBegin, DynamodbReset
  <2>2. Set(y, x, <<>>, 0, 0, 0, Wanted(a))
    BY <1>0, <2>1 DEF Instances, Set
  <2> QED BY <1>4, <2>2 DEF Opened
<1>5. CASE w \in {"redis_list", "redis_stream"}
  <2>1. y = [x EXCEPT !.page = <<>>, !.idx = 0, !.next = 0, !.cnt = 0]
    BY <1>5 DEF y, BeginScan, RedisBegin, RedisReset
  <2>2. Set(y, x, <<>>, 0, 0, 0, x.lim)
    BY <1>0, <2>1 DEF Instances, Set
  <2> QED BY <1>5, <2>2 DEF Opened
<1>6. CASE w \in {"auth0", "cognito"}
  <2>1. y = [Fresh EXCEPT !.next = 0]
    BY <1>6 DEF y, BeginScan, Auth0Begin, CognitoBegin
  <2>2. Set(y, Fresh, <<>>, 0, 0, 0, All)
    BY <1>0, <2>1, FreshIs DEF Instances, Set
  <2> QED BY <1>6, <2>2 DEF Opened
<1>7. CASE w = "infura"
  <2>1. y = [x EXCEPT !.page = <<>>, !.idx = 0]
    BY <1>7 DEF y, BeginScan, InfuraBegin
  <2>2. Set(y, x, <<>>, 0, x.next, x.cnt, x.lim)
    BY <1>0, <2>1 DEF Instances, Set
  <2> QED BY <1>7, <2>2 DEF Opened
<1>8. CASE w \in {"calendly", "notion"}
  <2>1. y = [x EXCEPT !.page = <<>>, !.idx = 0, !.next = NoPage]
    BY <1>8 DEF y, BeginScan, CalendlyReset, NotionReset
  <2>2. Set(y, x, <<>>, 0, NoPage, x.cnt, x.lim)
    BY <1>0, <2>1 DEF Instances, Set
  <2> QED BY <1>8, <2>2 DEF Opened
<1>9. CASE w \in {"notion_blocks", "slack_users", "slack_groups", "slack_messages", "slack_files"}
  <2>1. y = [x EXCEPT !.idx = 0, !.next = NoPage] \/ y = [x EXCEPT !.next = NoPage, !.idx = 0]
    BY <1>9 DEF y, BeginScan, NotionBlocksReset, SlackReset
  <2>2. CASE y = [x EXCEPT !.idx = 0, !.next = NoPage]
    <3>1. Set(y, x, x.page, 0, NoPage, x.cnt, x.lim)
      BY <1>0, <2>2 DEF Instances, Set
    <3> QED BY <1>9, <3>1 DEF Opened
  <2>3. CASE y = [x EXCEPT !.next = NoPage, !.idx = 0]
    <3>1. Set(y, x, x.page, 0, NoPage, x.cnt, x.lim)
      BY <1>0, <2>3 DEF Instances, Set
    <3> QED BY <1>9, <3>1 DEF Opened
  <2> QED BY <2>1, <2>2, <2>3
<1>10. CASE w \in {"snowflake", "paddle"}
  <2>1. y = [x EXCEPT !.next = NoPage]
    BY <1>10 DEF y, BeginScan, SnowflakeInit, PaddleReset
  <2>2. Set(y, x, x.page, x.idx, NoPage, x.cnt, x.lim)
    BY <1>0, <2>1 DEF Instances, Set
  <2> QED BY <1>10, <2>2 DEF Opened
<1>11. CASE w \in {"langfuse", "langfuse_pages"}
  <2>1. y = [x EXCEPT !.lim = Wanted(a), !.cnt = 0, !.next = NoPage]
    BY <1>11 DEF y, BeginScan, LangfuseBegin
  <2>2. Set(y, x, x.page, x.idx, NoPage, 0, Wanted(a)) /\ y.no = x.no
    BY <1>0, <2>1 DEF Instances, Set
  <2> QED BY <1>11, <2>2 DEF Opened
<1>12. CASE w = "openapi"
  <2>1. y = [[x EXCEPT !.next = NoPage, !.prev = NoPage, !.no = 0, !.cnt = 0] EXCEPT !.lim = Wanted(a)]
    BY <1>12 DEF y, BeginScan, OpenapiBegin, OpenapiReset
  <2>2. Set(y, x, x.page, x.idx, NoPage, 0, Wanted(a)) /\ y.no = 0 /\ y.prev = NoPage
    BY <1>0, <2>1 DEF Instances, Set
  <2> QED BY <1>12, <2>2 DEF Opened
<1>13. CASE w \in {"hubspot", "orb", "tencent_cls", "cal", "cfd1", "shopify"}
  <2>1. y = x
    BY <1>13 DEF y, BeginScan, HubspotBegin, OrbBegin
  <2> QED BY <1>13, <2>1 DEF Opened
<1> QED BY <1>1, <1>2, <1>3, <1>4, <1>5, <1>6, <1>7, <1>8, <1>9, <1>10, <1>11, <1>12, <1>13
        DEF CallAssumption

\* re_scan leaves the same behind, but keeps the limit it had; infura and cal keep
\* their rows, hubspot and orb forget their cursor and their count.
Rewound(y, x) ==
  CASE w \in {"mongodb", "iceberg", "clerk"} -> Set(y, x, <<>>, 0, 0, x.cnt, x.lim)
    [] w \in {"dynamodb", "redis_list", "redis_stream"} -> Set(y, x, <<>>, 0, 0, 0, x.lim)
    [] w = "infura" -> Set(y, x, x.page, 0, x.next, x.cnt, x.lim)
    [] w \in {"calendly", "notion"} -> Set(y, x, <<>>, 0, NoPage, x.cnt, x.lim)
    [] w \in {"notion_blocks", "slack_users", "slack_groups", "slack_messages", "slack_files"} ->
         Set(y, x, x.page, 0, NoPage, x.cnt, x.lim)
    [] w \in {"snowflake", "paddle"} -> Set(y, x, x.page, x.idx, NoPage, x.cnt, x.lim)
    [] w \in {"hubspot", "orb"} -> Set(y, x, x.page, x.idx, NoPage, 0, x.lim)
    [] w = "openapi" -> /\ Set(y, x, x.page, x.idx, NoPage, 0, x.lim)
                        /\ y.no = 0 /\ y.prev = NoPage
    [] OTHER -> y = x

LEMMA ReScanIs ==
  ASSUME PageAssumption, CallAssumption, w \in Rescanned, NEW x \in Instances
  PROVE  Rewound(ReScan(x), x)
<1> DEFINE y == ReScan(x)
<1> SUFFICES Rewound(y, x)
  OBVIOUS
<1> HIDE DEF y
<1>0. <<>> \in Seq(Rows) /\ NoPage = -1
  BY EmptyIsSequence DEF NoPage
<1>1. CASE w \in {"mongodb", "iceberg", "clerk"}
  <2>1. y = [x EXCEPT !.page = <<>>, !.idx = 0, !.next = 0]
    BY <1>1 DEF y, ReScan, MongodbReScan, MongodbFind, IcebergReScan, IcebergScan, ClerkReset
  <2>2. Set(y, x, <<>>, 0, 0, x.cnt, x.lim)
    BY <1>0, <2>1 DEF Instances, Set
  <2> QED BY <1>1, <2>2 DEF Rewound
<1>2. CASE w \in {"dynamodb", "redis_list", "redis_stream"}
  <2>1. y = [x EXCEPT !.page = <<>>, !.idx = 0, !.next = 0, !.cnt = 0]
    BY <1>2 DEF y, ReScan, DynamodbReScan, DynamodbReset, RedisReScan, RedisReset
  <2>2. Set(y, x, <<>>, 0, 0, 0, x.lim)
    BY <1>0, <2>1 DEF Instances, Set
  <2> QED BY <1>2, <2>2 DEF Rewound
<1>3. CASE w = "infura"
  <2>1. y = [x EXCEPT !.idx = 0]
    BY <1>3 DEF y, ReScan, InfuraReScan
  <2>2. Set(y, x, x.page, 0, x.next, x.cnt, x.lim)
    BY <1>0, <2>1 DEF Instances, Set
  <2> QED BY <1>3, <2>2 DEF Rewound
<1>4. CASE w \in {"calendly", "notion"}
  <2>1. y = [x EXCEPT !.page = <<>>, !.idx = 0, !.next = NoPage]
    BY <1>4 DEF y, ReScan, CalendlyReset, NotionReset
  <2>2. Set(y, x, <<>>, 0, NoPage, x.cnt, x.lim)
    BY <1>0, <2>1 DEF Instances, Set
  <2> QED BY <1>4, <2>2 DEF Rewound
<1>5. CASE w \in {"notion_blocks", "slack_users", "slack_groups", "slack_messages", "slack_files"}
  <2>1. y = [x EXCEPT !.idx = 0, !.next = NoPage] \/ y = [x EXCEPT !.next = NoPage, !.idx = 0]
    BY <1>5 DEF y, ReScan, NotionBlocksReset, SlackReset
  <2>2. CASE y = [x EXCEPT !.idx = 0, !.next = NoPage]
    <3>1. Set(y, x, x.page, 0, NoPage, x.cnt, x.lim)
      BY <1>0, <2>2 DEF Instances, Set
    <3> QED BY <1>5, <3>1 DEF Rewound
  <2>3. CASE y = [x EXCEPT !.next = NoPage, !.idx = 0]
    <3>1. Set(y, x, x.page, 0, NoPage, x.cnt, x.lim)
      BY <1>0, <2>3 DEF Instances, Set
    <3> QED BY <1>5, <3>1 DEF Rewound
  <2> QED BY <2>1, <2>2, <2>3
<1>6. CASE w \in {"snowflake", "paddle"}
  <2>1. y = [x EXCEPT !.next = NoPage]
    BY <1>6 DEF y, ReScan, SnowflakeInit, PaddleReset
  <2>2. Set(y, x, x.page, x.idx, NoPage, x.cnt, x.lim)
    BY <1>0, <2>1 DEF Instances, Set
  <2> QED BY <1>6, <2>2 DEF Rewound
<1>7. CASE w \in {"hubspot", "orb"}
  <2>1. y = [x EXCEPT !.next = NoPage, !.cnt = 0]
    BY <1>7 DEF y, ReScan, HubspotReScan, OrbReScan
  <2>2. Set(y, x, x.page, x.idx, NoPage, 0, x.lim)
    BY <1>0, <2>1 DEF Instances, Set
  <2> QED BY <1>7, <2>2 DEF Rewound
<1>8. CASE w = "openapi"
  <2>1. y = [x EXCEPT !.next = NoPage, !.prev = NoPage, !.no = 0, !.cnt = 0]
    BY <1>8 DEF y, ReScan, OpenapiReset
  <2>2. Set(y, x, x.page, x.idx, NoPage, 0, x.lim) /\ y.no = 0 /\ y.prev = NoPage
    BY <1>0, <2>1 DEF Instances, Set
  <2> QED BY <1>8, <2>2 DEF Rewound
<1>9. CASE w \in {"cal", "cfd1", "shopify"}
  <2>1. y = x
    BY <1>9 DEF y, ReScan
  <2> QED BY <1>9, <2>1 DEF Rewound
<1> QED BY <1>1, <1>2, <1>3, <1>4, <1>5, <1>6, <1>7, <1>8, <1>9 DEF CallAssumption

\* end_scan leaves the cursor and the counts of most wrappers as they are.
LEMMA EndIs ==
  ASSUME PageAssumption, CallAssumption, w \in Wrappers, NEW x \in Instances
  PROVE  /\ EndScan(x) \in Instances /\ EndScan(x).tries \in {0, x.tries}
         /\ EndScan(x).next \in {x.next, NoPage}
         /\ w = "notion_blocks" => EndScan(x).page = <<>>
<1> DEFINE y == EndScan(x)
<1> SUFFICES /\ y \in Instances /\ y.tries \in {0, x.tries} /\ y.next \in {x.next, NoPage}
             /\ w = "notion_blocks" => y.page = <<>>
  OBVIOUS
<1> HIDE DEF y
<1>0. <<>> \in Seq(Rows)
  BY EmptyIsSequence
<1>1. /\ \/ y = x
         \/ y = Fresh
         \/ y = [x EXCEPT !.page = <<>>]
         \/ y = [x EXCEPT !.page = <<>>, !.idx = 0]
         \/ y = [x EXCEPT !.page = <<>>, !.idx = 0, !.next = NoPage]
      /\ w = "notion_blocks" => y = [x EXCEPT !.page = <<>>]
  BY DEF y, EndScan, CallAssumption, BigqueryEnd, S3vectorsEnd, MongodbEnd, DynamodbEnd, RedisEnd,
         TencentEnd, IcebergEnd, S3End, CalEnd, Cfd1End, InfuraEnd, CalendlyEnd, NotionEnd,
         SnowflakeEnd, HubspotEnd, OrbEnd, ShopifyEnd, PaddleEnd, ClerkEnd, LangfuseEnd, SlackEnd,
         OpenapiEnd
<1>2. w = "notion_blocks" => y.page = <<>>
  BY <1>0, <1>1 DEF Instances
<1>3. CASE y = x \/ y = Fresh
  BY <1>2, <1>3, FreshIs
<1>4. CASE y = [x EXCEPT !.page = <<>>]
  BY <1>0, <1>2, <1>4 DEF Instances
<1>5. CASE y = [x EXCEPT !.page = <<>>, !.idx = 0]
  BY <1>0, <1>2, <1>5 DEF Instances
<1>6. CASE y = [x EXCEPT !.page = <<>>, !.idx = 0, !.next = NoPage]
  BY <1>0, <1>2, <1>6 DEF Instances
<1> QED BY <1>1, <1>3, <1>4, <1>5, <1>6
LEMMA BeginTypes ==
  ASSUME PageAssumption, CallAssumption, w \in Wrappers, NEW a \in Asks, NEW x \in Instances
  PROVE  Begun(BeginScan(x, a), x)
<1> DEFINE y == BeginScan(x, a)
<1> SUFFICES Begun(y, x)
  OBVIOUS
<1>1. Opened(y, x, a)
  BY BeginIs
<1> HIDE DEF y
<1>2. CASE w \in {"auth0", "cognito"}
  <2>1. Set(y, Fresh, <<>>, 0, 0, 0, All)
    BY <1>1, <1>2 DEF Opened
  <2> QED BY <1>2, <2>1, FreshIs DEF Set, Begun, Kept
<1>3. CASE w \in {"hubspot", "orb", "tencent_cls", "cal", "cfd1", "shopify"}
  <2>1. y = x
    BY <1>1, <1>3 DEF Opened
  <2> QED BY <1>3, <2>1 DEF Begun, Kept
<1>4. CASE w \in {"mongodb", "iceberg", "s3_text", "s3_parquet", "clerk", "bigquery"}
  <2>1. y \in Instances /\ y.tries = x.tries /\ y.next = 0
    BY <1>1, <1>4 DEF Opened, Set
  <2> QED BY <1>4, <2>1 DEF Begun, Kept, NoPage
<1>5. CASE w \in {"dynamodb", "redis_list", "redis_stream"}
  <2>1. y \in Instances /\ y.tries = x.tries /\ y.next = 0
    BY <1>1, <1>5 DEF Opened, Set
  <2> QED BY <1>5, <2>1 DEF Begun, Kept, NoPage
<1>6. CASE w \in {"langfuse", "langfuse_pages"}
  <2>1. y \in Instances /\ y.tries = x.tries /\ y.cnt = 0
    BY <1>1, <1>6 DEF Opened, Set
  <2> QED BY <1>6, <2>1 DEF Begun, Kept
<1>7. CASE w \in {"s3vectors", "infura", "calendly", "notion", "notion_blocks", "slack_users",
                  "slack_groups", "slack_messages", "slack_files", "snowflake", "paddle", "openapi"}
  <2>1. y \in Instances /\ y.tries = x.tries
    BY <1>1, <1>7 DEF Opened, Set
  <2> QED BY <1>7, <2>1 DEF Begun, Kept
<1> QED BY <1>2, <1>3, <1>4, <1>5, <1>6, <1>7 DEF CallAssumption

LEMMA ReScanTypes ==
  ASSUME PageAssumption, CallAssumption, w \in Rescanned, NEW x \in Instances, Kept(x)
  PROVE  Begun(ReScan(x), x)
<1> DEFINE y == ReScan(x)
<1>1. Rewound(y, x)
  BY ReScanIs
<1> HIDE DEF y
<1>2. Begun(y, x)
  BY <1>1, FreshIs DEF Rewound, Set, Begun, Kept, NoPage, CallAssumption
<1> QED BY <1>2 DEF y

LEMMA TakenIs ==
  ASSUME NEW x \in Instances
  PROVE  /\ Taken(x) \in Instances /\ Taken(x).page = x.page /\ Taken(x).idx = x.idx + 1
         /\ Taken(x).next = x.next /\ Taken(x).prev = x.prev /\ Taken(x).no = x.no
         /\ Taken(x).lim = x.lim /\ Taken(x).on = x.on /\ Taken(x).tries = x.tries
         /\ Taken(x).cnt = IF w \in Counts THEN x.cnt + 1 ELSE x.cnt
<1>1. CASE w \in Counts
  <2>1. Taken(x) = [x EXCEPT !.idx = x.idx + 1, !.cnt = x.cnt + 1]
    BY <1>1 DEF Taken
  <2>2. x.idx + 1 \in Nat /\ x.cnt + 1 \in Nat
    BY DEF Instances
  <2> QED BY <1>1, <2>1, <2>2 DEF Instances
<1>2. CASE w \notin Counts
  <2>1. Taken(x) = [x EXCEPT !.idx = x.idx + 1, !.cnt = x.cnt]
    BY <1>2 DEF Taken
  <2>2. x.idx + 1 \in Nat /\ x.cnt \in Nat
    BY DEF Instances
  <2> QED BY <1>2, <2>1, <2>2 DEF Instances
<1> QED BY <1>1, <1>2

LEMMA TriesOnly ==
  ASSUME NEW x \in Instances, NEW n \in Nat, NEW y, y = [x EXCEPT !.tries = n]
  PROVE  /\ y \in Instances /\ y.page = x.page /\ y.idx = x.idx /\ y.next = x.next /\ y.tries = n
         /\ Same(y, x)
BY DEF Instances, Same

\* The row taken is one of the page.
LEMMA RowTaken ==
  ASSUME PageAssumption, NEW x \in Instances, ~Drained(x)
  PROVE  /\ x.idx < Len(x.page) /\ RowOf(x) \in Rows
         /\ RowOf(x) = x.page[IF w = "s3vectors" THEN Len(x.page) - x.idx ELSE x.idx + 1]
<1>1. x.page \in Seq(Rows) /\ Len(x.page) \in Nat /\ x.idx \in Nat
  BY FieldsAre
<1>2. x.idx < Len(x.page)
  BY <1>1 DEF Drained
<1> DEFINE i == IF w = "s3vectors" THEN Len(x.page) - x.idx ELSE x.idx + 1
<1>3. i \in 1..Len(x.page)
  BY <1>1, <1>2
<1>4. RowOf(x) = x.page[i]
  BY DEF RowOf
<1> HIDE DEF i
<1>5. x.page[i] \in Rows
  BY <1>1, <1>3
<1> QED BY <1>2, <1>4, <1>5 DEF i

LEMMA TypeInvInit ==
  ASSUME PageAssumption, Init
  PROVE  TypeInv
<1>1. Len(<<>>) = 0 /\ <<>> \in Seq(Rows) /\ MaxTries[w] \in Nat \cup {All}
  BY EmptyIsSequence DEF PageAssumption, Init
<1>2. MaxTries[w] # All => Fresh.tries <= MaxTries[w]
  <2>1. Fresh.tries = 0
    BY FreshIs
  <2> QED BY <1>1, <2>1
<1>3. TypeOK
  BY <1>1, <1>2, FreshIs DEF Init, TypeOK
<1> QED BY <1>1, <1>3 DEF Init, TypeInv

\* A request that is under way can be sent.
LEMMA RequestIsSendable ==
  ASSUME PageAssumption, CallAssumption, TypeInv, call \in {"begin", "ask"}
  PROVE  Sendable(scan) /\ open
<1>1. scan \in Instances /\ w \in Wrappers /\ open /\ Kept(scan)
  BY DEF TypeInv, TypeOK
<1>2. /\ scan.lim \in Nat \cup {All} /\ scan.cnt \in Nat
  BY <1>1, FieldsAre
<1>3. CASE call = "begin"
  BY <1>1, <1>2, <1>3 DEF TypeInv, Lazy, Sendable, ReadsOn, Kept
<1>4. CASE call = "ask"
  <2>1. ~Reached(scan) /\ ~NoMorePages(scan) /\ ended = FALSE
    BY <1>4 DEF TypeInv
  <2>2. w \in ReadsOn \ {"redis_stream", "clerk", "iceberg"} => scan.next # NoPage
    BY <2>1 DEF NoMorePages, ReadsOn
  <2>3. w = "iceberg" => scan.next # NoPage
    BY <1>1, <1>4, <2>1 DEF TypeInv
  <2>4. w = "s3vectors" /\ scan.on => scan.next # NoPage
    BY <2>1 DEF NoMorePages
  <2>5. w \in {"dynamodb", "langfuse", "langfuse_pages"} /\ scan.lim # All => scan.cnt <= scan.lim
    BY <1>2, <2>1 DEF Reached
  <2> QED BY <1>1, <2>2, <2>3, <2>4, <2>5 DEF Sendable, ReadsOn, Kept
<1> QED BY <1>1, <1>3, <1>4

LEMMA TypeInvStep ==
  ASSUME PageAssumption, CallAssumption, TypeInv, [Next]_vars
  PROVE  TypeInv'
<1>0. /\ TypeOK /\ w \in Wrappers /\ scan \in Instances /\ asked \in Asks
      /\ MaxTries[w] \in Nat \cup {All} /\ All \notin Int /\ NoPage = -1
      /\ Asked[w] \subseteq Asks /\ <<>> \in Seq(Rows)
  BY EmptyIsSequence DEF TypeInv, TypeOK, PageAssumption, CallAssumption, NoPage
<1>1. CASE Begin
  <2>1. asked' \in Asks /\ scan' = BeginScan(scan, asked')
    BY <1>0, <1>1 DEF Begin
  <2>2. Begun(scan', scan)
    BY <1>0, <2>1, BeginTypes
  <2>3. w' = w /\ open' = TRUE /\ given' = <<>> /\ ended' = FALSE
        /\ call' = IF w \in Lazy THEN "none" ELSE "begin"
    BY <1>1 DEF Begin, BeginCall
  <2>4. TypeOK'
    <3>1. MaxTries[w] # All => scan'.tries <= MaxTries[w]
      BY <1>0, <2>2, FieldsAre DEF TypeOK, Begun
    <3>2. scan' \in Instances
      BY <2>2 DEF Begun
    <3> QED BY <1>0, <2>1, <2>2, <2>3, <3>1, <3>2 DEF TypeOK
  <2> QED BY <2>2, <2>3, <2>4 DEF TypeInv, Begun, Kept
<1>2. CASE Restart
  <2> DEFINE e == EndScan(scan)
  <2>1. asked' \in Asks /\ scan' = BeginScan(e, asked')
    BY <1>0, <1>2 DEF Restart
  <2>2. e \in Instances /\ e.tries \in {0, scan.tries}
    BY <1>0, EndIs
  <2> HIDE DEF e
  <2>3. Begun(scan', e)
    BY <1>0, <2>1, <2>2, BeginTypes
  <2>4. w' = w /\ open' = open /\ open = TRUE /\ given' = <<>> /\ ended' = FALSE
        /\ call' = IF w \in Lazy THEN "none" ELSE "begin"
    BY <1>0, <1>2 DEF Restart, BeginCall, TypeOK
  <2>5. TypeOK'
    <3>1. MaxTries[w] # All => scan'.tries <= MaxTries[w]
      BY <1>0, <2>2, <2>3, FieldsAre DEF TypeOK, Begun
    <3>2. scan' \in Instances
      BY <2>3 DEF Begun
    <3> QED BY <1>0, <2>1, <2>2, <2>3, <2>4, <3>1, <3>2 DEF TypeOK
  <2> QED BY <2>3, <2>4, <2>5 DEF TypeInv, Begun, Kept
<1>3. CASE Rescan
  <2>1. scan' = ReScan(scan) /\ w \in Rescanned /\ Kept(scan)
    BY <1>3 DEF Rescan, TypeInv
  <2>2. Begun(scan', scan)
    BY <1>0, <2>1, FieldsAre, ReScanTypes
  <2>3. w' = w /\ open' = open /\ open = TRUE /\ given' = <<>> /\ ended' = FALSE /\ asked' = asked
        /\ call' = IF w \in Lazy \cup {"infura"} THEN "none" ELSE "begin"
    BY <1>0, <1>3 DEF Rescan, TypeOK
  <2>4. TypeOK'
    <3>1. MaxTries[w] # All => scan'.tries <= MaxTries[w]
      BY <1>0, <2>2, FieldsAre DEF TypeOK, Begun
    <3>2. scan' \in Instances
      BY <2>2 DEF Begun
    <3> QED BY <1>0, <2>2, <2>3, <3>1, <3>2 DEF TypeOK
  <2> QED BY <2>2, <2>3, <2>4 DEF TypeInv, Begun, Kept
<1>4. CASE Give
  <2>1. ~Drained(scan) /\ ~ended /\ open /\ scan' = Taken(scan)
        /\ given' = (IF Skipped(scan) THEN given ELSE Append(given, RowOf(scan)))
        /\ call' \in {"iter", "none"} /\ w' = w /\ open' = open /\ asked' = asked /\ ended' = ended
    BY <1>4 DEF Give, Iterating
  <2>2. /\ scan' \in Instances /\ scan'.next = scan.next /\ scan'.tries = scan.tries
    BY <1>0, <2>1, TakenIs
  <2>3. RowOf(scan) \in Rows /\ given \in Seq(Rows)
    BY <1>0, <2>1, RowTaken DEF TypeOK
  <2>4. given' \in Seq(Rows)
    BY <2>1, <2>3
  <2>5. TypeOK'
    BY <1>0, <2>1, <2>2, <2>4 DEF TypeOK
  <2> QED BY <2>1, <2>2, <2>5 DEF TypeInv, Kept
<1>5. CASE Ask
  <2>1. /\ Drained(scan) /\ ~Reached(scan) /\ ~NoMorePages(scan) /\ ~ended /\ open
        /\ call = "iter" => w \notin EmptyEnds
        /\ call' = "ask" /\ w' = w /\ scan' = scan /\ open' = open /\ asked' = asked
        /\ given' = given /\ ended' = ended
    BY <1>5 DEF Ask, Iterating
  <2>2. TypeOK'
    BY <1>0, <2>1 DEF TypeOK
  <2>3. ended = FALSE
    BY <1>0, <2>1 DEF TypeOK
  <2>4. ~(w = "iceberg" /\ scan.next = NoPage)
    BY <2>1 DEF TypeInv, EmptyEnds
  <2>5. ~Reached(scan') /\ ~NoMorePages(scan')
    BY <2>1
  <2>6. (~Reached(scan) /\ ~NoMorePages(scan))'
    BY <2>1, <2>5 DEF Reached, NoMorePages, OpenapiStops, ConsumedEnough
  <2> QED BY <2>1, <2>2, <2>3, <2>4, <2>6 DEF TypeInv, Kept
<1>6. CASE Finish
  <2>1. /\ open /\ ended' = TRUE /\ call' = "none" /\ w' = w /\ scan' = scan /\ open' = open
        /\ asked' = asked /\ given' = given
    BY <1>6 DEF Finish, Iterating
  <2>2. TypeOK'
    BY <1>0, <2>1 DEF TypeOK
  <2> QED BY <2>1, <2>2 DEF TypeInv, Kept
<1>7. CASE Panic \/ Drop
  <2>1. /\ scan' = Fresh /\ call' = "none" /\ open' = FALSE /\ given' = <<>> /\ ended' = FALSE
        /\ w' = w /\ asked' = asked
    BY <1>7 DEF Panic, Drop
  <2>2. TypeOK'
    <3>1. MaxTries[w] # All => Fresh.tries <= MaxTries[w]
      <4>1. Fresh.tries = 0
        BY FreshIs
      <4> QED BY <1>0, <4>1
    <3> QED BY <1>0, <2>1, <3>1, FreshIs DEF TypeOK
  <2> QED BY <2>1, <2>2 DEF TypeInv
<1>8. CASE Request
  <2>1. PICK x \in Fetch(scan, asked) :
          /\ scan' = [x EXCEPT !.tries = 0]
          /\ call' = IF call = "ask" THEN "iter"
                     ELSE IF w \in Collecting /\ x.next # NoPage THEN "begin" ELSE "none"
    BY <1>8 DEF Request
  <2>2. call \in {"begin", "ask"} /\ w' = w /\ open' = open /\ asked' = asked /\ given' = given
        /\ ended' = ended
    BY <1>8 DEF Request
  <2>3. Sendable(scan) /\ open
    BY <2>2, RequestIsSendable
  <2>4. x \in Instances /\ Kept(x)
    BY <1>0, <2>3, FetchTypes
  <2>5. scan' \in Instances /\ scan'.page = x.page /\ scan'.idx = x.idx /\ scan'.next = x.next
        /\ scan'.tries = 0
    BY <2>1, <2>4 DEF Instances
  <2>6. TypeOK'
    BY <1>0, <2>1, <2>2, <2>5 DEF TypeOK
  <2>7. w = "iceberg" /\ scan'.next = NoPage => call' = "iter" /\ scan'.idx >= Len(scan'.page)
    <3> SUFFICES ASSUME w = "iceberg", scan'.next = NoPage
                 PROVE  call' = "iter" /\ scan'.idx >= Len(scan'.page)
      OBVIOUS
    <3>1. scan.next # NoPage /\ call = "ask"
      BY <2>2, <2>3 DEF Sendable, ReadsOn, TypeInv, Lazy
    <3>2. x.idx = 0 /\ x.page = <<>>
      BY <1>0, <2>5, <3>1, StreamFetches
    <3>3. call' = "iter"
      BY <2>1, <3>1
    <3> QED BY <2>5, <3>2, <3>3, EmptyIsSequence
  <2>8. call' = "begin" => w \notin Lazy /\ w \in Collecting
    BY <2>1, <2>2 DEF TypeInv
  <2> QED BY <2>1, <2>2, <2>3, <2>4, <2>5, <2>6, <2>7, <2>8 DEF TypeInv, Kept, Drained, Collecting
<1>9. CASE Throttle
  <2> DEFINE n == IF MaxTries[w] = All THEN scan.tries ELSE scan.tries + 1
  <2>1. /\ call \in {"begin", "ask"} /\ scan' = [scan EXCEPT !.tries = n]
        /\ w' = w /\ call' = call /\ open' = open /\ asked' = asked /\ given' = given /\ ended' = ended
        /\ MaxTries[w] # All => scan.tries < MaxTries[w]
    BY <1>9 DEF Throttle
  <2>2. n \in Nat /\ (MaxTries[w] # All => n <= MaxTries[w])
    BY <1>0, <2>1, FieldsAre
  <2> HIDE DEF n
  <2>3. scan' \in Instances /\ scan'.tries = n /\ scan'.page = scan.page /\ scan'.idx = scan.idx
        /\ scan'.next = scan.next /\ Same(scan', scan)
    BY <1>0, <2>1, <2>2, TriesOnly
  <2>4. TypeOK'
    BY <1>0, <2>1, <2>2, <2>3 DEF TypeOK
  <2>5. (~Reached(scan) /\ ~NoMorePages(scan))' = (~Reached(scan) /\ ~NoMorePages(scan))
    BY <2>1, <2>3 DEF Reached, NoMorePages, OpenapiStops, ConsumedEnough, Same
  <2> QED BY <2>1, <2>3, <2>4, <2>5 DEF TypeInv, Kept, Drained, Same
<1>10. CASE UNCHANGED vars
  <2>1. w' = w /\ scan' = scan /\ call' = call /\ open' = open /\ asked' = asked /\ given' = given
        /\ ended' = ended
    BY <1>10 DEF vars
  <2>2. (~Reached(scan) /\ ~NoMorePages(scan))' = (~Reached(scan) /\ ~NoMorePages(scan))
    BY <2>1 DEF Reached, NoMorePages, OpenapiStops, ConsumedEnough
  <2> QED BY <2>1, <2>2 DEF TypeInv, TypeOK, Kept, Drained
<1> QED BY <1>1, <1>2, <1>3, <1>4, <1>5, <1>6, <1>7, <1>8, <1>9, <1>10 DEF Next

\* The instance of a wrapper stays in its bounds through every sequence of calls,
\* answers and retries, for every table, question, page size and remote side.
THEOREM PagedTypes ==
  ASSUME PageAssumption, CallAssumption
  PROVE  Spec => []TypeOK
<1>1. Init => TypeInv
  BY TypeInvInit
<1>2. TypeInv /\ [Next]_vars => TypeInv'
  BY TypeInvStep
<1>3. TypeInv => TypeOK
  BY DEF TypeInv
<1> QED BY <1>1, <1>2, <1>3, PTL DEF Spec

-----------------------------------------------------------------------------
(* PagedScan implements RemoteScan.                                        *)

\* Nothing is asked for once the first row was returned.
Single == {"tencent_cls", "cal", "cfd1", "infura", "slack_users", "slack_groups",
           "slack_messages", "slack_files", "calendly", "notion", "notion_blocks"}

\* The first n rows of the source are all the query needs.
Enough(a, n) == n >= Len(Source(a)) \/ (Limit[a] # All /\ n >= Wanted(a))

\* The rows given before the page held, and the place behind that page.
Before(x, g) == Len(g) - x.idx
Place(x, g) == Before(x, g) + Len(x.page)

\* The places of the rows given: s3vectors takes those of a page from its end.
GivenPlaces(x, g) ==
  IF w = "s3vectors"
    THEN (1..Before(x, g)) \cup ((Place(x, g) - x.idx + 1)..Place(x, g))
    ELSE 1..Len(g)

\* g are the rows of the pages before and those consumed of the page x holds.
Held(x, g, a) ==
  /\ x.idx <= Len(x.page) /\ x.idx <= Len(g)
  /\ Place(x, g) <= Len(Source(a))
  /\ \A j \in 1..Len(x.page) : x.page[j] = Source(a)[Before(x, g) + j]
  /\ Range(g) = {Source(a)[i] : i \in GivenPlaces(x, g)}

\* The cursor points behind the page, or there is nothing more the query needs.
Onwards(x, n, a) ==
  /\ x.next # NoPage => x.next = n
  /\ x.next = NoPage => Enough(a, n)

\* What the cursor and the counts of an instance say of the place n behind its page.
Cursor(x, n, a) ==
  CASE w \in Single           -> x.next = NoPage /\ Enough(a, n) /\ n = Len(x.page)
    [] w = "s3vectors"        -> IF x.on THEN Onwards(x, n, a) ELSE n = 0
    [] w = "redis_list"       -> TRUE
    [] w = "redis_stream"     -> x.next = n
    [] w = "iceberg"          -> Onwards(x, n, a) /\ (x.next = NoPage => x.page = <<>>)
    [] w = "shopify"          -> Onwards(x, n, a) /\ (Len(x.page) < PageSize => Enough(a, n))
    [] w = "clerk"            -> /\ x.next \in Nat /\ x.next + Len(x.page) = n
                                 /\ Len(x.page) < PageSize => Enough(a, n)
    [] w = "langfuse_pages"   -> IF x.next = NoPage THEN Enough(a, n)
                                   ELSE x.no >= 2 /\ n = (x.no - 1) * PageSize
    [] w = "openapi"          -> IF x.next = NoPage THEN Enough(a, n)
                                   ELSE /\ x.next = n /\ x.next # x.prev
                                        /\ x.no >= 1 /\ n = x.no * OpenapiSize(x)
    [] OTHER                  -> Onwards(x, n, a)

\* n rows were given, and the limit is that of the query.
Counting(x, n, a) ==
  /\ w \in Counts => x.cnt = n
  /\ w \in {"dynamodb", "langfuse", "langfuse_pages", "openapi"} => x.lim = Wanted(a)
  /\ w = "s3vectors" => x.lim = Limit[a]

Counted(x, g, a) ==
  Counting(x, Len(g), a) /\ (w \in {"hubspot", "orb"} => x.lim = Wanted(a))

\* The rows collected so far.
Collects(x, a) ==
  /\ x.idx = 0 /\ Len(x.page) = From(x) /\ Len(x.page) <= Len(Source(a))
  /\ \A j \in 1..Len(x.page) : x.page[j] = Source(a)[j]

\* An instance about to send the first request of a scan.
Starting(x, a) ==
  CASE w \in {"bigquery", "mongodb"} -> x.next = 0
    [] w = "infura"           -> x.page = <<>> /\ x.idx = 0 /\ x.next = NoPage
    [] w \in Collecting       -> Collects(x, a)
    [] w = "clerk"            -> x.page = <<>> /\ x.next = 0
    [] w \in {"tencent_cls", "cal", "cfd1"} -> TRUE
    [] w = "langfuse_pages"   -> Counting(x, 0, a) /\ x.next = NoPage /\ x.no = 0
    [] w = "openapi"          -> /\ Counting(x, 0, a) /\ x.next = NoPage
                                 /\ x.prev = NoPage /\ x.no = 0
    [] OTHER                  -> Counting(x, 0, a) /\ x.next = NoPage

\* Between two requests.
Holds(x, g, a) ==
  Held(x, g, a) /\ Counted(x, g, a) /\ Cursor(x, Place(x, g), a)

\* In the call c of a scan begun with a, g given and e whether it has ended.
Underway(x, c, a, g, e) ==
  /\ a \in Asked[w]
  /\ c = "begin" => g = <<>> /\ e = FALSE /\ Starting(x, a)
  /\ c # "begin" => Holds(x, g, a)
  /\ c = "ask" => Drained(x)
  /\ c = "iter" => /\ e = FALSE /\ x.idx = 0
                   /\ w \in EmptyEnds /\ x.page = <<>> => Enough(a, Len(g))

PagesInv ==
  /\ TypeInv
  /\ open => Underway(scan, call, asked, given, ended)
  /\ ~open => scan = Fresh

-----------------------------------------------------------------------------
(* The rows of the source.                                                 *)

LEMMA SourceHas ==
  ASSUME PageAssumption, NEW a \in Asks
  PROVE  /\ \A j \in 1..Len(Source(a)) : j \in 1..Len(Remote[a]) /\ Source(a)[j] = Remote[a][j]
         /\ \A j \in 1..Len(Remote[a]) : Wanted(a) = All \/ j <= Wanted(a) => j \in 1..Len(Source(a))
<1>1. /\ Remote[a] \in Seq(Rows) /\ Len(Remote[a]) \in Nat
      /\ Wanted(a) # All => Wanted(a) \in Nat
  BY SourcesAre
<1>2. CASE Source(a) = Remote[a]
  BY <1>1, <1>2
<1>3. CASE Source(a) # Remote[a]
  <2>1. Source(a) = Limited(a) /\ Wanted(a) # All
    BY <1>3 DEF Source, Limited
  <2>2. Reads(Limited(a), Remote[a], 0, Wanted(a))
    BY <2>1, LimitedIs
  <2>3. \A j \in 1..Len(Limited(a)) : Limited(a)[j] = Remote[a][0 + j] /\ 0 + j \in 1..Len(Remote[a])
    BY <2>2 DEF Reads
  <2>4. Len(Limited(a)) \in Nat
        /\ (Len(Limited(a)) >= Wanted(a) \/ Len(Limited(a)) >= Len(Remote[a]))
    BY <1>1, <2>1, <2>2 DEF Reads
  <2>5. \A j \in 1..Len(Limited(a)) : 0 + j = j
    BY <2>4
  <2>6. \A j \in 1..Len(Remote[a]) : Wanted(a) = All \/ j <= Wanted(a) => j \in 1..Len(Limited(a))
    BY <1>1, <2>1, <2>4
  <2> QED BY <2>1, <2>3, <2>5, <2>6
<1> QED BY <1>2, <1>3

LEMMA SourceDistinct ==
  ASSUME PageAssumption, NEW a \in Asks, Distinct(Remote[a]),
         NEW i \in 1..Len(Source(a)), NEW j \in 1..Len(Source(a)), Source(a)[i] = Source(a)[j]
  PROVE  i = j
<1>1. /\ i \in 1..Len(Remote[a]) /\ j \in 1..Len(Remote[a])
      /\ Remote[a][i] = Remote[a][j]
  BY SourceHas
<1>2. DOMAIN Remote[a] = 1..Len(Remote[a])
  BY SourcesAre
<1> QED BY <1>1, <1>2 DEF Distinct

\* When enough of the source was given, no needed row is missing.
LEMMA EnoughIsGiven ==
  ASSUME PageAssumption, NEW a \in Asks, NEW n \in Nat, n <= Len(Source(a)), Enough(a, n),
         NEW S, S = {Source(a)[i] : i \in 1..n}
  PROVE  Needed[a] \subseteq S
<1>1. DOMAIN Remote[a] = 1..Len(Remote[a]) /\ Len(Remote[a]) \in Nat
      /\ Wanted(a) \in Nat \cup {All} /\ (Limit[a] # All => Wanted(a) # All)
  BY SourcesAre
<1>2. ASSUME NEW j \in 1..Len(Remote[a]), Wanted(a) = All \/ j <= Wanted(a)
      PROVE  Remote[a][j] \in S
  <2>1. j \in 1..Len(Source(a)) /\ Source(a)[j] = Remote[a][j]
    BY <1>2, SourceHas
  <2>2. j \in 1..n
    <3>1. Len(Source(a)) \in Nat
      BY SourceIs
    <3> QED BY <1>1, <1>2, <2>1, <3>1 DEF Enough
  <2> QED BY <2>1, <2>2
<1>3. Needed[a] = {Remote[a][i] : i \in {j \in DOMAIN Remote[a] : Wanted(a) = All \/ j <= Wanted(a)}}
  BY DEF Needed
<1> QED BY <1>1, <1>2, <1>3

-----------------------------------------------------------------------------
(* The page held and the rows given.                                       *)

\* Between two pages the rows given are the first of the source.
LEMMA DrainedGave ==
  ASSUME PageAssumption, NEW a \in Asks, NEW x \in Instances, NEW g \in Seq(Rows), Held(x, g, a),
         Drained(x) \/ x.idx = 0
  PROVE  /\ Len(g) \in Nat /\ Len(g) <= Len(Source(a))
         /\ Range(g) = {Source(a)[i] : i \in 1..Len(g)}
         /\ Drained(x) => Place(x, g) = Len(g)
<1>1. /\ Len(x.page) \in Nat /\ x.idx \in Nat /\ Len(g) \in Nat /\ Len(Source(a)) \in Nat
  BY FieldsAre, SourceIs
<1>2. /\ x.idx <= Len(x.page) /\ x.idx <= Len(g) /\ Place(x, g) <= Len(Source(a))
      /\ Range(g) = {Source(a)[i] : i \in GivenPlaces(x, g)}
  BY DEF Held
<1>3. Place(x, g) = Len(g) - x.idx + Len(x.page) /\ Before(x, g) = Len(g) - x.idx
  BY DEF Place, Before
<1>4. Drained(x) => Place(x, g) = Len(g)
  BY <1>1, <1>2, <1>3 DEF Drained
<1>5. Len(g) <= Len(Source(a))
  BY <1>1, <1>2, <1>3
<1>6. GivenPlaces(x, g) = 1..Len(g)
  <2>1. CASE x.idx = 0
    <3>1. Before(x, g) = Len(g) /\ Place(x, g) \in Int /\ Place(x, g) - x.idx + 1 = Place(x, g) + 1
      BY <1>1, <1>3, <2>1
    <3>2. (Place(x, g) + 1)..Place(x, g) = {}
      BY <3>1
    <3> QED BY <3>1, <3>2 DEF GivenPlaces
  <2>2. CASE Drained(x)
    <3>1. x.idx = Len(x.page) /\ Place(x, g) = Len(g)
      BY <1>1, <1>2, <1>4, <2>2 DEF Drained
    <3>2. (1..(Len(g) - x.idx)) \cup ((Len(g) - x.idx + 1)..Len(g)) = 1..Len(g)
      BY <1>1, <1>2
    <3> QED BY <1>3, <3>1, <3>2 DEF GivenPlaces
  <2> QED BY <2>1, <2>2
<1> QED BY <1>1, <1>2, <1>4, <1>5, <1>6

\* y holds the rows of the source behind place n, none of them consumed.
Continues(y, n, a) ==
  /\ y.idx = 0 /\ n + Len(y.page) <= Len(Source(a))
  /\ \A j \in 1..Len(y.page) : y.page[j] = Source(a)[n + j]

LEMMA PageHeld ==
  ASSUME PageAssumption, NEW a \in Asks, NEW y \in Instances, NEW g \in Seq(Rows),
         Range(g) = {Source(a)[i] : i \in 1..Len(g)}, Continues(y, Len(g), a)
  PROVE  Held(y, g, a) /\ Place(y, g) = Len(g) + Len(y.page)
<1>1. Len(y.page) \in Nat /\ y.idx = 0 /\ Len(g) \in Nat
  BY FieldsAre DEF Continues
<1>2. Before(y, g) = Len(g) /\ Place(y, g) = Len(g) + Len(y.page) /\ y.idx <= Len(y.page) /\ y.idx <= Len(g)
  BY <1>1 DEF Before, Place
<1>3. GivenPlaces(y, g) = 1..Len(g)
  <2>1. (Place(y, g) - y.idx + 1)..Place(y, g) = {}
    BY <1>1, <1>2
  <2> QED BY <1>2, <2>1 DEF GivenPlaces
<1>4. Place(y, g) <= Len(Source(a)) /\ \A j \in 1..Len(y.page) : y.page[j] = Source(a)[Before(y, g) + j]
  BY <1>2 DEF Continues
<1> QED BY <1>2, <1>3, <1>4 DEF Held

\* Nothing was given and nothing is held.
LEMMA NothingHeld ==
  ASSUME PageAssumption, NEW a \in Asks, NEW y \in Instances, y.page = <<>>, y.idx = 0
  PROVE  Held(y, <<>>, a) /\ Place(y, <<>>) = 0
<1>1. <<>> \in Seq(Rows) /\ Len(<<>>) = 0 /\ Len(y.page) = 0 /\ Range(<<>>) = {}
  BY EmptyIsSequence DEF Range
<1>2. Continues(y, 0, a)
  BY <1>1, SourceIs DEF Continues
<1>3. 1..0 = {}
  OBVIOUS
<1>4. Range(<<>>) = {Source(a)[i] : i \in 1..Len(<<>>)} /\ Continues(y, Len(<<>>), a)
  BY <1>1, <1>2, <1>3
<1>5. Held(y, <<>>, a) /\ Place(y, <<>>) = Len(<<>>) + Len(y.page)
  BY <1>1, <1>4, PageHeld
<1> QED BY <1>1, <1>5

LEMMA AppendIs ==
  ASSUME NEW g \in Seq(Rows), NEW r \in Rows
  PROVE  /\ Append(g, r) \in Seq(Rows) /\ Len(Append(g, r)) = Len(g) + 1
         /\ Range(Append(g, r)) = Range(g) \cup {r}
<1>1. /\ Append(g, r) \in Seq(Rows) /\ Len(g) \in Nat /\ Len(Append(g, r)) = Len(g) + 1
      /\ DOMAIN g = 1..Len(g) /\ DOMAIN Append(g, r) = 1..(Len(g) + 1)
      /\ \A i \in 1..Len(g) : Append(g, r)[i] = g[i]
      /\ Append(g, r)[Len(g) + 1] = r
  OBVIOUS
<1>2. \A i \in DOMAIN Append(g, r) : Append(g, r)[i] \in Range(g) \cup {r}
  BY <1>1 DEF Range
<1>3. \A i \in DOMAIN g : g[i] \in Range(Append(g, r))
  BY <1>1 DEF Range
<1>4. r \in Range(Append(g, r))
  BY <1>1 DEF Range
<1> QED BY <1>1, <1>2, <1>3, <1>4 DEF Range

LEMMA PlacesInPage ==
  ASSUME NEW m \in Nat, NEW l \in Nat, NEW i \in Nat, NEW n \in Nat, i < l, m + l <= n
  PROVE  /\ l - i \in 1..l /\ m + (l - i) = (m + l) - i /\ (m + l) - i \in 1..n
         /\ i + 1 \in 1..l /\ m + (i + 1) = (m + i) + 1 /\ (m + i) + 1 \in 1..n
         /\ (m + l) - i \notin (1..m) \cup (((m + l) - i + 1)..(m + l))
         /\ (1..m) \cup (((m + l) - i + 1)..(m + l)) \subseteq 1..n
<1>1. l - i \in 1..l /\ m + (l - i) = (m + l) - i /\ (m + l) - i \in 1..n
  OBVIOUS
<1>2. i + 1 \in 1..l /\ m + (i + 1) = (m + i) + 1 /\ (m + i) + 1 \in 1..n
  OBVIOUS
<1>3. (m + l) - i \notin 1..m /\ (m + l) - i \notin ((m + l) - i + 1)..(m + l)
  OBVIOUS
<1>4. 1..m \subseteq 1..n /\ ((m + l) - i + 1)..(m + l) \subseteq 1..n
  OBVIOUS
<1> QED BY <1>1, <1>2, <1>3, <1>4

\* A row taken from the page was not given before, and is the next of its page.
LEMMA GiveHeld ==
  ASSUME PageAssumption, NEW a \in Asks, NEW x \in Instances, NEW g \in Seq(Rows), Held(x, g, a),
         ~Drained(x), Distinct(Remote[a])
  PROVE  /\ RowOf(x) \in Rows \ Range(g)
         /\ Held(Taken(x), Append(g, RowOf(x)), a)
         /\ Place(Taken(x), Append(g, RowOf(x))) = Place(x, g)
         /\ Len(Append(g, RowOf(x))) = Len(g) + 1
<1> DEFINE r == RowOf(x)
           y == Taken(x)
           h == Append(g, r)
           k == IF w = "s3vectors" THEN Place(x, g) - x.idx ELSE Len(g) + 1
<1>1. /\ Len(x.page) \in Nat /\ x.idx \in Nat /\ Len(g) \in Nat /\ Len(Source(a)) \in Nat
  BY FieldsAre, SourceIs
<1>2. /\ x.idx <= Len(x.page) /\ x.idx <= Len(g) /\ Place(x, g) <= Len(Source(a))
      /\ \A j \in 1..Len(x.page) : x.page[j] = Source(a)[Before(x, g) + j]
      /\ Range(g) = {Source(a)[i] : i \in GivenPlaces(x, g)}
  BY DEF Held
<1>3. Place(x, g) = Len(g) - x.idx + Len(x.page) /\ Before(x, g) = Len(g) - x.idx
  BY DEF Place, Before
<1>4. /\ x.idx < Len(x.page) /\ r \in Rows
      /\ r = x.page[IF w = "s3vectors" THEN Len(x.page) - x.idx ELSE x.idx + 1]
  BY RowTaken
<1>5. y.page = x.page /\ y.idx = x.idx + 1
  BY TakenIs
<1>6. h \in Seq(Rows) /\ Len(h) = Len(g) + 1 /\ Range(h) = Range(g) \cup {r}
  BY <1>4, AppendIs
<1> HIDE DEF r, y, h, k
<1> DEFINE m == Before(x, g)
           l == Len(x.page)
           i == x.idx
           c == Len(g)
           t == Place(x, g)
           n == Len(Source(a))
<1>7. /\ m \in Nat /\ l \in Nat /\ i \in Nat /\ n \in Nat /\ i < l /\ m + l <= n
      /\ t = m + l /\ c = m + i
  <2>1. x.idx <= Len(g) /\ Place(x, g) <= Len(Source(a)) /\ x.idx < Len(x.page)
    BY <1>2, <1>4
  <2> QED BY <1>1, <1>3, <2>1
<1>8. k = IF w = "s3vectors" THEN t - i ELSE c + 1
  BY DEF k
<1>9. /\ Before(y, h) = m /\ Place(y, h) = t /\ y.idx <= Len(y.page) /\ y.idx <= Len(h)
      /\ y.idx = i + 1 /\ Len(h) = c + 1
  <2>1. y.idx = i + 1 /\ Len(h) = c + 1 /\ Len(y.page) = l
    BY <1>5, <1>6
  <2>2. Before(y, h) = Len(h) - y.idx /\ Place(y, h) = Len(h) - y.idx + Len(y.page)
    BY DEF Before, Place
  <2> HIDE DEF m, l, i, c, t, n
  <2>3. Before(y, h) = (c + 1) - (i + 1) /\ Place(y, h) = (c + 1) - (i + 1) + l
    BY <2>1, <2>2
  <2>4. (c + 1) - (i + 1) = m /\ (c + 1) - (i + 1) + l = t /\ i + 1 <= l /\ i + 1 <= c + 1
    BY <1>7
  <2> QED BY <2>1, <2>3, <2>4
<1>10. /\ k \in 1..n /\ r = Source(a)[k] /\ k \notin GivenPlaces(x, g)
       /\ GivenPlaces(x, g) \subseteq 1..n /\ GivenPlaces(y, h) = GivenPlaces(x, g) \cup {k}
  <2>1. GivenPlaces(x, g) = IF w = "s3vectors" THEN (1..m) \cup ((t - i + 1)..t) ELSE 1..c
    BY DEF GivenPlaces
  <2>2. GivenPlaces(y, h) = IF w = "s3vectors" THEN (1..m) \cup ((t - (i + 1) + 1)..t) ELSE 1..(c + 1)
    BY <1>9 DEF GivenPlaces
  <2>3. \A j \in 1..l : x.page[j] = Source(a)[m + j]
    BY <1>2
  <2>4. r = x.page[IF w = "s3vectors" THEN l - i ELSE i + 1]
    BY <1>4
  <2> HIDE DEF m, l, i, c, t, n
  <2>5. CASE w = "s3vectors"
    <3>1. k = (m + l) - i
      BY <1>7, <1>8, <2>5
    <3>2. r = Source(a)[k] /\ k \in 1..n
      BY <1>7, <2>3, <2>4, <2>5, <3>1, PlacesInPage
    <3>3. GivenPlaces(x, g) = (1..m) \cup ((k + 1)..(m + l))
      BY <1>7, <2>1, <2>5, <3>1
    <3>4. GivenPlaces(y, h) = (1..m) \cup (k..(m + l))
      <4>1. t - (i + 1) + 1 = k
        BY <1>7, <3>1
      <4> QED BY <1>7, <2>2, <2>5, <4>1
    <3>5. k \in Int /\ m < k /\ k <= m + l
      BY <1>7, <3>1
    <3>6. (1..m) \cup (k..(m + l)) = (1..m) \cup ((k + 1)..(m + l)) \cup {k}
      BY <1>7, <3>5
    <3>7. k \notin (1..m) \cup ((k + 1)..(m + l)) /\ (1..m) \cup ((k + 1)..(m + l)) \subseteq 1..n
      BY <1>7, <3>5
    <3> QED BY <3>2, <3>3, <3>4, <3>6, <3>7
  <2>6. CASE w # "s3vectors"
    <3>1. k = (m + i) + 1 /\ k = c + 1 /\ c \in Nat
      BY <1>7, <1>8, <2>6
    <3>2. r = Source(a)[k] /\ k \in 1..n
      BY <1>7, <2>3, <2>4, <2>6, <3>1, PlacesInPage
    <3>3. 1..(c + 1) = (1..c) \cup {c + 1} /\ c + 1 \notin 1..c
      BY <3>1
    <3>4. 1..c \subseteq 1..n
      BY <1>7, <3>1, <3>2
    <3> QED BY <2>1, <2>2, <2>6, <3>1, <3>2, <3>3, <3>4
  <2> QED BY <2>5, <2>6
<1>11. r \notin Range(g)
  <2> SUFFICES ASSUME NEW q \in GivenPlaces(x, g), Source(a)[q] = r PROVE FALSE
    BY <1>2
  <2>1. q \in 1..Len(Source(a)) /\ Source(a)[q] = Source(a)[k]
    BY <1>10
  <2> QED BY <1>10, <2>1, SourceDistinct
<1>12. Range(h) = {Source(a)[q] : q \in GivenPlaces(y, h)}
  BY <1>2, <1>6, <1>10
<1>13. Held(y, h, a)
  BY <1>2, <1>5, <1>9, <1>12 DEF Held
<1> QED BY <1>4, <1>6, <1>9, <1>11, <1>13 DEF r, y, h

-----------------------------------------------------------------------------
(* What a request brings goes on from the place it was sent for.           *)

\* A request for the rows behind place n.
Asking(x, n, a) ==
  /\ Counting(x, n, a)
  /\ CASE w = "infura"         -> x.page = <<>> /\ x.idx = 0 /\ x.next = NoPage /\ n = 0
       [] w = "slack_users"    -> x.next = NoPage /\ n = 0
       [] w \in Single \ {"infura", "slack_users"} -> n = 0
       [] w = "s3vectors"      -> n = IF x.on THEN x.next ELSE 0
       [] w = "redis_list"     -> TRUE
       [] w = "clerk"          -> n = x.next + Len(x.page)
       [] w = "langfuse_pages" -> n = (IF x.no > 1 THEN x.no - 1 ELSE 0) * PageSize
       [] w = "openapi"        -> n = From(x) /\ n = x.no * OpenapiSize(x)
       [] OTHER                -> n = From(x)

\* y holds its answer.
Brought(y, n, a) ==
  /\ Continues(y, n, a) /\ Counting(y, n, a)
  /\ w \in {"hubspot", "orb"} => y.lim = Wanted(a)
  /\ Cursor(y, n + Len(y.page), a)
  /\ w \in EmptyEnds /\ y.page = <<>> => Enough(a, n)

LEMMA AnswerContinues ==
  ASSUME PageAssumption, NEW a \in Asks, NEW n \in Nat, n <= Len(Source(a)),
         NEW y \in Instances, y.idx = 0, Answer(y, Source(a), n)
  PROVE  Continues(y, n, a) /\ Onwards(y, n + Len(y.page), a)
<1>1. Len(Source(a)) \in Nat /\ Len(y.page) \in Nat
  BY SourceIs, FieldsAre
<1>2. Continues(y, n, a)
  BY DEF Answer, Continues
<1>3. y.next # NoPage => y.next = n + Len(y.page)
  BY DEF Answer
<1>4. y.next = NoPage => Enough(a, n + Len(y.page))
  BY DEF Answer, Enough
<1> QED BY <1>2, <1>3, <1>4 DEF Onwards

LEMMA ReadsContinue ==
  ASSUME PageAssumption, NEW a \in Asks, NEW n \in Nat, n <= Len(Source(a)), NEW k \in Nat,
         NEW y \in Instances, y.idx = 0, Reads(y.page, Source(a), n, k)
  PROVE  /\ Continues(y, n, a)
         /\ Len(y.page) < k => Enough(a, n + Len(y.page))
         /\ Len(y.page) = 0 /\ k > 0 => Enough(a, n)
         /\ n + k < Len(Source(a)) => Len(y.page) = k
<1>1. Len(Source(a)) \in Nat /\ Len(y.page) \in Nat
  BY SourceIs, FieldsAre
<1>2. /\ n + k <= Len(Source(a)) => Len(y.page) = k
      /\ n <= Len(Source(a)) /\ n + k > Len(Source(a)) => Len(y.page) = Len(Source(a)) - n
      /\ \A j \in 1..Len(y.page) : y.page[j] = Source(a)[n + j]
  BY DEF Reads
<1>3. n + Len(y.page) <= Len(Source(a))
  <2>1. CASE n + k <= Len(Source(a))
    BY <1>2, <2>1
  <2>2. CASE ~(n + k <= Len(Source(a)))
    BY <1>1, <1>2, <2>2
  <2> QED BY <2>1, <2>2
<1>4. Len(y.page) < k => n + Len(y.page) >= Len(Source(a))
  BY <1>1, <1>2
<1>5. Len(y.page) = 0 /\ k > 0 => n >= Len(Source(a))
  BY <1>1, <1>2
<1> QED BY <1>1, <1>2, <1>3, <1>4, <1>5 DEF Continues, Enough

LEMMA EmptyPage == Len(<<>>) = 0
OBVIOUS

\* Which wrappers may answer with short pages.
LEMMA FullPages ==
  ASSUME Reliable
  PROVE  w \in Sparse => w \in {"s3vectors", "mongodb", "dynamodb", "notion", "calendly", "snowflake",
                                "hubspot", "orb", "paddle"}
BY DEF Reliable

LEMMA TokenBrings ==
  ASSUME PageAssumption, Reliable, NEW a \in Asks, NEW x \in Instances, NEW n \in Nat,
         n <= Len(Source(a)), Sendable(x), Asking(x, n, a), NEW y \in Fetch(x, a),
         w \in {"bigquery", "mongodb", "dynamodb", "auth0", "cognito"}
  PROVE  Brought(y, n, a)
<1>1. x.next # NoPage /\ From(x) = n
  BY DEF Sendable, ReadsOn, Asking, Single
<1>2. x.next = n
  BY <1>1 DEF From
<1>3. /\ y \in Instances /\ Same(y, x)
      /\ Got(y, Source(a), n, IF w = "dynamodb" THEN DynamodbLimit(x) ELSE PageSize)
  BY <1>1, <1>2, TokenFetch
<1>4. Continues(y, n, a) /\ Onwards(y, n + Len(y.page), a)
  BY <1>3, AnswerContinues DEF Got
<1>5. Counting(y, n, a)
  BY <1>3 DEF Same, Asking, Counting
<1>6. Cursor(y, n + Len(y.page), a)
  BY <1>4 DEF Cursor, Single
<1>7. w \in EmptyEnds /\ y.page = <<>> => Enough(a, n)
  <2> SUFFICES ASSUME w \in EmptyEnds, y.page = <<>> PROVE Enough(a, n)
    OBVIOUS
  <2>1. w \in {"bigquery", "auth0", "cognito"}
    BY DEF EmptyEnds
  <2>2. Reads(y.page, Source(a), n, PageSize) /\ y.idx = 0
    BY <1>3, <2>1, FullPages DEF Got
  <2>3. PageSize \in Nat /\ PageSize > 0
    BY FieldsAre
  <2> QED BY <1>3, <2>2, <2>3, ReadsContinue, EmptyPage
<1> QED BY <1>4, <1>5, <1>6, <1>7 DEF Brought

LEMMA CursorBrings ==
  ASSUME PageAssumption, Reliable, NEW a \in Asks, NEW x \in Instances, NEW n \in Nat,
         n <= Len(Source(a)), Asking(x, n, a), NEW y \in Fetch(x, a),
         w \in {"snowflake", "shopify", "paddle"}
  PROVE  Brought(y, n, a)
<1>1. From(x) = n
  BY DEF Asking, Single
<1>2. y \in Instances /\ Same(y, x) /\ Got(y, Source(a), n, PageSize)
  BY <1>1, CursorFetches
<1>3. Continues(y, n, a) /\ Onwards(y, n + Len(y.page), a)
  BY <1>2, AnswerContinues DEF Got
<1>4. Counting(y, n, a)
  BY DEF Counting, Counts
<1>5. w = "shopify" => (Len(y.page) < PageSize => Enough(a, n + Len(y.page)))
  <2> SUFFICES ASSUME w = "shopify" PROVE Len(y.page) < PageSize => Enough(a, n + Len(y.page))
    OBVIOUS
  <2>1. Reads(y.page, Source(a), n, PageSize) /\ y.idx = 0
    BY <1>2, FullPages DEF Got
  <2>2. PageSize \in Nat
    BY FieldsAre
  <2> QED BY <1>2, <2>1, <2>2, ReadsContinue
<1>6. Cursor(y, n + Len(y.page), a)
  BY <1>3, <1>5 DEF Cursor, Single
<1> QED BY <1>3, <1>4, <1>6 DEF Brought, EmptyEnds

LEMMA S3vectorsBrings ==
  ASSUME PageAssumption, NEW a \in Asks, NEW x \in Instances, NEW n \in Nat,
         n <= Len(Source(a)), Sendable(x), Asking(x, n, a), NEW y \in Fetch(x, a), w = "s3vectors"
  PROVE  Brought(y, n, a)
<1>1. n = (IF x.on THEN x.next ELSE 0) /\ (x.on => x.next # NoPage)
  BY DEF Sendable, Asking, Single
<1>2. /\ y \in Instances /\ y.cnt = x.cnt /\ y.lim = x.lim /\ y.on = TRUE
      /\ Got(y, Source(a), n, PageSize)
  BY <1>1, S3vectorsFetches
<1>3. Continues(y, n, a) /\ Onwards(y, n + Len(y.page), a)
  BY <1>2, AnswerContinues DEF Got
<1>4. Counting(y, n, a)
  BY <1>2 DEF Counting, Asking
<1>5. Cursor(y, n + Len(y.page), a)
  BY <1>2, <1>3 DEF Cursor, Single
<1> QED BY <1>3, <1>4, <1>5 DEF Brought, EmptyEnds

LEMMA HubspotOrbBring ==
  ASSUME PageAssumption, NEW a \in Asks, NEW x \in Instances, NEW n \in Nat,
         n <= Len(Source(a)), Asking(x, n, a), NEW y \in Fetch(x, a), w \in {"hubspot", "orb"}
  PROVE  Brought(y, n, a)
<1>1. From(x) = n
  BY DEF Asking, Single
<1>2. /\ y \in Instances /\ y.cnt = x.cnt /\ y.lim = Wanted(a)
      /\ Got(y, Source(a), n, PageSize)
  BY <1>1, HubspotOrbFetches
<1>3. Continues(y, n, a) /\ Onwards(y, n + Len(y.page), a)
  BY <1>2, AnswerContinues DEF Got
<1>4. Counting(y, n, a)
  BY <1>2 DEF Counting, Asking
<1>5. Cursor(y, n + Len(y.page), a)
  BY <1>3 DEF Cursor, Single
<1> QED BY <1>2, <1>3, <1>4, <1>5 DEF Brought, EmptyEnds

LEMMA RedisListBrings ==
  ASSUME PageAssumption, NEW a \in Asks, NEW x \in Instances, NEW n \in Nat,
         n <= Len(Source(a)), Asking(x, n, a), NEW y \in Fetch(x, a), w = "redis_list"
  PROVE  Brought(y, n, a)
<1>1. x.cnt = n
  BY DEF Asking, Counting, Counts
<1>2. /\ y \in Instances /\ y.idx = 0 /\ Same(y, x) /\ Reads(y.page, Source(a), n, PageSize)
  BY <1>1, RedisListFetches
<1>3. PageSize \in Nat /\ PageSize > 0
  BY FieldsAre
<1>4. Continues(y, n, a) /\ (y.page = <<>> => Enough(a, n))
  BY <1>2, <1>3, ReadsContinue, EmptyPage
<1>5. Counting(y, n, a)
  BY <1>2 DEF Same, Asking, Counting
<1>6. Cursor(y, n + Len(y.page), a)
  BY DEF Cursor, Single
<1> QED BY <1>4, <1>5, <1>6 DEF Brought

LEMMA PlacedBring ==
  ASSUME PageAssumption, NEW a \in Asks, NEW x \in Instances, NEW n \in Nat,
         n <= Len(Source(a)), Sendable(x), Asking(x, n, a), NEW y \in Fetch(x, a),
         w \in {"redis_stream", "clerk"}
  PROVE  Brought(y, n, a)
<1>1. x.next # NoPage /\ x.next \in Nat /\ Len(x.page) \in Nat
  BY FieldsAre DEF Sendable, ReadsOn
<1>2. n = x.next + (IF w = "clerk" THEN Len(x.page) ELSE 0)
  BY <1>1 DEF Asking, Single, From
<1>3. /\ y \in Instances /\ y.idx = 0 /\ Same(y, x)
      /\ Reads(y.page, Source(a), n, PageSize)
      /\ y.next = n + (IF w = "clerk" THEN 0 ELSE Len(y.page))
  BY <1>1, <1>2, PlacedFetches
<1>4. PageSize \in Nat /\ PageSize > 0
  BY FieldsAre
<1>5. /\ Continues(y, n, a) /\ (y.page = <<>> => Enough(a, n))
      /\ Len(y.page) < PageSize => Enough(a, n + Len(y.page))
  BY <1>3, <1>4, ReadsContinue, EmptyPage
<1>6. Counting(y, n, a)
  BY DEF Counting, Counts
<1>7. Cursor(y, n + Len(y.page), a)
  <2>1. CASE w = "clerk"
    <3>1. y.next = n
      BY <1>3, <2>1
    <3> QED BY <1>5, <2>1, <3>1 DEF Cursor, Single
  <2>2. CASE w = "redis_stream"
    BY <1>3, <2>2 DEF Cursor, Single
  <2> QED BY <2>1, <2>2
<1> QED BY <1>5, <1>6, <1>7 DEF Brought

LEMMA StreamBrings ==
  ASSUME PageAssumption, NEW a \in Asks, NEW x \in Instances, NEW n \in Nat,
         n <= Len(Source(a)), Sendable(x), Asking(x, n, a), NEW y \in Fetch(x, a),
         w \in {"iceberg", "s3_text", "s3_parquet"}
  PROVE  Brought(y, n, a)
<1>1. x.next # NoPage /\ n = From(x)
  BY DEF Sendable, ReadsOn, Asking, Single
<1>2. x.next = n
  BY <1>1 DEF From
<1>3. /\ y \in Instances /\ y.idx = 0 /\ Answer(y, Source(a), n)
      /\ y.next = NoPage => n = Len(Source(a)) /\ y.page = <<>>
      /\ w = "iceberg" /\ y.next # NoPage => Len(y.page) > 0
  BY <1>1, <1>2, StreamFetches
<1>4. Continues(y, n, a) /\ Onwards(y, n + Len(y.page), a)
  BY <1>3, AnswerContinues
<1>5. Counting(y, n, a)
  BY DEF Counting, Counts
<1>6. Cursor(y, n + Len(y.page), a)
  BY <1>3, <1>4 DEF Cursor, Single
<1>7. w = "iceberg" /\ y.page = <<>> => Enough(a, n)
  BY <1>3, EmptyPage, SourceIs DEF Enough
<1> QED BY <1>4, <1>5, <1>6, <1>7 DEF Brought, EmptyEnds

LEMMA NextMultiple ==
  ASSUME NEW i \in Nat, NEW k \in Nat
  PROVE  i * k + k = (i + 1) * k /\ i * k \in Nat
OBVIOUS

LEMMA OpenapiBrings ==
  ASSUME PageAssumption, Reliable, NEW a \in Asks, NEW x \in Instances, NEW n \in Nat,
         n <= Len(Source(a)), Asking(x, n, a), NEW y \in Fetch(x, a), w = "openapi"
  PROVE  Brought(y, n, a)
<1> DEFINE k == OpenapiSize(x)
<1>1. n = From(x) /\ n = x.no * k /\ x.lim = Wanted(a) /\ x.cnt = n
  BY DEF Asking, Single, Counting, Counts
<1>2. k \in Nat /\ k > 0
  <2>1. k \in Nat \ {0}
    BY LimitsAre
  <2> HIDE DEF k
  <2> QED BY <2>1
<1>3. /\ y \in Instances /\ y.cnt = x.cnt /\ y.lim = x.lim /\ y.prev = x.next /\ y.no = x.no + 1
      /\ Got(y, Source(a), n, k)
  <2>1. Got(y, Source(a), From(x), k)
    BY OpenapiFetches
  <2>2. Got(y, Source(a), n, k)
    BY <1>1, <2>1
  <2> QED BY <2>2, OpenapiFetches
<1>4. OpenapiSize(y) = k
  BY <1>3 DEF OpenapiSize
<1> HIDE DEF k
<1>5. /\ y.idx = 0 /\ Answer(y, Source(a), n) /\ Reads(y.page, Source(a), n, k)
      /\ y.next = IF n + k < Len(Source(a)) THEN n + k ELSE NoPage
  BY <1>3, FullPages DEF Got
<1>6. Continues(y, n, a) /\ Onwards(y, n + Len(y.page), a)
  BY <1>3, <1>5, AnswerContinues
<1>7. (y.page = <<>> => Enough(a, n)) /\ (n + k < Len(Source(a)) => Len(y.page) = k)
  BY <1>2, <1>3, <1>5, ReadsContinue, EmptyPage
<1>8. Counting(y, n, a)
  BY <1>1, <1>3 DEF Counting
<1>9. y.next # NoPage => /\ y.next = n + Len(y.page) /\ y.next # y.prev
                         /\ y.no >= 1 /\ n + Len(y.page) = y.no * k
  <2> SUFFICES ASSUME y.next # NoPage
               PROVE  /\ y.next = n + Len(y.page) /\ y.next # y.prev
                      /\ y.no >= 1 /\ n + Len(y.page) = y.no * k
    OBVIOUS
  <2>1. n + k < Len(Source(a)) /\ y.next = n + k /\ Len(y.page) = k
    BY <1>5, <1>7
  <2>2. x.no \in Nat /\ x.next \in Nat \cup {NoPage} /\ NoPage = -1
    BY FieldsAre
  <2>3. x.no * k + k = (x.no + 1) * k
    BY <1>2, <2>2, NextMultiple
  <2>4. n + k = y.no * k
    BY <1>1, <1>3, <2>3
  <2>5. y.no >= 1
    <3>1. x.no + 1 >= 1
      BY <2>2
    <3> QED BY <1>3, <3>1
  <2>6. y.next # y.prev
    <3>1. x.next = NoPage \/ x.next = n
      BY <1>1 DEF From
    <3>2. n + k # NoPage /\ n + k # n
      BY <1>2, <2>2
    <3> QED BY <1>3, <2>1, <3>1, <3>2
  <2> QED BY <2>1, <2>4, <2>5, <2>6
<1>10. Cursor(y, n + Len(y.page), a)
  BY <1>4, <1>6, <1>9 DEF Cursor, Single, Onwards
<1> QED BY <1>6, <1>7, <1>8, <1>10 DEF Brought

\* Everything there is, in one answer.
LEMMA AllBrought ==
  ASSUME PageAssumption, NEW a \in Asks, NEW y \in Instances, y.idx = 0, y.next = NoPage,
         w \in Single, Continues(y, 0, a), Enough(a, Len(y.page))
  PROVE  Brought(y, 0, a)
<1>1. Len(y.page) \in Nat /\ 0 + Len(y.page) = Len(y.page)
  BY FieldsAre
<1>2. Counting(y, 0, a) /\ w \notin {"hubspot", "orb"}
  BY DEF Counting, Counts, Single
<1>3. Cursor(y, 0 + Len(y.page), a)
  <2>1. Cursor(y, Len(y.page), a)
    BY DEF Cursor, Single
  <2> QED BY <1>1, <2>1
<1>4. y.page = <<>> => Enough(a, 0)
  BY EmptyPage
<1> QED BY <1>2, <1>3, <1>4 DEF Brought

LEMMA WholeBrings ==
  ASSUME PageAssumption, NEW a \in Asks, Answerable(w, a), NEW x \in Instances, NEW n \in Nat,
         Asking(x, n, a), NEW y \in Fetch(x, a), w \in {"tencent_cls", "cal", "cfd1", "slack_files"}
  PROVE  Brought(y, n, a)
<1>1. n = 0
  BY DEF Asking, Single
<1>2. /\ y \in Instances /\ y.idx = 0 /\ y.next = NoPage
      /\ w \in {"cal", "cfd1"} => y.page = Source(a)
      /\ w \in {"tencent_cls", "slack_files"} => Reads(y.page, Source(a), 0, PageSize)
  BY WholeFetches
<1>3. Len(Source(a)) \in Nat /\ PageSize \in Nat
  BY SourceIs, FieldsAre
<1>4. CASE w \in {"cal", "cfd1"}
  <2>1. y.page = Source(a)
    BY <1>2, <1>4
  <2>2. Continues(y, 0, a)
    BY <1>2, <1>3, <2>1 DEF Continues
  <2>3. Enough(a, Len(y.page))
    BY <1>3, <2>1 DEF Enough
  <2> QED BY <1>1, <1>2, <1>4, <2>2, <2>3, AllBrought DEF Single
<1>5. CASE w \in {"tencent_cls", "slack_files"}
  <2>1. Reads(y.page, Source(a), 0, PageSize) /\ 0 <= Len(Source(a)) /\ 0 \in Nat
    BY <1>2, <1>3, <1>5
  <2>2. Continues(y, 0, a)
    BY <1>2, <1>3, <2>1, ReadsContinue
  <2>3. Len(Source(a)) <= PageSize
    BY <1>5 DEF Answerable, Source, Limiting
  <2>4. Len(y.page) = Len(Source(a))
    BY <1>3, <2>1, <2>3 DEF Reads
  <2>5. Enough(a, Len(y.page))
    BY <1>3, <2>4 DEF Enough
  <2> QED BY <1>1, <1>2, <1>5, <2>2, <2>5, AllBrought DEF Single
<1> QED BY <1>4, <1>5

LEMMA InfuraBrings ==
  ASSUME PageAssumption, NEW a \in Asks, NEW x \in Instances, NEW n \in Nat,
         Asking(x, n, a), NEW y \in Fetch(x, a), w = "infura"
  PROVE  Brought(y, n, a)
<1>1. n = 0 /\ x.page = <<>> /\ x.idx = 0 /\ x.next = NoPage
  BY DEF Asking
<1>2. y \in Instances /\ y.idx = 0 /\ y.next = NoPage /\ y.page = Source(a)
  BY <1>1, InfuraFetches
<1>3. Len(Source(a)) \in Nat
  BY SourceIs
<1>4. Continues(y, 0, a) /\ Enough(a, Len(y.page))
  BY <1>2, <1>3 DEF Continues, Enough
<1> QED BY <1>1, <1>2, <1>4, AllBrought DEF Single

LEMMA SlackMessagesBrings ==
  ASSUME PageAssumption, Reliable, NEW a \in Asks, Answerable(w, a), NEW x \in Instances,
         NEW n \in Nat, Asking(x, n, a), NEW y \in Fetch(x, a), w = "slack_messages"
  PROVE  Brought(y, n, a)
<1>1. n = 0
  BY DEF Asking, Single
<1>2. /\ y \in Instances /\ y.idx = 0 /\ Reads(y.page, Source(a), 0, PageSize)
      /\ y.next = IF 0 + PageSize < Len(Source(a)) THEN 0 + PageSize ELSE NoPage
  BY SlackMessagesFetches, FullPages DEF Got
<1>3. Len(Source(a)) \in Nat /\ PageSize \in Nat
  BY SourceIs, FieldsAre
<1>4. Len(Source(a)) <= PageSize
  BY DEF Answerable, Source, Limiting
<1>5. y.next = NoPage
  BY <1>2, <1>3, <1>4
<1>6. Len(y.page) = Len(Source(a))
  BY <1>2, <1>3, <1>4 DEF Reads
<1>7. 0 \in Nat /\ 0 <= Len(Source(a))
  BY <1>3
<1>8. Continues(y, 0, a)
  BY <1>2, <1>3, <1>7, ReadsContinue
<1>9. Enough(a, Len(y.page))
  BY <1>3, <1>6 DEF Enough
<1> QED BY <1>1, <1>2, <1>5, <1>8, <1>9, AllBrought DEF Single

\* A page cut to LIMIT rows; OFFSET is 0.
LEMMA SlicedBrings ==
  ASSUME PageAssumption, NEW a \in Asks, Limit[a] = All \/ Offset[a] = 0, NEW f \in Seq(Rows),
         NEW k \in Nat, Reads(f, Source(a), 0, k), Enough(a, k) \/ k >= Len(Source(a)),
         NEW y \in Instances, y.idx = 0, y.page = SlackSliced(f, a)
  PROVE  Continues(y, 0, a) /\ Enough(a, Len(y.page))
<1>1. Len(Source(a)) \in Nat /\ Len(y.page) \in Nat /\ 0 \in Nat /\ Len(f) \in Nat
  BY SourceIs, FieldsAre
<1>2. /\ Len(f) <= Len(Source(a)) /\ (Len(f) = k \/ Len(f) = Len(Source(a)))
      /\ \A j \in 1..Len(f) : f[j] = Source(a)[0 + j]
  <2>1. /\ 0 + k <= Len(Source(a)) => Len(f) = k
        /\ 0 <= Len(Source(a)) /\ 0 + k > Len(Source(a)) => Len(f) = Len(Source(a)) - 0
    BY DEF Reads
  <2>2. Len(f) <= Len(Source(a)) /\ (Len(f) = k \/ Len(f) = Len(Source(a)))
    BY <1>1, <2>1
  <2>3. \A j \in 1..Len(f) : f[j] = Source(a)[0 + j]
    BY DEF Reads
  <2> QED BY <2>2, <2>3
<1>3. Enough(a, Len(f))
  <2>1. Len(f) >= Len(Source(a)) \/ (Limit[a] # All /\ Len(f) >= Wanted(a))
    BY <1>1, <1>2 DEF Enough
  <2> QED BY <2>1 DEF Enough
<1>4. CASE Limit[a] = All
  <2>1. y.page = f
    BY <1>4, SlicedIs
  <2> QED BY <1>1, <1>2, <1>3, <2>1 DEF Continues
<1>5. CASE Limit[a] # All
  <2>1. Reads(y.page, f, 0, Limit[a]) /\ Limit[a] \in Nat /\ Wanted(a) = Limit[a]
    <3>1. Limit[a] \in Nat /\ Wanted(a) = Limit[a] + Offset[a] /\ Offset[a] = 0
      BY <1>5, SourcesAre
    <3> QED BY <1>5, <3>1, SlicedIs
  <2>2. /\ Len(y.page) <= Len(f) /\ (Len(y.page) = Limit[a] \/ Len(y.page) = Len(f))
        /\ \A j \in 1..Len(y.page) : y.page[j] = f[0 + j] /\ 0 + j \in 1..Len(f)
    BY <1>1, <2>1 DEF Reads
  <2>3. 0 + Len(y.page) <= Len(Source(a))
    BY <1>1, <1>2, <2>2
  <2>4. \A j \in 1..Len(y.page) : y.page[j] = Source(a)[0 + j]
    <3> SUFFICES ASSUME NEW j \in 1..Len(y.page) PROVE y.page[j] = Source(a)[0 + j]
      OBVIOUS
    <3>1. 0 + j = j /\ j \in 1..Len(f) /\ y.page[j] = f[j]
      BY <1>1, <2>2
    <3> QED BY <1>2, <3>1
  <2>5. Enough(a, Len(y.page))
    <3>1. CASE Len(y.page) = Len(f)
      BY <1>3, <3>1
    <3>2. CASE Len(y.page) = Limit[a]
      BY <1>5, <2>1, <3>2 DEF Enough
    <3> QED BY <2>2, <3>1, <3>2
  <2> QED BY <2>3, <2>4, <2>5 DEF Continues
<1> QED BY <1>4, <1>5

LEMMA SlackGroupsBrings ==
  ASSUME PageAssumption, NEW a \in Asks, Answerable(w, a), NEW x \in Instances,
         NEW n \in Nat, Asking(x, n, a), NEW y \in Fetch(x, a), w = "slack_groups"
  PROVE  Brought(y, n, a)
<1>1. n = 0
  BY DEF Asking, Single
<1>2. y \in Instances /\ y.idx = 0 /\ y.next = NoPage /\ y.page = SlackSliced(Source(a), a)
  BY SlackGroupsFetches
<1> DEFINE k == Len(Source(a))
<1>3. k \in Nat /\ Reads(Source(a), Source(a), 0, k)
  <2>1. k \in Nat
    BY SourceIs
  <2> QED BY <2>1, SourceIs DEF Reads
<1>4. Limit[a] = All \/ Offset[a] = 0
  BY DEF Answerable
<1>5. Enough(a, k)
  BY <1>3 DEF Enough
<1>6. Source(a) \in Seq(Rows)
  BY SourceIs
<1> HIDE DEF k
<1>7. Continues(y, 0, a) /\ Enough(a, Len(y.page))
  BY <1>2, <1>3, <1>4, <1>5, <1>6, SlicedBrings
<1> QED BY <1>1, <1>2, <1>7, AllBrought DEF Single

LEMMA SlackUsersBrings ==
  ASSUME PageAssumption, Reliable, NEW a \in Asks, Answerable(w, a), NEW x \in Instances,
         NEW n \in Nat, Asking(x, n, a), NEW y \in Fetch(x, a), w = "slack_users"
  PROVE  Brought(y, n, a)
<1> DEFINE k == UsersSize(a)
<1>1. n = 0 /\ x.next = NoPage /\ From(x) = 0
  BY DEF Asking, From
<1>2. /\ y \in Instances /\ y.idx = 0 /\ y.next = NoPage
      /\ k = IF Limit[a] # All /\ Limit[a] > 0 /\ Limit[a] < PageSize THEN Limit[a] ELSE PageSize
      /\ \E z : Got(z, Source(a), From(x), k) /\ y.page = SlackSliced(z.page, a)
  BY <1>1, SlackUsersFetches DEF UsersSize
<1> HIDE DEF k
<1>3. PICK z : Got(z, Source(a), 0, k) /\ y.page = SlackSliced(z.page, a)
  BY <1>1, <1>2
<1>4. Reads(z.page, Source(a), 0, k) /\ z.page \in Seq(Rows)
  BY <1>3, FullPages DEF Got, Answer
<1>5. /\ Limit[a] = All \/ Offset[a] = 0
      /\ Len(Source(a)) <= PageSize
  BY DEF Answerable, Source, Limiting
<1>6. /\ Len(Source(a)) \in Nat /\ PageSize \in Nat /\ Limit[a] \in Nat \cup {All} /\ All \notin Int
      /\ Limit[a] # All => Wanted(a) = Limit[a]
  <2>1. Limit[a] # All => Wanted(a) = Limit[a] + 0 /\ Limit[a] \in Nat
    BY <1>5, SourcesAre
  <2> QED BY <2>1, SourceIs, FieldsAre, SourcesAre
<1>7. k \in Nat /\ (Enough(a, k) \/ k >= Len(Source(a)))
  <2>1. CASE Limit[a] # All /\ Limit[a] > 0 /\ Limit[a] < PageSize
    BY <1>2, <1>6, <2>1 DEF Enough
  <2>2. CASE ~(Limit[a] # All /\ Limit[a] > 0 /\ Limit[a] < PageSize)
    BY <1>2, <1>5, <1>6, <2>2
  <2> QED BY <2>1, <2>2
<1>8. Continues(y, 0, a) /\ Enough(a, Len(y.page))
  BY <1>2, <1>3, <1>4, <1>5, <1>7, SlicedBrings
<1> QED BY <1>1, <1>2, <1>8, AllBrought DEF Single

LEMMA LangfuseBrings ==
  ASSUME PageAssumption, Reliable, NEW a \in Asks, NEW x \in Instances, NEW n \in Nat,
         n <= Len(Source(a)), Sendable(x), Asking(x, n, a), NEW y \in Fetch(x, a), w = "langfuse"
  PROVE  Brought(y, n, a)
<1> DEFINE k == LangfuseLimit(x)
<1>1. n = From(x) /\ x.cnt = n /\ x.lim = Wanted(a) /\ (x.lim # All => x.cnt <= x.lim)
  BY DEF Asking, Single, Counting, Counts, Sendable
<1>2. /\ y \in Instances /\ y.idx = 0 /\ Same(y, x) /\ k \in Nat
      /\ \E z : /\ Got(z, Source(a), n, k) /\ y.page = z.page
                /\ y.next = IF z.page = <<>> THEN NoPage ELSE z.next
  BY <1>1, LangfuseFetches
<1>3. x.lim # All => k = IF PageSize <= x.lim - x.cnt THEN PageSize ELSE x.lim - x.cnt
  BY LimitsAre
<1>4. x.lim = All => k = PageSize
  BY LimitsAre
<1> HIDE DEF k
<1>5. PICK z : /\ Got(z, Source(a), n, k) /\ y.page = z.page
               /\ y.next = IF z.page = <<>> THEN NoPage ELSE z.next
  BY <1>2
<1>6. /\ Answer(z, Source(a), n) /\ Reads(y.page, Source(a), n, k)
  BY <1>5, FullPages DEF Got
<1>7. /\ Continues(y, n, a) /\ (Len(y.page) = 0 /\ k > 0 => Enough(a, n))
  BY <1>2, <1>6, ReadsContinue
<1>8. k > 0 \/ Enough(a, n)
  <2>1. PageSize \in Nat \ {0} /\ x.lim \in Nat \cup {All}
    BY FieldsAre
  <2>2. CASE x.lim = All
    BY <1>4, <2>1, <2>2
  <2>3. CASE x.lim # All
    <3>1. k > 0 \/ n >= x.lim
      BY <1>1, <1>3, <2>1, <2>3
    <3>2. Limit[a] # All
      BY <1>1, <2>3, SourcesAre
    <3> QED BY <1>1, <3>1, <3>2 DEF Enough
  <2> QED BY <2>2, <2>3
<1>9. y.page = <<>> => Enough(a, n)
  BY <1>7, <1>8, EmptyPage
<1>10. Onwards(y, n + Len(y.page), a)
  <2>1. CASE y.page = <<>>
    <3>1. n + Len(y.page) = n /\ y.next = NoPage
      BY <1>5, <2>1, EmptyPage
    <3> QED BY <1>9, <2>1, <3>1 DEF Onwards
  <2>2. CASE y.page # <<>>
    <3>1. y.next = z.next
      BY <1>5, <2>2
    <3>2. /\ y.next # NoPage => y.next = n + Len(y.page)
          /\ y.next = NoPage => n + Len(y.page) >= Len(Source(a))
      BY <1>5, <1>6, <3>1 DEF Answer
    <3> QED BY <3>2 DEF Onwards, Enough
  <2> QED BY <2>1, <2>2
<1>11. Counting(y, n, a)
  BY <1>1, <1>2 DEF Counting, Same
<1>12. Cursor(y, n + Len(y.page), a)
  BY <1>10 DEF Cursor, Single
<1> QED BY <1>7, <1>9, <1>11, <1>12 DEF Brought

LEMMA MultiplesApart ==
  ASSUME NEW i \in Nat, NEW j \in Nat, NEW k \in Nat \ {0}, i * k <= j * k
  PROVE  i * k = j * k \/ k <= j * k - i * k
<1>1. CASE i >= j
  <2>1. PICK d \in Nat : i = j + d
    <3>1. i = j + (i - j) /\ i - j \in Nat
      BY <1>1
    <3> QED BY <3>1
  <2>2. i * k = j * k + d * k /\ j * k \in Nat /\ d * k \in Nat
    BY <2>1
  <2> QED BY <2>2
<1>2. CASE i < j
  <2>1. PICK d \in Nat : j = i + 1 + d
    <3>1. j = i + 1 + (j - i - 1) /\ j - i - 1 \in Nat
      BY <1>2
    <3> QED BY <3>1
  <2>2. j * k = i * k + k + d * k /\ i * k \in Nat /\ d * k \in Nat
    BY <2>1
  <2> QED BY <2>2
<1> QED BY <1>1, <1>2

\* The pages langfuse counts are whole ones, or nothing more is wanted.
LEMMA NumberedSize ==
  ASSUME PageAssumption, NEW a \in Asks, Answerable(w, a), w = "langfuse_pages", NEW x \in Instances,
         NEW i \in Nat, x.cnt = i * PageSize, x.lim = Wanted(a), x.lim # All => x.cnt <= x.lim
  PROVE  LangfuseLimit(x) = PageSize \/ (LangfuseLimit(x) = 0 /\ Enough(a, x.cnt))
<1>1. PageSize \in Nat \ {0} /\ x.cnt \in Nat /\ x.lim \in Nat \cup {All}
  BY FieldsAre
<1>2. CASE x.lim = All
  BY <1>2, LimitsAre
<1>3. CASE x.lim # All
  <2>1. LangfuseLimit(x) = IF PageSize <= x.lim - x.cnt THEN PageSize ELSE x.lim - x.cnt
    BY <1>3, LimitsAre
  <2>2. Limit[a] # All /\ Wanted(a) \in Nat
    BY <1>1, <1>3, SourcesAre
  <2>3. PICK j \in 0..Wanted(a) : Wanted(a) = j * PageSize
    BY <2>2 DEF Answerable
  <2>4. j \in Nat /\ i * PageSize <= j * PageSize
    BY <1>3, <2>2, <2>3
  <2>5. i * PageSize = j * PageSize \/ PageSize <= j * PageSize - i * PageSize
    BY <1>1, <2>4, MultiplesApart
  <2>6. x.lim = x.cnt \/ PageSize <= x.lim - x.cnt
    BY <2>3, <2>5
  <2>7. CASE PageSize <= x.lim - x.cnt
    BY <2>1, <2>7
  <2>8. CASE x.lim = x.cnt
    <3>1. x.lim - x.cnt = 0
      BY <1>1, <2>8
    <3>2. Enough(a, x.cnt)
      BY <1>1, <2>2, <2>8 DEF Enough
    <3> QED BY <1>1, <2>1, <3>1, <3>2
  <2> QED BY <2>6, <2>7, <2>8
<1> QED BY <1>2, <1>3

LEMMA NumberedBrings ==
  ASSUME PageAssumption, NEW a \in Asks, Answerable(w, a), NEW x \in Instances, NEW n \in Nat,
         n <= Len(Source(a)), Sendable(x), Asking(x, n, a), NEW y \in Fetch(x, a), w = "langfuse_pages"
  PROVE  Brought(y, n, a)
<1> DEFINE i == IF x.no > 1 THEN x.no - 1 ELSE 0
           p == IF x.no > 1 THEN x.no ELSE 1
           k == LangfuseLimit(x)
<1>1. n = i * PageSize /\ x.cnt = n /\ x.lim = Wanted(a) /\ (x.lim # All => x.cnt <= x.lim)
  BY DEF Asking, Single, Counting, Counts, Sendable
<1>2. i \in Nat /\ p = i + 1 /\ p - 1 = i /\ PageSize \in Nat /\ PageSize > 0
  BY FieldsAre
<1>3. /\ y \in Instances /\ y.idx = 0 /\ y.cnt = x.cnt /\ y.lim = x.lim /\ y.no = p + 1
      /\ Reads(y.page, Source(a), (p - 1) * k, k)
      /\ y.next = IF k > 0 /\ p * k < Len(Source(a)) /\ y.page # <<>> THEN 0 ELSE NoPage
  BY <1>1, NumberedFetches
<1>4. i * PageSize + PageSize = (i + 1) * PageSize
  BY <1>2, NextMultiple
<1> HIDE DEF i, k
<1>5. k = PageSize \/ (k = 0 /\ Enough(a, n))
  BY <1>1, <1>2, NumberedSize DEF k
<1>6. Counting(y, n, a) /\ Len(y.page) \in Nat /\ Len(Source(a)) \in Nat
  BY <1>1, <1>3, FieldsAre, SourceIs DEF Counting
<1> HIDE DEF p
<1>7. CASE k = PageSize
  <2>1. (p - 1) * k = n /\ p * k = n + PageSize
    BY <1>1, <1>2, <1>4, <1>7
  <2>2. Reads(y.page, Source(a), n, PageSize)
    BY <1>3, <1>7, <2>1
  <2>3. /\ Continues(y, n, a) /\ (y.page = <<>> => Enough(a, n))
        /\ Len(y.page) < PageSize => Enough(a, n + Len(y.page))
        /\ n + PageSize < Len(Source(a)) => Len(y.page) = PageSize
    BY <1>2, <1>3, <2>2, ReadsContinue, EmptyPage
  <2>4. ASSUME y.next = NoPage PROVE Enough(a, n + Len(y.page))
    <3>1. CASE y.page = <<>>
      BY <1>2, <2>3, <3>1, EmptyPage
    <3>2. CASE y.page # <<>>
      <4>1. 0 # NoPage
        BY FieldsAre
      <4>2. n + PageSize >= Len(Source(a))
        BY <1>2, <1>3, <1>6, <1>7, <2>1, <2>4, <3>2, <4>1
      <4>3. Len(y.page) >= PageSize => n + Len(y.page) >= Len(Source(a))
        BY <1>2, <1>6, <4>2
      <4> QED BY <1>2, <1>6, <2>3, <4>3 DEF Enough
    <3> QED BY <3>1, <3>2
  <2>5. ASSUME y.next # NoPage PROVE y.no >= 2 /\ n + Len(y.page) = (y.no - 1) * PageSize
    <3>1. n + PageSize < Len(Source(a)) /\ Len(y.page) = PageSize
      BY <1>3, <2>1, <2>3, <2>5
    <3>2. y.no - 1 = i + 1 /\ y.no >= 2
      BY <1>2, <1>3
    <3> QED BY <1>1, <1>4, <3>1, <3>2
  <2>6. Cursor(y, n + Len(y.page), a)
    BY <2>4, <2>5 DEF Cursor, Single
  <2> QED BY <1>6, <2>3, <2>6 DEF Brought
<1>8. CASE k = 0 /\ Enough(a, n)
  <2>1. (p - 1) * k = 0 /\ 0 \in Nat
    BY <1>2, <1>8
  <2>2. Len(y.page) = 0
    BY <1>3, <1>6, <1>8, <2>1 DEF Reads
  <2>3. y.next = NoPage
    BY <1>3, <1>8
  <2>4. n + Len(y.page) = n
    BY <2>2
  <2>5. Continues(y, n, a)
    BY <1>3, <2>2, <2>4 DEF Continues
  <2>6. Cursor(y, n + Len(y.page), a)
    BY <1>8, <2>3, <2>4 DEF Cursor, Single
  <2> QED BY <1>6, <1>8, <2>5, <2>6 DEF Brought
<1> QED BY <1>5, <1>7, <1>8

LEMMA FetchBrings ==
  ASSUME PageAssumption, CallAssumption, Reliable, w \in Wrappers \ Collecting, NEW a \in Asks,
         Answerable(w, a), NEW x \in Instances, NEW n \in Nat, n <= Len(Source(a)), Sendable(x),
         Asking(x, n, a), NEW y \in Fetch(x, a)
  PROVE  Brought(y, n, a)
<1>1. CASE w \in {"bigquery", "mongodb", "dynamodb", "auth0", "cognito"}
  BY <1>1, TokenBrings
<1>2. CASE w \in {"snowflake", "shopify", "paddle"}
  BY <1>2, CursorBrings
<1>3. CASE w = "s3vectors"
  BY <1>3, S3vectorsBrings
<1>4. CASE w \in {"hubspot", "orb"}
  BY <1>4, HubspotOrbBring
<1>5. CASE w = "openapi"
  BY <1>5, OpenapiBrings
<1>6. CASE w = "redis_list"
  BY <1>6, RedisListBrings
<1>7. CASE w \in {"redis_stream", "clerk"}
  BY <1>7, PlacedBring
<1>8. CASE w \in {"iceberg", "s3_text", "s3_parquet"}
  BY <1>8, StreamBrings
<1>9. CASE w \in {"tencent_cls", "cal", "cfd1", "slack_files"}
  BY <1>9, WholeBrings
<1>10. CASE w = "infura"
  BY <1>10, InfuraBrings
<1>11. CASE w = "langfuse"
  BY <1>11, LangfuseBrings
<1>12. CASE w = "langfuse_pages"
  BY <1>12, NumberedBrings
<1>13. CASE w = "slack_users"
  BY <1>13, SlackUsersBrings
<1>14. CASE w = "slack_groups"
  BY <1>14, SlackGroupsBrings
<1>15. CASE w = "slack_messages"
  BY <1>15, SlackMessagesBrings
<1> QED BY <1>1, <1>2, <1>3, <1>4, <1>5, <1>6, <1>7, <1>8, <1>9, <1>10, <1>11, <1>12, <1>13,
           <1>14, <1>15 DEF CallAssumption, Collecting

LEMMA JoinedIs ==
  ASSUME NEW s \in Seq(Rows), NEW t \in Seq(Rows), NEW u, u = s \o t
  PROVE  /\ Len(u) = Len(s) + Len(t)
         /\ \A i \in 1..(Len(s) + Len(t)) : u[i] = IF i <= Len(s) THEN s[i] ELSE t[i - Len(s)]
BY ConcatProperties

\* Those that collect all pages have more of the rows, or all.
LEMMA CollectingBring ==
  ASSUME PageAssumption, NEW a \in Asks, NEW x \in Instances, w \in Collecting, Collects(x, a),
         NEW y \in Fetch(x, a)
  PROVE  /\ y.next # NoPage => Collects(y, a)
         /\ y.next = NoPage => Brought(y, 0, a)
<1> DEFINE n == Len(x.page)
<1>1. /\ x.idx = 0 /\ n = From(x) /\ n <= Len(Source(a)) /\ n \in Nat /\ x.page \in Seq(Rows)
      /\ \A j \in 1..n : x.page[j] = Source(a)[j]
  BY FieldsAre DEF Collects
<1>2. /\ y \in Instances /\ y.idx = 0
      /\ \E s : Answer(s, Source(a), n) /\ y.page = x.page \o s.page /\ y.next = s.next
  <2>1. /\ y \in Instances /\ y.idx = x.idx
        /\ \E s : Answer(s, Source(a), From(x)) /\ y.page = x.page \o s.page /\ y.next = s.next
    BY CollectingFetches
  <2> HIDE DEF n
  <2> QED BY <1>1, <2>1
<1>3. PICK s : Answer(s, Source(a), n) /\ y.page = x.page \o s.page /\ y.next = s.next
  BY <1>2
<1> DEFINE k == Len(s.page)
<1>4. /\ s.page \in Seq(Rows) /\ k \in Nat
      /\ n + k <= Len(Source(a))
      /\ \A j \in 1..k : s.page[j] = Source(a)[n + j]
      /\ s.next # NoPage => s.next = n + k
      /\ s.next = NoPage => n + k >= Len(Source(a))
  BY <1>1, <1>3 DEF Answer
<1>5. /\ Len(y.page) = n + k
      /\ \A j \in 1..(n + k) : y.page[j] = IF j <= n THEN x.page[j] ELSE s.page[j - n]
  <2>1. x.page \in Seq(Rows) /\ s.page \in Seq(Rows)
    BY <1>1, <1>4
  <2> DEFINE b == x.page
             e == s.page
             f == y.page
  <2>2. b \in Seq(Rows) /\ e \in Seq(Rows) /\ f = b \o e /\ n = Len(b) /\ k = Len(e)
    BY <1>3, <2>1
  <2> HIDE DEF b, e, f, n, k
  <2>3. /\ Len(f) = Len(b) + Len(e)
        /\ \A j \in 1..(Len(b) + Len(e)) : f[j] = IF j <= Len(b) THEN b[j] ELSE e[j - Len(b)]
    BY ONLY <2>2, JoinedIs
  <2>4. /\ Len(f) = n + k
        /\ \A j \in 1..(n + k) : f[j] = IF j <= n THEN b[j] ELSE e[j - n]
    BY <2>2, <2>3
  <2> QED BY <2>4 DEF b, e, f
<1> HIDE DEF n, k
<1>6. \A j \in 1..(n + k) : y.page[j] = Source(a)[j]
  <2> SUFFICES ASSUME NEW j \in 1..(n + k) PROVE y.page[j] = Source(a)[j]
    OBVIOUS
  <2>1. CASE j <= n
    <3>1. j \in 1..n
      BY <1>1, <1>4, <2>1
    <3> QED BY <1>1, <1>5, <2>1, <3>1
  <2>2. CASE ~(j <= n)
    <3>1. j - n \in 1..k /\ n + (j - n) = j
      BY <1>1, <1>4, <2>2
    <3>2. y.page[j] = s.page[j - n] /\ s.page[j - n] = Source(a)[n + (j - n)]
      BY <1>4, <1>5, <2>2, <3>1
    <3> QED BY <3>1, <3>2
  <2> QED BY <2>1, <2>2
<1>7. y.next # NoPage => Collects(y, a)
  BY <1>2, <1>3, <1>4, <1>5, <1>6 DEF Collects, From
<1>8. y.next = NoPage => Brought(y, 0, a)
  <2> SUFFICES ASSUME y.next = NoPage PROVE Brought(y, 0, a)
    OBVIOUS
  <2>1. 0 + Len(y.page) = n + k /\ \A j \in 1..(n + k) : 0 + j = j
    BY <1>1, <1>4, <1>5
  <2>2. Continues(y, 0, a)
    BY <1>2, <1>4, <1>5, <1>6, <2>1 DEF Continues
  <2>3. Enough(a, Len(y.page))
    BY <1>3, <1>4, <1>5 DEF Enough
  <2>4. w \in Single
    BY DEF Collecting, Single
  <2> QED BY <1>2, <2>2, <2>3, <2>4, AllBrought
<1> QED BY <1>7, <1>8

\* What a request brought is held.
LEMMA BroughtHolds ==
  ASSUME PageAssumption, NEW a \in Asks, NEW y \in Instances, NEW g \in Seq(Rows),
         Range(g) = {Source(a)[i] : i \in 1..Len(g)}, Brought(y, Len(g), a)
  PROVE  Holds(y, g, a) /\ y.idx = 0
<1>1. Continues(y, Len(g), a) /\ Counted(y, g, a) /\ Cursor(y, Len(g) + Len(y.page), a)
  BY DEF Brought, Counted
<1>2. Held(y, g, a) /\ Place(y, g) = Len(g) + Len(y.page)
  BY <1>1, PageHeld
<1> QED BY <1>1, <1>2 DEF Holds, Continues

\* The count of the requests that were turned away is not looked at.
LEMMA Unchanging ==
  ASSUME NEW x, NEW y, Same(y, x), y.page = x.page, y.idx = x.idx, y.next = x.next, NEW g, NEW a
  PROVE  /\ Holds(x, g, a) => Holds(y, g, a)
         /\ Starting(x, a) => Starting(y, a)
         /\ Drained(x) => Drained(y)
<1>1. /\ y.prev = x.prev /\ y.cnt = x.cnt /\ y.no = x.no /\ y.lim = x.lim /\ y.on = x.on
  BY DEF Same
<1>2. Before(y, g) = Before(x, g) /\ Place(y, g) = Place(x, g)
  BY DEF Before, Place
<1>3. Held(x, g, a) => Held(y, g, a)
  <2>1. GivenPlaces(y, g) = GivenPlaces(x, g)
    BY <1>2 DEF GivenPlaces
  <2> QED BY <1>2, <2>1 DEF Held
<1>4. \A n : Counting(x, n, a) => Counting(y, n, a)
  BY <1>1 DEF Counting
<1>5. Counted(x, g, a) => Counted(y, g, a)
  BY <1>1, <1>4 DEF Counted
<1>6. ASSUME NEW n, Cursor(x, n, a) PROVE Cursor(y, n, a)
  BY <1>1, <1>6 DEF Cursor, Onwards, OpenapiSize
<1>7. Starting(x, a) => Starting(y, a)
  BY <1>1, <1>4 DEF Starting, Collects, From
<1> QED BY <1>2, <1>3, <1>5, <1>6, <1>7 DEF Holds, Drained

-----------------------------------------------------------------------------
(* From one call to the next.                                              *)

\* iter_scan asks for the page behind the rows given.
LEMMA AskAsking ==
  ASSUME PageAssumption, NEW a \in Asks, NEW x \in Instances, NEW g \in Seq(Rows), Holds(x, g, a),
         Drained(x), ~NoMorePages(x), Sendable(x)
  PROVE  Asking(x, Len(g), a)
<1> DEFINE n == Len(g)
<1>1. n \in Nat /\ x.next \in Nat \cup {NoPage} /\ NoPage = -1
  BY FieldsAre
<1>2. Cursor(x, n, a) /\ Counting(x, n, a)
  <2>1. Place(x, g) = n
    BY DrainedGave DEF Holds
  <2> QED BY <2>1 DEF Holds, Counted
<1> SUFFICES Asking(x, n, a)
  OBVIOUS
<1> HIDE DEF n
<1>3. CASE w \in Single
  <2>1. x.next = NoPage
    BY <1>2, <1>3 DEF Cursor, Single
  <2>2. NoMorePages(x)
    BY <1>3, <2>1 DEF NoMorePages, Single
  <2> QED BY <2>2
<1>4. CASE w = "s3vectors"
  <2>1. n = IF x.on THEN x.next ELSE 0
    BY <1>2, <1>4 DEF Cursor, Single, Onwards, Sendable
  <2> QED BY <1>2, <1>4, <2>1 DEF Asking, Single
<1>5. CASE w = "redis_list"
  BY <1>2, <1>5 DEF Asking, Single
<1>6. CASE w = "clerk"
  BY <1>2, <1>6 DEF Asking, Single, Cursor
<1>7. CASE w = "langfuse_pages"
  <2>1. x.next # NoPage
    BY <1>7 DEF NoMorePages
  <2>2. x.no >= 2 /\ n = (x.no - 1) * PageSize /\ x.no \in Nat
    BY <1>2, <1>7, <2>1, FieldsAre DEF Cursor, Single
  <2>3. x.no > 1
    BY <2>2
  <2> QED BY <1>2, <1>7, <2>2, <2>3 DEF Asking, Single
<1>8. CASE w = "openapi"
  <2>1. x.next # NoPage
    BY <1>8 DEF NoMorePages, OpenapiStops
  <2> QED BY <1>2, <1>8, <2>1 DEF Cursor, Single, Asking, From
<1>9. CASE w \notin Single \cup {"s3vectors", "redis_list", "clerk", "langfuse_pages", "openapi"}
  <2>1. x.next = n
    <3>1. CASE w = "redis_stream"
      BY <1>2, <3>1 DEF Cursor, Single
    <3>2. CASE w = "iceberg"
      BY <1>2, <3>2 DEF Cursor, Single, Onwards, Sendable, ReadsOn
    <3>3. CASE w \notin {"redis_stream", "iceberg"}
      <4>1. x.next # NoPage
        BY <1>9, <3>3 DEF NoMorePages
      <4>2. Onwards(x, n, a)
        BY <1>2, <1>9, <3>3 DEF Cursor
      <4> QED BY <4>1, <4>2 DEF Onwards
    <3> QED BY <3>1, <3>2, <3>3
  <2>2. From(x) = n
    BY <1>1, <2>1 DEF From
  <2> QED BY <1>2, <1>9, <2>2 DEF Asking, Single
<1> QED BY <1>3, <1>4, <1>5, <1>6, <1>7, <1>8, <1>9

\* begin_scan asks for the first page.
LEMMA BeginAsking ==
  ASSUME PageAssumption, CallAssumption, w \in Wrappers \ (Lazy \cup Collecting), NEW a \in Asks,
         NEW x \in Instances, Starting(x, a)
  PROVE  Asking(x, 0, a)
<1>1. PageSize \in Nat /\ OpenapiSize(x) \in Nat /\ NoPage = -1
  BY FieldsAre, LimitsAre
<1>2. CASE w \in {"bigquery", "mongodb"}
  <2>1. From(x) = 0
    BY <1>1, <1>2 DEF Starting, From
  <2> QED BY <1>2, <2>1 DEF Asking, Counting, Counts, Single
<1>3. CASE w = "infura"
  BY <1>3 DEF Starting, Asking, Counting, Counts
<1>4. CASE w = "clerk"
  <2>1. x.next + Len(x.page) = 0
    BY <1>4, EmptyPage DEF Starting, Collecting
  <2> QED BY <1>4, <2>1 DEF Asking, Counting, Counts, Single
<1>5. CASE w \in {"tencent_cls", "cal", "cfd1"}
  BY <1>5 DEF Asking, Counting, Counts, Single
<1>6. CASE w = "langfuse_pages"
  <2>1. Counting(x, 0, a) /\ x.no = 0
    BY <1>6 DEF Starting, Collecting
  <2>2. 0 * PageSize = 0
    BY <1>1
  <2> QED BY <1>6, <2>1, <2>2 DEF Asking, Single
<1>7. CASE w = "openapi"
  <2>1. Counting(x, 0, a) /\ x.no = 0 /\ x.next = NoPage
    BY <1>7 DEF Starting, Collecting
  <2>2. 0 * OpenapiSize(x) = 0
    BY <1>1
  <2> QED BY <1>7, <2>1, <2>2 DEF Asking, Single, From
<1>8. CASE w \in {"snowflake", "hubspot", "orb", "shopify", "paddle", "langfuse", "slack_users",
                  "slack_groups", "slack_messages", "slack_files"}
  <2>1. Counting(x, 0, a) /\ x.next = NoPage
    BY <1>8 DEF Starting, Collecting
  <2> QED BY <1>8, <2>1 DEF Asking, Single, From
<1> QED BY <1>2, <1>3, <1>4, <1>5, <1>6, <1>7, <1>8 DEF CallAssumption, Lazy, Collecting

LEMMA HoldsNothing ==
  ASSUME PageAssumption, NEW a \in Asks, NEW y \in Instances, y.page = <<>>, y.idx = 0,
         Counted(y, <<>>, a), Cursor(y, 0, a)
  PROVE  Holds(y, <<>>, a)
<1>1. Held(y, <<>>, a) /\ Place(y, <<>>) = 0
  BY NothingHeld
<1> QED BY <1>1 DEF Holds

\* An instance another scan may be begun with, by the same wrapper.
Anew(x) ==
  /\ x \in Instances
  /\ w = "infura" => x.next = NoPage
  /\ w = "notion_blocks" => x.page = <<>>
  /\ w \in {"s3vectors", "hubspot", "orb", "shopify", "langfuse_pages"} => x = Fresh

LEMMA BeginStarts ==
  ASSUME PageAssumption, CallAssumption, w \in Wrappers, NEW a \in Asks, NEW x, Anew(x)
  PROVE  /\ w \notin Lazy => Starting(BeginScan(x, a), a)
         /\ w \in Lazy => Holds(BeginScan(x, a), <<>>, a)
<1> DEFINE y == BeginScan(x, a)
<1> SUFFICES (w \notin Lazy => Starting(y, a)) /\ (w \in Lazy => Holds(y, <<>>, a))
  OBVIOUS
<1>1. Opened(y, x, a) /\ x \in Instances
  BY BeginIs DEF Anew
<1> HIDE DEF y
<1>2. NoPage = -1 /\ Len(<<>>) = 0 /\ Len(Source(a)) \in Nat
  BY FreshIs, EmptyIsSequence, SourceIs DEF NoPage
<1>3. ASSUME w \in Lazy PROVE Holds(y, <<>>, a)
  <2>1. /\ y \in Instances /\ y.page = <<>> /\ y.idx = 0
        /\ w = "s3vectors" => y.cnt = 0 /\ y.lim = Limit[a] /\ y.on = FALSE
        /\ w # "s3vectors" => y.next = 0
        /\ w = "dynamodb" => y.cnt = 0 /\ y.lim = Wanted(a)
        /\ w = "redis_list" => y.cnt = 0
    BY <1>1, <1>3, FreshIs DEF Opened, Set, Lazy, Anew
  <2>2. Counted(y, <<>>, a)
    BY <1>2, <1>3, <2>1 DEF Counted, Counting, Counts, Lazy
  <2>3. Cursor(y, 0, a)
    BY <1>2, <1>3, <2>1 DEF Cursor, Single, Onwards, Lazy
  <2> QED BY <2>1, <2>2, <2>3, HoldsNothing
<1>4. ASSUME w \notin Lazy PROVE Starting(y, a)
  <2>1. CASE w \in {"bigquery", "mongodb", "infura", "clerk"}
    BY <1>1, <2>1 DEF Opened, Set, Starting, Collecting, Anew
  <2>2. CASE w \in Collecting
    <3>1. y.page = <<>> /\ y.idx = 0 /\ y.next = NoPage
      BY <1>1, <2>2 DEF Opened, Set, Collecting, Anew
    <3>2. Collects(y, a)
      BY <1>2, <3>1 DEF Collects, From
    <3> QED BY <2>2, <3>2 DEF Starting, Collecting
  <2>3. CASE w \in {"tencent_cls", "cal", "cfd1"}
    BY <2>3 DEF Starting, Collecting
  <2>4. CASE w \in {"langfuse_pages", "openapi", "langfuse"}
    BY <1>1, <2>4, FreshIs DEF Opened, Set, Starting, Collecting, Anew, Counting, Counts
  <2>5. CASE w \in {"hubspot", "orb", "shopify"}
    <3>1. y = Fresh
      BY <1>1, <2>5 DEF Opened, Anew
    <3> QED BY <2>5, <3>1, FreshIs DEF Starting, Collecting, Counting, Counts
  <2>6. CASE w \in {"snowflake", "paddle", "slack_users", "slack_groups", "slack_messages", "slack_files"}
    <3>1. y.next = NoPage
      BY <1>1, <2>6 DEF Opened, Set
    <3> QED BY <2>6, <3>1 DEF Starting, Collecting, Counting, Counts
  <2> QED BY <1>4, <2>1, <2>2, <2>3, <2>4, <2>5, <2>6 DEF CallAssumption, Lazy, Collecting
<1> QED BY <1>3, <1>4

\* infura has all its rows, so that it can begin with them again.
LEMMA InfuraRewinds ==
  ASSUME PageAssumption, NEW a \in Asks, NEW x \in Instances, NEW g \in Seq(Rows), Holds(x, g, a),
         w = "infura", NEW y \in Instances, y.page = x.page, y.idx = 0, y.next = x.next
  PROVE  Holds(y, <<>>, a)
<1> DEFINE n == Len(x.page)
           b == Before(x, g)
<1>1. n \in Nat /\ b \in Int /\ Len(Source(a)) \in Nat /\ <<>> \in Seq(Rows) /\ Len(<<>>) = 0
      /\ Range(<<>>) = {}
  BY FieldsAre, SourceIs, EmptyIsSequence DEF Before, Range
<1>2. /\ Place(x, g) = b + n /\ Place(x, g) = n /\ Place(x, g) <= Len(Source(a))
      /\ x.next = NoPage /\ Enough(a, Place(x, g))
      /\ \A j \in 1..n : x.page[j] = Source(a)[b + j]
  BY DEF Holds, Cursor, Single, Place, Held
<1> HIDE DEF n, b
<1>3. b = 0 /\ n <= Len(Source(a)) /\ Enough(a, n)
  BY <1>1, <1>2
<1>4. 0 + Len(y.page) = n /\ Len(y.page) = n /\ y.next = NoPage
  BY <1>1, <1>2 DEF n
<1>5. Continues(y, 0, a)
  BY <1>2, <1>3, <1>4 DEF Continues
<1>6. Brought(y, 0, a)
  BY <1>3, <1>4, <1>5, AllBrought DEF Single
<1>7. {Source(a)[i] : i \in 1..0} = {}
  OBVIOUS
<1> QED BY <1>1, <1>6, <1>7, BroughtHolds

LEMMA ReScanStarts ==
  ASSUME PageAssumption, CallAssumption, w \in Rescanned \ {"notion_blocks", "shopify"},
         NEW a \in Asks, NEW x \in Instances, NEW g \in Seq(Rows), Holds(x, g, a)
  PROVE  /\ w \notin Lazy \cup {"infura"} => Starting(ReScan(x), a)
         /\ w \in Lazy \cup {"infura"} => Holds(ReScan(x), <<>>, a)
<1> DEFINE y == ReScan(x)
<1> SUFFICES /\ w \notin Lazy \cup {"infura"} => Starting(y, a)
             /\ w \in Lazy \cup {"infura"} => Holds(y, <<>>, a)
  OBVIOUS
<1>1. Rewound(y, x)
  BY ReScanIs
<1> HIDE DEF y
<1>2. /\ NoPage = -1 /\ Len(<<>>) = 0 /\ Len(Source(a)) \in Nat
      /\ w \in {"dynamodb", "openapi"} => x.lim = Wanted(a)
  BY EmptyIsSequence, SourceIs DEF NoPage, Holds, Counted, Counting
<1>3. ASSUME w \in Lazy PROVE Holds(y, <<>>, a)
  <2>0. w \in {"dynamodb", "redis_list", "redis_stream", "iceberg"}
    BY <1>3 DEF CallAssumption, Lazy
  <2>1. /\ y \in Instances /\ y.page = <<>> /\ y.idx = 0 /\ y.next = 0
        /\ w \in {"dynamodb", "redis_list"} => y.cnt = 0
        /\ w = "dynamodb" => y.lim = Wanted(a)
    BY <1>1, <1>2, <2>0 DEF Rewound, Set
  <2>2. Counted(y, <<>>, a)
    BY <1>2, <2>0, <2>1 DEF Counted, Counting, Counts
  <2>3. Cursor(y, 0, a)
    BY <1>2, <2>0, <2>1 DEF Cursor, Single, Onwards
  <2> QED BY <2>1, <2>2, <2>3, HoldsNothing
<1>4. ASSUME w = "infura" PROVE Holds(y, <<>>, a)
  <2>1. y \in Instances /\ y.page = x.page /\ y.idx = 0 /\ y.next = x.next
    BY <1>1, <1>4 DEF Rewound, Set
  <2> QED BY <1>4, <2>1, InfuraRewinds
<1>5. ASSUME w \notin Lazy \cup {"infura"} PROVE Starting(y, a)
  <2>1. CASE w \in {"mongodb", "clerk"}
    BY <1>1, <2>1 DEF Rewound, Set, Starting, Collecting
  <2>2. CASE w \in Collecting
    <3>1. y.page = <<>> /\ y.idx = 0 /\ y.next = NoPage
      BY <1>1, <2>2 DEF Rewound, Set, Collecting
    <3>2. Collects(y, a)
      BY <1>2, <3>1 DEF Collects, From
    <3> QED BY <2>2, <3>2 DEF Starting, Collecting
  <2>3. CASE w \in {"cal", "cfd1"}
    BY <2>3 DEF Starting, Collecting
  <2>4. CASE w \in {"hubspot", "orb", "openapi"}
    BY <1>1, <1>2, <2>4 DEF Rewound, Set, Starting, Collecting, Counting, Counts
  <2>5. CASE w \in {"snowflake", "paddle", "slack_users", "slack_groups", "slack_messages", "slack_files"}
    <3>1. y.next = NoPage
      BY <1>1, <2>5 DEF Rewound, Set
    <3> QED BY <2>5, <3>1 DEF Starting, Collecting, Counting, Counts
  <2> QED BY <1>5, <2>1, <2>2, <2>3, <2>4, <2>5 DEF CallAssumption, Lazy, Collecting
<1> QED BY <1>3, <1>4, <1>5

LEMMA UnderwayNext ==
  ASSUME w' = w
  PROVE  Underway(scan, call, asked, given, ended)' <=> Underway(scan', call', asked', given', ended')
<1>1. Source(asked)' = Source(asked')
  BY DEF Source, Limiting
<1>2. ASSUME NEW n PROVE Enough(asked, n)' <=> Enough(asked', n')
  BY <1>1 DEF Enough
<1>3. Place(scan, given)' = Place(scan', given') /\ Before(scan, given)' = Before(scan', given')
  BY DEF Place, Before
<1>4. Held(scan, given, asked)' <=> Held(scan', given', asked')
  BY <1>1, <1>3 DEF Held, GivenPlaces
<1>5. Starting(scan, asked)' <=> Starting(scan', asked')
  BY <1>1 DEF Starting, Collects, From, Counting, Counts, Collecting
<1>6. Counted(scan, given, asked)' <=> Counted(scan', given', asked')
  BY DEF Counted, Counting, Counts
<1>7. Cursor(scan, Place(scan, given), asked)' <=> Cursor(scan', Place(scan', given'), asked')
  BY <1>1, <1>3 DEF Cursor, Single, Onwards, Enough
<1> QED BY <1>1, <1>4, <1>5, <1>6, <1>7 DEF Underway, Holds, Enough, EmptyEnds, Drained

LEMMA LargerProduct ==
  ASSUME NEW i \in Nat, NEW j \in Nat, i <= j, NEW k \in Nat
  PROVE  i * k <= j * k /\ i * k \in Nat /\ j * k \in Nat
<1>1. PICK d \in Nat : j = i + d
  <2>1. j = i + (j - i) /\ j - i \in Nat
    OBVIOUS
  <2> QED BY <2>1
<1>2. j * k = i * k + d * k /\ i * k \in Nat /\ d * k \in Nat
  BY <1>1
<1> QED BY <1>2

\* Each reason why openapi asks for no more pages is a good one.
LEMMA OpenapiStopsRight ==
  ASSUME PageAssumption, NEW a \in Asks, Answerable(w, a), w = "openapi", NEW x \in Instances,
         NEW n \in Nat, Counting(x, n, a), Cursor(x, n, a), OpenapiStops(x)
  PROVE  Enough(a, n)
<1> DEFINE k == OpenapiSize(x)
<1>1. /\ x.no \in Nat /\ x.lim \in Nat \cup {All} /\ All \notin Int
      /\ PageSize \in Nat /\ MaxPages \in Nat /\ Len(Source(a)) \in Nat /\ k \in Nat
      /\ k = IF x.lim = All \/ x.lim = 0 \/ PageSize <= x.lim THEN PageSize ELSE x.lim
  BY FieldsAre, LimitsAre, SourceIs
<1>2. x.lim = Wanted(a) /\ x.cnt = n /\ (Limit[a] = All <=> Wanted(a) = All)
  BY SourcesAre DEF Counting, Counts
<1>3. /\ x.next = NoPage => Enough(a, n)
      /\ x.next # NoPage => x.next # x.prev /\ x.no >= 1 /\ n = x.no * k
  BY DEF Cursor, Single
<1> HIDE DEF k
<1>4. ASSUME x.lim # All, n >= x.lim PROVE Enough(a, n)
  BY <1>2, <1>4 DEF Enough
<1>5. CASE x.no >= MaxPages /\ x.next # NoPage
  <2>1. n = x.no * k /\ x.no >= 1
    BY <1>3, <1>5
  <2>2. CASE k = PageSize
    <3> DEFINE m == MaxPages * PageSize
    <3>1. m <= n /\ m \in Nat
      BY <1>1, <1>5, <2>1, <2>2, LargerProduct
    <3>2. Len(Source(a)) <= m \/ (Limit[a] # All /\ Wanted(a) <= m)
      BY DEF Answerable, Source, Limiting
    <3> HIDE DEF m
    <3>3. CASE Len(Source(a)) <= m
      BY <1>1, <3>1, <3>3 DEF Enough
    <3>4. CASE Limit[a] # All /\ Wanted(a) <= m
      <4>1. x.lim # All /\ x.lim <= m /\ x.lim \in Nat
        BY <1>1, <1>2, <3>4
      <4> QED BY <1>4, <3>1, <4>1
    <3> QED BY <3>2, <3>3, <3>4
  <2>3. CASE k # PageSize
    <3>1. x.lim # All /\ k = x.lim
      BY <1>1, <2>3
    <3>2. 1 * k <= x.no * k
      <4>1. 1 \in Nat
        OBVIOUS
      <4> QED BY <1>1, <2>1, <4>1, LargerProduct
    <3>3. n >= x.lim
      BY <1>1, <2>1, <3>1, <3>2
    <3> QED BY <1>4, <3>1, <3>3
  <2> QED BY <2>2, <2>3
<1> QED BY <1>2, <1>3, <1>4, <1>5 DEF OpenapiStops

\* When iter_scan may return None, no needed row is missing.
LEMMA FinishHasAll ==
  ASSUME PageAssumption, NEW a \in Asks, Answerable(w, a), NEW x \in Instances, NEW g \in Seq(Rows),
         Holds(x, g, a),
         \/ Reached(x)
         \/ Drained(x) /\ NoMorePages(x)
         \/ Drained(x) /\ Enough(a, Len(g))
  PROVE  Needed[a] \subseteq Range(g)
<1> DEFINE n == Len(g)
<1>1. /\ n \in Nat /\ x.idx \in Nat /\ Len(x.page) \in Nat /\ Len(Source(a)) \in Nat
      /\ Wanted(a) \in Nat \cup {All} /\ Limit[a] \in Nat \cup {All} /\ All \notin Int
      /\ (Wanted(a) = All <=> Limit[a] = All)
  BY FieldsAre, SourceIs, SourcesAre
<1>2. Held(x, g, a) /\ Counting(x, n, a) /\ Cursor(x, Place(x, g), a)
  BY DEF Holds, Counted
<1>3. /\ x.idx <= Len(x.page) /\ x.idx <= n /\ Place(x, g) <= Len(Source(a))
      /\ Place(x, g) = n - x.idx + Len(x.page)
  BY <1>2 DEF Held, Place, Before
<1>4. ASSUME Drained(x), Enough(a, n) PROVE Needed[a] \subseteq Range(g)
  <2>1. n <= Len(Source(a)) /\ Range(g) = {Source(a)[i] : i \in 1..n}
    BY <1>2, <1>4, DrainedGave
  <2> QED BY <1>1, <1>4, <2>1, EnoughIsGiven
<1>5. CASE Reached(x)
  <2>1. x.cnt = n /\ x.lim # All /\ x.cnt >= x.lim
    BY <1>2, <1>5 DEF Reached, Counting, Counts
  <2>2. CASE w = "s3vectors"
    <3>1. x.lim = Limit[a] /\ Source(a) = Remote[a]
      BY <1>2, <2>2 DEF Counting, Source, Limiting
    <3>2. Len(Source(a)) <= Limit[a]
      BY <2>1, <2>2, <3>1 DEF Answerable
    <3>3. n >= Len(Source(a))
      BY <1>1, <2>1, <3>1, <3>2
    <3>4. x.idx >= Len(x.page)
      BY <1>1, <1>3, <3>3
    <3> QED BY <1>4, <3>3, <3>4 DEF Drained, Enough
  <2>3. CASE w # "s3vectors"
    <3>1. x.lim = Wanted(a)
      BY <1>2, <1>5, <2>3 DEF Counting, Reached
    <3>2. Enough(a, n)
      BY <1>1, <2>1, <3>1 DEF Enough
    <3>3. n <= Len(Source(a))
      BY <1>1, <1>3
    <3>4. Range(g) = {Source(a)[i] : i \in 1..n}
      BY <1>2, <2>3 DEF Held, GivenPlaces
    <3> QED BY <1>1, <3>2, <3>3, <3>4, EnoughIsGiven
  <2> QED BY <2>2, <2>3
<1>6. CASE Drained(x) /\ NoMorePages(x)
  <2>1. Cursor(x, n, a)
    <3>1. Place(x, g) = n
      BY <1>2, <1>6, DrainedGave
    <3> QED BY <1>2, <3>1
  <2> SUFFICES Enough(a, n)
    BY <1>4, <1>6
  <2> HIDE DEF n
  <2>2. CASE w = "s3vectors"
    BY <1>6, <2>1, <2>2 DEF Cursor, Single, Onwards, NoMorePages
  <2>3. CASE w \in {"hubspot", "orb"}
    <3>1. CASE x.next = NoPage
      BY <2>1, <2>3, <3>1 DEF Cursor, Single, Onwards
    <3>2. CASE x.next # NoPage
      <4>1. ConsumedEnough(x)
        BY <1>6, <2>3, <3>2 DEF NoMorePages
      <4>2. x.lim = Wanted(a) /\ x.cnt = n /\ Limit[a] # All
        BY <1>2, <2>3 DEF Holds, Counted, Counting, Counts, Answerable, n
      <4> QED BY <1>1, <4>1, <4>2 DEF ConsumedEnough, Enough
    <3> QED BY <3>1, <3>2
  <2>4. CASE w = "shopify"
    BY <1>6, <2>1, <2>4 DEF Cursor, Single, Onwards, NoMorePages
  <2>5. CASE w = "clerk"
    BY <1>6, <2>1, <2>5 DEF Cursor, Single, NoMorePages
  <2>6. CASE w = "openapi"
    BY <1>1, <1>2, <1>6, <2>1, <2>6, OpenapiStopsRight DEF NoMorePages
  <2>7. CASE w \notin {"s3vectors", "hubspot", "orb", "shopify", "clerk", "openapi"}
    <3>1. x.next = NoPage /\ w \notin {"redis_list", "redis_stream", "iceberg"}
      BY <1>6, <2>7 DEF NoMorePages
    <3>2. CASE w \in Single
      BY <2>1, <3>2 DEF Cursor, Single
    <3>3. CASE w \notin Single
      BY <2>1, <2>7, <3>1, <3>3 DEF Cursor, Onwards
    <3> QED BY <3>2, <3>3
  <2> QED BY <2>2, <2>3, <2>4, <2>5, <2>6, <2>7
<1> QED BY <1>4, <1>5, <1>6

-----------------------------------------------------------------------------
(* The steps.                                                              *)

\* What the invariant says of an open scan.
LEMMA OpenScan ==
  ASSUME PageAssumption, CallAssumption, Reliable, PagesInv, open
  PROVE  /\ w \in Wrappers /\ scan \in Instances /\ given \in Seq(Rows) /\ asked \in Asks
         /\ asked \in Asked[w] /\ Answerable(w, asked) /\ Distinct(Remote[asked])
         /\ call = "begin" => /\ given = <<>> /\ ended = FALSE /\ Starting(scan, asked)
         /\ call # "begin" => Holds(scan, given, asked)
BY DEF PagesInv, Underway, TypeInv, TypeOK, Reliable, CallAssumption

LEMMA BeginUnderway ==
  ASSUME PageAssumption, CallAssumption, Reliable, PagesInv, Begin \/ Restart
  PROVE  Underway(scan', call', asked', given', ended')
<1>1. w \in Wrappers /\ Asked[w] \subseteq Asks
  BY DEF PagesInv, TypeInv, TypeOK, CallAssumption
<1> SUFFICES ASSUME NEW x, Anew(x), scan' = BeginScan(x, asked')
             PROVE  Underway(scan', call', asked', given', ended')
  <2>1. CASE Begin
    <3>1. scan = Fresh /\ scan' = BeginScan(scan, asked')
      BY <2>1 DEF Begin, PagesInv
    <3>2. Anew(scan)
      BY <3>1, FreshIs DEF Anew
    <3> QED BY <3>1, <3>2
  <2>2. CASE Restart
    <3>1. open /\ call = "none" /\ w \in Restarted /\ scan' = BeginScan(EndScan(scan), asked')
      BY <2>2 DEF Restart
    <3>2. scan \in Instances /\ Holds(scan, given, asked)
      BY <3>1, OpenScan
    <3>3. w = "infura" => scan.next = NoPage
      BY <3>2 DEF Holds, Cursor, Single
    <3>4. w \notin {"s3vectors", "hubspot", "orb", "shopify", "langfuse_pages"}
      BY <3>1 DEF Reliable
    <3>5. Anew(EndScan(scan))
      BY <1>1, <3>2, <3>3, <3>4, EndIs DEF Anew
    <3> QED BY <3>1, <3>5
  <2> QED BY <2>1, <2>2
<1>2. /\ asked' \in Asked[w] /\ given' = <<>> /\ ended' = FALSE
      /\ call' = IF w \in Lazy THEN "none" ELSE "begin"
  BY DEF Begin, Restart, BeginCall
<1>3. /\ w \notin Lazy => Starting(scan', asked')
      /\ w \in Lazy => Holds(scan', <<>>, asked')
  BY <1>1, <1>2, BeginStarts
<1> QED BY <1>2, <1>3 DEF Underway

LEMMA RescanUnderway ==
  ASSUME PageAssumption, CallAssumption, Reliable, PagesInv, Rescan
  PROVE  Underway(scan', call', asked', given', ended')
<1>1. /\ open /\ call = "none" /\ w \in Rescanned /\ scan' = ReScan(scan)
      /\ given' = <<>> /\ ended' = FALSE /\ asked' = asked
      /\ call' = IF w \in Lazy \cup {"infura"} THEN "none" ELSE "begin"
  BY DEF Rescan
<1>2. /\ scan \in Instances /\ Holds(scan, given, asked) /\ asked \in Asks /\ asked \in Asked[w]
      /\ given \in Seq(Rows)
  BY <1>1, OpenScan
<1>3. w \notin {"notion_blocks", "shopify"}
  BY <1>1 DEF Reliable
<1>4. /\ w \notin Lazy \cup {"infura"} => Starting(scan', asked)
      /\ w \in Lazy \cup {"infura"} => Holds(scan', <<>>, asked)
  BY <1>1, <1>2, <1>3, ReScanStarts
<1> QED BY <1>1, <1>2, <1>4 DEF Underway

\* A row is given.
LEMMA GiveUnderway ==
  ASSUME PageAssumption, CallAssumption, Reliable, PagesInv, Give
  PROVE  /\ Underway(scan', call', asked', given', ended')
         /\ \E r \in Rows \ Range(given) : given' = Append(given, r)
<1> DEFINE r == RowOf(scan)
           h == Append(given, r)
<1>1. /\ open /\ call \in {"none", "iter"} /\ ~Drained(scan) /\ scan' = Taken(scan)
      /\ asked' = asked /\ ended' = ended /\ ~ended
      /\ given' = IF Skipped(scan) THEN given ELSE h
      /\ call' = IF Skipped(scan) THEN "iter" ELSE "none"
  BY DEF Give, Iterating
<1>2. /\ w \in Wrappers /\ scan \in Instances /\ Holds(scan, given, asked) /\ asked \in Asks
      /\ asked \in Asked[w] /\ given \in Seq(Rows) /\ Answerable(w, asked) /\ Distinct(Remote[asked])
  BY <1>1, OpenScan
<1>3. ~Skipped(scan)
  <2> SUFFICES ASSUME w = "dynamodb", scan.lim # All PROVE ~(scan.cnt < Offset[asked])
    BY DEF Skipped
  <2>1. scan.lim = Wanted(asked)
    BY <1>2 DEF Holds, Counted, Counting
  <2>2. Limit[asked] # All
    BY <1>2, <2>1, SourcesAre
  <2>3. Offset[asked] = 0
    BY <1>2, <2>2 DEF Answerable
  <2>4. scan.cnt \in Nat
    BY <1>2, FieldsAre
  <2> QED BY <2>3, <2>4
<1>4. given' = h /\ call' = "none"
  BY <1>1, <1>3
<1>5. /\ r \in Rows \ Range(given) /\ Held(Taken(scan), h, asked)
      /\ Place(Taken(scan), h) = Place(scan, given) /\ Len(h) = Len(given) + 1
  BY <1>1, <1>2, GiveHeld DEF Holds
<1>6. /\ Cursor(scan, Place(scan, given), asked) /\ Counted(scan, given, asked)
  BY <1>2 DEF Holds
<1> DEFINE y == Taken(scan)
<1>7. /\ y.page = scan.page /\ y.next = scan.next /\ y.prev = scan.prev /\ y.no = scan.no
      /\ y.lim = scan.lim /\ y.on = scan.on
      /\ y.cnt = IF w \in Counts THEN scan.cnt + 1 ELSE scan.cnt
  BY <1>2, TakenIs
<1> HIDE DEF y, h
<1>8. Cursor(y, Place(y, h), asked)
  <2>1. Place(y, h) = Place(scan, given)
    BY <1>5 DEF y
  <2> DEFINE p == Place(scan, given)
  <2>2. Cursor(scan, p, asked)
    BY <1>6
  <2> HIDE DEF p
  <2>3. Cursor(y, p, asked)
    BY <1>7, <2>2 DEF Cursor, Onwards, OpenapiSize
  <2> QED BY <2>1, <2>3 DEF p
<1>9. Counted(y, h, asked)
  BY <1>5, <1>6, <1>7 DEF Counted, Counting
<1>10. Holds(y, h, asked)
  BY <1>5, <1>8, <1>9 DEF Holds, y
<1>11. Underway(scan', call', asked', given', ended')
  BY <1>1, <1>2, <1>4, <1>10 DEF Underway, y
<1> QED BY <1>4, <1>5, <1>11 DEF h

LEMMA RequestUnderway ==
  ASSUME PageAssumption, CallAssumption, Reliable, PagesInv, Request
  PROVE  Underway(scan', call', asked', given', ended')
<1>1. PICK x \in Fetch(scan, asked) :
        /\ scan' = [x EXCEPT !.tries = 0]
        /\ call' = IF call = "ask" THEN "iter"
                   ELSE IF w \in Collecting /\ x.next # NoPage THEN "begin" ELSE "none"
  BY DEF Request
<1>2. /\ call \in {"begin", "ask"} /\ asked' = asked /\ given' = given /\ ended' = ended
  BY DEF Request
<1>3. Sendable(scan) /\ open
  BY <1>2, RequestIsSendable DEF PagesInv
<1>4. /\ w \in Wrappers /\ scan \in Instances /\ given \in Seq(Rows) /\ asked \in Asks
      /\ asked \in Asked[w] /\ Answerable(w, asked)
      /\ call = "begin" => given = <<>> /\ ended = FALSE /\ Starting(scan, asked)
      /\ call # "begin" => Holds(scan, given, asked)
  BY <1>3, OpenScan
<1>5. x \in Instances
  BY <1>3, <1>4, FetchTypes
<1>6. Same(scan', x) /\ scan'.page = x.page /\ scan'.idx = x.idx /\ scan'.next = x.next
  BY <1>1, <1>5 DEF Instances, Same
<1>7. /\ Holds(x, given, asked) => Holds(scan', given, asked)
      /\ Starting(x, asked) => Starting(scan', asked)
  BY <1>6, Unchanging
<1>8. Len(<<>>) = 0 /\ <<>> \in Seq(Rows) /\ Range(<<>>) = {} /\ 0 <= Len(Source(asked)) /\ 0 \in Nat
      /\ {Source(asked)[i] : i \in 1..0} = {}
  BY <1>4, EmptyIsSequence, SourceIs DEF Range
<1>9. CASE call = "begin" /\ w \in Collecting
  <2>1. Collects(scan, asked)
    BY <1>4, <1>9 DEF Starting, Collecting
  <2>2. CASE x.next # NoPage
    <3>1. Collects(x, asked)
      BY <1>4, <1>9, <2>1, <2>2, CollectingBring
    <3>2. Starting(x, asked)
      BY <1>9, <3>1 DEF Starting, Collecting
    <3>3. call' = "begin"
      BY <1>1, <1>9, <2>2
    <3> QED BY <1>2, <1>4, <1>7, <1>9, <3>2, <3>3 DEF Underway
  <2>3. CASE x.next = NoPage
    <3>1. Brought(x, 0, asked)
      BY <1>4, <1>9, <2>1, <2>3, CollectingBring
    <3>2. Holds(x, <<>>, asked)
      BY <1>4, <1>5, <1>8, <3>1, BroughtHolds
    <3>3. call' = "none" /\ given = <<>>
      BY <1>1, <1>4, <1>9, <2>3
    <3> QED BY <1>2, <1>4, <1>7, <3>2, <3>3 DEF Underway
  <2> QED BY <2>2, <2>3
<1>10. CASE call = "begin" /\ w \notin Collecting
  <2>1. w \notin Lazy
    BY <1>10 DEF PagesInv, TypeInv
  <2>2. Asking(scan, 0, asked)
    BY <1>4, <1>10, <2>1, BeginAsking
  <2>3. Brought(x, 0, asked)
    BY <1>3, <1>4, <1>8, <1>10, <2>2, FetchBrings
  <2>4. Holds(x, <<>>, asked)
    BY <1>4, <1>5, <1>8, <2>3, BroughtHolds
  <2>5. call' = "none" /\ given = <<>>
    BY <1>1, <1>4, <1>10
  <2> QED BY <1>2, <1>4, <1>7, <2>4, <2>5 DEF Underway
<1>11. CASE call = "ask"
  <2>1. Holds(scan, given, asked) /\ Drained(scan) /\ ~NoMorePages(scan) /\ ended = FALSE
    BY <1>3, <1>4, <1>11 DEF PagesInv, Underway, TypeInv
  <2>2. Asking(scan, Len(given), asked)
    BY <1>3, <1>4, <2>1, AskAsking
  <2>3. w \notin Collecting
    <3> SUFFICES ASSUME w \in Collecting PROVE FALSE
      OBVIOUS
    <3>1. scan.next = NoPage
      BY <2>1 DEF Holds, Cursor, Single, Collecting
    <3> QED BY <2>1, <3>1 DEF NoMorePages, Collecting
  <2>4. /\ Len(given) \in Nat /\ Len(given) <= Len(Source(asked))
        /\ Range(given) = {Source(asked)[i] : i \in 1..Len(given)}
    BY <1>4, <2>1, DrainedGave DEF Holds
  <2>5. Brought(x, Len(given), asked)
    BY <1>3, <1>4, <2>2, <2>3, <2>4, FetchBrings
  <2>6. Holds(x, given, asked) /\ x.idx = 0
    BY <1>4, <1>5, <2>4, <2>5, BroughtHolds
  <2>7. w \in EmptyEnds /\ x.page = <<>> => Enough(asked, Len(given))
    BY <2>5 DEF Brought
  <2>8. call' = "iter"
    BY <1>1, <1>11
  <2> QED BY <1>2, <1>4, <1>6, <1>7, <2>1, <2>6, <2>7, <2>8 DEF Underway
<1> QED BY <1>2, <1>9, <1>10, <1>11

LEMMA PagesInvStep ==
  ASSUME PageAssumption, CallAssumption, Reliable, PagesInv, [Next]_vars
  PROVE  PagesInv'
<1>1. TypeInv' /\ w' = w
  <2>1. w' = w
    BY DEF Next, vars, Begin, Restart, Rescan, Give, Ask, Finish, Panic, Request, Throttle, Drop
  <2> QED BY <2>1, TypeInvStep DEF PagesInv
<1> DEFINE Goes == Underway(scan', call', asked', given', ended')
<1> SUFFICES (open' => Goes) /\ (~open' => scan' = Fresh)
  BY <1>1, UnderwayNext DEF PagesInv
<1>2. CASE Begin \/ Restart
  <2>1. open' = TRUE
    BY <1>2 DEF Begin, Restart, PagesInv, TypeInv, TypeOK
  <2> QED BY <1>2, <2>1, BeginUnderway
<1>3. CASE Rescan
  <2>1. open' = open /\ open
    BY <1>3 DEF Rescan
  <2> QED BY <1>3, <2>1, RescanUnderway
<1>4. CASE Give
  <2>1. open' = open /\ open
    BY <1>4 DEF Give, Iterating
  <2> QED BY <1>4, <2>1, GiveUnderway
<1>5. CASE Ask \/ Finish
  <2>1. /\ open' = open /\ open /\ scan' = scan /\ asked' = asked /\ given' = given
        /\ call \in {"none", "iter"} /\ call' \in {"ask", "none"}
        /\ call' = "ask" => Drained(scan)
    BY <1>5 DEF Ask, Finish, Iterating
  <2>2. Underway(scan, call, asked, given, ended)
    BY <2>1 DEF PagesInv
  <2>3. Goes
    BY <2>1, <2>2 DEF Underway
  <2> QED BY <2>1, <2>3
<1>6. CASE Panic \/ Drop
  <2>1. open' = FALSE /\ scan' = Fresh
    BY <1>6 DEF Panic, Drop
  <2> QED BY <2>1
<1>7. CASE Request
  <2>1. open' = open /\ open
    BY <1>7, RequestIsSendable DEF Request, PagesInv
  <2> QED BY <1>7, <2>1, RequestUnderway
<1>8. CASE Throttle
  <2> DEFINE n == IF MaxTries[w] = All THEN scan.tries ELSE scan.tries + 1
  <2>1. /\ call \in {"begin", "ask"} /\ scan' = [scan EXCEPT !.tries = n]
        /\ call' = call /\ open' = open /\ asked' = asked /\ given' = given /\ ended' = ended
    BY <1>8 DEF Throttle
  <2>2. open /\ scan \in Instances
    BY <2>1, RequestIsSendable DEF PagesInv, TypeInv, TypeOK
  <2>3. n \in Nat
    BY <2>2, FieldsAre
  <2> HIDE DEF n
  <2>4. Same(scan', scan) /\ scan'.page = scan.page /\ scan'.idx = scan.idx /\ scan'.next = scan.next
    BY <2>1, <2>2, <2>3, TriesOnly
  <2>5. /\ Holds(scan, given, asked) => Holds(scan', given, asked)
        /\ Starting(scan, asked) => Starting(scan', asked)
        /\ Drained(scan) => Drained(scan')
    BY <2>4, Unchanging
  <2>6. Underway(scan, call, asked, given, ended)
    BY <2>2 DEF PagesInv
  <2>7. Goes
    BY <2>1, <2>5, <2>6 DEF Underway
  <2> QED BY <2>1, <2>2, <2>7
<1>9. CASE UNCHANGED vars
  <2>1. /\ scan' = scan /\ call' = call /\ open' = open /\ asked' = asked /\ given' = given
        /\ ended' = ended
    BY <1>9 DEF vars
  <2> QED BY <2>1 DEF PagesInv
<1> QED BY <1>2, <1>3, <1>4, <1>5, <1>6, <1>7, <1>8, <1>9 DEF Next

\* No wrapper a query can rely on repeats or loses a row: through every sequence of
\* begin_scan, iter_scan, re_scan, restart and end_scan, of pages, short or empty ones
\* where they are expected, of retries and errors, iter_scan returns each row at most
\* once and None only when no needed row is missing.
THEOREM PagedScanIsReliable ==
  ASSUME PageAssumption, CallAssumption, Reliable
  PROVE  Spec => Implements
<1>1. Init => PagesInv /\ R!Init
  <2> SUFFICES ASSUME Init PROVE PagesInv /\ R!Init
    OBVIOUS
  <2>1. TypeInv
    BY TypeInvInit
  <2> QED BY <2>1 DEF Init, PagesInv, R!Init
<1>2. PagesInv /\ [Next]_vars => PagesInv'
  BY PagesInvStep
<1>3. PagesInv /\ [Next]_vars => [R!Next]_(R!vars)
  <2> SUFFICES ASSUME PagesInv, [Next]_vars PROVE [R!Next]_(R!vars)
    OBVIOUS
  <2>1. CASE Begin \/ Restart
    <3>1. /\ asked' \in Asked[w] /\ open' = TRUE /\ given' = <<>> /\ ended' = FALSE
          /\ Asked[w] \subseteq Asks
      BY <2>1 DEF Begin, Restart, PagesInv, TypeInv, TypeOK, CallAssumption
    <3>2. R!Begin
      BY <3>1 DEF R!Begin
    <3> QED BY <3>2 DEF R!Next
  <2>2. CASE Rescan
    <3>1. R!Rewind
      BY <2>2 DEF Rescan, R!Rewind
    <3> QED BY <3>1 DEF R!Next
  <2>3. CASE Give
    <3>1. \E r \in Rows \ Range(given) : given' = Append(given, r)
      BY <2>3, GiveUnderway
    <3>2. open /\ ~ended /\ open' = open /\ asked' = asked /\ ended' = ended
      BY <2>3 DEF Give, Iterating
    <3>3. R!Give
      BY <3>1, <3>2 DEF R!Give, R!Range, Range
    <3> QED BY <3>3 DEF R!Next
  <2>4. CASE Finish
    <3>1. /\ open /\ call \in {"none", "iter"} /\ ended' = TRUE /\ open' = open /\ asked' = asked
          /\ given' = given
          /\ \/ Reached(scan)
             \/ Drained(scan) /\ NoMorePages(scan)
             \/ Drained(scan) /\ call = "iter" /\ w \in EmptyEnds
      BY <2>4 DEF Finish, Iterating
    <3>2. /\ scan \in Instances /\ given \in Seq(Rows) /\ asked \in Asks /\ Answerable(w, asked)
          /\ Holds(scan, given, asked)
      BY <3>1, OpenScan
    <3>3. ASSUME Drained(scan), call = "iter", w \in EmptyEnds PROVE Enough(asked, Len(given))
      <4>1. scan.idx = 0 /\ (scan.page = <<>> => Enough(asked, Len(given)))
        BY <3>1, <3>3 DEF PagesInv, Underway
      <4>2. scan.page \in Seq(Rows) /\ Len(scan.page) \in Nat
        BY <3>2, FieldsAre
      <4>3. Len(scan.page) = 0
        BY <3>3, <4>1, <4>2 DEF Drained
      <4>4. scan.page = <<>>
        BY <4>2, <4>3, EmptySeq
      <4> QED BY <4>1, <4>4
    <3>4. Needed[asked] \subseteq Range(given)
      BY <3>1, <3>2, <3>3, FinishHasAll
    <3>5. R!Finish
      BY <3>1, <3>4 DEF R!Finish, R!Range, Range
    <3> QED BY <3>5 DEF R!Next
  <2>5. CASE Panic \/ Drop
    <3>1. R!Close
      BY <2>5 DEF Panic, Drop, R!Close
    <3> QED BY <3>1 DEF R!Next
  <2>6. CASE Ask \/ Request \/ Throttle \/ UNCHANGED vars
    <3>1. open' = open /\ asked' = asked /\ given' = given /\ ended' = ended
      BY <2>6 DEF Ask, Request, Throttle, vars
    <3> QED BY <3>1 DEF R!vars
  <2> QED BY <2>1, <2>2, <2>3, <2>4, <2>5, <2>6 DEF Next
<1> QED BY <1>1, <1>2, <1>3, PTL DEF Spec, Implements, R!Spec

-----------------------------------------------------------------------------
(* BufferedScan, the wrappers that read the whole answer in begin_scan.    *)
(* Its wrappers, buffer and limits are constants and variables of its own; *)
(* the remote side and the calls are those of PagedScan.                   *)

CONSTANTS BufWrappers, BufRescanned, BufRestarted, Bound
VARIABLES agg, buffer

Buffered ==
  INSTANCE BufferedScan WITH
    Wrappers <- BufWrappers, Rescanned <- BufRescanned, Restarted <- BufRestarted,
    scan <- buffer

\* The assumption of BufferedScan.
BufferAssumed ==
  /\ BufWrappers \subseteq {"mssql", "prometheus", "duckdb", "stripe", "redis",
                            "airtable", "firebase", "logflare"}
  /\ BufRescanned \subseteq BufWrappers
  /\ BufRestarted \subseteq BufWrappers
  /\ Remote \in [Asks -> Seq(Rows)]
  /\ All \notin Nat
  /\ Bound \in [Asks -> Nat \cup {All}]
  /\ PageSize \in Nat \ {0}

\* The remote side returns no row twice, the wrappers that are rescanned rewind,
\* and duckdb, whose second begin_scan keeps the index, is not restarted.
BufferReliable ==
  /\ \A a \in Asks : Distinct(Remote[a])
  /\ BufRescanned \subseteq {"mssql", "prometheus", "stripe", "duckdb"}
  /\ "duckdb" \notin BufRestarted

\* What the buffer and its index may be.
BufferTypes == [buf : Seq(Rows), idx : Nat]

\* The wrappers that walk over the buffer have given its first idx rows; those
\* that drain it have given none of what is left in it.
BufferGiven ==
  IF w \in Buffered!Draining
    THEN /\ buffer.idx = 0 /\ Distinct(given)
         /\ Range(given) \cap Range(buffer.buf) = {}
    ELSE /\ buffer.idx <= Len(buffer.buf) /\ Len(given) = buffer.idx
         /\ \A i \in DOMAIN given : given[i] = buffer.buf[i]

BufferInv ==
  /\ Buffered!TypeOK
  /\ ~open => buffer = Buffered!Fresh /\ given = <<>> /\ ended = FALSE
  /\ Distinct(buffer.buf) /\ BufferGiven
  /\ open => Buffered!Needed[asked] \subseteq Range(given) \cup Range(buffer.buf)
  /\ ended => ~Buffered!HasRow(buffer)

-----------------------------------------------------------------------------
(* Sequences without repetitions.                                         *)

LEMMA TailDistinct ==
  ASSUME NEW S, NEW s \in Seq(S), s # <<>>, Distinct(s)
  PROVE  /\ Tail(s) \in Seq(S) /\ Head(s) \in S /\ Distinct(Tail(s))
         /\ Head(s) \notin Range(Tail(s))
         /\ Range(s) = {Head(s)} \cup Range(Tail(s))
<1>1. /\ Tail(s) \in Seq(S) /\ Head(s) \in S /\ Head(s) = s[1]
      /\ Len(s) \in Nat \ {0} /\ Len(Tail(s)) = Len(s) - 1
      /\ DOMAIN s = 1..Len(s) /\ DOMAIN Tail(s) = 1..(Len(s) - 1)
      /\ \A i \in 1..(Len(s) - 1) : Tail(s)[i] = s[i + 1]
  OBVIOUS
<1>2. Distinct(Tail(s))
  BY <1>1 DEF Distinct
<1>3. Head(s) \notin Range(Tail(s))
  <2>1. ASSUME NEW i \in DOMAIN Tail(s), Tail(s)[i] = Head(s) PROVE FALSE
    <3>1. i + 1 \in DOMAIN s /\ 1 \in DOMAIN s /\ s[i + 1] = s[1] /\ i + 1 # 1
      BY <1>1, <2>1
    <3> QED BY <3>1 DEF Distinct
  <2> QED BY <2>1 DEF Range
<1>4. Range(s) = {Head(s)} \cup Range(Tail(s))
  <2>1. ASSUME NEW i \in DOMAIN s PROVE s[i] = Head(s) \/ s[i] \in Range(Tail(s))
    <3>1. CASE i = 1
      BY <1>1, <3>1
    <3>2. CASE i # 1
      <4>1. i - 1 \in DOMAIN Tail(s) /\ Tail(s)[i - 1] = s[i]
        BY <1>1, <3>2
      <4> QED BY <4>1 DEF Range
    <3> QED BY <3>1, <3>2
  <2>2. ASSUME NEW i \in DOMAIN Tail(s) PROVE Tail(s)[i] \in Range(s)
    <3>1. i + 1 \in DOMAIN s /\ Tail(s)[i] = s[i + 1]
      BY <1>1
    <3> QED BY <3>1 DEF Range
  <2>3. Head(s) \in Range(s)
    BY <1>1 DEF Range
  <2>4. Range(s) \subseteq {Head(s)} \cup Range(Tail(s))
    BY <2>1 DEF Range
  <2>5. Range(Tail(s)) \subseteq Range(s)
    BY <2>2 DEF Range
  <2> QED BY <2>3, <2>4, <2>5
<1> QED BY <1>1, <1>2, <1>3, <1>4

LEMMA AppendDistinct ==
  ASSUME NEW S, NEW s \in Seq(S), NEW x \in S, Distinct(s), x \notin Range(s)
  PROVE  /\ Append(s, x) \in Seq(S) /\ Distinct(Append(s, x))
         /\ Range(Append(s, x)) = Range(s) \cup {x}
<1>1. /\ Append(s, x) \in Seq(S) /\ Len(s) \in Nat
      /\ DOMAIN s = 1..Len(s) /\ DOMAIN Append(s, x) = 1..(Len(s) + 1)
      /\ \A i \in 1..Len(s) : Append(s, x)[i] = s[i]
      /\ Append(s, x)[Len(s) + 1] = x
  OBVIOUS
<1>2. \A i \in DOMAIN s : s[i] # x
  BY DEF Range
<1>3. Distinct(Append(s, x))
  BY <1>1, <1>2 DEF Distinct
<1>4. Range(Append(s, x)) = Range(s) \cup {x}
  <2>1. \A i \in DOMAIN Append(s, x) : Append(s, x)[i] \in Range(s) \cup {x}
    BY <1>1 DEF Range
  <2>2. \A i \in DOMAIN s : s[i] \in Range(Append(s, x))
    BY <1>1 DEF Range
  <2>3. x \in Range(Append(s, x))
    BY <1>1 DEF Range
  <2> QED BY <2>1, <2>2, <2>3 DEF Range
<1> QED BY <1>1, <1>3, <1>4

LEMMA EmptySequence ==
  /\ \A S : <<>> \in Seq(S)
  /\ Range(<<>>) = {} /\ Distinct(<<>>) /\ Len(<<>>) = 0
BY DEF Range, Distinct

-----------------------------------------------------------------------------
(* What begin_scan leaves in the buffer.                                   *)

\* The pages stripe reads hold at least the rows it is asked for.
LEMMA PagesSuffice ==
  ASSUME NEW n \in Nat, NEW p \in Nat \ {0}
  PROVE  (n \div p + 1) * p \in Nat /\ n <= (n \div p + 1) * p
<1>1. n < (n \div p + 1) * p
  OBVIOUS
<1>2. n \div p + 1 \in Nat
  OBVIOUS
<1>3. \A q \in Nat : q * p \in Nat
  OBVIOUS
<1> QED BY <1>1, <1>2, <1>3

BufferLoaded(y, a) ==
  /\ y \in BufferTypes /\ y.idx = 0 /\ Distinct(y.buf)
  /\ Buffered!Needed[a] \subseteq Range(y.buf)

LEMMA WholeAnswer ==
  ASSUME BufferAssumed, BufferReliable, NEW a \in Asks
  PROVE  /\ Remote[a] \in Seq(Rows) /\ Distinct(Remote[a])
         /\ Buffered!Needed[a] \subseteq Range(Remote[a])
BY DEF BufferAssumed, BufferReliable, Distinct, Buffered!Needed, Range

LEMMA NothingBound ==
  ASSUME BufferAssumed, NEW a \in Asks, Bound[a] = 0 \/ Remote[a] = <<>>
  PROVE  Buffered!Needed[a] = {}
<1>1. CASE Remote[a] = <<>>
  BY <1>1 DEF Buffered!Needed
<1>2. CASE Bound[a] = 0
  <2>1. Bound[a] # All
    BY <1>2 DEF BufferAssumed
  <2>2. DOMAIN Remote[a] = 1..Len(Remote[a])
    BY DEF BufferAssumed
  <2>3. \A j \in DOMAIN Remote[a] : ~(Bound[a] = All \/ j <= Bound[a])
    BY <1>2, <2>1, <2>2
  <2> QED BY <2>3 DEF Buffered!Needed
<1> QED BY <1>1, <1>2

LEMMA StripePages ==
  ASSUME BufferAssumed, BufferReliable, NEW a \in Asks
  PROVE  /\ Buffered!StripeRows(a) \in Seq(Rows) /\ Distinct(Buffered!StripeRows(a))
         /\ Buffered!Needed[a] \subseteq Range(Buffered!StripeRows(a))
<1> DEFINE n == (Bound[a] \div PageSize + 1) * PageSize
<1>1. CASE Bound[a] = All \/ Len(Remote[a]) < n
  BY <1>1, WholeAnswer DEF Buffered!StripeRows
<1>2. CASE ~(Bound[a] = All \/ Len(Remote[a]) < n)
  <2>1. Bound[a] \in Nat /\ PageSize \in Nat \ {0} /\ Bound[a] # All
    BY <1>2 DEF BufferAssumed
  <2>2. n \in Nat /\ Bound[a] <= n
    BY <2>1, PagesSuffice
  <2>3. Remote[a] \in Seq(Rows) /\ Distinct(Remote[a]) /\ Len(Remote[a]) \in Nat
    BY WholeAnswer
  <2>4. Buffered!StripeRows(a) = SubSeq(Remote[a], 1, n) /\ n <= Len(Remote[a])
    BY <1>2, <2>2, <2>3 DEF Buffered!StripeRows
  <2> HIDE DEF n
  <2>5. /\ SubSeq(Remote[a], 1, n) \in Seq(Rows)
        /\ DOMAIN SubSeq(Remote[a], 1, n) = 1..n
        /\ \A i \in 1..n : SubSeq(Remote[a], 1, n)[i] = Remote[a][i]
    BY <2>2, <2>3, <2>4
  <2>6. DOMAIN Remote[a] = 1..Len(Remote[a]) /\ 1..n \subseteq DOMAIN Remote[a]
    BY <2>2, <2>3, <2>4
  <2>7. Distinct(Buffered!StripeRows(a))
    BY <2>3, <2>4, <2>5, <2>6 DEF Distinct
  <2>8. ASSUME NEW i \in DOMAIN Remote[a], i <= Bound[a]
        PROVE  Remote[a][i] \in Range(Buffered!StripeRows(a))
    <3>1. i \in 1..n
      BY <2>1, <2>2, <2>6, <2>8
    <3> QED BY <2>4, <2>5, <3>1 DEF Range
  <2>9. Buffered!Needed[a] \subseteq Range(Buffered!StripeRows(a))
    BY <2>1, <2>8 DEF Buffered!Needed
  <2> QED BY <2>4, <2>5, <2>7, <2>9
<1> QED BY <1>1, <1>2

\* Changing one field of a buffer.
LEMMA BufferFields ==
  ASSUME NEW x \in BufferTypes
  PROVE  /\ x.buf \in Seq(Rows) /\ x.idx \in Nat
         /\ \A s \in Seq(Rows) : /\ [x EXCEPT !.buf = s] \in BufferTypes
                               /\ [x EXCEPT !.buf = s].buf = s
                               /\ [x EXCEPT !.buf = s].idx = x.idx
         /\ \A n \in Nat : /\ [x EXCEPT !.idx = n] \in BufferTypes
                           /\ [x EXCEPT !.idx = n].idx = n
                           /\ [x EXCEPT !.idx = n].buf = x.buf
BY DEF BufferTypes

\* What begin_scan finds in the instance: nothing, or what end_scan left.
LEMMA BufferLoads ==
  ASSUME BufferAssumed, BufferReliable, w \in BufWrappers,
         NEW a \in Asks, NEW x \in BufferTypes, Distinct(x.buf),
         w \in Buffered!Draining \cup {"duckdb"} => x.idx = 0,
         NEW y \in Buffered!BeginScan(x, a)
  PROVE  BufferLoaded(y, a)
<1>1. /\ Remote[a] \in Seq(Rows) /\ Distinct(Remote[a])
      /\ Buffered!Needed[a] \subseteq Range(Remote[a])
  BY WholeAnswer
<1>2. CASE w \in {"mssql", "prometheus", "duckdb"}
  <2>1. y.buf = Remote[a] /\ y.idx = 0 /\ y \in BufferTypes
    BY <1>1, <1>2 DEF Buffered!BeginScan, Buffered!MssqlBegin, Buffered!PrometheusBegin,
       Buffered!DuckdbBegin, BufferTypes
  <2> QED BY <1>1, <2>1 DEF BufferLoaded
<1>3. CASE w = "stripe"
  <2>1. CASE Bound[a] = 0
    <3>1. y = Buffered!Rewound(x)
      BY <1>3, <2>1 DEF Buffered!BeginScan, Buffered!StripeBegin
    <3> QED BY <2>1, <3>1, NothingBound DEF Buffered!Rewound, BufferLoaded, BufferTypes
  <2>2. CASE Bound[a] # 0
    <3>1. y = [buf |-> Buffered!StripeRows(a), idx |-> 0]
      BY <1>3, <2>2 DEF Buffered!BeginScan, Buffered!StripeBegin
    <3> QED BY <3>1, StripePages DEF BufferLoaded, BufferTypes
  <2> QED BY <2>1, <2>2
<1>4. CASE w = "redis"
  <2>1. y.buf = Remote[a] /\ y.idx = 0 /\ y \in BufferTypes
    BY <1>1, <1>4 DEF Buffered!BeginScan, Buffered!RedisBegin, Buffered!RedisReset,
       Buffered!Fresh, BufferTypes
  <2> QED BY <1>1, <2>1 DEF BufferLoaded
<1>5. CASE w \in {"airtable", "firebase"}
  <2>1. y = [x EXCEPT !.buf = Remote[a]]
    BY <1>5 DEF Buffered!BeginScan, Buffered!AirtableBegin, Buffered!FirebaseBegin
  <2>2. y.buf = Remote[a] /\ y.idx = 0 /\ y \in BufferTypes
    BY <1>1, <1>5, <2>1 DEF BufferTypes, Buffered!Draining
  <2> QED BY <1>1, <2>2 DEF BufferLoaded
<1>6. CASE w = "logflare"
  <2>1. y = [x EXCEPT !.buf = Remote[a]] \/ (Remote[a] = <<>> /\ y = x)
    <3>1. y \in Buffered!LogflareBegin(x, a)
      BY <1>6 DEF Buffered!BeginScan
    <3> QED BY <3>1, Zenon DEF Buffered!LogflareBegin
  <2>2. CASE y = [x EXCEPT !.buf = Remote[a]]
    <3>1. y.buf = Remote[a] /\ y.idx = 0 /\ y \in BufferTypes
      BY <1>1, <1>6, <2>2 DEF BufferTypes, Buffered!Draining
    <3> QED BY <1>1, <3>1 DEF BufferLoaded
  <2>3. CASE Remote[a] = <<>> /\ y = x
    BY <1>6, <2>3, NothingBound DEF BufferLoaded, BufferTypes, Buffered!Draining
  <2> QED BY <2>1, <2>2, <2>3
<1> QED BY <1>2, <1>3, <1>4, <1>5, <1>6 DEF BufferAssumed

LEMMA BufferEnds ==
  ASSUME BufferAssumed, w \in BufWrappers, NEW x \in BufferTypes, Distinct(x.buf)
  PROVE  /\ Buffered!EndScan(x) \in BufferTypes /\ Distinct(Buffered!EndScan(x).buf)
         /\ Buffered!EndScan(x).idx = x.idx
<1>1. /\ Buffered!Cleared(x) \in BufferTypes /\ Distinct(Buffered!Cleared(x).buf)
      /\ Buffered!Cleared(x).idx = x.idx
  BY EmptySequence DEF Buffered!Cleared, BufferTypes
<1>2. Buffered!EndScan(x) \in {x, Buffered!Cleared(x)}
  BY DEF BufferAssumed, Buffered!EndScan, Buffered!MssqlEnd, Buffered!PrometheusEnd,
     Buffered!DuckdbEnd, Buffered!StripeEnd, Buffered!RedisEnd, Buffered!AirtableEnd
<1> QED BY <1>1, <1>2

LEMMA BufferFresh ==
  Buffered!Fresh \in BufferTypes /\ Distinct(Buffered!Fresh.buf) /\ Buffered!Fresh.idx = 0
BY EmptySequence DEF Buffered!Fresh, BufferTypes

-----------------------------------------------------------------------------
(* The invariant.                                                          *)

LEMMA BufferInvInit == BufferAssumed /\ Buffered!Init => BufferInv
<1> SUFFICES ASSUME BufferAssumed, Buffered!Init PROVE BufferInv
  OBVIOUS
<1>1. buffer = Buffered!Fresh /\ open = FALSE /\ given = <<>> /\ ended = FALSE /\ agg \in BOOLEAN
  BY DEF Buffered!Init
<1>2. Buffered!TypeOK
  BY <1>1, BufferFresh, EmptySequence DEF Buffered!Init, Buffered!TypeOK, BufferTypes
<1>3. BufferGiven
  BY <1>1, EmptySequence DEF BufferGiven, Buffered!Fresh
<1> QED BY <1>1, <1>2, <1>3, BufferFresh DEF BufferInv

\* The scan begins with the buffer loaded and nothing given.
LEMMA BufferBegins ==
  ASSUME BufferAssumed, BufferReliable, BufferInv,
         w' = w, agg' = agg, asked' \in Asks, open' = TRUE, given' = <<>>, ended' = FALSE,
         BufferLoaded(buffer', asked')
  PROVE  BufferInv'
<1>1. Buffered!TypeOK'
  BY EmptySequence DEF BufferInv, Buffered!TypeOK, BufferLoaded, BufferTypes
<1>2. BufferGiven'
  <2>1. buffer'.buf \in Seq(Rows) /\ Len(buffer'.buf) \in Nat /\ buffer'.idx = 0
    BY DEF BufferLoaded, BufferTypes
  <2> QED BY <2>1, EmptySequence DEF BufferGiven
<1>3. Buffered!Needed' = Buffered!Needed
  BY DEF Buffered!Needed
<1> QED BY <1>1, <1>2, <1>3 DEF BufferInv, BufferLoaded

LEMMA BufferIterates ==
  ASSUME BufferAssumed, BufferReliable, BufferInv, Buffered!Iter PROVE BufferInv'
<1>1. /\ open /\ w' = w /\ agg' = agg /\ open' = open /\ asked' = asked
      /\ Buffered!Needed' = Buffered!Needed
  BY DEF Buffered!Iter, Buffered!Needed
<1>2. /\ w \in BufWrappers /\ agg \in BOOLEAN /\ open \in BOOLEAN /\ asked \in Asks
      /\ buffer.buf \in Seq(Rows) /\ buffer.idx \in Nat /\ buffer \in BufferTypes
      /\ given \in Seq(Rows) /\ ended \in BOOLEAN
  BY DEF BufferInv, Buffered!TypeOK, BufferTypes
<1>3. CASE ~Buffered!HasRow(buffer)
  <2>1. ended' = TRUE /\ given' = given /\ buffer' = buffer
    BY <1>3 DEF Buffered!Iter
  <2>2. Buffered!TypeOK'
    BY <1>1, <1>2, <2>1 DEF Buffered!TypeOK, BufferTypes
  <2> QED BY <1>1, <1>3, <2>1, <2>2 DEF BufferInv, BufferGiven, Buffered!HasRow
<1>4. CASE Buffered!HasRow(buffer) /\ w \in Buffered!Draining
  <2>1. buffer.buf # <<>> /\ ended = FALSE
    BY <1>2, <1>4 DEF Buffered!HasRow, BufferInv
  <2>2. /\ given' = Append(given, Head(buffer.buf)) /\ ended' = FALSE
        /\ buffer' = [buffer EXCEPT !.buf = Tail(@)]
    BY <1>4, <2>1 DEF Buffered!Iter, Buffered!RowOf, Buffered!Advance
  <2>3. buffer'.buf = Tail(buffer.buf) /\ buffer'.idx = buffer.idx /\ buffer' \in BufferTypes
    <3>1. Tail(buffer.buf) \in Seq(Rows)
      BY <1>2, <2>1
    <3> DEFINE b == Tail(buffer.buf)
    <3>2. b \in Seq(Rows) /\ buffer' = [buffer EXCEPT !.buf = b]
      BY <2>2, <3>1
    <3> HIDE DEF b
    <3>3. buffer'.buf = b /\ buffer'.idx = buffer.idx /\ buffer' \in BufferTypes
      BY <1>2, <3>2, BufferFields
    <3> QED BY <3>3 DEF b
  <2>4. /\ Distinct(buffer.buf) /\ buffer.idx = 0 /\ Distinct(given)
        /\ Range(given) \cap Range(buffer.buf) = {}
    BY <1>4 DEF BufferInv, BufferGiven
  <2>5. /\ Head(buffer.buf) \in Rows /\ Distinct(Tail(buffer.buf))
        /\ Head(buffer.buf) \notin Range(Tail(buffer.buf))
        /\ Range(buffer.buf) = {Head(buffer.buf)} \cup Range(Tail(buffer.buf))
    BY <1>2, <2>1, <2>4, TailDistinct
  <2>6. Head(buffer.buf) \notin Range(given)
    BY <2>4, <2>5
  <2>7. /\ given' \in Seq(Rows) /\ Distinct(given')
        /\ Range(given') = Range(given) \cup {Head(buffer.buf)}
    BY <1>2, <2>2, <2>4, <2>5, <2>6, AppendDistinct
  <2>8. Buffered!TypeOK'
    BY <1>1, <1>2, <2>2, <2>3, <2>7 DEF Buffered!TypeOK, BufferTypes
  <2>9. BufferGiven'
    BY <1>1, <1>4, <2>3, <2>4, <2>5, <2>7 DEF BufferGiven
  <2>10. Buffered!Needed'[asked'] \subseteq Range(given') \cup Range(buffer'.buf)
    BY <1>1, <2>3, <2>5, <2>7 DEF BufferInv
  <2> QED BY <1>1, <2>2, <2>3, <2>5, <2>8, <2>9, <2>10 DEF BufferInv
<1>5. CASE Buffered!HasRow(buffer) /\ w \notin Buffered!Draining
  <2>1. buffer.idx < Len(buffer.buf) /\ ended = FALSE
    BY <1>2, <1>5 DEF Buffered!HasRow, BufferInv
  <2>2. /\ given' = Append(given, buffer.buf[buffer.idx + 1]) /\ ended' = FALSE
        /\ buffer' = [buffer EXCEPT !.idx = @ + 1]
    BY <1>5, <2>1 DEF Buffered!Iter, Buffered!RowOf, Buffered!Advance
  <2>3. buffer'.buf = buffer.buf /\ buffer'.idx = buffer.idx + 1 /\ buffer' \in BufferTypes
    <3>1. buffer.idx + 1 \in Nat
      BY <1>2
    <3> QED BY <1>2, <2>2, <3>1, BufferFields
  <2>4. Len(given) = buffer.idx /\ \A i \in DOMAIN given : given[i] = buffer.buf[i]
    BY <1>5 DEF BufferInv, BufferGiven
  <2>5. buffer.buf[buffer.idx + 1] \in Rows
    BY <1>2, <2>1
  <2>6. /\ given' \in Seq(Rows) /\ Len(given') = buffer.idx + 1
        /\ \A i \in DOMAIN given' : given'[i] = buffer.buf[i]
    BY <1>2, <2>2, <2>4, <2>5
  <2>7. Buffered!TypeOK'
    BY <1>1, <1>2, <2>2, <2>3, <2>6 DEF Buffered!TypeOK, BufferTypes
  <2>8. BufferGiven'
    BY <1>1, <1>2, <1>5, <2>1, <2>3, <2>6 DEF BufferGiven
  <2>9. Range(given) \subseteq Range(buffer.buf)
    <3>1. \A i \in DOMAIN given : i \in DOMAIN buffer.buf
      BY <1>2, <2>1, <2>4
    <3> QED BY <2>4, <3>1 DEF Range
  <2>10. Buffered!Needed'[asked'] \subseteq Range(given') \cup Range(buffer'.buf)
    BY <1>1, <2>3, <2>9 DEF BufferInv
  <2> QED BY <1>1, <2>2, <2>3, <2>7, <2>8, <2>10 DEF BufferInv
<1> QED BY <1>3, <1>4, <1>5

LEMMA BufferInvStep ==
  BufferAssumed /\ BufferReliable /\ BufferInv /\ [Buffered!Next]_(Buffered!vars) => BufferInv'
<1> SUFFICES ASSUME BufferAssumed, BufferReliable, BufferInv, [Buffered!Next]_(Buffered!vars)
             PROVE  BufferInv'
  OBVIOUS
<1>0. w \in BufWrappers /\ buffer \in BufferTypes /\ asked \in Asks /\ Distinct(buffer.buf)
  BY DEF BufferInv, Buffered!TypeOK, BufferTypes
<1>1. CASE Buffered!Begin
  <2>1. /\ asked' \in Asks /\ buffer' \in Buffered!BeginScan(Buffered!Fresh, asked')
        /\ open' = TRUE /\ given' = <<>> /\ ended' = FALSE /\ w' = w /\ agg' = agg
    BY <1>1 DEF Buffered!Begin, BufferInv
  <2>2. BufferLoaded(buffer', asked')
    BY <1>0, <2>1, BufferFresh, BufferLoads
  <2> QED BY <2>1, <2>2, BufferBegins
<1>2. CASE Buffered!Restart
  <2>1. /\ w \in BufRestarted /\ asked' \in Asks
        /\ buffer' \in Buffered!BeginScan(Buffered!EndScan(buffer), asked')
        /\ open' = TRUE /\ given' = <<>> /\ ended' = FALSE /\ w' = w /\ agg' = agg
    BY <1>2 DEF Buffered!Restart, BufferInv, Buffered!TypeOK
  <2>2. w \in Buffered!Draining \cup {"duckdb"} => buffer.idx = 0
    BY <2>1 DEF BufferReliable, BufferInv, BufferGiven
  <2>3. BufferLoaded(buffer', asked')
    BY <1>0, <2>1, <2>2, BufferEnds, BufferLoads
  <2> QED BY <2>1, <2>3, BufferBegins
<1>3. CASE Buffered!Iter
  BY <1>3, BufferIterates
<1>4. CASE Buffered!Rescan
  <2>1. /\ w \in {"mssql", "prometheus", "stripe", "duckdb"} /\ open /\ w \notin Buffered!Draining
        /\ open' = open /\ given' = <<>> /\ ended' = FALSE /\ w' = w /\ agg' = agg
        /\ asked' = asked /\ buffer' = Buffered!ReScan(buffer)
    BY <1>4 DEF Buffered!Rescan, BufferReliable, Buffered!Draining
  <2>2. buffer' = Buffered!Rewound(buffer)
    BY <2>1 DEF Buffered!ReScan, Buffered!MssqlReScan, Buffered!PrometheusReScan,
       Buffered!StripeReScan, Buffered!DuckdbReScan
  <2>3. Range(given) \subseteq Range(buffer.buf)
    <3>1. /\ buffer.idx <= Len(buffer.buf) /\ Len(given) = buffer.idx /\ buffer.idx \in Nat
          /\ \A i \in DOMAIN given : given[i] = buffer.buf[i]
          /\ buffer.buf \in Seq(Rows) /\ given \in Seq(Rows)
      BY <2>1 DEF BufferInv, BufferGiven, Buffered!TypeOK
    <3> QED BY <3>1 DEF Range
  <2>4. BufferLoaded(buffer', asked')
    <3>1. buffer' \in BufferTypes /\ buffer'.buf = buffer.buf /\ buffer'.idx = 0
      BY <1>0, <2>2, BufferFields DEF Buffered!Rewound
    <3>2. Buffered!Needed[asked] \subseteq Range(buffer.buf)
      BY <2>1, <2>3 DEF BufferInv
    <3> QED BY <1>0, <2>1, <3>1, <3>2 DEF BufferLoaded
  <2> QED BY <1>0, <2>1, <2>4, BufferBegins DEF BufferInv, Buffered!TypeOK
<1>5. CASE Buffered!Drop
  <2>1. /\ buffer' = Buffered!Fresh /\ open' = FALSE /\ given' = <<>> /\ ended' = FALSE
        /\ w' = w /\ agg' = agg /\ asked' = asked
    BY <1>5 DEF Buffered!Drop
  <2>2. Buffered!TypeOK'
    BY <1>0, <2>1, BufferFresh, EmptySequence DEF BufferInv, Buffered!TypeOK, BufferTypes
  <2>3. BufferGiven'
    BY <2>1, EmptySequence DEF BufferGiven, Buffered!Fresh
  <2> QED BY <2>1, <2>2, <2>3, BufferFresh DEF BufferInv
<1>6. CASE UNCHANGED Buffered!vars
  BY <1>6 DEF Buffered!vars, BufferInv, Buffered!TypeOK, BufferGiven, Buffered!HasRow,
     Buffered!Needed
<1> QED BY <1>1, <1>2, <1>3, <1>4, <1>5, <1>6 DEF Buffered!Next

-----------------------------------------------------------------------------
(* Theorems.                                                               *)

\* Types, for every sequence of beginnings, rows, restarts and rescans of the
\* wrappers BufferReliable is about.
THEOREM BufferedTypes ==
  ASSUME BufferAssumed, BufferReliable PROVE Buffered!Spec => []Buffered!TypeOK
<1>1. Buffered!Init => BufferInv
  BY BufferAssumed, BufferInvInit
<1>2. BufferInv /\ [Buffered!Next]_(Buffered!vars) => BufferInv'
  BY BufferAssumed, BufferReliable, BufferInvStep
<1>3. BufferInv => Buffered!TypeOK
  BY DEF BufferInv
<1> QED BY <1>1, <1>2, <1>3, PTL DEF Buffered!Spec

\* A row that is given was not given before.
LEMMA BufferGives ==
  ASSUME BufferAssumed, BufferInv, Buffered!Iter, Buffered!HasRow(buffer)
  PROVE  Buffered!R!Give
<1>1. ended = FALSE /\ open /\ open' = open /\ asked' = asked /\ ended' = ended
  BY DEF Buffered!Iter, BufferInv, Buffered!TypeOK
<1>2. given' = Append(given, Buffered!RowOf(buffer))
  BY DEF Buffered!Iter
<1>3. buffer.buf \in Seq(Rows) /\ buffer.idx \in Nat /\ given \in Seq(Rows) /\ Distinct(buffer.buf)
  BY DEF BufferInv, Buffered!TypeOK
<1>4. Buffered!RowOf(buffer) \in Rows \ Range(given)
  <2>1. CASE w \in Buffered!Draining
    <3>1. buffer.buf # <<>> /\ Buffered!RowOf(buffer) = Head(buffer.buf)
      BY <2>1 DEF Buffered!HasRow, Buffered!RowOf
    <3>2. Head(buffer.buf) \in Rows /\ Head(buffer.buf) \in Range(buffer.buf)
      BY <1>3, <3>1, TailDistinct
    <3> QED BY <2>1, <3>1, <3>2 DEF BufferInv, BufferGiven
  <2>2. CASE w \notin Buffered!Draining
    <3>1. Buffered!RowOf(buffer) = buffer.buf[buffer.idx + 1] /\ buffer.idx < Len(buffer.buf)
      BY <2>2 DEF Buffered!HasRow, Buffered!RowOf
    <3>2. /\ Len(given) = buffer.idx /\ DOMAIN given = 1..buffer.idx
          /\ \A i \in DOMAIN given : given[i] = buffer.buf[i]
      BY <1>3, <2>2 DEF BufferInv, BufferGiven
    <3>3. buffer.idx + 1 \in DOMAIN buffer.buf /\ buffer.buf[buffer.idx + 1] \in Rows
      BY <1>3, <3>1
    <3>4. ASSUME NEW i \in DOMAIN given PROVE given[i] # buffer.buf[buffer.idx + 1]
      <4>1. i \in DOMAIN buffer.buf /\ i # buffer.idx + 1
        BY <1>3, <3>1, <3>2, <3>4
      <4> QED BY <1>3, <3>2, <3>3, <4>1 DEF Distinct
    <3> QED BY <3>1, <3>3, <3>4 DEF Range
  <2> QED BY <2>1, <2>2
<1> QED BY <1>1, <1>2, <1>4 DEF Buffered!R!Give, Buffered!R!Range, Range

\* The buffer is used up only when every needed row is given.
LEMMA BufferFinishes ==
  ASSUME BufferAssumed, BufferInv, Buffered!Iter, ~Buffered!HasRow(buffer)
  PROVE  Buffered!R!Finish
<1>1. open /\ open' = open /\ asked' = asked /\ given' = given /\ ended' = TRUE
  BY DEF Buffered!Iter
<1>2. Range(buffer.buf) \subseteq Range(given)
  <2>1. CASE w \in Buffered!Draining
    BY <2>1, EmptySequence DEF Buffered!HasRow
  <2>2. CASE w \notin Buffered!Draining
    <3>1. /\ buffer.buf \in Seq(Rows) /\ buffer.idx \in Nat /\ given \in Seq(Rows)
          /\ buffer.idx <= Len(buffer.buf) /\ Len(given) = buffer.idx
          /\ ~(buffer.idx < Len(buffer.buf))
          /\ \A i \in DOMAIN given : given[i] = buffer.buf[i]
      BY <2>2 DEF BufferInv, Buffered!TypeOK, BufferGiven, Buffered!HasRow
    <3>2. DOMAIN given = DOMAIN buffer.buf
      BY <3>1
    <3> QED BY <3>1, <3>2 DEF Range
  <2> QED BY <2>1, <2>2
<1>3. Buffered!Needed[asked] \subseteq Range(given)
  BY <1>1, <1>2 DEF BufferInv
<1> QED BY <1>1, <1>3 DEF Buffered!R!Finish, Buffered!R!Range, Range

LEMMA BufferedStep ==
  BufferAssumed /\ BufferReliable /\ BufferInv /\ [Buffered!Next]_(Buffered!vars)
    => [Buffered!R!Next]_(Buffered!R!vars)
<1> SUFFICES ASSUME BufferAssumed, BufferReliable, BufferInv, [Buffered!Next]_(Buffered!vars)
             PROVE  [Buffered!R!Next]_(Buffered!R!vars)
  OBVIOUS
<1>1. CASE Buffered!Begin \/ Buffered!Restart
  BY <1>1 DEF Buffered!Begin, Buffered!Restart, BufferInv, Buffered!TypeOK,
     Buffered!R!Next, Buffered!R!Begin
<1>2. CASE Buffered!Iter
  BY <1>2, BufferGives, BufferFinishes DEF Buffered!R!Next
<1>3. CASE Buffered!Rescan
  BY <1>3 DEF Buffered!Rescan, Buffered!R!Next, Buffered!R!Rewind
<1>4. CASE Buffered!Drop
  BY <1>4 DEF Buffered!Drop, Buffered!R!Next, Buffered!R!Close
<1>5. CASE UNCHANGED Buffered!vars
  BY <1>5 DEF Buffered!vars, Buffered!R!vars
<1> QED BY <1>1, <1>2, <1>3, <1>4, <1>5 DEF Buffered!Next

\* A wrapper that buffers its result, restarted and rewound at any time, is a
\* scan the framework can rely on: no row twice, None only when no needed row
\* is missing. BufferReliable names what that takes.
THEOREM BufferedScanIsReliable ==
  ASSUME BufferAssumed, BufferReliable PROVE Buffered!Spec => Buffered!Implements
<1>1. Buffered!Init => BufferInv
  BY BufferAssumed, BufferInvInit
<1>2. BufferInv /\ [Buffered!Next]_(Buffered!vars) => BufferInv'
  BY BufferAssumed, BufferReliable, BufferInvStep
<1>3. Buffered!Init => Buffered!R!Init
  BY DEF Buffered!Init, Buffered!R!Init
<1>4. BufferInv /\ [Buffered!Next]_(Buffered!vars) => [Buffered!R!Next]_(Buffered!R!vars)
  BY BufferAssumed, BufferReliable, BufferedStep
<1> QED BY <1>1, <1>2, <1>3, <1>4, PTL DEF Buffered!Spec, Buffered!Implements, Buffered!R!Spec
=============================================================================
