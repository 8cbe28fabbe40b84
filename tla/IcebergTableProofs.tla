-------------------------- MODULE IcebergTableProofs --------------------------
(***************************************************************************)
(* Proofs about IcebergTable for every schema, foreign table and number of *)
(* rows: what a scan returns is what was stored, whatever others did to    *)
(* the schema meanwhile.                                                   *)
(***************************************************************************)
EXTENDS IcebergTable, FiniteSetTheorems, NaturalsInduction, TLAPS

-----------------------------------------------------------------------------
(* Induction, and the library's operators on sequences.                    *)

\* Every set of naturals has a least member.
LEMMA LeastMember ==
  ASSUME NEW T, T \subseteq Nat, T # {}
  PROVE  \E x \in T : \A y \in T : x <= y
<1>1. PICK x \in T : \A y \in T : ~(<<y, x>> \in OpToRel(<, Nat))
  BY NatLessThanWellFounded, WFMin, Zenon
<1>2. \A y \in T : ~(y < x)
  BY <1>1, Zenon DEF OpToRel
<1> QED BY <1>2

\* A set with 0 and all successors of its members has every natural.
LEMMA Inductive ==
  ASSUME NEW S, 0 \in S, \A n \in Nat : n \in S => n + 1 \in S
  PROVE  Nat \subseteq S
<1> SUFFICES ASSUME Nat \ S # {} PROVE FALSE
  OBVIOUS
<1>1. PICK x \in Nat \ S : \A y \in Nat \ S : x <= y
  BY LeastMember, Nat \ S \subseteq Nat
<1>2. x - 1 \in Nat /\ x - 1 \in S
  BY <1>1
<1> QED BY <1>1, <1>2

LEMMA TupleIsSeq ==
  ASSUME NEW S, NEW n \in Nat, NEW f \in [1..n -> S]
  PROVE  f \in Seq(S) /\ Len(f) = n
OBVIOUS

LEMMA ElementsOf ==
  ASSUME NEW S, NEW s \in Seq(S)
  PROVE  DOMAIN s = 1..Len(s) /\ Len(s) \in Nat /\ \A i \in DOMAIN s : s[i] \in S
OBVIOUS

LEMMA PartOf ==
  ASSUME NEW S, NEW s \in Seq(S), NEW a \in 1..Len(s), NEW b \in 1..Len(s), a <= b
  PROVE  SubSeq(s, a, b) \in Seq(S) /\ Len(SubSeq(s, a, b)) = b - a + 1
OBVIOUS

LEMMA HeadAndTail ==
  ASSUME NEW S, NEW s \in Seq(S), s # <<>>
  PROVE  Head(s) \in S /\ Tail(s) \in Seq(S) /\ Len(s) \in Nat \ {0} /\ Len(Tail(s)) = Len(s) - 1
OBVIOUS

LEMMA AppendIs ==
  ASSUME NEW S, NEW s \in Seq(S), NEW x \in S
  PROVE  Append(s, x) \in Seq(S) /\ Append(s, x) # <<>>
<1>1. Append(s, x) \in Seq(S) /\ Len(Append(s, x)) = Len(s) + 1 /\ Len(s) \in Nat
  OBVIOUS
<1> DEFINE t == Append(s, x)
<1>2. Len(t) # 0
  BY <1>1
<1> HIDE DEF t
<1>3. t # <<>>
  BY <1>2
<1> QED BY <1>1, <1>3 DEF t

\* f[i] is the first i sequences of ss one after the other.
Concats(ss, f, n) ==
  \A i \in 1..n : (i = 1 => f[i] = ss[i]) /\ (i # 1 => f[i] = f[i - 1] \o ss[i])

LEMMA ConcatsExist ==
  ASSUME NEW S, NEW ss \in Seq(Seq(S)), NEW n \in 0..Len(ss)
  PROVE  \E f \in [1..n -> Seq(S)] : Concats(ss, f, n)
<1> DEFINE Has == {k \in Nat : k <= Len(ss) => \E f \in [1..k -> Seq(S)] : Concats(ss, f, k)}
<1>1. 0 \in Has
  <2> DEFINE e == [i \in 1..0 |-> <<>>]
  <2>1. e \in [1..0 -> Seq(S)] /\ Concats(ss, e, 0)
    BY DEF Concats
  <2> QED BY <2>1
<1>2. ASSUME NEW k \in Nat, k \in Has PROVE k + 1 \in Has
  <2>1. SUFFICES ASSUME k + 1 <= Len(ss)
                 PROVE  \E f \in [1..(k + 1) -> Seq(S)] : Concats(ss, f, k + 1)
    OBVIOUS
  <2>2. PICK f \in [1..k -> Seq(S)] : Concats(ss, f, k)
    BY <1>2, <2>1
  <2> DEFINE last == IF k = 0 THEN ss[1] ELSE f[k] \o ss[k + 1]
             g == [i \in 1..(k + 1) |-> IF i = k + 1 THEN last ELSE f[i]]
  <2>3. last \in Seq(S)
    <3>1. ss[k + 1] \in Seq(S)
      BY <2>1
    <3>2. CASE k = 0
      BY <3>1, <3>2
    <3>3. CASE k # 0
      BY <3>1, <3>3
    <3> QED BY <3>2, <3>3
  <2>4. g \in [1..(k + 1) -> Seq(S)]
    BY <2>3
  <2>5. ASSUME NEW i \in 1..(k + 1)
        PROVE  (i = 1 => g[i] = ss[i]) /\ (i # 1 => g[i] = g[i - 1] \o ss[i])
    <3>1. CASE i = k + 1
      <4>1. g[i] = last
        BY <3>1
      <4>5. k # 0 => i # 1
        BY <3>1
      <4>2. k = 0 => i = 1 /\ last = ss[i]
        BY <3>1
      <4>3. k # 0 => last = f[k] \o ss[i]
        BY <3>1, Zenon
      <4>4. k # 0 => g[i - 1] = f[k]
        <5> HIDE DEF last
        <5> QED BY <3>1
      <4> QED BY <4>1, <4>2, <4>3, <4>4, <4>5
    <3>2. CASE i # k + 1
      <4>1. g[i] = f[i] /\ i \in 1..k
        BY <3>2
      <4>2. (i = 1 => f[i] = ss[i]) /\ (i # 1 => f[i] = f[i - 1] \o ss[i])
        BY <2>2, <4>1 DEF Concats
      <4>3. i # 1 => g[i - 1] = f[i - 1]
        BY <4>1
      <4> QED BY <4>1, <4>2, <4>3
    <3> QED BY <3>1, <3>2
  <2>6. Concats(ss, g, k + 1)
    BY <2>5, Zenon DEF Concats
  <2> HIDE DEF g
  <2> QED BY <2>4, <2>6
<1>3. Nat \subseteq Has
  <2> HIDE DEF Has
  <2> QED BY <1>1, <1>2, Inductive
<1> QED BY <1>3

\* Flattening keeps to the elements of the sequences.
LEMMA FlattenKeeps ==
  ASSUME NEW S, NEW ss \in Seq(Seq(S))
  PROVE  FlattenSeq(ss) \in Seq(S)
<1>1. CASE Len(ss) = 0
  <2>1. FlattenSeq(ss) = ss
    BY <1>1 DEF FlattenSeq
  <2>2. ss = <<>> /\ <<>> \in Seq(S)
    BY <1>1
  <2> QED BY <2>1, <2>2
<1>2. CASE Len(ss) # 0
  <2> DEFINE E(f) == f = [i \in 1..Len(ss) |-> IF i = 1 THEN ss[i] ELSE f[i - 1] \o ss[i]]
             ch == CHOOSE f : E(f)
  <2>1. FlattenSeq(ss) = ch[Len(ss)]
    BY <1>2 DEF FlattenSeq
  <2>2. \E f : E(f)
    <3>1. PICK f \in [1..Len(ss) -> Seq(S)] : Concats(ss, f, Len(ss))
      BY ConcatsExist
    <3>2. \A i \in 1..Len(ss) : f[i] = IF i = 1 THEN ss[i] ELSE f[i - 1] \o ss[i]
      BY <3>1, Zenon DEF Concats
    <3>3. f = [i \in 1..Len(ss) |-> f[i]]
      BY <3>1
    <3>4. f = [i \in 1..Len(ss) |-> IF i = 1 THEN ss[i] ELSE f[i - 1] \o ss[i]]
      BY <3>2, <3>3, Zenon
    <3> QED BY <3>4, Zenon
  <2>3. ch = [i \in 1..Len(ss) |-> IF i = 1 THEN ss[i] ELSE ch[i - 1] \o ss[i]]
    BY <2>2, Zenon
  <2> HIDE DEF ch
  <2>4. Concats(ss, ch, Len(ss))
    <3>1. \A i \in 1..Len(ss) : ch[i] = IF i = 1 THEN ss[i] ELSE ch[i - 1] \o ss[i]
      BY <2>3, Zenon
    <3> QED BY <3>1, Zenon DEF Concats
  <2> DEFINE Has == {j \in Nat : j \in 1..Len(ss) => ch[j] \in Seq(S)}
  <2>5. 0 \in Has
    OBVIOUS
  <2>6. ASSUME NEW j \in Nat, j \in Has PROVE j + 1 \in Has
    <3> SUFFICES ASSUME NEW m, m = j + 1, m \in 1..Len(ss) PROVE ch[m] \in Seq(S)
      OBVIOUS
    <3>1. (m = 1 => ch[m] = ss[m]) /\ (m # 1 => ch[m] = ch[m - 1] \o ss[m])
      BY <2>4, Zenon DEF Concats
    <3>2. ss[m] \in Seq(S)
      OBVIOUS
    <3>3. m # 1 => m - 1 = j /\ j \in 1..Len(ss)
      OBVIOUS
    <3>4. m # 1 => ch[m - 1] \in Seq(S)
      BY <2>6, <3>3, Zenon
    <3>5. m # 1 => ch[m - 1] \o ss[m] \in Seq(S)
      BY <3>2, <3>4
    <3> QED BY <3>1, <3>2, <3>5, Zenon
  <2>7. Nat \subseteq Has
    <3> HIDE DEF Has
    <3> QED BY <2>5, <2>6, Inductive
  <2>8. ch[Len(ss)] \in Seq(S)
    BY <1>2, <2>7
  <2> QED BY <2>1, <2>8
<1> QED BY <1>1, <1>2

\* f[i] is what is in T of the first i elements of s.
Selects(s, T, f, n) ==
  f[0] = <<>> /\ \A i \in 1..n : f[i] = IF s[i] \in T THEN Append(f[i - 1], s[i]) ELSE f[i - 1]

LEMMA SelectsExist ==
  ASSUME NEW S, NEW s \in Seq(S), NEW T, NEW n \in 0..Len(s)
  PROVE  \E f \in [0..n -> Seq(S)] : Selects(s, T, f, n)
<1> DEFINE Has == {k \in Nat : k <= Len(s) => \E f \in [0..k -> Seq(S)] : Selects(s, T, f, k)}
<1>1. 0 \in Has
  <2> DEFINE e == [i \in 0..0 |-> <<>>]
  <2>1. <<>> \in Seq(S)
    OBVIOUS
  <2>2. e \in [0..0 -> Seq(S)] /\ e[0] = <<>>
    BY <2>1
  <2>3. Selects(s, T, e, 0)
    BY <2>2 DEF Selects
  <2> HIDE DEF e
  <2> QED BY <2>2, <2>3
<1>2. ASSUME NEW k \in Nat, k \in Has PROVE k + 1 \in Has
  <2>1. SUFFICES ASSUME NEW m, m = k + 1, m <= Len(s)
                 PROVE  \E f \in [0..m -> Seq(S)] : Selects(s, T, f, m)
    OBVIOUS
  <2>2. PICK f \in [0..k -> Seq(S)] : Selects(s, T, f, k)
    BY <1>2, <2>1
  <2> DEFINE last == IF s[m] \in T THEN Append(f[k], s[m]) ELSE f[k]
             g == [i \in 0..m |-> IF i = m THEN last ELSE f[i]]
  <2>3. last \in Seq(S)
    <3>1. s[m] \in S /\ f[k] \in Seq(S)
      BY <2>1
    <3> QED BY <3>1
  <2>4. g \in [0..m -> Seq(S)]
    BY <2>1, <2>3
  <2>5. ASSUME NEW i \in 1..m
        PROVE  g[i] = IF s[i] \in T THEN Append(g[i - 1], s[i]) ELSE g[i - 1]
    <3>1. CASE i = m
      <4>1. g[i] = last /\ g[i - 1] = f[k]
        <5> HIDE DEF last
        <5> QED BY <2>1, <3>1
      <4> QED BY <3>1, <4>1, Zenon
    <3>2. CASE i # m
      <4>1. g[i] = f[i] /\ g[i - 1] = f[i - 1] /\ i \in 1..k
        <5> HIDE DEF last
        <5> QED BY <2>1, <3>2
      <4>2. f[i] = IF s[i] \in T THEN Append(f[i - 1], s[i]) ELSE f[i - 1]
        BY <2>2, <4>1, Zenon DEF Selects
      <4> QED BY <4>1, <4>2, Zenon
    <3> QED BY <3>1, <3>2
  <2>6. g[0] = <<>>
    <3>1. f[0] = <<>>
      BY <2>2 DEF Selects
    <3> HIDE DEF last
    <3> QED BY <2>1, <3>1
  <2>7. Selects(s, T, g, m)
    BY <2>5, <2>6, Zenon DEF Selects
  <2> HIDE DEF g
  <2> QED BY <2>4, <2>7
<1>3. Nat \subseteq Has
  <2> HIDE DEF Has
  <2> QED BY <1>1, <1>2, Inductive
<1> QED BY <1>3

\* Only keeps to the elements in T, and keeps one when there is one.
LEMMA OnlyKeeps ==
  ASSUME NEW S, NEW s \in Seq(S), NEW T
  PROVE  /\ Only(s, T) \in Seq(S \cap T)
         /\ (\E i \in DOMAIN s : s[i] \in T) => Only(s, T) # <<>>
<1> DEFINE E(f) == f = [i \in 0..Len(s) |->
                         IF i = 0 THEN <<>>
                         ELSE IF s[i] \in T THEN Append(f[i - 1], s[i]) ELSE f[i - 1]]
           ch == CHOOSE f : E(f)
<1>1. Only(s, T) = ch[Len(s)]
  BY DEF Only
<1>2. \E f : E(f)
  <2>0. Len(s) \in 0..Len(s)
    OBVIOUS
  <2>1. PICK f \in [0..Len(s) -> Seq(S)] : Selects(s, T, f, Len(s))
    <3> HIDE DEF E
    <3> QED BY <2>0, SelectsExist
  <2>2. ASSUME NEW i \in 0..Len(s)
        PROVE  f[i] = IF i = 0 THEN <<>>
                      ELSE IF s[i] \in T THEN Append(f[i - 1], s[i]) ELSE f[i - 1]
    <3>1. i # 0 => i \in 1..Len(s)
      OBVIOUS
    <3> QED BY <2>1, <3>1, Zenon DEF Selects
  <2>3. f = [i \in 0..Len(s) |-> f[i]]
    BY <2>1
  <2>4. E(f)
    BY <2>2, <2>3, Zenon
  <2> QED BY <2>4, Zenon
<1>3. ch = [i \in 0..Len(s) |->
              IF i = 0 THEN <<>>
              ELSE IF s[i] \in T THEN Append(ch[i - 1], s[i]) ELSE ch[i - 1]]
  BY <1>2, Zenon
<1> HIDE DEF ch
<1>4. Len(s) \in Nat
  OBVIOUS
<1>5. Selects(s, T, ch, Len(s))
  <2>1. \A i \in 0..Len(s) : ch[i] = IF i = 0 THEN <<>>
                ELSE IF s[i] \in T THEN Append(ch[i - 1], s[i]) ELSE ch[i - 1]
    BY <1>3, Zenon
  <2>2. 0 \in 0..Len(s) /\ \A i \in 1..Len(s) : i \in 0..Len(s) /\ i # 0
    BY <1>4
  <2> QED BY <2>1, <2>2, Zenon DEF Selects
<1> DEFINE Has == {j \in Nat : j <= Len(s) =>
                     /\ ch[j] \in Seq(S \cap T)
                     /\ (\E i \in 1..j : s[i] \in T) => ch[j] # <<>>}
<1>6. 0 \in Has
  <2>1. ch[0] = <<>> /\ <<>> \in Seq(S \cap T)
    BY <1>5 DEF Selects
  <2>2. ~\E i \in 1..0 : s[i] \in T
    OBVIOUS
  <2> QED BY <2>1, <2>2, Zenon
<1>7. ASSUME NEW j \in Nat, j \in Has PROVE j + 1 \in Has
  <2> SUFFICES ASSUME NEW m, m = j + 1, m <= Len(s)
               PROVE  /\ ch[m] \in Seq(S \cap T)
                      /\ (\E i \in 1..m : s[i] \in T) => ch[m] # <<>>
    OBVIOUS
  <2>1. m \in 1..Len(s) /\ m - 1 = j /\ j <= Len(s) /\ \A i \in 1..m : i = m \/ i \in 1..j
    BY <1>4
  <2>2. ch[m] = IF s[m] \in T THEN Append(ch[m - 1], s[m]) ELSE ch[m - 1]
    BY <1>5, <2>1, Zenon DEF Selects
  <2>3. /\ ch[j] \in Seq(S \cap T)
        /\ (\E i \in 1..j : s[i] \in T) => ch[j] # <<>>
    BY <1>7, <2>1
  <2> HIDE DEF Has
  <2>4. CASE s[m] \in T
    <3>1. ch[m] = Append(ch[j], s[m]) /\ s[m] \in S \cap T
      BY <2>1, <2>2, <2>4
    <3>2. Append(ch[j], s[m]) \in Seq(S \cap T) /\ Append(ch[j], s[m]) # <<>>
      <4> DEFINE U == S \cap T
                 e == s[m]
                 b == ch[j]
      <4>1. b \in Seq(U) /\ e \in U
        BY <2>3, <3>1
      <4> HIDE DEF U, e, b
      <4>2. Append(b, e) \in Seq(U) /\ Append(b, e) # <<>>
        BY <4>1, AppendIs
      <4> QED BY <4>2 DEF U, e, b
    <3> QED BY <3>1, <3>2
  <2>5. CASE s[m] \notin T
    <3>1. ch[m] = ch[j]
      BY <2>1, <2>2, <2>5
    <3>2. (\E i \in 1..m : s[i] \in T) => \E i \in 1..j : s[i] \in T
      BY <2>1, <2>5
    <3> QED BY <2>3, <3>1, <3>2
  <2> QED BY <2>4, <2>5
<1>8. Nat \subseteq Has
  <2> HIDE DEF Has
  <2> QED BY <1>6, <1>7, Inductive
<1>9. /\ ch[Len(s)] \in Seq(S \cap T)
      /\ (\E i \in 1..Len(s) : s[i] \in T) => ch[Len(s)] # <<>>
  BY <1>4, <1>8
<1>10. DOMAIN s = 1..Len(s)
  OBVIOUS
<1> QED BY <1>1, <1>9, <1>10

-----------------------------------------------------------------------------
(* What is known of schemas, rows, and the instance.                       *)

\* Widening a field leaves it in its family.
Family(t) == CASE t = "long" -> "int" [] t = "double" -> "float" [] OTHER -> t

FieldsUpTo(n) == [id : 1..n, name : Names, type : Types, required : BOOLEAN]
AllFields(ss) == UNION {ToSet(ss[k]) : k \in DOMAIN ss}

\* A field id stands for one field through all the schemas.
SchemaInv(ss, n) ==
  /\ n \in Nat /\ ss \in Seq(Seq(FieldsUpTo(n)))
  /\ \A f, g \in AllFields(ss) : f.id = g.id => Family(f.type) = Family(g.type)

\* x is what a conversion may make of m.
Fits(t, x, m) == Kept(t, x) = Kept(t, m) /\ (x = Null <=> Kept(t, m) = Null)

Cells == {x \in Values : x.shape = "null" => x = Null}
CellMaps(n) == UNION {[S -> Cells] : S \in SUBSET (1..n)}

\* Stored values fit the field in whatever schema it is.
Stored(ss, n) ==
  {r \in [is : CellMaps(n), meant : CellMaps(n), aligned : BOOLEAN] :
     /\ DOMAIN r.meant = DOMAIN r.is
     /\ r.aligned => \A f \in AllFields(ss) :
                       f.id \in DOMAIN r.is => Fits(f.type, r.is[f.id], r.meant[f.id])}

Files(ss, n) == Seq(Stored(ss, n)) \ {<<>>}
SnapInv(ss, n, s) ==
  /\ s = [schema |-> s.schema, files |-> s.files]
  /\ s.schema \in 0..Len(ss) /\ s.files \in Seq(Files(ss, n))
  /\ s.schema = 0 => s.files = <<>>

\* The columns of the foreign table are fields of the schema.
HasAll(schema, cols) == \A i \in DOMAIN cols : HasName(schema, cols[i].name)

ReadsRight(schema, cols, r) ==
  r.stored.aligned =>
    \A i \in DOMAIN cols :
      Fits(FieldOf(schema, cols[i].name).type, r.cells[i], Meant(schema, r.stored, cols[i].name))

Returned(ss, n, schema, cols) ==
  {r \in [stored : Stored(ss, n), cells : [DOMAIN cols -> Values]] : ReadsRight(schema, cols, r)}

\* A cell of an INSERT for a column of type c.
CellFor(c, x) ==
  x = Null \/ (x \in Values /\ x.shape \in (IF c = "jsonb" THEN {"object", "array"} ELSE {"plain"}))

StagedRows(cols) ==
  {cells \in [DOMAIN cols -> Cells] : \A i \in DOMAIN cols : CellFor(cols[i].type, cells[i])}

ForeignInv ==
  /\ foreign = [cols |-> foreign.cols, pin |-> foreign.pin, create |-> foreign.create]
  /\ foreign.cols \in Seq([name : Names, type : ColumnTypes])
  /\ foreign.create \in BOOLEAN /\ foreign.pin \in 1..Len(schemas) \cup {None}

InstOf(x, ss, n, cols) ==
  /\ x = [loaded |-> x.loaded, snap |-> x.snap, src |-> x.src, stream |-> x.stream,
          json |-> <<>>, rows |-> x.rows, staged |-> x.staged]
  /\ x.loaded \in 0..Len(ss) /\ x.src \in Seq(FieldsUpTo(n))
  /\ SnapInv(ss, n, x.snap)
  /\ x.stream \in Seq({b \in Files(ss, n) : Len(b) <= ReadBatch})
  /\ x.staged \in Seq(StagedRows(cols)) /\ Len(x.staged) < WriteBatch

InstInv(x) == InstOf(x, schemas, ids, foreign.cols)

\* The rows of an instance that scans, and the one it returned, under a schema
\* that has every column.
ScanInv(x, row) ==
  /\ x.snap.schema = 0 => x.stream = <<>> /\ x.rows = <<>> /\ row = None
  /\ x.snap.schema # 0 =>
       LET now == Returned(schemas, ids, schemas[x.snap.schema], foreign.cols) IN
       /\ HasAll(schemas[x.snap.schema], foreign.cols)
       /\ x.rows \in Seq(now) /\ (row # None => row \in now)
  /\ Len(x.rows) < ReadBatch

ModeInv ==
  /\ mode \in {"idle", "scan", "insert"}
  /\ mode = "idle" => inst = Fresh
  /\ mode = "insert" => inst.loaded # 0 /\ inst.rows = <<>>
  /\ mode # "scan" => shown = None
  /\ mode = "scan" => schemas # <<>> /\ ScanInv(inst, shown)

TableInv ==
  SchemaInv(schemas, ids) /\ SnapInv(schemas, ids, snap) /\ ForeignInv /\ InstInv(inst) /\ ModeInv

-----------------------------------------------------------------------------
(* Conversions.                                                            *)

LEMMA WholeIs ==
  ASSUME NEW x \in Values
  PROVE  /\ Whole(x) \in Values /\ Whole(x).shape = x.shape /\ Whole(x).v <= x.v
         /\ Whole(Whole(x)) = Whole(x)
<1>1. x = [shape |-> x.shape, v |-> x.v] /\ x.v \in Nat
  BY DEF Values
<1>2. Whole(x) = [shape |-> x.shape, v |-> x.v - (x.v % 10)]
  BY <1>1 DEF Whole
<1>3. /\ x.v - (x.v % 10) \in Nat /\ x.v - (x.v % 10) <= x.v
      /\ (x.v - (x.v % 10)) - ((x.v - (x.v % 10)) % 10) = x.v - (x.v % 10)
  BY <1>1
<1>4. PICK w \in Nat : w = x.v - (x.v % 10) /\ w <= x.v /\ w - (w % 10) = w
  BY <1>3
<1>5. Whole(x) = [shape |-> x.shape, v |-> w]
  BY <1>2, <1>4
<1>6. [shape |-> x.shape, v |-> w] \in Values
  BY <1>1 DEF Values
<1>7. Whole([shape |-> x.shape, v |-> w]) = [shape |-> x.shape, v |-> w - (w % 10)]
  BY DEF Whole
<1>8. Whole(Whole(x)) = Whole(x)
  BY <1>4, <1>5, <1>7
<1> QED BY <1>4, <1>5, <1>6, <1>8

\* A plain value, an object or an array is not NULL, and stays none.
LEMMA ShapedStays ==
  ASSUME NEW x \in Values, x.shape \in {"plain", "object", "array"}
  PROVE  x # Null /\ Whole(x) # Null /\ x \in Cells /\ Whole(x) \in Cells
<1>1. Null.shape = "null"
  BY DEF Null, Value
<1> QED BY <1>1, WholeIs DEF Cells

\* What fits a field fits it once it is widened, and before it was.
LEMMA FitsFamily ==
  ASSUME NEW t \in Types, NEW u \in Types, Family(t) = Family(u), NEW x, NEW m, Fits(t, x, m)
  PROVE  Fits(u, x, m)
<1>1. CASE t = u
  BY <1>1
<1>2. CASE t # u
  <2>1. {t, u} \subseteq {"int", "long", "float", "double"}
    BY <1>2 DEF Family, Types
  <2>2. \A y : Kept(t, y) = y /\ Kept(u, y) = y
    BY <2>1 DEF Kept
  <2> QED BY <2>2 DEF Fits
<1> QED BY <1>1, <1>2

LEMMA NullKept ==
  /\ Null \in Cells /\ Null.shape = "null" /\ Null.v = 0 /\ Whole(Null) = Null
  /\ \A t \in Types : Kept(t, Null) = Null
  /\ Error.shape = "error" /\ Error \notin Values
<1>1. Null = [shape |-> "null", v |-> 0] /\ Error = [shape |-> "error", v |-> 0]
  BY DEF Null, Error, Value
<1>2. Null \in Values /\ Error.shape = "error"
  BY <1>1 DEF Values
<1>3. Null \in Cells
  BY <1>1, <1>2 DEF Cells
<1>4. Whole(Null) = Null
  BY <1>1 DEF Whole
<1>5. Null.shape = "null" /\ Null.v = 0
  BY <1>1
<1>6. ASSUME NEW t \in Types PROVE Kept(t, Null) = Null
  <2>1. Kept(t, Null) \in {Null, Whole(Null)}
    BY <1>5 DEF Kept
  <2> QED BY <1>4, <2>1
<1>7. Error \notin Values
  BY <1>2 DEF Values
<1> QED BY <1>2, <1>3, <1>4, <1>5, <1>6, <1>7, Zenon

\* A cell is NULL or has a shape, and stays so.
LEMMA CellShapes ==
  ASSUME NEW x \in Cells
  PROVE  /\ x \in Values /\ Whole(x) \in Cells /\ (Whole(x) = Null <=> x = Null)
         /\ Value("plain", x.v) \in Cells
<1>1. x \in Values /\ (x.shape = "null" => x = Null)
  BY DEF Cells
<1>2. Whole(x) \in Values /\ Whole(x).shape = x.shape
  BY <1>1, WholeIs
<1>3. x = Null => Whole(x) = Null
  BY NullKept
<1>4. Whole(x) \in Cells
  BY <1>1, <1>2, <1>3 DEF Cells
<1>5. Whole(x) = Null => x = Null
  BY <1>1, <1>2, NullKept
<1>6. Value("plain", x.v) = [shape |-> "plain", v |-> x.v] /\ x.v \in Nat
  BY <1>1 DEF Value, Values
<1>7. [shape |-> "plain", v |-> x.v] \in Cells
  BY <1>6 DEF Cells, Values
<1> QED BY <1>1, <1>3, <1>4, <1>5, <1>6, <1>7

Numbers  == {"boolean", "int", "long", "float", "double"}
Decimals == {"decimal", "decimal0"}
Texts    == {"string", "binary", "uuid", "fixed"}
Times    == {"date", "time", "timestamp", "timestamptz", "timestamp_ns", "timestamptz_ns"}
Structs  == {"struct", "struct of others"}
Lists    == {"list", "list of others"}
Maps     == {"map", "map of others"}

LEMMA TypesAre == Types = Numbers \cup Decimals \cup Texts \cup Times \cup Structs \cup Lists \cup Maps
BY DEF Types, Numbers, Decimals, Texts, Times, Structs, Lists, Maps

LEMMA AppendsBy ==
  ASSUME NEW t, NEW c, NEW x
  PROVE  /\ t \in Numbers  => AppendArrayValue(t, c, x) = AppendNumber(t, c, x)
         /\ t \in Decimals => AppendArrayValue(t, c, x) = AppendDecimal(t, c, x)
         /\ t \in Texts    => AppendArrayValue(t, c, x) = AppendBytes(t, c, x)
         /\ t \in Times    => AppendArrayValue(t, c, x) = AppendTime(t, c, x)
         /\ t \in Structs  => AppendArrayValue(t, c, x) = AppendStruct(t, c, x)
         /\ t \in Lists    => AppendArrayValue(t, c, x) = AppendList(t, c, x)
         /\ t \in Maps     => AppendArrayValue(t, c, x) = AppendMap(t, c, x)
<1> DEFINE a == AppendNumber(t, c, x)
           b == AppendDecimal(t, c, x)
           d == AppendBytes(t, c, x)
           e == AppendTime(t, c, x)
           f == AppendStruct(t, c, x)
           g == AppendList(t, c, x)
           h == AppendMap(t, c, x)
<1>1. AppendArrayValue(t, c, x) =
        CASE t \in Numbers -> a [] t \in Decimals -> b [] t \in Texts -> d [] t \in Times -> e
          [] t \in Structs -> f [] t \in Lists -> g [] t \in Maps -> h
  BY Zenon DEF AppendArrayValue, Numbers, Decimals, Texts, Times, Structs, Lists, Maps
<1> HIDE DEF a, b, d, e, f, g, h
<1>2. t \in Numbers => AppendArrayValue(t, c, x) = a
  BY <1>1 DEF Numbers, Decimals, Texts, Times, Structs, Lists, Maps
<1>3. t \in Decimals => AppendArrayValue(t, c, x) = b
  BY <1>1 DEF Numbers, Decimals, Texts, Times, Structs, Lists, Maps
<1>4. t \in Texts => AppendArrayValue(t, c, x) = d
  BY <1>1 DEF Numbers, Decimals, Texts, Times, Structs, Lists, Maps
<1>5. t \in Times => AppendArrayValue(t, c, x) = e
  BY <1>1 DEF Numbers, Decimals, Texts, Times, Structs, Lists, Maps
<1>6. t \in Structs => AppendArrayValue(t, c, x) = f
  BY <1>1 DEF Numbers, Decimals, Texts, Times, Structs, Lists, Maps
<1>7. t \in Lists => AppendArrayValue(t, c, x) = g
  BY <1>1 DEF Numbers, Decimals, Texts, Times, Structs, Lists, Maps
<1>8. t \in Maps => AppendArrayValue(t, c, x) = h
  BY <1>1 DEF Numbers, Decimals, Texts, Times, Structs, Lists, Maps
<1> USE DEF a, b, d, e, f, g, h
<1> QED BY <1>2, <1>3, <1>4, <1>5, <1>6, <1>7, <1>8, Zenon

\* A builder makes of a cell NULL, an error, the cell, or less of it.
LEMMA AppendTyped ==
  ASSUME NEW t \in Types, NEW c, NEW x \in Cells
  PROVE  AppendArrayValue(t, c, x) \in Cells \cup {Error}
<1> DEFINE w == Whole(x)
           p == Value("plain", x.v)
           made == {Null, Error, x, w, p}
<1>1. made \subseteq Cells \cup {Error}
  BY NullKept, CellShapes
<1> HIDE DEF w, p
<1>2. CASE t \in Numbers
  <2>1. AppendNumber(t, c, x) \in made
    BY DEF AppendNumber, w
  <2> QED BY <1>1, <1>2, <2>1, AppendsBy
<1>3. CASE t \in Decimals
  <2>1. AppendDecimal(t, c, x) \in made
    BY DEF AppendDecimal, w
  <2> QED BY <1>1, <1>3, <2>1, AppendsBy
<1>4. CASE t \in Texts
  <2>1. AppendBytes(t, c, x) \in made
    BY DEF AppendBytes, p
  <2> QED BY <1>1, <1>4, <2>1, AppendsBy
<1>5. CASE t \in Times
  <2>1. AppendTime(t, c, x) \in made
    BY DEF AppendTime
  <2> QED BY <1>1, <1>5, <2>1, AppendsBy
<1>6. CASE t \in Structs
  <2>1. AppendStruct(t, c, x) \in made
    BY DEF AppendStruct, w
  <2> QED BY <1>1, <1>6, <2>1, AppendsBy
<1>7. CASE t \in Lists
  <2>1. AppendList(t, c, x) \in made
    BY DEF AppendList, w
  <2> QED BY <1>1, <1>7, <2>1, AppendsBy
<1>8. CASE t \in Maps
  <2>1. AppendMap(t, c, x) \in made
    BY DEF AppendMap, w
  <2> QED BY <1>1, <1>8, <2>1, AppendsBy
<1> QED BY <1>2, <1>3, <1>4, <1>5, <1>6, <1>7, <1>8, TypesAre, Zenon

\* Where the column suits the field, what a builder makes of a cell fits.
LEMMA AppendFits ==
  ASSUME NEW t \in Types, NEW c \in ColumnTypes, NEW x \in Cells, CellFor(c, x), Suits(c, t),
         AppendArrayValue(t, c, x) # Error
  PROVE  Fits(t, AppendArrayValue(t, c, x), x)
<1>0. None \notin ColumnTypes /\ c # None
  BY TableAssumption
<1>1. /\ x \in Values /\ x.v \in Nat /\ Whole(x) \in Values /\ Whole(Whole(x)) = Whole(x)
      /\ Whole(x).shape = x.shape /\ Whole(x).v <= x.v /\ Whole(x).v \in Nat
      /\ (Whole(x) = Null <=> x = Null)
  BY CellShapes, WholeIs DEF Values
<1>2. Kept(t, Null) = Null
  BY NullKept
<1>3. CASE t \in Numbers
  <2>1. Kept(t, x) = x
    BY <1>3 DEF Kept, Numbers
  <2>2. c \in NumberCells(t) /\ ~(t = "float" /\ c = "float8")
    <3>1. CASE t = "boolean"
      BY <3>1 DEF Suits, ImportedType, Alike, Nested, NumberCells
    <3>2. CASE t = "int"
      BY <3>2 DEF Suits, ImportedType, Alike, Nested, NumberCells
    <3>3. CASE t = "long"
      BY <3>3 DEF Suits, ImportedType, Alike, Nested, NumberCells
    <3>4. CASE t = "float"
      BY <3>4 DEF Suits, ImportedType, Alike, Nested, NumberCells
    <3>5. CASE t = "double"
      BY <3>5 DEF Suits, ImportedType, Alike, Nested, NumberCells
    <3> QED BY <1>3, <3>1, <3>2, <3>3, <3>4, <3>5, Zenon DEF Numbers
  <2>3. AppendNumber(t, c, x) = x
    BY <2>2 DEF AppendNumber
  <2>4. AppendArrayValue(t, c, x) = x
    BY <1>3, <2>3, AppendsBy
  <2> QED BY <2>1, <2>4 DEF Fits
<1>4. CASE t \in Decimals
  <2>1. c \in {"numeric", "any numeric"}
    BY <1>4 DEF Suits, ImportedType, Alike, Nested, Decimals
  <2>2. AppendArrayValue(t, c, x) = AppendDecimal(t, c, x)
    BY <1>4, AppendsBy
  <2>3. CASE x.v >= 1000
    <3>1. AppendDecimal(t, c, x) = Null
      BY <2>3 DEF AppendDecimal
    <3>2. Kept(t, x) = Null
      BY <1>4, <2>3 DEF Kept, Decimals
    <3> QED BY <1>2, <2>2, <3>1, <3>2 DEF Fits
  <2>4. CASE ~(x.v >= 1000) /\ t = "decimal"
    <3>1. AppendDecimal(t, c, x) = x
      BY <2>1, <2>4 DEF AppendDecimal
    <3>2. Kept(t, x) = x
      BY <2>4 DEF Kept
    <3> QED BY <2>2, <3>1, <3>2 DEF Fits
  <2>5. CASE ~(x.v >= 1000) /\ t = "decimal0"
    <3>1. AppendDecimal(t, c, x) = Whole(x)
      BY <2>1, <2>5 DEF AppendDecimal
    <3>2. Kept(t, x) = Whole(x)
      BY <2>5 DEF Kept
    <3>3. ~(Whole(x).v >= 1000)
      BY <1>1, <2>5
    <3>4. Kept(t, Whole(x)) = Whole(x)
      BY <1>1, <2>5, <3>3 DEF Kept
    <3> QED BY <2>2, <3>1, <3>2, <3>4 DEF Fits
  <2> QED BY <1>4, <2>3, <2>4, <2>5 DEF Decimals
<1>5. CASE t \in Texts
  <2>1. Kept(t, x) = x
    BY <1>5 DEF Kept, Texts
  <2>2. c = ImportedType(t)
    BY <1>5 DEF Suits, Texts
  <2>3. AppendBytes(t, c, x) = x
    <3>1. CASE t = "string"
      BY <2>2, <3>1 DEF AppendBytes, ImportedType, Alike, Nested
    <3>2. CASE t = "binary"
      BY <2>2, <3>2 DEF AppendBytes, ImportedType, Alike, Nested
    <3>3. CASE t = "uuid"
      BY <2>2, <3>3 DEF AppendBytes, ImportedType, Alike, Nested
    <3>4. CASE t = "fixed"
      BY <1>0, <2>2, <3>4 DEF ImportedType, Alike, Nested
    <3> QED BY <1>5, <3>1, <3>2, <3>3, <3>4, Zenon DEF Texts
  <2>4. AppendArrayValue(t, c, x) = x
    BY <1>5, <2>3, AppendsBy
  <2> QED BY <2>1, <2>4 DEF Fits
<1>6. CASE t \in Times
  <2>1. c = ImportedType(t)
    BY <1>6 DEF Suits, Times
  <2>2. t \notin {"timestamp_ns", "timestamptz_ns"}
    BY <1>0, <2>1 DEF ImportedType, Alike, Nested
  <2>3. c = t
    BY <1>6, <2>1, <2>2 DEF ImportedType, Alike, Nested, Times
  <2>4. AppendArrayValue(t, c, x) = x
    BY <1>6, <2>2, <2>3, AppendsBy DEF AppendTime
  <2>5. Kept(t, x) = x \/ Kept(t, x) = Whole(x)
    BY <1>6 DEF Kept, Times
  <2> QED BY <1>1, <2>4, <2>5 DEF Fits
<1>7. CASE t \in Structs
  <2>1. c = "jsonb"
    BY <1>7 DEF Suits, ImportedType, Alike, Nested, Structs
  <2>2. AppendArrayValue(t, c, x) = IF x.shape = "object" THEN Whole(x) ELSE Null
    BY <1>7, <2>1, AppendsBy DEF AppendStruct
  <2>3. Kept(t, x) = IF x.shape = "object" THEN Whole(x) ELSE Null
    BY <1>7 DEF Kept, Structs
  <2>4. x.shape = "object" => Kept(t, Whole(x)) = Whole(x)
    BY <1>1, <1>7 DEF Kept, Structs
  <2> QED BY <1>2, <2>2, <2>3, <2>4 DEF Fits
<1>8. CASE t \in Lists
  <2>1. c = "jsonb"
    BY <1>8 DEF Suits, ImportedType, Alike, Nested, Lists
  <2>2. AppendArrayValue(t, c, x) = IF x = Null THEN Null ELSE Whole(x)
    BY <1>8, <2>1, AppendsBy DEF AppendList
  <2>3. x # Null => x.shape = "array"
    BY <1>8, <2>1, AppendsBy DEF AppendList
  <2>4. x.shape = "array" => Kept(t, x) = Whole(x) /\ Kept(t, Whole(x)) = Whole(x)
    BY <1>1, <1>8 DEF Kept, Lists
  <2>5. CASE x = Null
    <3>1. AppendArrayValue(t, c, x) = Null
      BY <2>2, <2>5
    <3> QED BY <1>2, <2>5, <3>1 DEF Fits
  <2>6. CASE x # Null
    <3>1. AppendArrayValue(t, c, x) = Whole(x)
      BY <2>2, <2>6
    <3> QED BY <2>3, <2>4, <2>6, <3>1 DEF Fits
  <2> QED BY <2>5, <2>6
<1>9. CASE t \in Maps
  <2>1. c = "jsonb"
    BY <1>9 DEF Suits, ImportedType, Alike, Nested, Maps
  <2>2. AppendArrayValue(t, c, x) = IF x.shape = "object" THEN Whole(x) ELSE Null
    BY <1>9, <2>1, AppendsBy DEF AppendMap
  <2>3. Kept(t, x) = IF x.shape = "object" THEN Whole(x) ELSE Null
    BY <1>9 DEF Kept, Maps
  <2>4. x.shape = "object" => Kept(t, Whole(x)) = Whole(x)
    BY <1>1, <1>9 DEF Kept, Maps
  <2> QED BY <1>2, <2>2, <2>3, <2>4 DEF Fits
<1> QED BY <1>3, <1>4, <1>5, <1>6, <1>7, <1>8, <1>9, TypesAre, Zenon

-----------------------------------------------------------------------------
(* Schema evolution.                                                       *)

\* ss2 has the schemas of ss, with the same number, and no other field under an id
\* that was given out before.
Grows(ss, n, ss2, m) ==
  /\ n <= m /\ Len(ss) <= Len(ss2) /\ \A k \in DOMAIN ss : ss2[k] = ss[k]
  /\ \A f \in AllFields(ss2) :
       f.id <= n => \E g \in AllFields(ss) : g.id = f.id /\ Family(g.type) = Family(f.type)

LEMMA FieldsTyped ==
  ASSUME NEW ss, NEW n, SchemaInv(ss, n)
  PROVE  AllFields(ss) \subseteq FieldsUpTo(n)
<1> SUFFICES ASSUME NEW k \in DOMAIN ss, NEW f \in ToSet(ss[k]) PROVE f \in FieldsUpTo(n)
  BY DEF AllFields
<1>1. ss[k] \in Seq(FieldsUpTo(n))
  BY DEF SchemaInv
<1>2. PICK i \in DOMAIN ss[k] : f = ss[k][i]
  BY DEF ToSet
<1> QED BY <1>1, <1>2

LEMMA StoredGrows ==
  ASSUME NEW ss, NEW n, NEW ss2, NEW m, SchemaInv(ss, n), SchemaInv(ss2, m), Grows(ss, n, ss2, m)
  PROVE  Stored(ss, n) \subseteq Stored(ss2, m) /\ FieldsUpTo(n) \subseteq FieldsUpTo(m)
<1>0. n \in Nat /\ m \in Nat /\ n <= m
  BY DEF SchemaInv, Grows
<1>1. FieldsUpTo(n) \subseteq FieldsUpTo(m)
  BY <1>0 DEF FieldsUpTo
<1>2. CellMaps(n) \subseteq CellMaps(m)
  <2>1. SUBSET (1..n) \subseteq SUBSET (1..m)
    BY <1>0
  <2> QED BY <2>1 DEF CellMaps
<1>3. ASSUME NEW r \in Stored(ss, n) PROVE r \in Stored(ss2, m)
  <2>1. /\ r \in [is : CellMaps(n), meant : CellMaps(n), aligned : BOOLEAN]
        /\ DOMAIN r.meant = DOMAIN r.is
        /\ r.aligned => \A f \in AllFields(ss) :
                          f.id \in DOMAIN r.is => Fits(f.type, r.is[f.id], r.meant[f.id])
    BY <1>3, Zenon DEF Stored
  <2>2. r \in [is : CellMaps(m), meant : CellMaps(m), aligned : BOOLEAN]
    BY <1>2, <2>1
  <2>3. PICK S \in SUBSET (1..n) : r.is \in [S -> Cells]
    BY <2>1 DEF CellMaps
  <2>4. DOMAIN r.is \subseteq 1..n
    BY <2>3
  <2>5. ASSUME r.aligned, NEW f \in AllFields(ss2), f.id \in DOMAIN r.is
        PROVE  Fits(f.type, r.is[f.id], r.meant[f.id])
    <3>1. f.id <= n
      BY <1>0, <2>4, <2>5
    <3>2. PICK g \in AllFields(ss) : g.id = f.id /\ Family(g.type) = Family(f.type)
      BY <3>1 DEF Grows
    <3>3. Fits(g.type, r.is[f.id], r.meant[f.id])
      BY <2>1, <2>5, <3>2
    <3>4. f \in FieldsUpTo(m) /\ g \in FieldsUpTo(n)
      BY FieldsTyped
    <3>5. f.type \in Types /\ g.type \in Types
      BY <3>4 DEF FieldsUpTo
    <3> QED BY <3>2, <3>3, <3>5, FitsFamily
  <2> QED BY <2>1, <2>2, <2>5, Zenon DEF Stored
<1> QED BY <1>1, <1>3

LEMMA FilesGrow ==
  ASSUME NEW ss, NEW n, NEW ss2, NEW m, SchemaInv(ss, n), SchemaInv(ss2, m), Grows(ss, n, ss2, m)
  PROVE  /\ Files(ss, n) \subseteq Files(ss2, m)
         /\ \A s : SnapInv(ss, n, s) => SnapInv(ss2, m, s)
         /\ \A schema, cols : Returned(ss, n, schema, cols) \subseteq Returned(ss2, m, schema, cols)
<1>1. Stored(ss, n) \subseteq Stored(ss2, m)
  BY StoredGrows
<1>2. Files(ss, n) \subseteq Files(ss2, m)
  BY <1>1 DEF Files
<1>3. ASSUME NEW s, SnapInv(ss, n, s) PROVE SnapInv(ss2, m, s)
  <2>1. Len(ss) \in Nat /\ Len(ss2) \in Nat /\ Len(ss) <= Len(ss2)
    BY DEF SchemaInv, Grows
  <2>2. s.schema \in 0..Len(ss2) /\ s.files \in Seq(Files(ss2, m))
    BY <1>2, <1>3, <2>1 DEF SnapInv
  <2> QED BY <1>3, <2>2 DEF SnapInv
<1>4. ASSUME NEW schema, NEW cols
      PROVE  Returned(ss, n, schema, cols) \subseteq Returned(ss2, m, schema, cols)
  BY <1>1 DEF Returned
<1> QED BY <1>2, <1>3, <1>4

\* A schema more, of which each field is an old one, renamed or widened perhaps,
\* or has an id of its own.
LEMMA SchemaAppended ==
  ASSUME NEW ss, NEW n, SchemaInv(ss, n), NEW m \in Nat, n <= m, NEW s \in Seq(FieldsUpTo(m)),
         \A f \in ToSet(s) :
           \/ \E g \in AllFields(ss) : g.id = f.id /\ Family(g.type) = Family(f.type)
           \/ f.id > n /\ \A g \in ToSet(s) : g.id = f.id => g = f
  PROVE  SchemaInv(Append(ss, s), m) /\ Grows(ss, n, Append(ss, s), m)
<1>0. n \in Nat /\ ss \in Seq(Seq(FieldsUpTo(n)))
  BY DEF SchemaInv
<1>1. FieldsUpTo(n) \subseteq FieldsUpTo(m)
  BY <1>0 DEF FieldsUpTo
<1>2. ss \in Seq(Seq(FieldsUpTo(m)))
  BY <1>0, <1>1
<1> DEFINE ss2 == Append(ss, s)
<1>3. /\ ss2 \in Seq(Seq(FieldsUpTo(m))) /\ Len(ss2) = Len(ss) + 1 /\ Len(ss) \in Nat
      /\ \A k \in DOMAIN ss : ss2[k] = ss[k]
      /\ DOMAIN ss = 1..Len(ss) /\ DOMAIN ss2 = 1..(Len(ss) + 1) /\ ss2[Len(ss) + 1] = s
  BY <1>2
<1> HIDE DEF ss2
<1>4. AllFields(ss2) = AllFields(ss) \cup ToSet(s)
  <2>1. ASSUME NEW f \in AllFields(ss2) PROVE f \in AllFields(ss) \cup ToSet(s)
    <3>1. PICK k \in DOMAIN ss2 : f \in ToSet(ss2[k])
      BY DEF AllFields
    <3>2. k \in DOMAIN ss \/ k = Len(ss) + 1
      BY <1>3
    <3>3. k \in DOMAIN ss => f \in AllFields(ss)
      BY <1>3, <3>1 DEF AllFields
    <3>4. k = Len(ss) + 1 => f \in ToSet(s)
      BY <1>3, <3>1
    <3> QED BY <3>2, <3>3, <3>4
  <2>2. ASSUME NEW f \in AllFields(ss) PROVE f \in AllFields(ss2)
    <3>1. PICK k \in DOMAIN ss : f \in ToSet(ss[k])
      BY DEF AllFields
    <3>2. k \in DOMAIN ss2 /\ ss2[k] = ss[k]
      BY <1>3
    <3> QED BY <3>1, <3>2 DEF AllFields
  <2>3. ToSet(s) \subseteq AllFields(ss2)
    <3>1. Len(ss) + 1 \in DOMAIN ss2
      BY <1>3
    <3> QED BY <1>3, <3>1 DEF AllFields
  <2> QED BY <2>1, <2>2, <2>3
<1>5. AllFields(ss) \subseteq FieldsUpTo(n)
  BY FieldsTyped
<1>6. ASSUME NEW f \in AllFields(ss2), f.id <= n
      PROVE  \E g \in AllFields(ss) : g.id = f.id /\ Family(g.type) = Family(f.type)
  <2>1. CASE f \in AllFields(ss)
    BY <2>1
  <2>2. CASE f \in ToSet(s)
    <3>1. PICK i \in DOMAIN s : f = s[i]
      BY <2>2 DEF ToSet
    <3>2. f \in FieldsUpTo(m)
      BY <3>1
    <3>3. f.id \in Nat
      BY <3>2 DEF FieldsUpTo
    <3>4. ~(f.id > n)
      BY <1>0, <1>6, <3>3
    <3> QED BY <2>2, <3>4
  <2> QED BY <1>4, <2>1, <2>2
<1>7. ASSUME NEW f \in AllFields(ss2), NEW g \in AllFields(ss2), f.id = g.id
      PROVE  Family(f.type) = Family(g.type)
  <2>0. \A h, k \in AllFields(ss) : h.id = k.id => Family(h.type) = Family(k.type)
    BY DEF SchemaInv
  <2>1. CASE f.id <= n
    <3>1. PICK h \in AllFields(ss) : h.id = f.id /\ Family(h.type) = Family(f.type)
      BY <1>6, <2>1
    <3>2. PICK k \in AllFields(ss) : k.id = g.id /\ Family(k.type) = Family(g.type)
      BY <1>6, <1>7, <2>1
    <3> QED BY <1>7, <2>0, <3>1, <3>2
  <2>2. CASE ~(f.id <= n)
    <3>1. f \notin AllFields(ss) /\ g \notin AllFields(ss)
      <4>1. \A h \in AllFields(ss) : h.id <= n
        BY <1>0, <1>5 DEF FieldsUpTo
      <4> QED BY <1>7, <2>2, <4>1
    <3>2. f \in ToSet(s) /\ g \in ToSet(s)
      BY <1>4, <3>1
    <3>3. ~\E h \in AllFields(ss) : h.id = f.id /\ Family(h.type) = Family(f.type)
      <4>1. \A h \in AllFields(ss) : h.id <= n
        BY <1>0, <1>5 DEF FieldsUpTo
      <4> QED BY <2>2, <4>1
    <3>4. g = f
      BY <1>7, <3>2, <3>3
    <3> QED BY <3>4
  <2> QED BY <2>1, <2>2
<1>8. SchemaInv(ss2, m)
  BY <1>3, <1>7 DEF SchemaInv
<1>9. Grows(ss, n, ss2, m)
  BY <1>3, <1>6 DEF Grows
<1> QED BY <1>8, <1>9 DEF ss2

LEMMA TableInvGrows ==
  ASSUME TableInv, SchemaInv(schemas', ids'), Grows(schemas, ids, schemas', ids'),
         UNCHANGED <<snap, foreign, mode, inst, shown>>
  PROVE  TableInv'
<1>0. SchemaInv(schemas, ids) /\ Len(schemas) \in Nat /\ Len(schemas') \in Nat
      /\ Len(schemas) <= Len(schemas') /\ DOMAIN schemas = 1..Len(schemas)
  BY DEF TableInv, SchemaInv, Grows
<1>1. SnapInv(schemas, ids, snap) => SnapInv(schemas, ids, snap)'
  BY <1>0, FilesGrow
<1>2. ForeignInv => ForeignInv'
  BY <1>0 DEF ForeignInv
<1>3. FieldsUpTo(ids) \subseteq FieldsUpTo(ids')
  BY <1>0, StoredGrows
<1>4. SnapInv(schemas, ids, inst.snap) => SnapInv(schemas', ids', inst'.snap)
  BY <1>0, FilesGrow
<1>5. {b \in Files(schemas, ids) : Len(b) <= ReadBatch}
        \subseteq {b \in Files(schemas', ids') : Len(b) <= ReadBatch}
  BY <1>0, FilesGrow
<1>6. InstInv(inst) => InstInv(inst)'
  BY <1>0, <1>3, <1>4, <1>5 DEF InstInv, InstOf
<1>7. ASSUME ScanInv(inst, shown), inst.snap.schema \in 0..Len(schemas) PROVE ScanInv(inst, shown)'
  <2>1. CASE inst.snap.schema = 0
    BY <1>7, <2>1 DEF ScanInv
  <2>2. CASE inst.snap.schema # 0
    <3> DEFINE k == inst.snap.schema
               old == Returned(schemas, ids, schemas[k], foreign.cols)
               new == Returned(schemas', ids', schemas'[k], foreign.cols)
    <3>1. k \in DOMAIN schemas
      BY <1>0, <1>7, <2>2
    <3>2. schemas'[k] = schemas[k]
      BY <3>1, Zenon DEF Grows
    <3>3. old \subseteq new
      BY <1>0, <3>2, FilesGrow
    <3>4. /\ HasAll(schemas[k], foreign.cols) /\ inst.rows \in Seq(old)
          /\ (shown # None => shown \in old) /\ Len(inst.rows) < ReadBatch
      BY <1>7, <2>2 DEF ScanInv
    <3>5. inst.rows \in Seq(new) /\ (shown # None => shown \in new)
      BY <3>3, <3>4
    <3> QED BY <2>2, <3>2, <3>4, <3>5 DEF ScanInv
  <2> QED BY <2>1, <2>2
<1>8. InstInv(inst) => inst.snap.schema \in 0..Len(schemas)
  BY DEF InstInv, InstOf, SnapInv
<1>10. schemas # <<>> => schemas' # <<>>
  <2>1. SchemaInv(schemas', ids')
    OBVIOUS
  <2> QED BY <1>0, <2>1 DEF SchemaInv
<1>9. InstInv(inst) /\ ModeInv => ModeInv'
  BY <1>7, <1>8, <1>10 DEF ModeInv
<1> QED BY <1>1, <1>2, <1>6, <1>9 DEF TableInv

-----------------------------------------------------------------------------
(* What others do to the table.                                            *)

LEMMA CurrentIs ==
  ASSUME SchemaInv(schemas, ids), schemas # <<>>
  PROVE  /\ Current \in Seq(FieldsUpTo(ids)) /\ ToSet(Current) \subseteq AllFields(schemas)
         /\ Current = schemas[Len(schemas)] /\ Len(schemas) \in DOMAIN schemas /\ Len(schemas) \in Nat
         /\ \A i \in DOMAIN Current : Current[i] \in ToSet(Current) /\ Current[i] \in FieldsUpTo(ids)
<1>1. Len(schemas) \in DOMAIN schemas /\ schemas \in Seq(Seq(FieldsUpTo(ids)))
  BY DEF SchemaInv
<1>2. Current = schemas[Len(schemas)]
  BY DEF Current, Last
<1>3. Current \in Seq(FieldsUpTo(ids)) /\ ToSet(Current) \subseteq AllFields(schemas)
  BY <1>1, <1>2 DEF AllFields
<1>4. \A i \in DOMAIN Current : Current[i] \in ToSet(Current) /\ Current[i] \in FieldsUpTo(ids)
  BY <1>3 DEF ToSet
<1> QED BY <1>1, <1>2, <1>3, <1>4

\* A schema of the fields there are, renamed or widened perhaps.
LEMMA EvolveKeeps ==
  ASSUME TableInv, schemas # <<>>, NEW s \in Seq(FieldsUpTo(ids)), Evolve(s), UNCHANGED ids,
         \A i \in DOMAIN s : \E f \in ToSet(Current) :
           f.id = s[i].id /\ Family(f.type) = Family(s[i].type)
  PROVE  TableInv'
<1>1. SchemaInv(schemas, ids) /\ ids \in Nat
  BY DEF TableInv, SchemaInv
<1>2. \A f \in ToSet(s) :
           \/ \E g \in AllFields(schemas) : g.id = f.id /\ Family(g.type) = Family(f.type)
           \/ f.id > ids /\ \A g \in ToSet(s) : g.id = f.id => g = f
  <2>1. ToSet(Current) \subseteq AllFields(schemas)
    BY <1>1, CurrentIs
  <2>2. \A f \in ToSet(s) : \E i \in DOMAIN s : f = s[i]
    BY DEF ToSet
  <2> QED BY <2>1, <2>2
<1>3. schemas' = Append(schemas, s)
  BY DEF Evolve
<1>4. SchemaInv(schemas', ids') /\ Grows(schemas, ids, schemas', ids')
  BY <1>1, <1>2, <1>3, SchemaAppended
<1>5. UNCHANGED <<snap, foreign, mode, inst, shown>>
  BY DEF Evolve
<1> QED BY <1>4, <1>5, TableInvGrows

LEMMA AddKeeps ==
  ASSUME TableInv, schemas # <<>>, AddField
  PROVE  TableInv'
<1>1. SchemaInv(schemas, ids) /\ ids \in Nat
  BY DEF TableInv, SchemaInv
<1>2. PICK t \in Added, n \in Names :
        Evolve(Append(Current, Field(ids + 1, n, t, FALSE))) /\ ids' = ids + 1
  BY DEF AddField
<1> DEFINE f == Field(ids + 1, n, t, FALSE)
           s == Append(Current, f)
<1>3. f \in FieldsUpTo(ids + 1) /\ f.id = ids + 1
  BY <1>1, TableAssumption DEF Field, FieldsUpTo
<1>4. FieldsUpTo(ids) \subseteq FieldsUpTo(ids + 1)
  BY <1>1 DEF FieldsUpTo
<1> HIDE DEF f
<1>5. s \in Seq(FieldsUpTo(ids + 1)) /\ ToSet(s) \subseteq ToSet(Current) \cup {f}
  <2>1. Current \in Seq(FieldsUpTo(ids + 1))
    BY <1>1, <1>4, CurrentIs
  <2>2. s \in Seq(FieldsUpTo(ids + 1))
    BY <1>3, <2>1
  <2>3. ASSUME NEW i \in DOMAIN s PROVE s[i] = f \/ (i \in DOMAIN Current /\ s[i] = Current[i])
    <3>1. DOMAIN s = 1..(Len(Current) + 1) /\ s[Len(Current) + 1] = f
      BY <2>1
    <3>2. \A j \in 1..Len(Current) : s[j] = Current[j] /\ j \in DOMAIN Current
      BY <2>1
    <3> QED BY <2>1, <3>1, <3>2
  <2> QED BY <2>2, <2>3 DEF ToSet
<1> HIDE DEF s
<1>6. \A g \in ToSet(Current) : g \in AllFields(schemas) /\ g.id <= ids /\ g.id \in Nat
  <2>1. AllFields(schemas) \subseteq FieldsUpTo(ids)
    BY <1>1, FieldsTyped
  <2> QED BY <1>1, <2>1, CurrentIs DEF FieldsUpTo
<1>7. \A g \in ToSet(s) :
           \/ \E h \in AllFields(schemas) : h.id = g.id /\ Family(h.type) = Family(g.type)
           \/ g.id > ids /\ \A h \in ToSet(s) : h.id = g.id => h = g
  <2> SUFFICES ASSUME NEW g \in ToSet(s), g \notin AllFields(schemas)
               PROVE  g.id > ids /\ \A h \in ToSet(s) : h.id = g.id => h = g
    OBVIOUS
  <2>1. g = f
    BY <1>5, <1>6
  <2>2. g.id > ids
    BY <1>1, <1>3, <2>1
  <2>3. ASSUME NEW h \in ToSet(s), h.id = g.id PROVE h = g
    BY <1>1, <1>3, <1>5, <1>6, <2>1, <2>3
  <2> QED BY <2>2, <2>3
<1>8. schemas' = Append(schemas, s) /\ UNCHANGED <<snap, foreign, mode, inst, shown>>
  BY <1>2 DEF Evolve, s, f
<1>9. SchemaInv(schemas', ids') /\ Grows(schemas, ids, schemas', ids')
  BY <1>1, <1>2, <1>5, <1>7, <1>8, SchemaAppended
<1> QED BY <1>8, <1>9, TableInvGrows

\* A sequence without one of its elements has no others.
LEMMA RemoveKeeps ==
  ASSUME NEW S, NEW s \in Seq(S), NEW i \in DOMAIN s
  PROVE  RemoveAt(s, i) \in Seq(S) /\ \A k \in DOMAIN RemoveAt(s, i) : \E j \in DOMAIN s : RemoveAt(s, i)[k] = s[j]
<1> DEFINE a == SubSeq(s, 1, i - 1)
           b == SubSeq(s, i + 1, Len(s))
<1>1. a \in Seq(S) /\ b \in Seq(S)
  OBVIOUS
<1>2. \A k \in DOMAIN a : \E j \in DOMAIN s : a[k] = s[j]
  <2>1. \A k \in DOMAIN a : k \in 1..(i - 1) /\ a[k] = s[k]
    OBVIOUS
  <2>2. 1..(i - 1) \subseteq DOMAIN s
    OBVIOUS
  <2> QED BY <2>1, <2>2
<1>3. \A k \in DOMAIN b : \E j \in DOMAIN s : b[k] = s[j]
  <2>1. \A k \in DOMAIN b : k + i \in DOMAIN s /\ b[k] = s[k + i]
    OBVIOUS
  <2> QED BY <2>1
<1>4. RemoveAt(s, i) = a \o b
  BY DEF RemoveAt
<1> HIDE DEF a, b
<1>5. \A k \in DOMAIN (a \o b) :
        (k \in DOMAIN a /\ (a \o b)[k] = a[k]) \/ (k - Len(a) \in DOMAIN b /\ (a \o b)[k] = b[k - Len(a)])
  BY <1>1
<1>6. \A k \in DOMAIN (a \o b) : \E j \in DOMAIN s : (a \o b)[k] = s[j]
  BY <1>2, <1>3, <1>5
<1> QED BY <1>1, <1>4, <1>6

LEMMA DropKeeps ==
  ASSUME TableInv, schemas # <<>>, DropField
  PROVE  TableInv'
<1>1. SchemaInv(schemas, ids)
  BY DEF TableInv
<1>2. PICK i \in DOMAIN Current : Evolve(RemoveAt(Current, i)) /\ UNCHANGED ids
  BY DEF DropField
<1>3. /\ RemoveAt(Current, i) \in Seq(FieldsUpTo(ids))
      /\ \A k \in DOMAIN RemoveAt(Current, i) : \E j \in DOMAIN Current : RemoveAt(Current, i)[k] = Current[j]
  BY <1>1, CurrentIs, RemoveKeeps
<1>4. \A k \in DOMAIN RemoveAt(Current, i) : \E f \in ToSet(Current) :
        f.id = RemoveAt(Current, i)[k].id /\ Family(f.type) = Family(RemoveAt(Current, i)[k].type)
  BY <1>1, <1>3, CurrentIs
<1> QED BY <1>2, <1>3, <1>4, EvolveKeeps

LEMMA MoveKeeps ==
  ASSUME TableInv, schemas # <<>>, MoveField
  PROVE  TableInv'
<1>1. SchemaInv(schemas, ids)
  BY DEF TableInv
<1>2. PICK i \in 2..Len(Current) :
        Evolve(<<Current[i]>> \o RemoveAt(Current, i)) /\ UNCHANGED ids
  BY DEF MoveField
<1> DEFINE rest == RemoveAt(Current, i)
           s == <<Current[i]>> \o rest
<1>3. i \in DOMAIN Current /\ Current \in Seq(FieldsUpTo(ids)) /\ Current[i] \in FieldsUpTo(ids)
  BY <1>1, CurrentIs
<1>4. /\ rest \in Seq(FieldsUpTo(ids))
      /\ \A k \in DOMAIN rest : \E j \in DOMAIN Current : rest[k] = Current[j]
  BY <1>3, RemoveKeeps
<1> HIDE DEF rest
<1>5. s \in Seq(FieldsUpTo(ids))
  BY <1>3, <1>4
<1>6. \A k \in DOMAIN s : s[k] = Current[i] \/ (k - 1 \in DOMAIN rest /\ s[k] = rest[k - 1])
  BY <1>3, <1>4
<1>7. \A k \in DOMAIN s : \E j \in DOMAIN Current : s[k] = Current[j]
  BY <1>3, <1>4, <1>6
<1> HIDE DEF s
<1>8. \A k \in DOMAIN s : \E f \in ToSet(Current) :
        f.id = s[k].id /\ Family(f.type) = Family(s[k].type)
  BY <1>1, <1>7, CurrentIs
<1> USE DEF s, rest
<1> QED BY <1>2, <1>5, <1>8, EvolveKeeps

LEMMA RenameKeeps ==
  ASSUME TableInv, schemas # <<>>, RenameField
  PROVE  TableInv'
<1>1. SchemaInv(schemas, ids)
  BY DEF TableInv
<1>2. PICK i \in DOMAIN Current, n \in Names :
        Evolve([Current EXCEPT ![i].name = n]) /\ UNCHANGED ids
  BY DEF RenameField
<1> DEFINE s == [Current EXCEPT ![i].name = n]
<1>3. /\ Current \in Seq(FieldsUpTo(ids)) /\ Current[i] \in FieldsUpTo(ids)
      /\ DOMAIN s = DOMAIN Current /\ s[i] = [Current[i] EXCEPT !.name = n]
      /\ \A k \in DOMAIN Current \ {i} : s[k] = Current[k]
  BY <1>1, CurrentIs
<1>4. /\ s[i] \in FieldsUpTo(ids) /\ s[i].id = Current[i].id /\ s[i].type = Current[i].type
  BY <1>3 DEF FieldsUpTo
<1>5. s \in Seq(FieldsUpTo(ids))
  BY <1>3, <1>4
<1> HIDE DEF s
<1>6. \A k \in DOMAIN s : \E f \in ToSet(Current) :
        f.id = s[k].id /\ Family(f.type) = Family(s[k].type)
  BY <1>1, <1>3, <1>4, CurrentIs
<1> USE DEF s
<1> QED BY <1>2, <1>5, <1>6, EvolveKeeps

LEMMA WidenKeeps ==
  ASSUME TableInv, schemas # <<>>, WidenField
  PROVE  TableInv'
<1>1. SchemaInv(schemas, ids)
  BY DEF TableInv
<1>2. PICK i \in DOMAIN Current :
        /\ Current[i].type \in {"int", "float"}
        /\ Evolve([Current EXCEPT ![i].type = IF @ = "int" THEN "long" ELSE "double"])
        /\ UNCHANGED ids
  BY DEF WidenField
<1> DEFINE wide == IF Current[i].type = "int" THEN "long" ELSE "double"
           s == [Current EXCEPT ![i].type = wide]
<1>3. s = [Current EXCEPT ![i].type = IF @ = "int" THEN "long" ELSE "double"]
  OBVIOUS
<1>4. wide \in Types /\ Family(wide) = Family(Current[i].type)
  BY <1>2 DEF Types, Family
<1> HIDE DEF wide
<1>5. /\ Current \in Seq(FieldsUpTo(ids)) /\ Current[i] \in FieldsUpTo(ids)
      /\ DOMAIN s = DOMAIN Current /\ s[i] = [Current[i] EXCEPT !.type = wide]
      /\ \A k \in DOMAIN Current \ {i} : s[k] = Current[k]
  BY <1>1, CurrentIs
<1>6. /\ s[i] \in FieldsUpTo(ids) /\ s[i].id = Current[i].id /\ s[i].type = wide
  BY <1>4, <1>5 DEF FieldsUpTo
<1>7. s \in Seq(FieldsUpTo(ids))
  BY <1>5, <1>6
<1> HIDE DEF s
<1>8. \A k \in DOMAIN s : \E f \in ToSet(Current) :
        f.id = s[k].id /\ Family(f.type) = Family(s[k].type)
  BY <1>1, <1>4, <1>5, <1>6, CurrentIs
<1>9. Evolve(s)
  BY <1>2, <1>3, Zenon
<1> QED BY <1>2, <1>7, <1>8, <1>9, EvolveKeeps

LEMMA FreshInv ==
  ASSUME NEW ss, NEW n, SchemaInv(ss, n), NEW k \in 0..Len(ss), NEW cols
  PROVE  InstOf(Fresh, ss, n, cols) /\ InstOf([Fresh EXCEPT !.loaded = k], ss, n, cols)
<1>1. Fresh = [loaded |-> 0, snap |-> [schema |-> 0, files |-> <<>>], src |-> <<>>, stream |-> <<>>,
               json |-> <<>>, rows |-> <<>>, staged |-> <<>>]
  BY DEF Fresh
<1>2. Len(ss) \in Nat /\ ReadBatch \in Nat \ {0} /\ WriteBatch \in Nat \ {0}
  BY TableAssumption DEF SchemaInv
<1>3. SnapInv(ss, n, [schema |-> 0, files |-> <<>>])
  <2>1. <<>> \in Seq(Files(ss, n))
    OBVIOUS
  <2> QED BY <1>2, <2>1 DEF SnapInv
<1>4. <<>> \in Seq(FieldsUpTo(n)) /\ <<>> \in Seq({b \in Files(ss, n) : Len(b) <= ReadBatch})
      /\ <<>> \in Seq(StagedRows(cols)) /\ Len(<<>>) < WriteBatch
  BY <1>2
<1>5. ASSUME NEW j \in 0..Len(ss)
      PROVE  InstOf([loaded |-> j, snap |-> [schema |-> 0, files |-> <<>>], src |-> <<>>,
                     stream |-> <<>>, json |-> <<>>, rows |-> <<>>, staged |-> <<>>], ss, n, cols)
  BY <1>3, <1>4 DEF InstOf
<1>6. [Fresh EXCEPT !.loaded = k] =
        [loaded |-> k, snap |-> [schema |-> 0, files |-> <<>>], src |-> <<>>, stream |-> <<>>,
         json |-> <<>>, rows |-> <<>>, staged |-> <<>>]
  BY <1>1
<1>7. 0 \in 0..Len(ss)
  BY <1>2
<1> QED BY <1>1, <1>5, <1>6, <1>7, Zenon

\* The statement is over, what others see being as the invariant has it.
LEMMA OverKeeps ==
  ASSUME TableInv, SnapInv(schemas, ids, snap'), StatementOver, UNCHANGED <<schemas, ids, foreign>>
  PROVE  TableInv'
<1>1. inst' = Fresh /\ mode' = "idle" /\ shown' = None
  BY DEF StatementOver
<1>2. InstInv(Fresh) /\ 0 \in 0..Len(schemas)
  <2>1. SchemaInv(schemas, ids) /\ 0 \in 0..Len(schemas)
    BY DEF TableInv, SchemaInv
  <2> QED BY <2>1, FreshInv DEF InstInv
<1>3. InstInv(inst)'
  BY <1>1, <1>2 DEF InstInv, InstOf
<1>4. ModeInv'
  BY <1>1 DEF ModeInv
<1> QED BY <1>3, <1>4 DEF TableInv, ForeignInv

LEMMA SnapKeeps ==
  ASSUME TableInv, SnapInv(schemas, ids, snap'), UNCHANGED <<schemas, ids, foreign, mode, inst, shown>>
  PROVE  TableInv'
<1>1. InstInv(inst)' /\ ModeInv' /\ ForeignInv' /\ SchemaInv(schemas, ids)'
  BY DEF TableInv, InstInv, InstOf, ModeInv, ForeignInv, ScanInv
<1> QED BY <1>1 DEF TableInv

LEMMA RowsAreNumbered ==
  ASSUME TableInv
  PROVE  RowsOf(snap.files) \in Nat
<1>1. snap.files \in Seq(Files(schemas, ids))
  BY DEF TableInv, SnapInv
<1>2. snap.files \in Seq(Seq(Stored(schemas, ids)))
  BY <1>1 DEF Files
<1>3. FlattenSeq(snap.files) \in Seq(Stored(schemas, ids))
  BY <1>2, FlattenKeeps
<1> QED BY <1>3 DEF RowsOf

\* A commit adds a file of stored rows.
LEMMA CommitKeeps ==
  ASSUME SnapInv(schemas, ids, snap), schemas # <<>>, SchemaInv(schemas, ids),
         NEW file \in Files(schemas, ids)
  PROVE  SnapInv(schemas, ids, [schema |-> Len(schemas), files |-> Append(snap.files, file)])
<1>1. Len(schemas) \in Nat /\ Len(schemas) # 0
  BY DEF SchemaInv
<1>2. Append(snap.files, file) \in Seq(Files(schemas, ids))
  BY DEF SnapInv
<1> QED BY <1>1, <1>2 DEF SnapInv

\* A value of the shape of the type that is not too long fits.
LEMMA SuitableFits ==
  ASSUME NEW t \in Types, NEW x \in Values, x.v < 1000,
         x.shape = (CASE t \in Lists -> "array" [] t \in Nested \ Lists -> "object" [] OTHER -> "plain")
  PROVE  x \in Cells /\ Fits(t, x, x)
<1>1. x.shape \in {"plain", "object", "array"}
  OBVIOUS
<1>2. x \in Cells /\ x # Null /\ Whole(x) # Null /\ ~(x.v >= 1000)
  <2>1. x.v \in Nat
    BY DEF Values
  <2> QED BY <1>1, <2>1, ShapedStays
<1>3. Kept(t, x) \in {x, Whole(x)}
  <2>1. CASE t \in Lists
    <3>1. x.shape = "array"
      BY <2>1
    <3> QED BY <2>1, <3>1 DEF Kept, Lists
  <2>2. CASE t \in Nested \ Lists
    <3>1. x.shape = "object"
      BY <2>2
    <3> QED BY <2>2, <3>1 DEF Kept, Lists, Nested
  <2>3. CASE t \notin Nested
    <3>1. t \notin {"struct", "map", "struct of others", "map of others"}
          /\ t \notin {"list", "list of others"}
      BY <2>3 DEF Nested
    <3>2. CASE t = "decimal"
      BY <1>2, <3>2 DEF Kept
    <3>3. CASE t = "decimal0"
      BY <1>2, <3>3 DEF Kept
    <3>4. CASE t = "time"
      BY <3>4 DEF Kept
    <3>5. CASE t \notin {"decimal", "decimal0", "time"}
      BY <3>1, <3>5 DEF Kept
    <3> QED BY <3>2, <3>3, <3>4, <3>5
  <2> QED BY <2>1, <2>2, <2>3
<1> QED BY <1>2, <1>3 DEF Fits

LEMMA OthersWriteKeeps ==
  ASSUME TableInv, schemas # <<>>, OthersWrite
  PROVE  TableInv'
<1> DEFINE n == 10 * (RowsOf(snap.files) + 1) + 5
           shape(t) == CASE t \in Lists -> "array" [] t \in Nested \ Lists -> "object" [] OTHER -> "plain"
           at == {Current[i].id : i \in DOMAIN Current}
           field(id) == CHOOSE f \in ToSet(Current) : f.id = id
           row == [id \in at |-> Value(shape(field(id).type), n)]
           r == [is |-> row, meant |-> row, aligned |-> TRUE]
<1>1. SchemaInv(schemas, ids) /\ SnapInv(schemas, ids, snap) /\ ids \in Nat
  BY DEF TableInv, SchemaInv
<1>2. n \in Nat /\ n < 1000
  <2>1. RowsOf(snap.files) < MaxRows
    BY Zenon DEF OthersWrite
  <2>2. MaxRows \in Nat /\ MaxRows < 99
    BY TableAssumption
  <2>3. RowsOf(snap.files) \in Nat
    BY RowsAreNumbered
  <2> QED BY <2>1, <2>2, <2>3
<1>3. snap' = [schema |-> Len(schemas), files |-> Append(snap.files, <<r>>)]
  BY Zenon DEF OthersWrite, Lists
<1>4. ASSUME NEW id \in at
      PROVE  id \in 1..ids /\ field(id) \in ToSet(Current) /\ field(id).id = id /\ field(id).type \in Types
  <2>1. \E f \in ToSet(Current) : f.id = id
    BY <1>1, CurrentIs
  <2>2. field(id) \in ToSet(Current) /\ field(id).id = id
    BY <2>1
  <2> HIDE DEF field
  <2>3. field(id) \in FieldsUpTo(ids)
    BY <1>1, <2>2, CurrentIs, FieldsTyped
  <2> QED BY <2>2, <2>3 DEF FieldsUpTo
<1> HIDE DEF n, field
<1>5. ASSUME NEW id \in at
      PROVE  row[id] \in Cells /\ Fits(field(id).type, row[id], row[id])
  <2> DEFINE t == field(id).type
             x == Value(shape(t), n)
  <2>1. row[id] = x
    OBVIOUS
  <2>2. x.shape = shape(t) /\ x.v = n /\ x \in Values
    <3>1. shape(t) \in {"array", "object", "plain"}
      OBVIOUS
    <3> HIDE DEF shape
    <3> QED BY <1>2, <3>1 DEF Value, Values
  <2>3. t \in Types
    BY <1>4
  <2> HIDE DEF x
  <2>4. x \in Cells /\ Fits(t, x, x)
    BY <1>2, <2>2, <2>3, SuitableFits
  <2> HIDE DEF row
  <2> QED BY <2>1, <2>4
<1> HIDE DEF row, shape
<1>6. row \in [at -> Cells] /\ at \subseteq 1..ids
  BY <1>4, <1>5 DEF row
<1>7. row \in CellMaps(ids) /\ DOMAIN row = at
  <2>1. at \in SUBSET (1..ids)
    BY <1>6
  <2> QED BY <1>6, <2>1 DEF CellMaps
<1>8. ASSUME NEW f \in AllFields(schemas), f.id \in at
      PROVE  Fits(f.type, row[f.id], row[f.id])
  <2>1. Fits(field(f.id).type, row[f.id], row[f.id]) /\ field(f.id).type \in Types
        /\ field(f.id) \in AllFields(schemas) /\ field(f.id).id = f.id
    BY <1>1, <1>4, <1>5, <1>8, CurrentIs
  <2>2. Family(field(f.id).type) = Family(f.type)
    BY <1>1, <2>1 DEF SchemaInv
  <2>3. f.type \in Types
    BY <1>1, FieldsTyped DEF FieldsUpTo
  <2> QED BY <2>1, <2>2, <2>3, FitsFamily
<1>9. r \in Stored(schemas, ids)
  BY <1>7, <1>8 DEF Stored
<1> HIDE DEF r
<1>10. <<r>> \in Files(schemas, ids)
  BY <1>9 DEF Files
<1>11. SnapInv(schemas, ids, snap')
  BY <1>1, <1>3, <1>10, CommitKeeps
<1> QED BY <1>11, SnapKeeps DEF OthersWrite

LEMMA ImportedTyped ==
  ASSUME NEW t \in Types
  PROVE  ImportedType(t) \in ColumnTypes \cup {None}
<1>1. CASE t \in Alike
  <2>1. ImportedType(t) = t
    BY <1>1 DEF ImportedType, Alike, Nested
  <2> QED BY <1>1, <2>1 DEF Alike, ColumnTypes
<1>2. CASE t \in Nested
  <2>1. ImportedType(t) = "jsonb"
    BY <1>2 DEF ImportedType, Alike, Nested
  <2> QED BY <2>1 DEF ColumnTypes
<1>3. CASE t \notin Alike \cup Nested
  BY <1>3 DEF ImportedType, Alike, Nested, Types, ColumnTypes
<1> QED BY <1>1, <1>2, <1>3

LEMMA ImportTyped ==
  ASSUME NEW S, NEW schema \in Seq(FieldsUpTo(S)), NEW k
  PROVE  /\ Imported(k, schema).cols \in Seq([name : Names, type : ColumnTypes])
         /\ Imported(k, schema) = [cols |-> Imported(k, schema).cols, pin |-> k, create |-> FALSE]
<1> DEFINE T == {f \in ToSet(schema) : ImportedType(f.type) # None}
           K == Known(schema)
           cols == [i \in DOMAIN K |-> [name |-> K[i].name, type |-> ImportedType(K[i].type)]]
<1>1. K \in Seq(FieldsUpTo(S) \cap T)
  BY OnlyKeeps DEF Known
<1>2. Imported(k, schema) = [cols |-> cols, pin |-> k, create |-> FALSE]
  BY DEF Imported
<1> HIDE DEF K, T
<1>3. ASSUME NEW i \in DOMAIN K
      PROVE  [name |-> K[i].name, type |-> ImportedType(K[i].type)] \in [name : Names, type : ColumnTypes]
  <2>1. K[i] \in FieldsUpTo(S) \cap T
    BY <1>1
  <2>2. K[i].name \in Names /\ K[i].type \in Types
    BY <2>1 DEF FieldsUpTo
  <2>3. ImportedType(K[i].type) # None
    BY <2>1 DEF T
  <2>4. ImportedType(K[i].type) \in ColumnTypes
    BY <2>2, <2>3, ImportedTyped
  <2> QED BY <2>2, <2>4
<1>4. cols \in [1..Len(K) -> [name : Names, type : ColumnTypes]] /\ Len(K) \in Nat
  BY <1>1, <1>3
<1>5. cols \in Seq([name : Names, type : ColumnTypes])
  <2> HIDE DEF cols
  <2> QED BY <1>4, TupleIsSeq
<1> HIDE DEF cols
<1> QED BY <1>2, <1>5

LEMMA ImportKeeps ==
  ASSUME TableInv, ImportForeignSchema \/ Unpin
  PROVE  TableInv'
<1>1. /\ mode = "idle" /\ UNCHANGED <<schemas, ids, snap, mode, inst, shown>>
      /\ SchemaInv(schemas, ids) /\ ids \in Nat /\ Len(schemas) \in Nat
  BY DEF ImportForeignSchema, Unpin, TableInv, SchemaInv
<1>2. ForeignInv'
  <2>1. CASE ImportForeignSchema
    <3>1. foreign' = Imported(Len(schemas), Current) /\ schemas # <<>>
      BY <2>1 DEF ImportForeignSchema
    <3>2. Current \in Seq(FieldsUpTo(ids)) /\ Len(schemas) \in DOMAIN schemas
      BY <1>1, <3>1, CurrentIs
    <3>3. /\ foreign'.cols \in Seq([name : Names, type : ColumnTypes])
          /\ foreign' = [cols |-> foreign'.cols, pin |-> Len(schemas), create |-> FALSE]
      BY <3>1, <3>2, ImportTyped
    <3>4. foreign'.pin = Len(schemas) /\ foreign'.create = FALSE
      BY <3>3
    <3>5. Len(schemas) \in 1..Len(schemas)
      BY <1>1, <3>2 DEF SchemaInv
    <3> QED BY <1>1, <3>3, <3>4, <3>5 DEF ForeignInv
  <2>2. CASE Unpin
    <3>1. foreign' = [foreign EXCEPT !.pin = None]
      BY <2>2 DEF Unpin
    <3> QED BY <1>1, <3>1 DEF TableInv, ForeignInv
  <2> QED BY <2>1, <2>2
<1>3. inst = Fresh
  BY <1>1 DEF TableInv, ModeInv
<1>4. 0 \in 0..Len(schemas)
  BY <1>1
<1>5. InstInv(inst)'
  BY <1>1, <1>3, <1>4, FreshInv DEF InstInv
<1>6. ModeInv'
  BY <1>1 DEF TableInv, ModeInv
<1> QED BY <1>1, <1>2, <1>5, <1>6 DEF TableInv

LEMMA CreatedTyped ==
  ASSUME NEW c \in ColumnTypes, CreatedType(c) # None
  PROVE  CreatedType(c) \in Types
<1>1. CASE c \in Alike
  <2>1. CreatedType(c) = c
    BY <1>1 DEF CreatedType, Alike
  <2> QED BY <1>1, <2>1 DEF Alike, Types
<1>2. CASE c \notin Alike
  BY <1>2 DEF CreatedType, Alike, Types, ColumnTypes
<1> QED BY <1>1, <1>2

LEMMA BeginModifyKeeps ==
  ASSUME TableInv, BeginModify
  PROVE  TableInv'
<1>1. /\ mode = "idle" /\ mode' = "insert" /\ UNCHANGED <<snap, foreign, shown>>
      /\ inst' = [Fresh EXCEPT !.loaded = Len(schemas')]
      /\ SchemaInv(schemas, ids) /\ SnapInv(schemas, ids, snap) /\ ForeignInv /\ shown = None
  BY DEF BeginModify, Begins, TableInv, ModeInv
<1>2. /\ SchemaInv(schemas', ids') /\ SnapInv(schemas', ids', snap')
      /\ Len(schemas') # 0 /\ ForeignInv'
  <2>1. CASE schemas # <<>> /\ UNCHANGED <<schemas, ids>>
    BY <1>1, <2>1 DEF SchemaInv, ForeignInv
  <2>2. CASE /\ schemas = <<>> /\ \A i \in DOMAIN foreign.cols : CreatedType(foreign.cols[i].type) # None
             /\ schemas' = <<Created(foreign.cols)>> /\ ids' = Len(foreign.cols)
    <3> DEFINE cols == foreign.cols
               s == Created(cols)
    <3> HIDE DEF cols
    <3>1. cols \in Seq([name : Names, type : ColumnTypes]) /\ Len(cols) \in Nat /\ DOMAIN cols = 1..Len(cols)
      BY <1>1 DEF ForeignInv, cols
    <3>14. \A i \in DOMAIN cols : cols[i] \in [name : Names, type : ColumnTypes] /\ i \in 1..Len(cols)
      BY <3>1, ElementsOf, Zenon
    <3>2. ASSUME NEW i \in DOMAIN cols PROVE s[i] \in FieldsUpTo(Len(cols)) /\ s[i].id = i
      <4>1. s[i] = [id |-> i, name |-> cols[i].name, type |-> CreatedType(cols[i].type), required |-> FALSE]
        BY DEF Created, Field
      <4>2. cols[i].name \in Names /\ cols[i].type \in ColumnTypes /\ i \in 1..Len(cols)
        <5>1. cols[i] \in [name : Names, type : ColumnTypes] /\ i \in 1..Len(cols)
          BY <3>14, Zenon
        <5> QED BY <5>1
      <4>3. CreatedType(cols[i].type) \in Types
        BY <2>2, <4>2, CreatedTyped DEF cols
      <4> HIDE DEF s
      <4> QED BY <4>1, <4>2, <4>3 DEF FieldsUpTo
    <3>3. DOMAIN s = 1..Len(cols) /\ s = [i \in 1..Len(cols) |-> s[i]]
      BY <3>1 DEF Created
    <3>10. schemas' = <<s>> /\ ids' = Len(cols)
      BY <2>2 DEF cols
    <3> HIDE DEF s
    <3>4. s \in Seq(FieldsUpTo(Len(cols)))
      BY <3>1, <3>2, <3>3, TupleIsSeq
    <3>5. schemas' \in Seq(Seq(FieldsUpTo(ids'))) /\ Len(schemas') = 1 /\ DOMAIN schemas' = {1} /\ schemas'[1] = s
      BY <3>4, <3>10
    <3>6. AllFields(schemas') = ToSet(s)
      BY <3>5 DEF AllFields
    <3>7. \A f, g \in ToSet(s) : f.id = g.id => f = g
      <4>1. \A i \in DOMAIN s : s[i].id = i
        BY <3>1, <3>2, <3>3
      <4> QED BY <4>1 DEF ToSet
    <3>8. SchemaInv(schemas', ids')
      BY <3>1, <3>5, <3>6, <3>7, <3>10 DEF SchemaInv
    <3>11. Len(schemas) = 0
      BY <2>2
    <3>9. SnapInv(schemas', ids', snap')
      <4>1. snap.schema = 0 /\ snap.files = <<>> /\ snap = [schema |-> snap.schema, files |-> snap.files]
        BY <1>1, <3>11 DEF SnapInv
      <4>2. <<>> \in Seq(Files(schemas', ids')) /\ 0 \in 0..Len(schemas')
        BY <3>5
      <4> QED BY <1>1, <4>1, <4>2 DEF SnapInv
    <3>12. foreign.pin = None
      BY <1>1, <3>11 DEF ForeignInv
    <3>13. ForeignInv'
      BY <1>1, <3>12 DEF ForeignInv
    <3> QED BY <3>5, <3>8, <3>9, <3>13
  <2> QED BY <2>1, <2>2 DEF BeginModify
<1>3. Len(schemas') \in 0..Len(schemas')
  BY <1>2 DEF SchemaInv
<1>4. /\ SchemaInv(schemas, ids)' /\ SnapInv(schemas, ids, snap)'
  BY <1>2
<1>5. InstOf([Fresh EXCEPT !.loaded = Len(schemas')], schemas', ids', foreign'.cols)
  BY <1>2, <1>3, FreshInv
<1>6. InstInv(inst)'
  BY <1>1, <1>5 DEF InstInv
<1>7. ModeInv'
  BY <1>1, <1>2 DEF ModeInv, Fresh
<1> QED BY <1>2, <1>4, <1>6, <1>7 DEF TableInv

-----------------------------------------------------------------------------
(* Batches, and beginning a scan.                                          *)

LEMMA MinOfTwo ==
  ASSUME NEW a \in Int, NEW b \in Int
  PROVE  Min({a, b}) = IF a <= b THEN a ELSE b
<1> DEFINE P(x) == x \in {a, b} /\ \A y \in {a, b} : x =< y
<1>1. Min({a, b}) = CHOOSE x : P(x)
  BY Zenon DEF Min
<1>2. \E x : P(x)
  BY <1>1
<1>3. P(Min({a, b}))
  BY <1>1, <1>2, Zenon
<1> QED BY <1>3

\* The batches of a file have rows, no more than ReadBatch.
LEMMA BatchesAre ==
  ASSUME NEW S, NEW file \in Seq(S), file # <<>>
  PROVE  Batches(file) \in Seq({b \in Seq(S) \ {<<>>} : Len(b) <= ReadBatch})
<1> DEFINE n == Len(file)
           p == ReadBatch
           q == (n + p - 1) \div p
           B == {b \in Seq(S) \ {<<>>} : Len(b) <= ReadBatch}
<1>1. n \in Nat \ {0} /\ p \in Nat \ {0}
  BY TableAssumption
<1>2. q \in Nat /\ q * p <= n + p - 1
  <2> HIDE DEF n, p
  <2> QED BY <1>1
<1> DEFINE at(b) == SubSeq(file, (b - 1) * p + 1, Min({b * p, n}))
<1>3. Batches(file) = [b \in 1..q |-> at(b)]
  BY DEF Batches
<1>4. ASSUME NEW b \in 1..q PROVE at(b) \in B
  <2> HIDE DEF q, p
  <2>1. b * p <= q * p
    <3>1. (q - b) * p >= 0
      <4>1. q - b \in Nat
        BY <1>2
      <4> QED BY <1>1, <4>1
    <3>2. (q - b) * p = q * p - b * p
      BY <1>1, <1>2
    <3> QED BY <1>1, <1>2, <3>1, <3>2
  <2>2. b * p \in Int /\ q * p \in Int /\ (b - 1) * p = b * p - p
    BY <1>1, <1>2
  <2>4. (b - 1) * p >= 0
    <3>1. b - 1 \in Nat
      OBVIOUS
    <3> QED BY <1>1, <3>1
  <2>3. PICK c \in Int : c = b * p /\ c <= q * p /\ (b - 1) * p = c - p /\ c - p >= 0
    BY <2>1, <2>2, <2>4
  <2>5. c <= n + p - 1
    <3>1. \A m \in Int : c <= m /\ m <= n + p - 1 => c <= n + p - 1
      BY <1>1, <2>3
    <3> QED BY <1>2, <2>2, <2>3, <3>1
  <2>6. PICK m \in 1..n : m = Min({c, n}) /\ c - p + 1 <= m /\ m <= c
    <3> DEFINE m == Min({c, n})
    <3>1. c \in Int /\ c - p >= 0 /\ c <= n + p - 1 /\ n \in Nat /\ p \in Nat \ {0}
      BY <1>1, <2>3, <2>5
    <3>2. m \in {c, n} /\ m <= c /\ m <= n
      BY <3>1, MinOfTwo
    <3> HIDE DEF m
    <3>3. m \in 1..n /\ c - p + 1 <= m
      BY <3>1, <3>2
    <3> QED BY <3>2, <3>3 DEF m
  <2>7. at(b) = SubSeq(file, c - p + 1, m)
    BY <2>3, <2>6
  <2> HIDE DEF at
  <2>8. c - p + 1 \in 1..n
    BY <1>1, <2>3, <2>6
  <2>9. SubSeq(file, c - p + 1, m) \in Seq(S) /\ Len(SubSeq(file, c - p + 1, m)) = m - (c - p + 1) + 1
    <3>1. \A e \in 1..n : e <= m =>
            SubSeq(file, e, m) \in Seq(S) /\ Len(SubSeq(file, e, m)) = m - e + 1
      BY <2>6, PartOf DEF n
    <3> QED BY <2>6, <2>8, <3>1
  <2> DEFINE sub == SubSeq(file, c - p + 1, m)
  <2>10. sub \in Seq(S) /\ Len(sub) = m - (c - p + 1) + 1 /\ at(b) = sub
    BY <2>7, <2>9
  <2> HIDE DEF sub
  <2>11. Len(sub) >= 1 /\ Len(sub) <= p
    BY <1>1, <2>3, <2>6, <2>10
  <2>12. sub # <<>>
    BY <2>11
  <2> QED BY <2>10, <2>11, <2>12 DEF p
<1> HIDE DEF at, q, B
<1>5. [b \in 1..q |-> at(b)] \in Seq(B)
  <2>1. [b \in 1..q |-> at(b)] \in [1..q -> B]
    BY <1>4
  <2> QED BY <1>2, <2>1, TupleIsSeq
<1> USE DEF B
<1> QED BY <1>3, <1>5

LEMMA ResetIs ==
  ASSUME NEW x, InstInv(x)
  PROVE  Reset(x) = [loaded |-> x.loaded, snap |-> x.snap, src |-> x.src, stream |-> <<>>,
                     json |-> <<>>, rows |-> <<>>, staged |-> x.staged]
<1>1. PICK a, b, c, d, e, f :
        /\ x = [loaded |-> a, snap |-> b, src |-> c, stream |-> d, json |-> <<>>, rows |-> e, staged |-> f]
        /\ a = x.loaded /\ b = x.snap /\ c = x.src /\ f = x.staged
  BY Zenon DEF InstInv, InstOf
<1> DEFINE x1 == [x EXCEPT !.stream = <<>>]
           x2 == [x1 EXCEPT !.rows = <<>>]
           x3 == [x2 EXCEPT !.json = <<>>]
<1>2. Reset(x) = x3
  BY DEF Reset
<1>3. x1 = [loaded |-> a, snap |-> b, src |-> c, stream |-> <<>>,
            json |-> <<>>, rows |-> e, staged |-> f]
  BY <1>1
<1> HIDE DEF x1
<1>4. x2 = [loaded |-> a, snap |-> b, src |-> c, stream |-> <<>>,
            json |-> <<>>, rows |-> <<>>, staged |-> f]
  BY <1>3
<1> HIDE DEF x2
<1>5. x3 = [loaded |-> a, snap |-> b, src |-> c, stream |-> <<>>,
            json |-> <<>>, rows |-> <<>>, staged |-> f]
  BY <1>4
<1> QED BY <1>1, <1>2, <1>5

LEMMA DoScanInv ==
  ASSUME TableInv, NEW x, InstInv(x),
         x.snap.schema # 0 => HasAll(schemas[x.snap.schema], foreign.cols)
  PROVE  InstInv(DoScan(x)) /\ ScanInv(DoScan(x), None)
<1> DEFINE B == {b \in Files(schemas, ids) : Len(b) <= ReadBatch}
           files == x.snap.files
           batches == [f \in DOMAIN files |-> Batches(files[f])]
           y == DoScan(x)
<1>1. SnapInv(schemas, ids, x.snap) /\ files \in Seq(Files(schemas, ids))
  BY DEF InstInv, InstOf, SnapInv
<1>2. FlattenSeq(batches) \in Seq(B)
  <2>1. ASSUME NEW f \in DOMAIN files PROVE Batches(files[f]) \in Seq(B)
    <3>1. files[f] \in Seq(Stored(schemas, ids)) /\ files[f] # <<>>
      BY <1>1 DEF Files
    <3>2. Batches(files[f]) \in Seq({b \in Seq(Stored(schemas, ids)) \ {<<>>} : Len(b) <= ReadBatch})
      BY <3>1, BatchesAre
    <3> QED BY <3>2 DEF Files
  <2>2. DOMAIN files = 1..Len(files) /\ Len(files) \in Nat
    BY <1>1, ElementsOf
  <2> HIDE DEF B, files
  <2>3. batches \in [1..Len(files) -> Seq(B)]
    BY <2>1, <2>2
  <2>4. batches \in Seq(Seq(B))
    BY <2>2, <2>3, TupleIsSeq
  <2> QED BY <2>4, FlattenKeeps
<1>3. files = <<>> => FlattenSeq(batches) = <<>>
  <2>1. files = <<>> => batches = <<>>
    OBVIOUS
  <2>2. FlattenSeq(<<>>) = <<>>
    BY DEF FlattenSeq
  <2> QED BY <2>1, <2>2
<1>4. x = [loaded |-> x.loaded, snap |-> x.snap, src |-> x.src, stream |-> x.stream,
           json |-> <<>>, rows |-> x.rows, staged |-> x.staged]
  BY DEF InstInv, InstOf
<1>5. y = [loaded |-> x.loaded, snap |-> x.snap, src |-> x.src, stream |-> FlattenSeq(batches),
           json |-> <<>>, rows |-> <<>>, staged |-> x.staged]
  <2>1. Reset(x) = [loaded |-> x.loaded, snap |-> x.snap, src |-> x.src, stream |-> <<>>,
                    json |-> <<>>, rows |-> <<>>, staged |-> x.staged]
    BY ResetIs
  <2>2. y = [Reset(x) EXCEPT !.stream = FlattenSeq(batches)]
    BY DEF DoScan
  <2> HIDE DEF batches
  <2> QED BY <2>1, <2>2
<1> HIDE DEF batches, y
<1>6. InstInv(y)
  BY <1>2, <1>5 DEF InstInv, InstOf
<1>7. ScanInv(y, None)
  <2>1. y.snap = x.snap /\ y.rows = <<>> /\ y.stream = FlattenSeq(batches)
    BY <1>5
  <2>2. x.snap.schema = 0 => y.stream = <<>>
    BY <1>1, <1>3, <2>1 DEF SnapInv
  <2>3. Len(<<>>) < ReadBatch /\ \A S : <<>> \in Seq(S)
    BY TableAssumption
  <2> QED BY <2>1, <2>2, <2>3 DEF ScanInv
<1> USE DEF y
<1> QED BY <1>6, <1>7

LEMMA FieldIs ==
  ASSUME NEW S, NEW schema \in Seq(S), NEW n, HasName(schema, n)
  PROVE  FieldOf(schema, n) \in S /\ FieldOf(schema, n) \in ToSet(schema)
<1> DEFINE i == CHOOSE i \in DOMAIN schema : schema[i].name = n
<1>1. i \in DOMAIN schema
  BY DEF HasName
<1>2. FieldOf(schema, n) = schema[i]
  BY DEF FieldOf
<1> HIDE DEF i
<1> QED BY <1>1, <1>2 DEF ToSet

\* Beginning a scan where every column is found keeps the instance well-formed.
LEMMA BeginScanInv ==
  ASSUME TableInv, schemas # <<>>, NEW x, InstInv(x), Begun(x, BeginScan(x))
  PROVE  InstInv(BeginScan(x))
<1> DEFINE schema == IF foreign.pin = None THEN Current ELSE schemas[foreign.pin]
           cols == foreign.cols
           more == [i \in DOMAIN cols |-> FieldOf(schema, cols[i].name)]
           loaded == [x EXCEPT !.snap = snap]
           y == BeginScan(x)
<1>1. /\ SchemaInv(schemas, ids) /\ SnapInv(schemas, ids, snap)
      /\ cols \in Seq([name : Names, type : ColumnTypes])
      /\ foreign.pin \in 1..Len(schemas) \cup {None}
  BY DEF TableInv, ForeignInv
<1>2. schema \in Seq(FieldsUpTo(ids))
  <2>1. CASE foreign.pin = None
    BY <1>1, <2>1, CurrentIs
  <2>2. CASE foreign.pin # None
    <3>1. schemas \in Seq(Seq(FieldsUpTo(ids)))
      BY <1>1 DEF SchemaInv
    <3> QED BY <1>1, <2>2, <3>1
  <2> QED BY <2>1, <2>2
<1>3. PICK a, b0, c, d, e, f :
        /\ x = [loaded |-> a, snap |-> b0, src |-> c, stream |-> d, json |-> <<>>, rows |-> e, staged |-> f]
        /\ c \in Seq(FieldsUpTo(ids)) /\ a \in 0..Len(schemas)
        /\ d \in Seq({b \in Files(schemas, ids) : Len(b) <= ReadBatch})
        /\ f \in Seq(StagedRows(cols)) /\ Len(f) < WriteBatch
  BY Zenon DEF InstInv, InstOf
<1>4. loaded = [loaded |-> a, snap |-> snap, src |-> c, stream |-> d, json |-> <<>>, rows |-> e, staged |-> f]
  <2>1. x = [loaded |-> a, snap |-> b0, src |-> c, stream |-> d, json |-> <<>>, rows |-> e, staged |-> f]
    BY <1>3
  <2> QED BY <2>1
<1>5. ASSUME NEW s \in Seq(FieldsUpTo(ids)),
             y = [loaded |-> a, snap |-> snap, src |-> s, stream |-> d, json |-> <<>>, rows |-> e, staged |-> f]
      PROVE  InstInv(y)
  <2> HIDE DEF y
  <2>1. y.loaded = a /\ y.snap = snap /\ y.src = s /\ y.stream = d /\ y.rows = e /\ y.staged = f
    BY <1>5
  <2>2. y = [loaded |-> y.loaded, snap |-> y.snap, src |-> y.src, stream |-> y.stream,
             json |-> <<>>, rows |-> y.rows, staged |-> y.staged]
    BY <1>5, <2>1, Zenon
  <2> QED BY <1>1, <1>3, <1>5, <2>1, <2>2, Zenon DEF InstInv, InstOf
<1>6. CASE \A i \in DOMAIN cols : HasName(schema, cols[i].name)
  <2>1. y = [loaded EXCEPT !.src = @ \o more]
    BY <1>6 DEF BeginScan
  <2>2. more \in Seq(FieldsUpTo(ids))
    <3> HIDE DEF schema, cols
    <3>1. \A i \in DOMAIN cols : FieldOf(schema, cols[i].name) \in FieldsUpTo(ids)
      BY <1>2, <1>6, FieldIs
    <3>2. DOMAIN cols = 1..Len(cols) /\ Len(cols) \in Nat
      BY <1>1, ElementsOf
    <3>3. more \in [1..Len(cols) -> FieldsUpTo(ids)]
      BY <3>1, <3>2
    <3> QED BY <3>2, <3>3, TupleIsSeq
  <2> HIDE DEF loaded, more, y
  <2>3. y = [loaded |-> a, snap |-> snap, src |-> c \o more, stream |-> d, json |-> <<>>, rows |-> e, staged |-> f]
    BY <1>4, <2>1
  <2>4. c \o more \in Seq(FieldsUpTo(ids))
    BY <1>3, <2>2
  <2> QED BY <1>5, <2>3, <2>4 DEF y
<1>7. CASE ~\A i \in DOMAIN cols : HasName(schema, cols[i].name)
  <2>1. y = loaded
    BY <1>7, Zenon DEF BeginScan
  <2> QED BY <1>3, <1>4, <1>5, <2>1
<1> QED BY <1>6, <1>7

\* A statement that reads, with the instance and the row as the invariant has them.
LEMMA ScanKeeps ==
  ASSUME TableInv, schemas # <<>>, mode' = "scan", InstInv(inst'), ScanInv(inst', shown'),
         UNCHANGED <<schemas, ids, snap, foreign>>
  PROVE  TableInv'
<1>1. SchemaInv(schemas, ids)' /\ SnapInv(schemas, ids, snap)' /\ ForeignInv'
  BY DEF TableInv, ForeignInv
<1>2. InstInv(inst)' /\ ScanInv(inst, shown)'
  BY DEF InstInv, ScanInv
<1>3. ModeInv'
  BY <1>2 DEF ModeInv
<1> QED BY <1>1, <1>2, <1>3 DEF TableInv

LEMMA BegunInv ==
  ASSUME TableInv, schemas # <<>>, NEW x, InstInv(x), Begun(x, BeginScan(x))
  PROVE  InstInv(DoScan(BeginScan(x))) /\ ScanInv(DoScan(BeginScan(x)), None)
<1> DEFINE y == BeginScan(x)
<1>1. InstInv(y)
  BY BeginScanInv
<1>2. y.snap.schema # 0 => HasAll(schemas[y.snap.schema], foreign.cols)
  BY Zenon DEF Begun, CanSelect, HasAll
<1> HIDE DEF y
<1>3. InstInv(DoScan(y)) /\ ScanInv(DoScan(y), None)
  BY <1>1, <1>2, DoScanInv
<1> QED BY <1>3 DEF y

LEMMA SelectKeeps ==
  ASSUME TableInv, Select \/ Restart \/ Rescan
  PROVE  TableInv'
<1>0. InstInv(Fresh)
  <2>1. SchemaInv(schemas, ids) /\ 0 \in 0..Len(schemas)
    BY DEF TableInv, SchemaInv
  <2> QED BY <2>1, FreshInv DEF InstInv
<1>1. CASE Select
  <2>1. /\ schemas # <<>> /\ Begun(Fresh, BeginScan(Fresh)) /\ inst' = DoScan(BeginScan(Fresh))
        /\ mode' = "scan" /\ shown' = None /\ UNCHANGED <<schemas, ids, snap, foreign>>
    BY <1>1, Zenon DEF Select, Begins
  <2>2. InstInv(inst') /\ ScanInv(inst', shown')
    BY <1>0, <2>1, BegunInv
  <2> QED BY <2>1, <2>2, ScanKeeps
<1>2. CASE Restart
  <2> DEFINE x == Reset(inst)
  <2>1. /\ mode = "scan" /\ UNCHANGED <<schemas, ids, snap, foreign>>
        /\ \/ Begun(inst, BeginScan(x)) /\ inst' = DoScan(BeginScan(x)) /\ shown' = None /\ mode' = mode
           \/ StatementOver
    BY <1>2, Zenon DEF Restart
  <2>2. schemas # <<>> /\ InstInv(inst)
    BY <2>1 DEF TableInv, ModeInv
  <2>3. InstInv(x) /\ Len(x.src) = Len(inst.src)
    <3>1. x = [loaded |-> inst.loaded, snap |-> inst.snap, src |-> inst.src, stream |-> <<>>,
               json |-> <<>>, rows |-> <<>>, staged |-> inst.staged]
      BY <2>2, ResetIs
    <3> HIDE DEF x
    <3>2. /\ x.loaded = inst.loaded /\ x.snap = inst.snap /\ x.src = inst.src /\ x.stream = <<>>
          /\ x.rows = <<>> /\ x.staged = inst.staged
      BY <3>1
    <3>3. x = [loaded |-> x.loaded, snap |-> x.snap, src |-> x.src, stream |-> x.stream,
               json |-> <<>>, rows |-> x.rows, staged |-> x.staged]
      BY <3>1, <3>2, Zenon
    <3>4. <<>> \in Seq({b \in Files(schemas, ids) : Len(b) <= ReadBatch})
      OBVIOUS
    <3> QED BY <2>2, <3>2, <3>3, <3>4, Zenon DEF InstInv, InstOf
  <2>4. CASE Begun(inst, BeginScan(x)) /\ inst' = DoScan(BeginScan(x)) /\ shown' = None /\ mode' = mode
    <3>1. Begun(x, BeginScan(x))
      BY <2>3, <2>4 DEF Begun
    <3> HIDE DEF x
    <3>2. InstInv(inst') /\ ScanInv(inst', shown')
      BY <2>2, <2>3, <2>4, <3>1, BegunInv
    <3> QED BY <2>1, <2>2, <2>4, <3>2, ScanKeeps
  <2>5. CASE StatementOver
    <3>1. SnapInv(schemas, ids, snap')
      BY <2>1 DEF TableInv
    <3> QED BY <2>1, <2>5, <3>1, OverKeeps
  <2> QED BY <2>1, <2>4, <2>5
<1>3. CASE Rescan
  <2>1. /\ mode = "scan" /\ inst' = DoScan(inst) /\ shown' = None
        /\ UNCHANGED <<schemas, ids, snap, foreign, mode>>
    BY <1>3 DEF Rescan
  <2>2. schemas # <<>> /\ InstInv(inst) /\ ScanInv(inst, shown)
    BY <2>1 DEF TableInv, ModeInv
  <2>3. inst.snap.schema # 0 => HasAll(schemas[inst.snap.schema], foreign.cols)
    BY <2>2 DEF ScanInv
  <2>4. InstInv(inst') /\ ScanInv(inst', shown')
    BY <2>1, <2>2, <2>3, DoScanInv
  <2> QED BY <2>1, <2>2, <2>4, ScanKeeps
<1> QED BY <1>1, <1>2, <1>3

-----------------------------------------------------------------------------
(* Reading.                                                                *)

LEMMA TimeColumns ==
  ASSUME NEW t \in Types, ImportedType(t) = "time"
  PROVE  t = "time"
<1>0. None # "time"
  BY TableAssumption DEF ColumnTypes
<1> QED BY <1>0 DEF ImportedType, Alike, Nested, Types

\* A value of a batch becomes NULL, itself, or, of a time, its whole seconds.
LEMMA ReadCell ==
  ASSUME TableInv, NEW schema, schema \in {schemas[j] : j \in DOMAIN schemas},
         NEW batch \in Files(schemas, ids), NEW k \in DOMAIN batch,
         NEW col, HasName(schema, col.name), NEW src,
         MapCell(schema, batch, batch, k, col, src) # Error
  PROVE  /\ MapCell(schema, batch, batch, k, col, src) \in Values
         /\ batch[k].aligned => Fits(FieldOf(schema, col.name).type,
                                     MapCell(schema, batch, batch, k, col, src),
                                     Meant(schema, batch[k], col.name))
<1> DEFINE x == In(schema, batch[k], col.name)
           m == Meant(schema, batch[k], col.name)
           f == FieldOf(schema, col.name)
           y == MapCell(schema, batch, batch, k, col, src)
           r == batch[k]
<1>1. SchemaInv(schemas, ids) /\ schemas \in Seq(Seq(FieldsUpTo(ids)))
  BY DEF TableInv, SchemaInv
<1>2. f \in FieldsUpTo(ids) /\ f \in AllFields(schemas)
  <2>1. PICK j \in DOMAIN schemas : schema = schemas[j]
    OBVIOUS
  <2>2. schema \in Seq(FieldsUpTo(ids))
    BY <1>1, <2>1
  <2>3. f \in FieldsUpTo(ids) /\ f \in ToSet(schema)
    BY <2>2, FieldIs
  <2> QED BY <2>1, <2>3 DEF AllFields
<1>3. f.type \in Types
  BY <1>2 DEF FieldsUpTo
<1>4. r \in Stored(schemas, ids) /\ k <= Len(batch)
  BY DEF Files
<1>5. x = (IF f.id \in DOMAIN r.is THEN r.is[f.id] ELSE Null)
  BY Zenon DEF In
<1>6. m = (IF f.id \in DOMAIN r.meant THEN r.meant[f.id] ELSE Null)
  BY Zenon DEF Meant
<1> HIDE DEF x, m, f, r
<1>7. /\ r.is \in CellMaps(ids) /\ r.meant \in CellMaps(ids) /\ DOMAIN r.meant = DOMAIN r.is
      /\ r.aligned => \A g \in AllFields(schemas) :
                        g.id \in DOMAIN r.is => Fits(g.type, r.is[g.id], r.meant[g.id])
  BY <1>4 DEF Stored
<1>8. x \in Cells
  <2>1. \A id \in DOMAIN r.is : r.is[id] \in Cells
    BY <1>7 DEF CellMaps
  <2> QED BY <1>5, <2>1, NullKept
<1>9. r.aligned => Fits(f.type, x, m)
  <2>1. Fits(f.type, Null, Null)
    BY <1>3, NullKept DEF Fits
  <2>2. CASE f.id \in DOMAIN r.is
    BY <1>2, <1>5, <1>6, <1>7, <2>2
  <2>3. CASE f.id \notin DOMAIN r.is
    BY <1>5, <1>6, <1>7, <2>1, <2>3
  <2> QED BY <2>2, <2>3
<1> DEFINE reads == Reads(col.type, src.type)
           kept == IF k <= Len(batch) /\ x # Null THEN x ELSE JsonNull
           whole == Whole(x)
<1>10. y = CASE x = Null -> Null
             [] x # Null /\ ~reads -> Error
             [] x # Null /\ reads /\ src.type \in Nested -> kept
             [] x # Null /\ reads /\ src.type \notin Nested ->
                  IF src.type # f.type THEN Error ELSE IF col.type = "time" THEN whole ELSE x
  BY Zenon DEF MapCell, x, f
<1>11. x # Null => kept = x
  BY <1>4
<1> HIDE DEF reads, kept, whole, y
<1>12. y = x \/ y = Error \/ (y = whole /\ reads /\ col.type = "time" /\ src.type = f.type /\ src.type \notin Nested)
  BY <1>10, <1>11
<1>13. y # Error
  BY DEF y
<1>14. CASE y = x
  <2>1. y \in Values /\ (r.aligned => Fits(f.type, y, m))
    BY <1>8, <1>9, <1>14, CellShapes
  <2> QED BY <2>1 DEF y, r, f, m
<1>15. CASE y = whole /\ reads /\ col.type = "time" /\ src.type = f.type
  <2>1. ImportedType(f.type) = "time"
    BY <1>15 DEF reads, Reads
  <2>2. f.type = "time"
    BY <1>3, <2>1, TimeColumns
  <2>3. /\ \A z : Kept(f.type, z) = Whole(z)
        /\ y = Whole(x) /\ Whole(Whole(x)) = Whole(x) /\ Whole(x) \in Values
    BY <1>8, <1>15, <2>2, CellShapes, WholeIs DEF Kept, whole
  <2>4. y \in Values /\ (r.aligned => Fits(f.type, y, m))
    BY <1>9, <2>3 DEF Fits
  <2> QED BY <2>4 DEF y, r, f, m
<1> QED BY <1>12, <1>13, <1>14, <1>15

\* The rows converted from a batch are right, as many as the batch has.
LEMMA ConvertedRows ==
  ASSUME TableInv, InstInv(inst), inst.stream # <<>>, inst.snap.schema # 0,
         HasAll(schemas[inst.snap.schema], foreign.cols), ConvertsAll(Converted(inst))
  PROVE  /\ Converted(inst) \in Seq(Returned(schemas, ids, schemas[inst.snap.schema], foreign.cols))
         /\ Len(Converted(inst)) \in 1..ReadBatch
<1> DEFINE schema == schemas[inst.snap.schema]
           cols == foreign.cols
           batch == Head(inst.stream)
           row(k) == [stored |-> batch[k],
                      cells |-> [i \in DOMAIN cols |->
                                   MapCell(schema, batch, batch, k, cols[i], inst.src[i])]]
           R == Returned(schemas, ids, schema, cols)
<1>1. /\ batch \in Files(schemas, ids) /\ Len(batch) <= ReadBatch /\ inst.json = <<>>
      /\ inst.snap.schema \in DOMAIN schemas /\ ReadBatch \in Nat
  <2>1. inst.stream \in Seq({b \in Files(schemas, ids) : Len(b) <= ReadBatch}) /\ inst.json = <<>>
    BY DEF InstInv, InstOf
  <2>2. inst.snap.schema \in 0..Len(schemas)
    BY DEF InstInv, InstOf, SnapInv
  <2>3. schemas \in Seq(Seq(FieldsUpTo(ids)))
    BY DEF TableInv, SchemaInv
  <2>4. batch \in {b \in Files(schemas, ids) : Len(b) <= ReadBatch}
    BY <2>1, HeadAndTail
  <2>5. inst.snap.schema \in DOMAIN schemas
    BY <2>2, <2>3
  <2>6. ReadBatch \in Nat
    BY TableAssumption
  <2> HIDE DEF batch
  <2> QED BY <2>1, <2>4, <2>5, <2>6
<1>2. batch \in Seq(Stored(schemas, ids)) /\ batch # <<>>
  BY <1>1 DEF Files
<1>3. Converted(inst) = [k \in DOMAIN batch |-> row(k)]
  BY <1>1, Zenon DEF Converted
<1> HIDE DEF batch
<1>4. ASSUME NEW k \in DOMAIN batch PROVE row(k) \in R
  <2> DEFINE cell(i) == MapCell(schema, batch, batch, k, cols[i], inst.src[i])
             cells == [i \in DOMAIN cols |-> cell(i)]
  <2>1. Error \notin ToSet(cells)
    <3>1. \A j \in DOMAIN Converted(inst) : Error \notin ToSet(Converted(inst)[j].cells)
      BY DEF ConvertsAll
    <3>2. k \in DOMAIN Converted(inst) /\ Converted(inst)[k] = row(k) /\ row(k).cells = cells
      BY <1>3
    <3> QED BY <3>1, <3>2
  <2>2. ASSUME NEW i \in DOMAIN cols
        PROVE  /\ cell(i) \in Values
               /\ batch[k].aligned => Fits(FieldOf(schema, cols[i].name).type, cell(i),
                                           Meant(schema, batch[k], cols[i].name))
    <3>1. cell(i) # Error
      BY <2>1 DEF ToSet
    <3>2. HasName(schema, cols[i].name)
      BY DEF HasAll
    <3>3. schema \in {schemas[j] : j \in DOMAIN schemas}
      BY <1>1
    <3> QED BY <1>1, <3>1, <3>2, <3>3, ReadCell
  <2> HIDE DEF cell
  <2>3. cells \in [DOMAIN cols -> Values] /\ batch[k] \in Stored(schemas, ids)
        /\ \A i \in DOMAIN cols : cells[i] = cell(i)
    BY <1>2, <2>2
  <2> HIDE DEF cells, cols, schema
  <2> DEFINE r == [stored |-> batch[k], cells |-> cells]
  <2>4. r \in [stored : Stored(schemas, ids), cells : [DOMAIN cols -> Values]]
    BY <2>3
  <2>5. ReadsRight(schema, cols, r)
    BY <2>2, <2>3 DEF ReadsRight
  <2>6. r \in Returned(schemas, ids, schema, cols)
    BY <2>4, <2>5, Zenon DEF Returned
  <2> QED BY <2>6 DEF cells, cell, schema, cols
<1>5. [k \in DOMAIN batch |-> row(k)] \in Seq(R) /\ Len([k \in DOMAIN batch |-> row(k)]) = Len(batch)
  <2> HIDE DEF row, R
  <2>1. DOMAIN batch = 1..Len(batch) /\ Len(batch) \in Nat
    BY <1>2, ElementsOf
  <2>2. [k \in DOMAIN batch |-> row(k)] \in [1..Len(batch) -> R]
    BY <1>4, <2>1
  <2> QED BY <2>1, <2>2, TupleIsSeq
<1>6. Len(batch) \in 1..ReadBatch
  BY <1>1, <1>2
<1> QED BY <1>3, <1>5, <1>6

LEMMA IterKeeps ==
  ASSUME TableInv, IterScan
  PROVE  TableInv'
<1> DEFINE now == Returned(schemas, ids, schemas[inst.snap.schema], foreign.cols)
<1>1. /\ mode = "scan" /\ UNCHANGED <<schemas, ids, snap, foreign>> /\ schemas # <<>>
      /\ InstInv(inst) /\ ScanInv(inst, shown) /\ SnapInv(schemas, ids, snap')
  BY DEF IterScan, TableInv, ModeInv
<1>2. PICK a, b, c, d, e, f :
        /\ inst = [loaded |-> a, snap |-> b, src |-> c, stream |-> d, json |-> <<>>, rows |-> e, staged |-> f]
        /\ a = inst.loaded /\ b = inst.snap /\ c = inst.src /\ d = inst.stream /\ e = inst.rows /\ f = inst.staged
  BY <1>1, Zenon DEF InstInv, InstOf
<1>3. /\ a \in 0..Len(schemas) /\ c \in Seq(FieldsUpTo(ids)) /\ SnapInv(schemas, ids, b)
      /\ d \in Seq({k \in Files(schemas, ids) : Len(k) <= ReadBatch})
      /\ f \in Seq(StagedRows(foreign.cols)) /\ Len(f) < WriteBatch
  BY <1>1, <1>2 DEF InstInv, InstOf
<1>4. ASSUME NEW s \in Seq({k \in Files(schemas, ids) : Len(k) <= ReadBatch}), NEW rest, NEW y,
             y = [loaded |-> a, snap |-> b, src |-> c, stream |-> s, json |-> <<>>, rows |-> rest, staged |-> f]
      PROVE  InstInv(y) /\ y.snap = b /\ y.stream = s /\ y.rows = rest
  <2>1. /\ y.loaded = a /\ y.snap = b /\ y.src = c /\ y.stream = s /\ y.rows = rest /\ y.staged = f
    BY <1>4
  <2>2. y = [loaded |-> y.loaded, snap |-> y.snap, src |-> y.src, stream |-> y.stream,
             json |-> <<>>, rows |-> y.rows, staged |-> y.staged]
    BY <1>4, <2>1, Zenon
  <2> QED BY <1>3, <2>1, <2>2, Zenon DEF InstInv, InstOf
<1>5. ASSUME NEW rows \in Seq(now), rows # <<>>, Len(rows) <= ReadBatch, b.schema # 0,
             HasAll(schemas[b.schema], foreign.cols), NEW y, InstInv(inst'),
             shown' = Head(rows), inst'.snap = b, inst'.rows = Tail(rows), UNCHANGED mode
      PROVE  TableInv'
  <2>1. Head(rows) \in now /\ Tail(rows) \in Seq(now) /\ Len(Tail(rows)) < ReadBatch
    <3>1. Len(rows) \in Nat /\ Len(Tail(rows)) = Len(rows) - 1 /\ ReadBatch \in Nat
      BY <1>5, TableAssumption
    <3> HIDE DEF now
    <3> QED BY <1>5, <3>1
  <2>2. ScanInv(inst', shown')
    BY <1>2, <1>5, <2>1 DEF ScanInv
  <2> QED BY <1>1, <1>5, <2>2, ScanKeeps
<1>6. CASE inst.rows # <<>> /\ Give(inst) /\ UNCHANGED mode
  <2>1. shown' = Head(e) /\ inst' = [inst EXCEPT !.rows = Tail(e)]
    BY <1>2, <1>6 DEF Give
  <2>2. inst' = [loaded |-> a, snap |-> b, src |-> c, stream |-> d, json |-> <<>>, rows |-> Tail(e), staged |-> f]
    BY <1>2, <2>1
  <2>3. InstInv(inst') /\ inst'.snap = b /\ inst'.rows = Tail(e)
    BY <1>3, <1>4, <2>2
  <2>4. b.schema # 0 /\ HasAll(schemas[b.schema], foreign.cols) /\ e \in Seq(now) /\ Len(e) < ReadBatch
    BY <1>1, <1>2, <1>6 DEF ScanInv
  <2>5. Len(e) <= ReadBatch
    BY <2>4, TableAssumption
  <2> QED BY <1>2, <1>5, <1>6, <2>1, <2>3, <2>4, <2>5
<1>7. CASE /\ inst.rows = <<>> /\ inst.stream # <<>>
           /\ ConvertsAll(NextBatch(inst).rows) /\ Give(NextBatch(inst)) /\ UNCHANGED mode
  <2> DEFINE rows == Converted(inst)
             rest == Tail(d)
             x1 == [inst EXCEPT !.stream = rest]
             x2 == [x1 EXCEPT !.rows = rows]
             x3 == [x2 EXCEPT !.json = <<>>]
  <2>1. NextBatch(inst) = x3
    BY <1>2, Zenon DEF NextBatch
  <2> HIDE DEF rows, rest
  <2>2. x1 = [loaded |-> a, snap |-> b, src |-> c, stream |-> rest, json |-> <<>>, rows |-> e, staged |-> f]
    BY <1>2
  <2> HIDE DEF x1
  <2>3. x2 = [loaded |-> a, snap |-> b, src |-> c, stream |-> rest, json |-> <<>>, rows |-> rows, staged |-> f]
    BY <2>2
  <2> HIDE DEF x2
  <2>4. x3 = [loaded |-> a, snap |-> b, src |-> c, stream |-> rest, json |-> <<>>, rows |-> rows, staged |-> f]
    BY <2>3
  <2> HIDE DEF x3
  <2>5. x3.rows = rows
    BY <2>4
  <2>6. shown' = Head(rows) /\ inst' = [x3 EXCEPT !.rows = Tail(rows)]
    BY <1>7, <2>1, <2>5 DEF Give
  <2>7. inst' = [loaded |-> a, snap |-> b, src |-> c, stream |-> rest, json |-> <<>>,
                 rows |-> Tail(rows), staged |-> f]
    BY <2>4, <2>6
  <2>8. rest \in Seq({k \in Files(schemas, ids) : Len(k) <= ReadBatch})
    BY <1>2, <1>3, <1>7, HeadAndTail DEF rest
  <2>9. InstInv(inst') /\ inst'.snap = b /\ inst'.rows = Tail(rows)
    BY <1>4, <2>7, <2>8
  <2>10. inst.snap.schema # 0 /\ HasAll(schemas[inst.snap.schema], foreign.cols)
    BY <1>1, <1>7 DEF ScanInv
  <2>11. ConvertsAll(rows)
    BY <1>7, <2>1, <2>5
  <2>12. rows \in Seq(now) /\ Len(rows) \in 1..ReadBatch
    BY <1>1, <1>7, <2>10, <2>11, ConvertedRows DEF rows
  <2>13. rows # <<>> /\ Len(rows) <= ReadBatch
    BY <2>12, TableAssumption
  <2> HIDE DEF now
  <2> QED BY <1>2, <1>5, <1>7, <2>6, <2>9, <2>10, <2>12, <2>13
<1>8. CASE StatementOver
  BY <1>1, <1>8, OverKeeps
<1> QED BY <1>6, <1>7, <1>8, Zenon DEF IterScan

-----------------------------------------------------------------------------
(* INSERT.                                                                 *)

LEMMA CellOfIs ==
  ASSUME NEW style, NEW c, NEW n \in Nat
  PROVE  CellOf(style, c, n) \in Cells /\ CellFor(c, CellOf(style, c, n))
<1> DEFINE shape == IF style = "array" THEN "array" ELSE "object"
           more == IF style = "long" /\ c \in {"numeric", "any numeric"} THEN 1000 ELSE 5
           json == Value(shape, 10 * n + 5)
           plain == Value("plain", 10 * n + more)
<1>1. CellOf(style, c, n) = CASE style = "null" -> Null [] style # "null" /\ c = "jsonb" -> json
                              [] style # "null" /\ c # "jsonb" -> plain
  BY Zenon DEF CellOf
<1>2. json \in Values /\ json.shape \in {"object", "array"}
  <2>1. shape \in {"object", "array"} /\ 10 * n + 5 \in Nat
    OBVIOUS
  <2> HIDE DEF shape
  <2>2. \A v \in Nat : Value(shape, v) \in Values /\ Value(shape, v).shape = shape
    BY <2>1 DEF Value, Values
  <2> QED BY <2>1, <2>2
<1>3. plain \in Values /\ plain.shape = "plain"
  <2>0. more = 5 \/ more = 1000
    OBVIOUS
  <2>1. 10 * n + more \in Nat
    <3> HIDE DEF more
    <3> QED BY <2>0
  <2> HIDE DEF more
  <2>2. \A v \in Nat : Value("plain", v) \in Values /\ Value("plain", v).shape = "plain"
    BY DEF Value, Values
  <2> QED BY <2>1, <2>2
<1> HIDE DEF json, plain
<1>4. json \in Cells /\ plain \in Cells /\ Null \in Cells
  BY <1>2, <1>3, NullKept, ShapedStays
<1>5. CASE style = "null"
  <2>1. CellOf(style, c, n) = Null
    BY <1>1, <1>5
  <2> QED BY <1>4, <2>1 DEF CellFor
<1>6. CASE style # "null" /\ c = "jsonb"
  <2>1. CellOf(style, c, n) = json
    BY <1>1, <1>6
  <2> QED BY <1>2, <1>4, <1>6, <2>1 DEF CellFor
<1>7. CASE style # "null" /\ c # "jsonb"
  <2>1. CellOf(style, c, n) = plain
    BY <1>1, <1>7
  <2> QED BY <1>3, <1>4, <1>7, <2>1 DEF CellFor
<1> QED BY <1>5, <1>6, <1>7

\* A row whose builders make no error is stored as it has to be.
LEMMA BuiltStored ==
  ASSUME TableInv, NEW l \in DOMAIN schemas, NEW cells \in StagedRows(foreign.cols),
         Len(schemas[l]) = Len(foreign.cols),
         \A i \in DOMAIN schemas[l] : Built(schemas[l], cells).is[schemas[l][i].id] # Error
  PROVE  Built(schemas[l], cells) \in Stored(schemas, ids)
<1> DEFINE schema == schemas[l]
           cols == foreign.cols
           at == {schema[i].id : i \in DOMAIN schema}
           place(id) == CHOOSE i \in DOMAIN schema : schema[i].id = id
           cell(id) == AppendArrayValue(schema[place(id)].type, cols[place(id)].type, cells[place(id)])
           is == [id \in at |-> cell(id)]
           meant == [id \in at |-> cells[place(id)]]
           aligned == \A i \in DOMAIN schema : schema[i].name = cols[i].name /\ Suits(cols[i].type, schema[i].type)
           r == Built(schema, cells)
<1>1. /\ SchemaInv(schemas, ids) /\ schema \in Seq(FieldsUpTo(ids)) /\ ids \in Nat
      /\ cols \in Seq([name : Names, type : ColumnTypes])
  BY DEF TableInv, SchemaInv, ForeignInv
<1>2. DOMAIN cols = DOMAIN schema /\ DOMAIN schema = 1..Len(schema)
  <2>1. Len(cols) = Len(schema)
    OBVIOUS
  <2> HIDE DEF cols, schema
  <2> QED BY <1>1, <2>1, ElementsOf
<1>3. r = [is |-> is, meant |-> meant, aligned |-> aligned]
  BY Zenon DEF Built
<1>4. \A i \in DOMAIN cols : cells[i] \in Cells /\ CellFor(cols[i].type, cells[i])
  BY DEF StagedRows
<1>5. \A i \in DOMAIN schema : r.is[schema[i].id] # Error
  OBVIOUS
<1> HIDE DEF r, schema, cols
<1>6. r.is = is /\ r.meant = meant /\ r.aligned = aligned
  BY <1>3
<1>7. ASSUME NEW id \in at
      PROVE  /\ place(id) \in DOMAIN schema /\ schema[place(id)].id = id
             /\ schema[place(id)] \in FieldsUpTo(ids) /\ schema[place(id)].type \in Types /\ id \in 1..ids
             /\ schema[place(id)] \in AllFields(schemas)
             /\ cols[place(id)].type \in ColumnTypes
             /\ cells[place(id)] \in Cells /\ CellFor(cols[place(id)].type, cells[place(id)])
  <2>1. \E i \in DOMAIN schema : schema[i].id = id
    OBVIOUS
  <2>2. place(id) \in DOMAIN schema /\ schema[place(id)].id = id
    BY <2>1
  <2> HIDE DEF place
  <2>3. schema[place(id)] \in FieldsUpTo(ids)
    BY <1>1, <2>2, ElementsOf
  <2>4. schema[place(id)] \in AllFields(schemas)
    BY <2>2 DEF AllFields, ToSet, schema
  <2>5. cols[place(id)] \in [name : Names, type : ColumnTypes]
    BY <1>1, <1>2, <2>2, ElementsOf
  <2>6. schema[place(id)].type \in Types /\ id \in 1..ids
    BY <2>2, <2>3 DEF FieldsUpTo
  <2>7. cols[place(id)].type \in ColumnTypes
    BY <2>5
  <2> QED BY <1>2, <1>4, <2>2, <2>3, <2>4, <2>6, <2>7, Zenon
<1> HIDE DEF place
<1>8. ASSUME NEW id \in at PROVE cell(id) \in Cells /\ cell(id) # Error
  <2>1. is[id] # Error
    BY <1>5, <1>6
  <2>2. cell(id) # Error
    BY <2>1
  <2>3. cell(id) \in Cells \cup {Error}
    BY <1>7, AppendTyped
  <2> QED BY <2>2, <2>3
<1>9. is \in [at -> Cells] /\ meant \in [at -> Cells] /\ at \in SUBSET (1..ids)
  BY <1>7, <1>8
<1>10. is \in CellMaps(ids) /\ meant \in CellMaps(ids) /\ DOMAIN is = at /\ DOMAIN meant = at
  BY <1>9 DEF CellMaps
<1>11. aligned \in BOOLEAN
  BY Zenon
<1>12. ASSUME aligned, NEW f \in AllFields(schemas), f.id \in at
       PROVE  Fits(f.type, is[f.id], meant[f.id])
  <2> DEFINE g == schema[place(f.id)]
             c == cols[place(f.id)].type
  <2>1. /\ g.id = f.id /\ g.type \in Types /\ g \in AllFields(schemas) /\ c \in ColumnTypes
        /\ cells[place(f.id)] \in Cells /\ CellFor(c, cells[place(f.id)]) /\ place(f.id) \in DOMAIN schema
    BY <1>7, <1>12
  <2>2. Suits(c, g.type)
    BY <1>12, <2>1
  <2>3. cell(f.id) # Error
    BY <1>8, <1>12
  <2>4. Fits(g.type, cell(f.id), cells[place(f.id)])
    BY <2>1, <2>2, <2>3, AppendFits
  <2>5. is[f.id] = cell(f.id) /\ meant[f.id] = cells[place(f.id)]
    BY <1>12
  <2>6. Family(g.type) = Family(f.type)
    BY <1>1, <2>1 DEF SchemaInv
  <2>7. f.type \in Types
    BY <1>1, FieldsTyped DEF FieldsUpTo
  <2> HIDE DEF g, c, cell, is, meant
  <2> QED BY <2>1, <2>4, <2>5, <2>6, <2>7, FitsFamily
<1> HIDE DEF is, meant, aligned, at
<1>13. r \in [is : CellMaps(ids), meant : CellMaps(ids), aligned : BOOLEAN]
  BY <1>3, <1>10, <1>11
<1>14. r \in Stored(schemas, ids)
  BY <1>6, <1>10, <1>12, <1>13 DEF Stored
<1> QED BY <1>14 DEF r, schema

\* A batch of staged rows that can be built becomes a data file.
LEMMA WriteKeeps ==
  ASSUME TableInv, inst.loaded # 0, InstInv(inst), NEW rows \in Seq(StagedRows(foreign.cols)), rows # <<>>,
         Builds(schemas[inst.loaded], rows), WriteRecordBatches(rows)
  PROVE  SnapInv(schemas, ids, snap')
<1> DEFINE l == inst.loaded
           file == [k \in DOMAIN rows |-> Built(schemas[l], rows[k])]
<1>1. SchemaInv(schemas, ids) /\ SnapInv(schemas, ids, snap) /\ schemas \in Seq(Seq(FieldsUpTo(ids)))
  BY DEF TableInv, SchemaInv
<1>2. l \in DOMAIN schemas /\ schemas # <<>>
  <2>1. l \in 0..Len(schemas)
    BY DEF InstInv, InstOf
  <2> QED BY <1>1, <2>1
<1>3. snap' = [schema |-> Len(schemas), files |-> Append(snap.files, file)]
  BY Zenon DEF WriteRecordBatches
<1> HIDE DEF l
<1>4. /\ Len(schemas[l]) = Len(foreign.cols)
      /\ \A k \in DOMAIN rows : \A i \in DOMAIN schemas[l] :
           Built(schemas[l], rows[k]).is[schemas[l][i].id] # Error
  BY Zenon DEF Builds, l
<1>5. DOMAIN rows = 1..Len(rows) /\ Len(rows) \in Nat /\ Len(rows) # 0
  BY ElementsOf
<1>6. \A k \in DOMAIN rows : rows[k] \in StagedRows(foreign.cols)
  BY ElementsOf
<1>7. ASSUME NEW k \in DOMAIN rows PROVE Built(schemas[l], rows[k]) \in Stored(schemas, ids)
  BY <1>2, <1>4, <1>6, BuiltStored
<1>8. file \in Files(schemas, ids)
  <2>1. file \in [1..Len(rows) -> Stored(schemas, ids)]
    BY <1>5, <1>7
  <2> HIDE DEF file
  <2>2. file \in Seq(Stored(schemas, ids)) /\ Len(file) = Len(rows)
    BY <1>5, <2>1, TupleIsSeq
  <2>3. file # <<>>
    BY <1>5, <2>2
  <2> QED BY <2>2, <2>3 DEF Files
<1> HIDE DEF file
<1> QED BY <1>1, <1>2, <1>3, <1>8, CommitKeeps

LEMMA InstFields ==
  ASSUME NEW x, NEW a, NEW b, NEW c, NEW d, NEW e, NEW f,
         x = [loaded |-> a, snap |-> b, src |-> c, stream |-> d, json |-> <<>>, rows |-> e, staged |-> f]
  PROVE  x.loaded = a /\ x.snap = b /\ x.src = c /\ x.stream = d /\ x.rows = e /\ x.staged = f
OBVIOUS

LEMMA InsertOn ==
  ASSUME TableInv, mode = "insert", UNCHANGED <<schemas, ids, foreign, mode, shown>>,
         SnapInv(schemas, ids, snap'), NEW k \in 0..Len(schemas), k # 0,
         NEW rows \in Seq(StagedRows(foreign.cols)), Len(rows) < WriteBatch,
         inst' = [[inst EXCEPT !.loaded = k] EXCEPT !.staged = rows]
  PROVE  TableInv'
<1>1. InstInv(inst) /\ inst.rows = <<>> /\ shown = None
  BY DEF TableInv, ModeInv
<1>2. PICK a, b, c, d, e, f :
        /\ inst = [loaded |-> a, snap |-> b, src |-> c, stream |-> d, json |-> <<>>, rows |-> e, staged |-> f]
        /\ b = inst.snap /\ c = inst.src /\ d = inst.stream /\ e = inst.rows
  BY <1>1, Zenon DEF InstInv, InstOf
<1> DEFINE x1 == [inst EXCEPT !.loaded = k]
<1>3. inst = [loaded |-> a, snap |-> b, src |-> c, stream |-> d, json |-> <<>>, rows |-> e, staged |-> f]
  BY <1>2
<1>4. x1 = [loaded |-> k, snap |-> b, src |-> c, stream |-> d, json |-> <<>>, rows |-> e, staged |-> f]
  BY <1>3
<1>5. inst' = [x1 EXCEPT !.staged = rows]
  OBVIOUS
<1> HIDE DEF x1
<1>6. inst' = [loaded |-> k, snap |-> b, src |-> c, stream |-> d, json |-> <<>>, rows |-> e, staged |-> rows]
  BY <1>4, <1>5
<1>7. /\ inst'.loaded = k /\ inst'.snap = b /\ inst'.src = c /\ inst'.stream = d /\ inst'.rows = e
      /\ inst'.staged = rows
  <2>1. \A x : x = [loaded |-> k, snap |-> b, src |-> c, stream |-> d, json |-> <<>>, rows |-> e, staged |-> rows]
          => /\ x.loaded = k /\ x.snap = b /\ x.src = c /\ x.stream = d /\ x.rows = e
             /\ x.staged = rows
    BY InstFields
  <2> QED BY <1>6, <2>1, Zenon
<1>8. inst' = [loaded |-> inst'.loaded, snap |-> inst'.snap, src |-> inst'.src, stream |-> inst'.stream,
               json |-> <<>>, rows |-> inst'.rows, staged |-> inst'.staged]
  BY <1>6, <1>7, Zenon
<1>9. /\ c \in Seq(FieldsUpTo(ids)) /\ SnapInv(schemas, ids, b)
      /\ d \in Seq({z \in Files(schemas, ids) : Len(z) <= ReadBatch})
  BY <1>1, <1>2, Zenon DEF InstInv, InstOf
<1>10. InstOf(inst', schemas, ids, foreign.cols)
  BY <1>7, <1>8, <1>9, Zenon DEF InstOf
<1>11. InstInv(inst)'
  BY <1>10 DEF InstInv
<1>12. ModeInv'
  BY <1>1, <1>2, <1>7 DEF ModeInv
<1>13. SchemaInv(schemas, ids)' /\ ForeignInv'
  BY DEF TableInv, ForeignInv
<1> QED BY <1>11, <1>12, <1>13 DEF TableInv

LEMMA InsertKeeps ==
  ASSUME TableInv, Insert
  PROVE  TableInv'
<1>1. /\ mode = "insert" /\ UNCHANGED <<schemas, ids, foreign>>
      /\ SnapInv(schemas, ids, snap) /\ InstInv(inst) /\ inst.loaded # 0
      /\ inst.loaded \in 0..Len(schemas) /\ inst.staged \in Seq(StagedRows(foreign.cols))
      /\ Len(schemas) \in Nat
  BY DEF Insert, TableInv, ModeInv, InstInv, InstOf, SchemaInv
<1>2. PICK style \in Styles :
        LET cells == [i \in DOMAIN foreign.cols |-> CellOf(style, foreign.cols[i].type, RowNumber)]
            rows  == Append(inst.staged, cells)
        IN  \/ /\ Len(rows) < WriteBatch
               /\ inst' = [inst EXCEPT !.staged = rows]
               /\ UNCHANGED <<snap, mode, shown>>
            \/ /\ Len(rows) >= WriteBatch /\ Builds(schemas[inst.loaded], rows)
               /\ WriteRecordBatches(rows)
               /\ inst' = [inst EXCEPT !.loaded = Len(schemas), !.staged = <<>>]
               /\ UNCHANGED <<mode, shown>>
            \/ /\ Len(rows) >= WriteBatch /\ ~Builds(schemas[inst.loaded], rows)
               /\ StatementOver /\ UNCHANGED snap
  BY Zenon DEF Insert
<1> DEFINE cells == [i \in DOMAIN foreign.cols |-> CellOf(style, foreign.cols[i].type, RowNumber)]
           rows  == Append(inst.staged, cells)
<1>3. RowNumber \in Nat
  BY <1>1, RowsAreNumbered, ElementsOf DEF RowNumber
<1>4. cells \in StagedRows(foreign.cols)
  <2>1. \A i \in DOMAIN foreign.cols :
          cells[i] \in Cells /\ CellFor(foreign.cols[i].type, cells[i])
    BY <1>3, CellOfIs
  <2>2. cells \in [DOMAIN foreign.cols -> Cells]
    BY <1>3, CellOfIs
  <2> HIDE DEF cells
  <2> QED BY <2>1, <2>2 DEF StagedRows
<1> HIDE DEF cells
<1>5. rows \in Seq(StagedRows(foreign.cols)) /\ rows # <<>>
  BY <1>1, <1>4, AppendIs
<1> HIDE DEF rows
<1>6. CASE Len(rows) < WriteBatch /\ inst' = [inst EXCEPT !.staged = rows] /\ UNCHANGED <<snap, mode, shown>>
  <2>1. inst = [inst EXCEPT !.loaded = inst.loaded]
    BY <1>1 DEF InstInv, InstOf
  <2>2. inst' = [[inst EXCEPT !.loaded = inst.loaded] EXCEPT !.staged = rows]
    BY <1>6, <2>1, Zenon
  <2> QED BY <1>1, <1>5, <1>6, <2>2, InsertOn
<1>7. CASE /\ Builds(schemas[inst.loaded], rows) /\ WriteRecordBatches(rows)
           /\ inst' = [inst EXCEPT !.loaded = Len(schemas), !.staged = <<>>]
           /\ UNCHANGED <<mode, shown>>
  <2>1. SnapInv(schemas, ids, snap')
    BY <1>1, <1>5, <1>7, WriteKeeps
  <2>2. inst' = [[inst EXCEPT !.loaded = Len(schemas)] EXCEPT !.staged = <<>>]
    BY <1>7
  <2>3. <<>> \in Seq(StagedRows(foreign.cols)) /\ Len(<<>>) < WriteBatch
    BY TableAssumption
  <2>4. Len(schemas) \in 0..Len(schemas) /\ Len(schemas) # 0
    BY <1>1
  <2> QED BY <1>1, <1>7, <2>1, <2>2, <2>3, <2>4, InsertOn
<1>8. CASE StatementOver /\ UNCHANGED snap
  BY <1>1, <1>8, OverKeeps
<1> QED BY <1>2, <1>6, <1>7, <1>8, Zenon DEF rows, cells

LEMMA EndModifyKeeps ==
  ASSUME TableInv, EndModify
  PROVE  TableInv'
<1>1. /\ mode = "insert" /\ UNCHANGED <<schemas, ids, foreign>> /\ StatementOver
      /\ SnapInv(schemas, ids, snap) /\ InstInv(inst) /\ inst.loaded # 0
      /\ inst.staged \in Seq(StagedRows(foreign.cols)) /\ inst.staged # <<>>
  BY DEF EndModify, TableInv, ModeInv, InstInv, InstOf
<1>2. CASE Builds(schemas[inst.loaded], inst.staged) /\ WriteRecordBatches(inst.staged)
  <2>1. SnapInv(schemas, ids, snap')
    BY <1>1, <1>2, WriteKeeps
  <2> QED BY <1>1, <2>1, OverKeeps
<1>3. CASE UNCHANGED snap
  BY <1>1, <1>3, OverKeeps
<1> QED BY <1>2, <1>3 DEF EndModify

-----------------------------------------------------------------------------
(* The specification.                                                      *)

LEMMA FirstSchema ==
  ASSUME NEW n \in Nat, NEW s \in Seq(FieldsUpTo(n)), \A i \in DOMAIN s : s[i].id = i
  PROVE  SchemaInv(<<s>>, n)
<1>1. <<s>> \in Seq(Seq(FieldsUpTo(n))) /\ DOMAIN <<s>> = {1} /\ <<s>>[1] = s
  OBVIOUS
<1>2. AllFields(<<s>>) = ToSet(s)
  BY <1>1 DEF AllFields
<1>3. \A f, g \in ToSet(s) : f.id = g.id => f = g
  BY DEF ToSet
<1> QED BY <1>1, <1>2, <1>3 DEF SchemaInv

LEMMA NoSchema == SchemaInv(<<>>, 0)
<1>1. <<>> \in Seq(Seq(FieldsUpTo(0))) /\ DOMAIN <<>> = {}
  OBVIOUS
<1>2. AllFields(<<>>) = {}
  BY <1>1 DEF AllFields
<1> QED BY <1>1, <1>2 DEF SchemaInv

LEMMA InitInv ==
  ASSUME Init
  PROVE  TableInv
<1>1. SchemaInv(schemas, ids) /\ ForeignInv
  <2>1. ASSUME NEW t \in Tables, schemas = <<t>>, ids = Len(t), foreign = Imported(1, t)
        PROVE  SchemaInv(schemas, ids) /\ ForeignInv
    <3>1. t \in Seq([id : Nat, name : Names, type : Types, required : BOOLEAN])
          /\ \A i \in DOMAIN t : t[i].id = i
      BY TableAssumption
    <3>2. DOMAIN t = 1..Len(t) /\ Len(t) \in Nat
          /\ \A i \in DOMAIN t : t[i] \in [id : Nat, name : Names, type : Types, required : BOOLEAN]
      BY <3>1, ElementsOf, Zenon
    <3>3. \A i \in DOMAIN t : t[i] \in FieldsUpTo(Len(t))
      <4> SUFFICES ASSUME NEW i \in DOMAIN t PROVE t[i] \in FieldsUpTo(Len(t))
        OBVIOUS
      <4>1. t[i] \in [id : Nat, name : Names, type : Types, required : BOOLEAN] /\ t[i].id \in 1..Len(t)
        BY <3>1, <3>2
      <4> QED BY <4>1 DEF FieldsUpTo
    <3>4. t \in Seq(FieldsUpTo(Len(t)))
      <4>1. t \in [1..Len(t) -> FieldsUpTo(Len(t))]
        BY <3>1, <3>2, <3>3
      <4> QED BY <3>2, <4>1, TupleIsSeq
    <3>5. SchemaInv(schemas, ids)
      BY <2>1, <3>1, <3>2, <3>4, FirstSchema
    <3>6. /\ foreign.cols \in Seq([name : Names, type : ColumnTypes])
          /\ foreign = [cols |-> foreign.cols, pin |-> 1, create |-> FALSE]
      BY <2>1, <3>4, ImportTyped
    <3>7. foreign.pin = 1 /\ foreign.create = FALSE
      BY <3>6
    <3>8. 1 \in 1..Len(schemas)
      BY <2>1
    <3> QED BY <3>5, <3>6, <3>7, <3>8 DEF ForeignInv
  <2>2. ASSUME NEW cols \in Declared, schemas = <<>>, ids = 0,
               foreign = [cols |-> cols, pin |-> None, create |-> TRUE]
        PROVE  SchemaInv(schemas, ids) /\ ForeignInv
    <3>1. cols \in Seq([name : Names, type : ColumnTypes])
      BY TableAssumption
    <3>2. foreign.cols = cols /\ foreign.pin = None /\ foreign.create = TRUE
      BY <2>2
    <3> QED BY <2>2, <3>1, <3>2, NoSchema DEF ForeignInv
  <2> QED BY <2>1, <2>2 DEF Init
<1>2. Len(schemas) \in Nat /\ 0 \in 0..Len(schemas)
  BY <1>1 DEF SchemaInv
<1>3. SnapInv(schemas, ids, snap)
  <2>1. snap = [schema |-> 0, files |-> <<>>]
    BY DEF Init
  <2>2. <<>> \in Seq(Files(schemas, ids))
    OBVIOUS
  <2> QED BY <1>2, <2>1, <2>2 DEF SnapInv
<1>4. InstInv(inst)
  BY <1>1, <1>2, FreshInv DEF InstInv, Init
<1>5. ModeInv
  BY DEF Init, ModeInv
<1> QED BY <1>1, <1>3, <1>4, <1>5 DEF TableInv

LEMMA StepInv ==
  ASSUME TableInv, [Next]_vars
  PROVE  TableInv'
<1>1. CASE Select \/ Restart \/ Rescan
  BY <1>1, SelectKeeps
<1>2. CASE IterScan
  BY <1>2, IterKeeps
<1>3. CASE End
  <2>1. SnapInv(schemas, ids, snap')
    BY <1>3 DEF End, TableInv
  <2> QED BY <1>3, <2>1, OverKeeps DEF End
<1>4. CASE BeginModify
  BY <1>4, BeginModifyKeeps
<1>5. CASE Insert
  BY <1>5, InsertKeeps
<1>6. CASE EndModify
  BY <1>6, EndModifyKeeps
<1>7. CASE ImportForeignSchema \/ Unpin
  BY <1>7, ImportKeeps
<1>8. CASE Others
  BY <1>8, AddKeeps, DropKeeps, RenameKeeps, MoveKeeps, WidenKeeps, OthersWriteKeeps DEF Others
<1>9. CASE UNCHANGED vars
  <2>1. /\ schemas' = schemas /\ ids' = ids /\ snap' = snap /\ foreign' = foreign /\ mode' = mode
        /\ inst' = inst /\ shown' = shown
    BY <1>9 DEF vars
  <2>2. SnapInv(schemas, ids, snap')
    BY <2>1 DEF TableInv
  <2> QED BY <2>1, <2>2, SnapKeeps
<1> QED BY <1>1, <1>2, <1>3, <1>4, <1>5, <1>6, <1>7, <1>8, <1>9, Zenon DEF Next

LEMMA StoredIsRow ==
  ASSUME TableInv, NEW r \in Stored(schemas, ids)
  PROVE  IsRow(r)
<1>1. /\ r.is \in CellMaps(ids) /\ r.meant \in CellMaps(ids) /\ r.aligned \in BOOLEAN
      /\ DOMAIN r.meant = DOMAIN r.is
  BY DEF Stored
<1>2. DOMAIN r.is \subseteq 1..ids /\ \A id \in DOMAIN r.is : r.is[id] \in Cells
  BY <1>1 DEF CellMaps
<1>3. \A id \in DOMAIN r.meant : r.meant[id] \in Cells
  BY <1>1 DEF CellMaps
<1> QED BY <1>1, <1>2, <1>3 DEF IsRow, Cells

LEMMA InvTypes ==
  ASSUME TableInv
  PROVE  TypeOK
<1>1. schemas \in Seq(Seq(Fields)) /\ snap.schema \in 0..Len(schemas)
  BY DEF TableInv, SchemaInv, SnapInv, Fields, FieldsUpTo
<1>2. ASSUME NEW f \in DOMAIN snap.files
      PROVE  snap.files[f] # <<>> /\ \A k \in DOMAIN snap.files[f] : IsRow(snap.files[f][k])
  <2>1. snap.files \in Seq(Files(schemas, ids))
    BY DEF TableInv, SnapInv
  <2>2. snap.files[f] \in Files(schemas, ids)
    BY <2>1, ElementsOf
  <2>3. snap.files[f] \in Seq(Stored(schemas, ids)) /\ snap.files[f] # <<>>
    BY <2>2 DEF Files
  <2> QED BY <2>3, ElementsOf, StoredIsRow
<1>3. /\ foreign.cols \in Seq([name : Names, type : ColumnTypes]) /\ foreign.create \in BOOLEAN
      /\ foreign.pin \in 1..Len(schemas) \cup {None}
  BY DEF TableInv, ForeignInv
<1>4. mode \in {"idle", "scan", "insert"} /\ (mode = "idle" => inst = Fresh)
  BY DEF TableInv, ModeInv
<1>5. inst.loaded \in 0..Len(schemas) /\ inst.src \in Seq(Fields) /\ Len(inst.staged) < WriteBatch
  BY DEF TableInv, InstInv, InstOf, Fields, FieldsUpTo
<1>6. Len(inst.rows) < ReadBatch
  <2>1. Len(<<>>) < ReadBatch
    BY TableAssumption
  <2>2. mode # "scan" => inst.rows = <<>>
    BY DEF TableInv, ModeInv, Fresh
  <2>3. mode = "scan" => Len(inst.rows) < ReadBatch
    BY DEF TableInv, ModeInv, ScanInv
  <2> QED BY <2>1, <2>2, <2>3
<1>7. shown # None => IsRow(shown.stored) /\ shown.cells \in Seq(Values)
  <2> SUFFICES ASSUME shown # None PROVE IsRow(shown.stored) /\ shown.cells \in Seq(Values)
    OBVIOUS
  <2>1. mode = "scan" /\ ScanInv(inst, shown)
    BY DEF TableInv, ModeInv
  <2>2. shown \in Returned(schemas, ids, schemas[inst.snap.schema], foreign.cols)
    BY <2>1 DEF ScanInv
  <2>3. shown.stored \in Stored(schemas, ids) /\ shown.cells \in [DOMAIN foreign.cols -> Values]
    BY <2>2 DEF Returned
  <2>4. DOMAIN foreign.cols = 1..Len(foreign.cols) /\ Len(foreign.cols) \in Nat
    BY <1>3, ElementsOf
  <2> QED BY <2>3, <2>4, StoredIsRow, TupleIsSeq
<1> QED BY <1>1, <1>2, <1>3, <1>4, <1>5, <1>6, <1>7 DEF TypeOK

LEMMA InvReads ==
  ASSUME TableInv
  PROVE  ReadsBackAsInserted
<1> SUFFICES ASSUME shown # None, shown.stored.aligned, NEW i \in DOMAIN foreign.cols
             PROVE  LET n == foreign.cols[i].name
                        t == FieldOf(schemas[inst.snap.schema], n).type
                        x == Meant(schemas[inst.snap.schema], shown.stored, n)
                    IN  /\ Kept(t, shown.cells[i]) = Kept(t, x)
                        /\ shown.cells[i] = Null <=> Kept(t, x) = Null
  BY Zenon DEF ReadsBackAsInserted
<1>1. mode = "scan" /\ ScanInv(inst, shown)
  BY DEF TableInv, ModeInv
<1>2. shown \in Returned(schemas, ids, schemas[inst.snap.schema], foreign.cols)
  BY <1>1 DEF ScanInv
<1>3. ReadsRight(schemas[inst.snap.schema], foreign.cols, shown)
  BY <1>2, Zenon DEF Returned
<1>4. Fits(FieldOf(schemas[inst.snap.schema], foreign.cols[i].name).type, shown.cells[i],
           Meant(schemas[inst.snap.schema], shown.stored, foreign.cols[i].name))
  BY <1>3, Zenon DEF ReadsRight
<1> QED BY <1>4, Zenon DEF Fits

LEMMA TableInvHolds == Spec => []TableInv
<1>1. Init => TableInv
  BY InitInv
<1>2. TableInv /\ [Next]_vars => TableInv'
  BY StepInv
<1> QED BY <1>1, <1>2, PTL DEF Spec

\* Whatever others do to the schema, every field, row and instance is well-formed:
\* data files and batches have rows, and the staging buffer and the rows of the
\* current batch stay below their limits.
THEOREM IcebergTableTypeOK == Spec => []TypeOK
<1>1. TableInv => TypeOK
  BY InvTypes
<1> QED BY <1>1, TableInvHolds, PTL

\* A scan returns what was inserted, in the columns of the names it was inserted
\* under, across any evolution of the schema, batches, rescans and restarts.
THEOREM ReadsBack == Spec => []ReadsBackAsInserted
<1>1. TableInv => ReadsBackAsInserted
  BY InvReads
<1> QED BY <1>1, TableInvHolds, PTL
===============================================================================
